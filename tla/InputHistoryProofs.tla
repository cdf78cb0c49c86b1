------------------------- MODULE InputHistoryProofs -------------------------
(***************************************************************************)
(* Proofs about InputHistory, for any sizes of the pools and any numbers   *)
(* of sessions, readers and messages.  What depends on the ids being those *)
(* of one session is proved for applications with one session ever.        *)
(***************************************************************************)
EXTENDS InputHistory, SequenceLemmas

(***************************************************************************)
(* The slots of one kind: w are allocated, f are free, d are their ids and *)
(* u their users.  No slot is on both walks or twice on one, and a slot    *)
(* that has a user is allocated and carries the id of that user.           *)
(***************************************************************************)
KindOk(kind, w, f, d, u) ==
  /\ w \in Seq(Slot(kind)) /\ f \in Seq(Slot(kind))
  /\ d \in [Slot(kind) -> 0..MaxCreated[kind]]
  /\ u \in [Slot(kind) -> Reader \cup {NoReader}]
  /\ Visits(w, ToSet(w)) /\ Visits(f, ToSet(f))
  /\ ToSet(w) \cap ToSet(f) = {}
  /\ \A e \in Slot(kind) :
       u[e] # NoReader =>
         e \in ToSet(w) /\ u[e].kind = kind /\ u[e].id = d[e]

SlotsOk ==
  \A kind \in Kind :
    KindOk(kind, items[kind], freeitems[kind], data_id[kind], user[kind])

(* The functions of kinds have that domain; the counters stay in bounds. *)
Domains ==
  /\ DOMAIN items = Kind /\ DOMAIN freeitems = Kind
  /\ DOMAIN data_id = Kind /\ DOMAIN user = Kind
  /\ created \in [Session -> [Kind -> Nat]]
  /\ \A session \in Session, kind \in Kind :
       created[session][kind] <= MaxCreated[kind]
  /\ served \subseteq Reader

(* The slot of the call under way is allocated and has no user. *)
CallOk ==
  /\ call \in Call
  /\ \A what \in {"create", "datareader"}, kind \in Kind, session \in Session :
       call = << what, kind, session >> =>
         /\ items[kind] # << >>
         /\ user[kind][Head(items[kind])] = NoReader
  /\ \A kind \in Kind, session \in Session :
       call = << "create", kind, session >> =>
         created[session][kind] < MaxCreated[kind]
  /\ \A session \in Session :
       call = << "datareader", "subscription", session >> =>
         /\ created[session]["subscription"] # 0
         /\ data_id["subscription"][Head(items["subscription"])]
              = created[session]["subscription"]
  /\ \A kind \in Kind : \A e \in Slot(kind) :
       call = << "destroy", kind, e >> => user[kind][e] = NoReader
  /\ \A e \in Slot("subscription"), left \in 1..MaxHistory :
       call = << "take", e, left >> => user["subscription"][e] # NoReader

(* Messages are numbered in the order in which they were sent. *)
MessagesOk ==
  /\ static_buffers \in Seq([owner : Owner, message : Message])
  /\ Len(static_buffers) <= MaxHistory
  /\ sent \in 0..MaxSent
  /\ taken \subseteq [by : Reader, message : Message]
  /\ DeliveredOnce
  /\ \A k \in DOMAIN static_buffers :
       /\ static_buffers[k].message.n <= sent
       /\ static_buffers[k].message.to.kind = static_buffers[k].owner[1]
  /\ \A t \in taken :
       /\ t.message.n <= sent
       /\ t.message.to.kind = t.by.kind

HistoryInv == Domains /\ SlotsOk /\ CallOk /\ MessagesOk

LEMMA InvTypes == HistoryInv => TypeOK
BY DEF HistoryInv, Domains, SlotsOk, KindOk, CallOk, MessagesOk, TypeOK

-----------------------------------------------------------------------------
(* The slots of one kind, operation by operation. *)
LEMMA VisitsToSet ==
  ASSUME NEW S, NEW w, Visits(w, S)
  PROVE  ToSet(w) = S /\ Visits(w, ToSet(w))
BY DEF Visits, ToSet

LEMMA ConsHead ==
  ASSUME NEW S, NEW w \in Seq(S), NEW x \in S
  PROVE  /\ << x >> \o w \in Seq(S)
         /\ << x >> \o w # << >>
         /\ Head(<< x >> \o w) = x
OBVIOUS

LEMMA KindTake ==
  ASSUME NEW kind \in Kind, NEW w, NEW f, NEW d, NEW u,
         KindOk(kind, w, f, d, u), f # << >>
  PROVE  /\ KindOk(kind, << Head(f) >> \o w, Tail(f), d, u)
         /\ Head(f) \in Slot(kind)
         /\ u[Head(f)] = NoReader
<1> DEFINE x == Head(f)
<1>1. /\ w \in Seq(Slot(kind)) /\ f \in Seq(Slot(kind))
      /\ Visits(w, ToSet(w)) /\ Visits(f, ToSet(f))
      /\ ToSet(w) \cap ToSet(f) = {}
  BY DEF KindOk
<1>2. x \in ToSet(f) /\ Visits(Tail(f), ToSet(f) \ {x})
  BY <1>1, VisitsTail
<1>3. x \in Slot(kind) /\ Tail(f) \in Seq(Slot(kind))
  BY <1>1
<1>4. x \notin ToSet(w)
  BY <1>1, <1>2
<1>5. u[x] = NoReader
  BY <1>3, <1>4 DEF KindOk
<1>6. Visits(<< x >> \o w, ToSet(w) \cup {x})
  BY <1>1, <1>4, VisitsCons
<1>7. << x >> \o w \in Seq(Slot(kind))
  BY <1>1, <1>3, ConsHead
<1> HIDE DEF x
<1>8. /\ ToSet(<< x >> \o w) = ToSet(w) \cup {x}
      /\ Visits(<< x >> \o w, ToSet(<< x >> \o w))
  BY <1>6, VisitsToSet
<1>9. /\ ToSet(Tail(f)) = ToSet(f) \ {x}
      /\ Visits(Tail(f), ToSet(Tail(f)))
  BY <1>2, VisitsToSet
<1>10. KindOk(kind, << x >> \o w, Tail(f), d, u)
  BY <1>1, <1>3, <1>7, <1>8, <1>9 DEF KindOk
<1> QED
  BY <1>3, <1>5, <1>10 DEF x

LEMMA KindPut ==
  ASSUME NEW kind \in Kind, NEW w, NEW f, NEW d, NEW u,
         KindOk(kind, w, f, d, u),
         NEW k \in DOMAIN w, u[w[k]] = NoReader
  PROVE  KindOk(kind, RemoveAt(w, k), << w[k] >> \o f, d, u)
<1> DEFINE x == w[k]
<1>1. /\ w \in Seq(Slot(kind)) /\ f \in Seq(Slot(kind))
      /\ Visits(w, ToSet(w)) /\ Visits(f, ToSet(f))
      /\ ToSet(w) \cap ToSet(f) = {}
  BY DEF KindOk
<1>2. Visits(RemoveAt(w, k), ToSet(w) \ {x})
  BY <1>1, VisitsRemoveAt
<1>3. x \in Slot(kind) /\ x \in ToSet(w) /\ x \notin ToSet(f)
  BY <1>1 DEF ToSet
<1>4. Visits(<< x >> \o f, ToSet(f) \cup {x})
  BY <1>1, <1>3, VisitsCons
<1>5. << x >> \o f \in Seq(Slot(kind)) /\ RemoveAt(w, k) \in Seq(Slot(kind))
  <2>1. k \in 1..Len(w)
    BY <1>1
  <2> QED
    BY <1>1, <1>3, <2>1, ConsHead, RemoveAtProperties
<1>6. u[x] = NoReader
  OBVIOUS
<1> HIDE DEF x
<1>7. /\ ToSet(<< x >> \o f) = ToSet(f) \cup {x}
      /\ Visits(<< x >> \o f, ToSet(<< x >> \o f))
  BY <1>4, VisitsToSet
<1>8. /\ ToSet(RemoveAt(w, k)) = ToSet(w) \ {x}
      /\ Visits(RemoveAt(w, k), ToSet(RemoveAt(w, k)))
  BY <1>2, VisitsToSet
<1>9. KindOk(kind, RemoveAt(w, k), << x >> \o f, d, u)
  BY <1>1, <1>3, <1>5, <1>6, <1>7, <1>8 DEF KindOk
<1> QED
  BY <1>9 DEF x

LEMMA KindNewId ==
  ASSUME NEW kind \in Kind, NEW w, NEW f, NEW d, NEW u,
         KindOk(kind, w, f, d, u), NEW e \in Slot(kind), u[e] = NoReader,
         NEW id \in 0..MaxCreated[kind]
  PROVE  KindOk(kind, w, f, [d EXCEPT ![e] = id], u)
BY DEF KindOk

LEMMA KindHold ==
  ASSUME NEW kind \in Kind, NEW w, NEW f, NEW d, NEW u,
         KindOk(kind, w, f, d, u), w # << >>,
         NEW r \in Reader, r.kind = kind, r.id = d[Head(w)]
  PROVE  KindOk(kind, w, f, d, [u EXCEPT ![Head(w)] = r])
<1>1. Head(w) \in Slot(kind) /\ Head(w) \in ToSet(w)
  <2>1. w \in Seq(Slot(kind)) /\ Visits(w, ToSet(w))
    BY DEF KindOk
  <2> QED
    BY <2>1, VisitsTail
<1> QED
  BY <1>1 DEF KindOk

LEMMA KindLeave ==
  ASSUME NEW kind \in Kind, NEW w, NEW f, NEW d, NEW u,
         KindOk(kind, w, f, d, u), NEW e \in Slot(kind)
  PROVE  KindOk(kind, w, f, d, [u EXCEPT ![e] = NoReader])
BY DEF KindOk

(* Nothing changes for the slots of the other kinds. *)
LEMMA OtherKinds ==
  ASSUME SlotsOk, NEW kind \in Kind,
         KindOk(kind, items'[kind], freeitems'[kind], data_id'[kind],
                user'[kind]),
         \A other \in Kind \ {kind} :
           /\ items'[other] = items[other]
           /\ freeitems'[other] = freeitems[other]
           /\ data_id'[other] = data_id[other]
           /\ user'[other] = user[other]
  PROVE  SlotsOk'
<1>1. ASSUME NEW other \in Kind
      PROVE  KindOk(other, items'[other], freeitems'[other],
                    data_id'[other], user'[other])
  BY DEF SlotsOk
<1> QED
  BY <1>1 DEF SlotsOk

LEMMA NewestSlot ==
  ASSUME NEW kind \in Kind, NEW w, NEW f, NEW d, NEW u,
         KindOk(kind, w, f, d, u), w # << >>
  PROVE  /\ 1 \in DOMAIN w /\ w[1] = Head(w) /\ Tail(w) = RemoveAt(w, 1)
         /\ Head(w) \in Slot(kind) /\ Head(w) \in ToSet(w)
<1>1. w \in Seq(Slot(kind)) /\ Visits(w, ToSet(w))
  BY DEF KindOk
<1> QED
  BY <1>1, TailRemoves, VisitsTail

-----------------------------------------------------------------------------
(* Each action preserves the invariant. *)
LEMMA InitHistoryInv == Init => HistoryInv
<1> SUFFICES ASSUME Init PROVE HistoryInv
  OBVIOUS
<1>1. \A kind \in Kind : MaxOf[kind] \in Nat /\ MaxCreated[kind] \in Nat
  BY HistoryAssumption
<1>2. Domains
  BY <1>1 DEF Init, Domains
<1>3. ASSUME NEW kind \in Kind
      PROVE  KindOk(kind, items[kind], freeitems[kind], data_id[kind],
                    user[kind])
  <2> DEFINE f == [k \in Slot(kind) |-> MaxOf[kind] + 1 - k]
  <2>1. /\ items[kind] = << >>
        /\ freeitems[kind] = f
        /\ data_id[kind] = [e \in Slot(kind) |-> 0]
        /\ user[kind] = [e \in Slot(kind) |-> NoReader]
    BY DEF Init
  <2>2. Visits(f, Slot(kind))
    BY <1>1, DescendingVisits DEF Slot
  <2>3. 0 \in 0..MaxCreated[kind]
    BY <1>1
  <2> HIDE DEF f
  <2>4. ToSet(f) = Slot(kind) /\ Visits(f, ToSet(f)) /\ f \in Seq(Slot(kind))
    BY <2>2, VisitsToSet DEF Visits
  <2>6. << >> \in Seq(Slot(kind)) /\ ToSet(<< >>) = {} /\ Visits(<< >>, {})
    BY DEF ToSet, Visits
  <2>7. Visits(<< >>, ToSet(<< >>)) /\ ToSet(<< >>) \cap ToSet(f) = {}
    BY <2>6, Zenon
  <2>8. /\ [e \in Slot(kind) |-> 0] \in [Slot(kind) -> 0..MaxCreated[kind]]
        /\ [e \in Slot(kind) |-> NoReader]
             \in [Slot(kind) -> Reader \cup {NoReader}]
        /\ \A e \in Slot(kind) :
             [i \in Slot(kind) |-> NoReader][e] = NoReader
    BY <2>3
  <2>9. KindOk(kind, << >>, f, [e \in Slot(kind) |-> 0],
               [e \in Slot(kind) |-> NoReader])
    BY <2>4, <2>6, <2>7, <2>8 DEF KindOk
  <2> QED
    BY <2>1, <2>9
<1>4. call = << >> /\ CallOk
  BY DEF Init, CallOk, Call
<1>5. MessagesOk
  BY HistoryAssumption DEF Init, MessagesOk, DeliveredOnce
<1> QED
  BY <1>2, <1>3, <1>4, <1>5 DEF HistoryInv, SlotsOk

LEMMA CreateBeginKeeps ==
  ASSUME HistoryInv, NEW kind \in Kind, NEW session \in Session,
         CreateBegin(kind, session)
  PROVE  HistoryInv'
<1> DEFINE x == Head(freeitems[kind])
<1>1. Domains /\ SlotsOk /\ CallOk /\ MessagesOk
  BY DEF HistoryInv
<1>2. /\ freeitems[kind] # << >>
      /\ items'[kind] = << x >> \o items[kind]
      /\ freeitems'[kind] = Tail(freeitems[kind])
      /\ \A other \in Kind \ {kind} :
           items'[other] = items[other] /\ freeitems'[other] = freeitems[other]
      /\ DOMAIN items' = Kind /\ DOMAIN freeitems' = Kind
      /\ call' = << "create", kind, session >>
      /\ UNCHANGED << data_id, user, created, agent, static_buffers, taken >>
  BY <1>1 DEF CreateBegin, Domains
<1>3. KindOk(kind, items[kind], freeitems[kind], data_id[kind], user[kind])
  BY <1>1 DEF SlotsOk
<1>4. /\ KindOk(kind, items'[kind], freeitems'[kind], data_id[kind],
                user[kind])
      /\ x \in Slot(kind) /\ user[kind][x] = NoReader
  <2>1. /\ KindOk(kind, << x >> \o items[kind], Tail(freeitems[kind]),
                  data_id[kind], user[kind])
        /\ x \in Slot(kind) /\ user[kind][x] = NoReader
    <3> DEFINE w == items[kind]      f == freeitems[kind]
               d == data_id[kind]    u == user[kind]
    <3>1. KindOk(kind, w, f, d, u) /\ f # << >>
      BY <1>2, <1>3
    <3> HIDE DEF w, f, d, u
    <3>2. /\ KindOk(kind, << Head(f) >> \o w, Tail(f), d, u)
          /\ Head(f) \in Slot(kind)
          /\ u[Head(f)] = NoReader
      BY <3>1, KindTake
    <3> QED
      BY <3>2 DEF w, f, d, u
  <2> QED
    BY <1>2, <2>1
<1>5. SlotsOk'
  BY <1>1, <1>2, <1>4, OtherKinds
<1>6. /\ items'[kind] # << >> /\ Head(items'[kind]) = x
      /\ created[session][kind] < MaxCreated[kind]
  BY <1>2, <1>3, <1>4, ConsHead DEF KindOk, CreateBegin
<1>7. CallOk'
  BY <1>1, <1>2, <1>4, <1>6 DEF CallOk, Call
<1>8. MessagesOk' /\ Domains'
  BY <1>1, <1>2 DEF MessagesOk, DeliveredOnce, Domains, agent
<1> QED
  BY <1>5, <1>7, <1>8 DEF HistoryInv

(* The step of a creation that gives its slot the next id. *)
LEMMA NewIdGives ==
  ASSUME HistoryInv, NEW kind \in Kind, NEW session \in Session,
         call = << "create", kind, session >>,
         NewId(kind, session), UNCHANGED << items, freeitems >>
  PROVE  LET e  == Head(items[kind])
             id == created[session][kind] + 1
         IN  /\ items[kind] # << >> /\ e \in Slot(kind)
             /\ user[kind][e] = NoReader
             /\ id \in 1..MaxCreated[kind]
             /\ data_id'[kind] = [data_id[kind] EXCEPT ![e] = id]
             /\ data_id'[kind][e] = id
             /\ created'[session][kind] = id
             /\ DOMAIN data_id' = Kind
             /\ created' \in [Session -> [Kind -> Nat]]
             /\ \A s \in Session, k \in Kind :
                  created'[s][k] <= MaxCreated[k]
             /\ \A other \in Kind \ {kind} : data_id'[other] = data_id[other]
             /\ KindOk(kind, items[kind], freeitems[kind], data_id'[kind],
                       user[kind])
<1> DEFINE e  == Head(items[kind])
           id == created[session][kind] + 1
<1>1. Domains /\ SlotsOk /\ CallOk
  BY DEF HistoryInv
<1>2. KindOk(kind, items[kind], freeitems[kind], data_id[kind], user[kind])
  BY <1>1 DEF SlotsOk
<1>3. /\ items[kind] # << >> /\ user[kind][e] = NoReader
      /\ created[session][kind] < MaxCreated[kind]
  BY <1>1 DEF CallOk
<1>4. e \in Slot(kind)
  BY <1>2, <1>3, NewestSlot
<1>5. /\ created \in [Session -> [Kind -> Nat]]
      /\ \A s \in Session, k \in Kind : created[s][k] <= MaxCreated[k]
      /\ created' = [created EXCEPT ![session][kind] = id]
      /\ data_id' = [data_id EXCEPT ![kind][e] = id]
      /\ DOMAIN data_id = Kind
      /\ MaxCreated[kind] \in Nat
  BY <1>1, HistoryAssumption DEF Domains, NewId
<1>6. id \in 1..MaxCreated[kind] /\ id \in 0..MaxCreated[kind]
  BY <1>3, <1>5
<1>7. /\ data_id'[kind] = [data_id[kind] EXCEPT ![e] = id]
      /\ DOMAIN data_id' = Kind
      /\ \A other \in Kind \ {kind} : data_id'[other] = data_id[other]
  BY <1>5
<1>8. data_id'[kind][e] = id
  BY <1>2, <1>4, <1>7 DEF KindOk
<1>9. /\ created' \in [Session -> [Kind -> Nat]]
      /\ created'[session][kind] = id
      /\ \A s \in Session, k \in Kind : created'[s][k] <= MaxCreated[k]
  BY <1>5, <1>6
<1>10. KindOk(kind, items[kind], freeitems[kind], data_id'[kind], user[kind])
  BY <1>2, <1>3, <1>4, <1>6, <1>7, KindNewId
<1> QED
  BY <1>3, <1>4, <1>6, <1>7, <1>8, <1>9, <1>10

LEMMA CreateDatareaderKeeps ==
  ASSUME HistoryInv, NEW session \in Session, CreateDatareader(session)
  PROVE  HistoryInv'
<1> DEFINE kind == "subscription"
           e  == Head(items[kind])
<1>1. Domains /\ SlotsOk /\ CallOk /\ MessagesOk /\ kind \in Kind
  BY DEF HistoryInv, Kind
<1>2. /\ call = << "create", kind, session >>
      /\ NewId(kind, session)
      /\ call' = << "datareader", kind, session >>
      /\ UNCHANGED << items, freeitems, user, agent, static_buffers, taken >>
  BY DEF CreateDatareader
<1> HIDE DEF kind
<1>3. /\ items[kind] # << >> /\ user[kind][e] = NoReader
      /\ data_id'[kind][e] = created[session][kind] + 1
      /\ created'[session][kind] = created[session][kind] + 1
      /\ created[session][kind] + 1 \in 1..MaxCreated[kind]
      /\ DOMAIN data_id' = Kind
      /\ created' \in [Session -> [Kind -> Nat]]
      /\ \A s \in Session, k \in Kind : created'[s][k] <= MaxCreated[k]
      /\ \A other \in Kind \ {kind} : data_id'[other] = data_id[other]
      /\ KindOk(kind, items[kind], freeitems[kind], data_id'[kind], user[kind])
  BY <1>1, <1>2, NewIdGives
<1>4. SlotsOk'
  BY <1>1, <1>2, <1>3, OtherKinds
<1>5. CallOk'
  BY <1>2, <1>3 DEF CallOk, Call, kind
<1>6. MessagesOk' /\ Domains'
  BY <1>1, <1>2, <1>3 DEF MessagesOk, DeliveredOnce, Domains, agent
<1> QED
  BY <1>4, <1>5, <1>6 DEF HistoryInv

LEMMA CreateFailKeeps ==
  ASSUME HistoryInv, NEW session \in Session, CreateFail(session)
  PROVE  HistoryInv'
<1> DEFINE kind == "subscription"
           e  == Head(items[kind])
<1>1. Domains /\ SlotsOk /\ CallOk /\ MessagesOk /\ kind \in Kind
  BY DEF HistoryInv, Kind
<1>2. /\ call \in {<< what, kind, session >> :
                    what \in {"create", "datareader"}}
      /\ items'[kind] = Tail(items[kind])
      /\ freeitems'[kind] = << e >> \o freeitems[kind]
      /\ \A other \in Kind \ {kind} :
           items'[other] = items[other] /\ freeitems'[other] = freeitems[other]
      /\ DOMAIN items' = Kind /\ DOMAIN freeitems' = Kind
      /\ call' = << >>
      /\ UNCHANGED << data_id, user, created, agent, static_buffers, taken >>
  BY <1>1 DEF CreateFail, Domains
<1>3. items[kind] # << >> /\ user[kind][e] = NoReader
  BY <1>1, <1>2 DEF CallOk
<1>4. KindOk(kind, Tail(items[kind]), << e >> \o freeitems[kind],
             data_id[kind], user[kind])
  <2> DEFINE w == items[kind]      f == freeitems[kind]
             d == data_id[kind]    u == user[kind]
  <2>1. KindOk(kind, w, f, d, u) /\ w # << >> /\ u[Head(w)] = NoReader
    BY <1>1, <1>3 DEF SlotsOk
  <2> HIDE DEF w, f, d, u, kind
  <2>2. 1 \in DOMAIN w /\ w[1] = Head(w) /\ Tail(w) = RemoveAt(w, 1)
    BY <1>1, <2>1, NewestSlot
  <2>3. KindOk(kind, RemoveAt(w, 1), << w[1] >> \o f, d, u)
    BY <1>1, <2>1, <2>2, KindPut
  <2> QED
    BY <2>2, <2>3 DEF w, f, d, u
<1>5. SlotsOk'
  BY <1>1, <1>2, <1>4, OtherKinds
<1>6. CallOk'
  BY <1>2 DEF CallOk, Call
<1>7. MessagesOk' /\ Domains'
  BY <1>1, <1>2 DEF MessagesOk, DeliveredOnce, Domains, agent
<1> QED
  BY <1>5, <1>6, <1>7 DEF HistoryInv

(* The end of a creation: the slot's user is the reader of that id. *)
LEMMA HoldKeeps ==
  ASSUME NEW kind \in Kind, NEW session \in Session,
         NEW id \in 1..MaxCreated[kind],
         SlotsOk, MessagesOk,
         items[kind] # << >>, Hold(kind, session, id), call' = << >>,
         UNCHANGED << items, freeitems, sent, static_buffers, taken >>,
         KindOk(kind, items[kind], freeitems[kind], data_id'[kind],
                user[kind]),
         data_id'[kind][Head(items[kind])] = id,
         \A other \in Kind \ {kind} : data_id'[other] = data_id[other],
         DOMAIN user = Kind
  PROVE  /\ SlotsOk' /\ CallOk' /\ MessagesOk'
         /\ DOMAIN user' = Kind
         /\ served \subseteq Reader => served' \subseteq Reader
<1> DEFINE r == [kind |-> kind, session |-> session, id |-> id]
           e == Head(items[kind])
<1>1. r \in Reader /\ r.kind = kind /\ r.id = id
  BY DEF Reader
<1>2. /\ user' = [user EXCEPT ![kind][e] = r]
      /\ served' = served \cup {r}
  BY DEF Hold
<1>3. /\ user'[kind] = [user[kind] EXCEPT ![e] = r]
      /\ \A other \in Kind \ {kind} : user'[other] = user[other]
      /\ DOMAIN user' = Kind
  BY <1>2
<1> HIDE DEF r
<1>4. KindOk(kind, items[kind], freeitems[kind], data_id'[kind], user'[kind])
  <2> DEFINE w == items[kind]      f == freeitems[kind]
             d == data_id'[kind]   u == user[kind]
  <2>1. KindOk(kind, w, f, d, u) /\ w # << >> /\ r.id = d[Head(w)]
    BY <1>1
  <2> HIDE DEF w, f, d, u
  <2>2. KindOk(kind, w, f, d, [u EXCEPT ![Head(w)] = r])
    BY <1>1, <2>1, KindHold
  <2> QED
    BY <1>3, <2>2 DEF w, f, d, u
<1>5. SlotsOk'
  BY <1>3, <1>4, OtherKinds
<1>6. CallOk'
  BY DEF CallOk, Call
<1>7. MessagesOk'
  BY DEF MessagesOk, DeliveredOnce
<1> QED
  BY <1>1, <1>2, <1>3, <1>5, <1>6, <1>7

LEMMA CreateDoneKeeps ==
  ASSUME HistoryInv, NEW session \in Session, CreateDone(session)
  PROVE  HistoryInv'
<1> DEFINE kind == "subscription"
           id == created[session][kind]
<1>1. Domains /\ SlotsOk /\ CallOk /\ MessagesOk /\ kind \in Kind
  BY DEF HistoryInv, Kind
<1>2. /\ call = << "datareader", kind, session >>
      /\ Hold(kind, session, id)
      /\ call' = << >>
      /\ UNCHANGED << items, freeitems, data_id, created, sent,
                      static_buffers, taken >>
  BY DEF CreateDone
<1>3. /\ items[kind] # << >>
      /\ data_id[kind][Head(items[kind])] = id /\ id # 0
  BY <1>1, <1>2 DEF CallOk
<1>4. id \in 1..MaxCreated[kind]
  BY <1>1, <1>3, HistoryAssumption DEF Domains
<1>5. KindOk(kind, items[kind], freeitems[kind], data_id'[kind], user[kind])
  BY <1>1, <1>2 DEF SlotsOk
<1>6. /\ SlotsOk' /\ CallOk' /\ MessagesOk'
      /\ DOMAIN user' = Kind
      /\ served' \subseteq Reader
  <2>1. DOMAIN user = Kind /\ served \subseteq Reader
    BY <1>1 DEF Domains
  <2> QED
    BY <1>1, <1>2, <1>3, <1>4, <1>5, <2>1, HoldKeeps
<1>7. Domains'
  BY <1>1, <1>2, <1>6 DEF Domains
<1> QED
  BY <1>6, <1>7 DEF HistoryInv

LEMMA CreateEndpointDoneKeeps ==
  ASSUME HistoryInv, NEW kind \in Kind, NEW session \in Session,
         CreateEndpointDone(kind, session)
  PROVE  HistoryInv'
<1> DEFINE id == created[session][kind] + 1
<1>1. Domains /\ SlotsOk /\ CallOk /\ MessagesOk
  BY DEF HistoryInv
<1>2. /\ call = << "create", kind, session >>
      /\ NewId(kind, session)
      /\ Hold(kind, session, id)
      /\ call' = << >>
      /\ UNCHANGED << items, freeitems, sent, static_buffers, taken >>
  BY DEF CreateEndpointDone
<1>3. /\ items[kind] # << >>
      /\ id \in 1..MaxCreated[kind]
      /\ data_id'[kind][Head(items[kind])] = id
      /\ DOMAIN data_id' = Kind
      /\ created' \in [Session -> [Kind -> Nat]]
      /\ \A s \in Session, k \in Kind : created'[s][k] <= MaxCreated[k]
      /\ \A other \in Kind \ {kind} : data_id'[other] = data_id[other]
      /\ KindOk(kind, items[kind], freeitems[kind], data_id'[kind], user[kind])
  BY <1>2, NewIdGives
<1>4. /\ SlotsOk' /\ CallOk' /\ MessagesOk'
      /\ DOMAIN user' = Kind
      /\ served' \subseteq Reader
  <2>1. DOMAIN user = Kind /\ served \subseteq Reader
    BY <1>1 DEF Domains
  <2> QED
    BY <1>1, <1>2, <1>3, <2>1, HoldKeeps
<1>5. Domains'
  BY <1>1, <1>2, <1>3, <1>4 DEF Domains
<1> QED
  BY <1>4, <1>5 DEF HistoryInv

LEMMA DestroyBeginKeeps ==
  ASSUME HistoryInv, NEW kind \in Kind, NEW e \in Slot(kind),
         DestroyBegin(kind, e)
  PROVE  HistoryInv'
<1>1. Domains /\ SlotsOk /\ CallOk /\ MessagesOk
  BY DEF HistoryInv
<1>2. /\ user'[kind] = [user[kind] EXCEPT ![e] = NoReader]
      /\ \A other \in Kind \ {kind} : user'[other] = user[other]
      /\ DOMAIN user' = Kind
      /\ call' = << "destroy", kind, e >>
      /\ UNCHANGED << items, freeitems, data_id, created, agent,
                      static_buffers, taken >>
  BY <1>1 DEF DestroyBegin, Domains
<1>3. KindOk(kind, items[kind], freeitems[kind], data_id[kind], user[kind])
  BY <1>1 DEF SlotsOk
<1>4. KindOk(kind, items[kind], freeitems[kind], data_id[kind], user'[kind])
  <2> DEFINE w == items[kind]      f == freeitems[kind]
             d == data_id[kind]    u == user[kind]
  <2>1. KindOk(kind, w, f, d, u)
    BY <1>3
  <2> HIDE DEF w, f, d, u
  <2>2. KindOk(kind, w, f, d, [u EXCEPT ![e] = NoReader])
    BY <2>1, KindLeave
  <2> QED
    BY <1>2, <2>2 DEF w, f, d, u
<1>5. SlotsOk'
  BY <1>1, <1>2, <1>4, OtherKinds
<1>6. user'[kind][e] = NoReader
  BY <1>2, <1>3 DEF KindOk
<1>7. CallOk'
  <2>1. << "destroy", kind, e >>
          \in {<< "destroy", o[1], o[2] >> : o \in Owner}
    <3>1. << kind, e >> \in Owner
      BY DEF Owner
    <3> QED
      BY <3>1
  <2> QED
    BY <1>2, <1>6, <2>1 DEF CallOk, Call
<1>8. MessagesOk' /\ Domains'
  BY <1>1, <1>2 DEF MessagesOk, DeliveredOnce, Domains, agent
<1> QED
  BY <1>5, <1>7, <1>8 DEF HistoryInv

LEMMA DestroyEndKeeps ==
  ASSUME HistoryInv, NEW kind \in Kind, NEW e \in Slot(kind),
         DestroyEnd(kind, e)
  PROVE  HistoryInv'
<1>1. Domains /\ SlotsOk /\ CallOk /\ MessagesOk
  BY DEF HistoryInv
<1>2. PICK k \in DOMAIN items[kind] :
        /\ items[kind][k] = e
        /\ items' = [items EXCEPT ![kind] = RemoveAt(@, k)]
  BY DEF DestroyEnd
<1>3. /\ items'[kind] = RemoveAt(items[kind], k)
      /\ freeitems'[kind] = << e >> \o freeitems[kind]
      /\ \A other \in Kind \ {kind} :
           items'[other] = items[other] /\ freeitems'[other] = freeitems[other]
      /\ DOMAIN items' = Kind /\ DOMAIN freeitems' = Kind
      /\ call = << "destroy", kind, e >>
      /\ call' = << >>
      /\ UNCHANGED << data_id, user, created, agent, static_buffers, taken >>
  BY <1>1, <1>2 DEF DestroyEnd, Domains
<1>4. user[kind][e] = NoReader
  BY <1>1, <1>3 DEF CallOk
<1>5. KindOk(kind, RemoveAt(items[kind], k), << e >> \o freeitems[kind],
             data_id[kind], user[kind])
  <2> DEFINE w == items[kind]      f == freeitems[kind]
             d == data_id[kind]    u == user[kind]
  <2>1. /\ KindOk(kind, w, f, d, u)
        /\ k \in DOMAIN w /\ w[k] = e /\ u[w[k]] = NoReader
    BY <1>1, <1>2, <1>4 DEF SlotsOk
  <2> HIDE DEF w, f, d, u
  <2>2. KindOk(kind, RemoveAt(w, k), << w[k] >> \o f, d, u)
    BY <2>1, KindPut
  <2> QED
    BY <2>1, <2>2 DEF w, f, d, u
<1>6. SlotsOk'
  BY <1>1, <1>3, <1>5, OtherKinds
<1>7. CallOk'
  BY <1>3 DEF CallOk, Call
<1>8. MessagesOk' /\ Domains'
  BY <1>1, <1>3 DEF MessagesOk, DeliveredOnce, Domains, agent
<1> QED
  BY <1>6, <1>7, <1>8 DEF HistoryInv

LEMMA AgentStopsKeeps ==
  ASSUME HistoryInv, NEW r, AgentStops(r)
  PROVE  HistoryInv'
BY DEF HistoryInv, AgentStops, pools, Domains, SlotsOk, CallOk, MessagesOk,
       DeliveredOnce

(* What buffered and taken messages are. *)
LEMMA MessageTypes ==
  ASSUME MessagesOk
  PROVE  /\ \A k \in DOMAIN static_buffers :
              /\ static_buffers[k].message \in Message
              /\ static_buffers[k].message.n \in Nat
         /\ \A t \in taken : t.message \in Message /\ t.message.n \in Nat
<1>1. \A m \in Message : m.n \in Nat
  BY HistoryAssumption DEF Message
<1>2. ASSUME NEW k \in DOMAIN static_buffers
      PROVE  static_buffers[k].message \in Message
  <2> DEFINE B == [owner : Owner, message : Message]
  <2>1. static_buffers \in Seq(B)
    BY DEF MessagesOk
  <2> HIDE DEF B
  <2>2. static_buffers[k] \in B
    BY <2>1
  <2> QED
    BY <2>2 DEF B
<1>3. ASSUME NEW t \in taken PROVE t.message \in Message
  <2>1. t \in [by : Reader, message : Message]
    BY DEF MessagesOk
  <2> QED
    BY <2>1
<1> QED
  BY <1>1, <1>2, <1>3

(* What the callbacks do with a message for r. *)
LEMMA BufferDataCases ==
  ASSUME HistoryInv, NEW r \in Reader, NEW message
  PROVE  \/ BufferData(r.kind, r.id, message) = static_buffers
         \/ \E e \in Slot(r.kind) :
              /\ data_id[r.kind][e] = r.id
              /\ Len(static_buffers) < MaxHistory
              /\ BufferData(r.kind, r.id, message)
                   = << [owner |-> << r.kind, e >>, message |-> message] >>
                       \o static_buffers
<1> DEFINE M == Matching(r.kind, r.id)
           k == Min(M)
<1>1. CASE M # {} /\ Len(static_buffers) < MaxHistory
  <2>1. r.kind \in Kind
    BY DEF Reader
  <2>2. items[r.kind] \in Seq(Slot(r.kind))
    BY <2>1 DEF HistoryInv, SlotsOk, KindOk
  <2>3. M \in SUBSET Nat
    BY <2>2 DEF Matching
  <2>4. k \in M
    <3> HIDE DEF M
    <3> QED
      BY <1>1, <2>3, MinProperties
  <2>5. k \in DOMAIN items[r.kind] /\ data_id[r.kind][items[r.kind][k]] = r.id
    BY <2>4 DEF Matching
  <2>6. items[r.kind][k] \in Slot(r.kind)
    BY <2>2, <2>5
  <2>7. BufferData(r.kind, r.id, message)
          = << [owner |-> << r.kind, items[r.kind][k] >>,
                message |-> message] >> \o static_buffers
    BY <1>1 DEF BufferData
  <2> HIDE DEF k
  <2> QED
    BY <1>1, <2>5, <2>6, <2>7
<1>2. CASE ~ (M # {} /\ Len(static_buffers) < MaxHistory)
  BY <1>2 DEF BufferData
<1> QED
  BY <1>1, <1>2

(* A message that is not in the buffers yet joins them in front. *)
LEMMA MessageJoins ==
  ASSUME HistoryInv, NEW r \in Reader, NEW e \in Slot(r.kind),
         Len(static_buffers) < MaxHistory, sent < MaxSent,
         sent' = sent + 1, taken' = taken,
         static_buffers'
           = << [owner   |-> << r.kind, e >>,
                 message |-> [to |-> r, n |-> sent + 1]] >> \o static_buffers
  PROVE  MessagesOk'
<1> DEFINE B == [owner : Owner, message : Message]
           b == [owner   |-> << r.kind, e >>,
                 message |-> [to |-> r, n |-> sent + 1]]
<1>1. MessagesOk /\ static_buffers \in Seq(B) /\ sent \in Nat
      /\ sent + 1 \in 1..MaxSent /\ MaxHistory \in Nat
  BY HistoryAssumption DEF HistoryInv, MessagesOk
<1>2. b \in B
  <2>1. << r.kind, e >> \in Owner
    BY DEF Owner, Reader
  <2>2. [to |-> r, n |-> sent + 1] \in Message
    BY <1>1 DEF Message
  <2> QED
    BY <2>1, <2>2
<1>3. /\ b.message.n = sent + 1
      /\ b.message.to.kind = b.owner[1]
  OBVIOUS
<1> HIDE DEF B, b
<1>4. /\ static_buffers' \in Seq(B)
      /\ Len(static_buffers') = Len(static_buffers) + 1
      /\ static_buffers'[1] = b
      /\ \A j \in 1..Len(static_buffers') :
           j # 1 => /\ j - 1 \in 1..Len(static_buffers)
                    /\ static_buffers'[j] = static_buffers[j - 1]
  <2> DEFINE w == static_buffers
             v == << b >> \o w
  <2>1. static_buffers' = v
    BY DEF b
  <2>2. w \in Seq(B)
    BY <1>1
  <2> HIDE DEF w
  <2>3. /\ v \in Seq(B) /\ Len(v) = Len(w) + 1 /\ v[1] = b
        /\ \A j \in 1..Len(v) :
             j # 1 => j - 1 \in 1..Len(w) /\ v[j] = w[j - 1]
    BY <1>2, <2>2, ConsProperties
  <2> HIDE DEF v
  <2> QED
    BY <2>1, <2>3 DEF w
<1>5. /\ DOMAIN static_buffers' = 1..Len(static_buffers')
      /\ DOMAIN static_buffers = 1..Len(static_buffers)
      /\ Len(static_buffers) \in Nat
  BY <1>1, <1>4
<1>6. \A j \in DOMAIN static_buffers' :
        \/ j = 1 /\ static_buffers'[j] = b
        \/ \E i \in DOMAIN static_buffers :
             i = j - 1 /\ static_buffers'[j] = static_buffers[i]
  BY <1>4, <1>5
<1>7. DeliveredOnce'
  <2>1. ASSUME NEW j \in DOMAIN static_buffers',
               NEW k \in DOMAIN static_buffers',
               static_buffers'[j].message = static_buffers'[k].message
        PROVE  j = k
    BY <1>1, <1>3, <1>5, <1>6, <2>1 DEF MessagesOk, DeliveredOnce
  <2>2. \A t \in taken', k \in DOMAIN static_buffers' :
          static_buffers'[k].message # t.message
    BY <1>1, <1>3, <1>6 DEF MessagesOk, DeliveredOnce, Message
  <2> QED
    BY <1>1, <2>1, <2>2 DEF MessagesOk, DeliveredOnce
<1>8. \A k \in DOMAIN static_buffers' :
        /\ static_buffers'[k].message.n <= sent'
        /\ static_buffers'[k].message.to.kind = static_buffers'[k].owner[1]
  <2>1. \A i \in DOMAIN static_buffers :
          static_buffers[i].message.n \in Nat
    BY <1>1, MessageTypes
  <2> QED
    BY <1>1, <1>3, <1>6, <2>1 DEF MessagesOk
<1>9. \A t \in taken' : t.message.n <= sent' /\ t.message.to.kind = t.by.kind
  <2>1. \A t \in taken : t.message.n \in Nat
    BY <1>1, MessageTypes
  <2> QED
    BY <1>1, <2>1 DEF MessagesOk
<1>10. Len(static_buffers') <= MaxHistory /\ sent' \in 0..MaxSent
  BY <1>1, <1>4, <1>5
<1>11. static_buffers' \in Seq([owner : Owner, message : Message])
  BY <1>4 DEF B
<1>12. taken' \subseteq [by : Reader, message : Message]
  BY <1>1 DEF MessagesOk
<1> QED
  BY <1>7, <1>8, <1>9, <1>10, <1>11, <1>12 DEF MessagesOk

LEMMA OnDataKeeps ==
  ASSUME HistoryInv, NEW r \in served, OnData(r)
  PROVE  HistoryInv'
<1>1. r \in Reader /\ r.kind \in Kind
  BY DEF HistoryInv, Domains, Reader
<1>2. /\ sent < MaxSent /\ sent' = sent + 1
      /\ UNCHANGED << pools, served, taken >>
  BY DEF OnData
<1>3. Domains' /\ SlotsOk' /\ CallOk'
  BY <1>2 DEF HistoryInv, pools, Domains, SlotsOk, CallOk
<1>4. CASE static_buffers' = static_buffers
  <2>1. sent' \in 0..MaxSent /\ sent \in Nat
    BY <1>2, HistoryAssumption DEF HistoryInv, MessagesOk
  <2>2. /\ \A k \in DOMAIN static_buffers : static_buffers[k].message.n \in Nat
        /\ \A t \in taken : t.message.n \in Nat
    BY MessageTypes DEF HistoryInv
  <2>3. MessagesOk'
    BY <1>2, <1>4, <2>1, <2>2 DEF HistoryInv, MessagesOk, DeliveredOnce
  <2> QED
    BY <1>3, <2>3 DEF HistoryInv
<1>5. CASE static_buffers' # static_buffers
  <2>1. static_buffers' = BufferData(r.kind, r.id, [to |-> r, n |-> sent + 1])
    BY <1>5 DEF OnData
  <2>2. PICK e \in Slot(r.kind) :
          /\ Len(static_buffers) < MaxHistory
          /\ static_buffers'
               = << [owner   |-> << r.kind, e >>,
                     message |-> [to |-> r, n |-> sent + 1]] >>
                   \o static_buffers
    BY <1>1, <1>5, <2>1, BufferDataCases
  <2>3. MessagesOk'
    BY <1>1, <1>2, <2>2, MessageJoins
  <2> QED
    BY <1>3, <2>3 DEF HistoryInv
<1> QED
  BY <1>4, <1>5

(* A take finds a buffer of its owner and puts it. *)
LEMMA TakeFirstPuts ==
  ASSUME MessagesOk, NEW kind, NEW e, NEW deserialized \in BOOLEAN,
         TakeFirst(kind, e, deserialized)
  PROVE  \E k \in 1..Len(static_buffers) :
           /\ static_buffers[k].owner = << kind, e >>
           /\ \A j \in DOMAIN static_buffers :
                static_buffers[j].owner = << kind, e >> => k <= j
           /\ static_buffers' = RemoveAt(static_buffers, k)
           /\ taken' = IF deserialized
                       THEN taken \cup
                              {[by      |-> user[kind][e],
                                message |-> static_buffers[k].message]}
                       ELSE taken
<1> DEFINE own == OwnedBy(static_buffers, << kind, e >>)
           k   == Min(own)
<1>1. static_buffers \in Seq([owner : Owner, message : Message])
  BY DEF MessagesOk
<1>2. own \in SUBSET Nat /\ own # {} /\ own \subseteq 1..Len(static_buffers)
  BY <1>1 DEF OwnedBy, TakeFirst
<1>3. k \in own /\ \A j \in own : k <= j
  <2> HIDE DEF own
  <2> QED
    BY <1>2, MinProperties
<1>4. /\ static_buffers[k].owner = << kind, e >>
      /\ \A j \in DOMAIN static_buffers :
           static_buffers[j].owner = << kind, e >> => k <= j
  BY <1>3 DEF OwnedBy
<1>5. /\ static_buffers' = RemoveAt(static_buffers, k)
      /\ taken' = IF deserialized
                  THEN taken \cup {[by      |-> user[kind][e],
                                    message |-> static_buffers[k].message]}
                  ELSE taken
  BY DEF TakeFirst, PutBuffer
<1> HIDE DEF k
<1> QED
  BY <1>2, <1>3, <1>4, <1>5

LEMMA TakeFirstKeeps ==
  ASSUME MessagesOk, NEW kind, NEW e, NEW deserialized \in BOOLEAN,
         TakeFirst(kind, e, deserialized), sent' = sent,
         user[kind][e] \in Reader, user[kind][e].kind = kind
  PROVE  MessagesOk'
<1> DEFINE B == [owner : Owner, message : Message]
           w == static_buffers
<1>1. w \in Seq(B) /\ Len(w) \in Nat /\ DOMAIN w = 1..Len(w)
  BY DEF MessagesOk
<1>2. PICK k \in 1..Len(static_buffers) :
        /\ static_buffers[k].owner = << kind, e >>
        /\ \A j \in DOMAIN static_buffers :
             static_buffers[j].owner = << kind, e >> => k <= j
        /\ static_buffers' = RemoveAt(static_buffers, k)
        /\ taken' = IF deserialized
                    THEN taken \cup {[by      |-> user[kind][e],
                                      message |-> static_buffers[k].message]}
                    ELSE taken
  BY TakeFirstPuts, Zenon
<1>3. /\ static_buffers' \in Seq(B) /\ Len(static_buffers') = Len(w) - 1
      /\ \A j \in 1..(Len(w) - 1) :
           static_buffers'[j] = IF j < k THEN w[j] ELSE w[j + 1]
  <2>1. w \in Seq(B) /\ k \in 1..Len(w) /\ static_buffers' = RemoveAt(w, k)
    BY <1>1, <1>2
  <2> HIDE DEF B, w
  <2> QED
    BY <2>1, RemoveAtProperties
<1>4. /\ DOMAIN static_buffers' = 1..(Len(w) - 1)
      /\ \A j \in DOMAIN static_buffers' :
           /\ (IF j < k THEN j ELSE j + 1) \in DOMAIN w \ {k}
           /\ static_buffers'[j] = w[IF j < k THEN j ELSE j + 1]
  BY <1>1, <1>3
<1>5. /\ \A t, u \in taken : t.message = u.message => t = u
      /\ \A t \in taken, j \in DOMAIN w : w[j].message # t.message
      /\ \A i, j \in DOMAIN w : w[i].message = w[j].message => i = j
      /\ k \in DOMAIN w
  BY <1>1 DEF MessagesOk, DeliveredOnce
<1>6. w[k].message \in Message
  BY <1>1, MessageTypes
<1>7. \A t \in taken' :
        t \in taken \/ t = [by |-> user[kind][e], message |-> w[k].message]
  BY <1>2
<1>8. DeliveredOnce'
  <2>1. ASSUME NEW i \in DOMAIN static_buffers',
               NEW j \in DOMAIN static_buffers',
               static_buffers'[i].message = static_buffers'[j].message
        PROVE  i = j
    BY <1>1, <1>4, <1>5, <2>1
  <2>2. ASSUME NEW t \in taken', NEW u \in taken', t.message = u.message
        PROVE  t = u
    BY <1>5, <1>7, <2>2
  <2>3. ASSUME NEW t \in taken', NEW j \in DOMAIN static_buffers'
        PROVE  static_buffers'[j].message # t.message
    BY <1>4, <1>5, <1>7
  <2> QED
    BY <2>1, <2>2, <2>3 DEF DeliveredOnce
<1>9. \A j \in DOMAIN static_buffers' :
        /\ static_buffers'[j].message.n <= sent'
        /\ static_buffers'[j].message.to.kind = static_buffers'[j].owner[1]
  BY <1>4 DEF MessagesOk
<1>10. /\ w[k].message.n <= sent
       /\ w[k].message.to.kind = kind
  BY <1>2, <1>5 DEF MessagesOk
<1>11. ASSUME NEW t \in taken'
       PROVE  /\ t \in [by : Reader, message : Message]
              /\ t.message.n <= sent' /\ t.message.to.kind = t.by.kind
  BY <1>6, <1>7, <1>10 DEF MessagesOk
<1>12. Len(static_buffers') <= MaxHistory /\ sent' \in 0..MaxSent
  BY <1>1, <1>3, HistoryAssumption DEF MessagesOk
<1> QED
  BY <1>3, <1>8, <1>9, <1>11, <1>12 DEF MessagesOk

(* The user of a slot. *)
LEMMA UserIs ==
  ASSUME SlotsOk, NEW kind \in Kind, NEW e \in Slot(kind),
         user[kind][e] # NoReader
  PROVE  /\ user[kind][e] \in Reader /\ user[kind][e].kind = kind
         /\ user[kind][e].id = data_id[kind][e]
         /\ e \in ToSet(items[kind])
<1>1. KindOk(kind, items[kind], freeitems[kind], data_id[kind], user[kind])
  BY DEF SlotsOk
<1> QED
  BY <1>1 DEF KindOk

LEMMA TakeKeeps ==
  ASSUME HistoryInv, NEW kind \in Kind, NEW e \in Slot(kind),
         NEW count \in 1..MaxHistory, Take(kind, e, count)
  PROVE  HistoryInv'
<1>1. Domains /\ SlotsOk /\ CallOk /\ MessagesOk
  BY DEF HistoryInv
<1>2. /\ user[kind][e] # NoReader
      /\ count > 1 => kind = "subscription"
      /\ UNCHANGED << items, freeitems, data_id, user, created, agent >>
  BY DEF Take
<1>3. PICK deserialized \in BOOLEAN :
        /\ TakeFirst(kind, e, deserialized)
        /\ call' = IF deserialized /\ count > 1
                   THEN << "take", e, count - 1 >> ELSE << >>
  BY DEF Take
<1>4. user[kind][e] \in Reader /\ user[kind][e].kind = kind
  BY <1>1, <1>2, UserIs
<1>5. MessagesOk'
  BY <1>1, <1>2, <1>3, <1>4, TakeFirstKeeps DEF agent
<1>6. Domains' /\ SlotsOk'
  BY <1>1, <1>2 DEF Domains, SlotsOk, agent
<1>7. CASE call' = << >>
  <2>1. CallOk'
    BY <1>7 DEF CallOk, Call
  <2> QED
    BY <1>5, <1>6, <2>1 DEF HistoryInv
<1>8. CASE count > 1 /\ call' = << "take", e, count - 1 >>
  <2>1. count - 1 \in 1..MaxHistory /\ kind = "subscription"
    BY <1>2, <1>8, HistoryAssumption
  <2>2. call' \in Call
    BY <1>8, <2>1 DEF Call
  <2>3. CallOk'
    BY <1>2, <1>8, <2>1, <2>2 DEF CallOk
  <2> QED
    BY <1>5, <1>6, <2>3 DEF HistoryInv
<1> QED
  BY <1>3, <1>7, <1>8

LEMMA TakeNextKeeps ==
  ASSUME HistoryInv, NEW e \in Slot("subscription"),
         NEW left \in 1..MaxHistory, TakeNext(e, left)
  PROVE  HistoryInv'
<1>1. Domains /\ SlotsOk /\ CallOk /\ MessagesOk
  BY DEF HistoryInv
<1>2. /\ call = << "take", e, left >>
      /\ UNCHANGED << items, freeitems, data_id, user, created, agent >>
  BY DEF TakeNext
<1>3. "subscription" \in Kind /\ user["subscription"][e] # NoReader
  BY <1>1, <1>2 DEF CallOk, Kind
<1>4. /\ user["subscription"][e] \in Reader
      /\ user["subscription"][e].kind = "subscription"
  BY <1>1, <1>3, UserIs
<1>5. \/ call' = << >>
      \/ left > 1 /\ call' = << "take", e, left - 1 >>
  BY DEF TakeNext
<1>6. MessagesOk'
  <2>1. CASE \E deserialized \in BOOLEAN :
               TakeFirst("subscription", e, deserialized)
    BY <1>1, <1>2, <1>4, <2>1, TakeFirstKeeps DEF agent
  <2>2. CASE UNCHANGED << static_buffers, taken >>
    BY <1>1, <1>2, <2>2 DEF MessagesOk, DeliveredOnce, agent
  <2> QED
    BY <2>1, <2>2 DEF TakeNext
<1>7. CallOk'
  <2>1. CASE call' = << >>
    BY <2>1 DEF CallOk, Call
  <2>2. CASE left > 1 /\ call' = << "take", e, left - 1 >>
    <3>1. left - 1 \in 1..MaxHistory
      BY <2>2, HistoryAssumption
    <3>2. call' \in Call
      BY <2>2, <3>1 DEF Call
    <3> QED
      BY <1>2, <1>3, <2>2, <3>1, <3>2 DEF CallOk
  <2> QED
    BY <1>5, <2>1, <2>2
<1>8. Domains' /\ SlotsOk'
  BY <1>1, <1>2 DEF Domains, SlotsOk, agent
<1> QED
  BY <1>6, <1>7, <1>8 DEF HistoryInv

LEMMA NextHistoryInv == HistoryInv /\ [Next]_vars => HistoryInv'
<1> SUFFICES ASSUME HistoryInv, [Next]_vars PROVE HistoryInv'
  OBVIOUS
<1>1. ASSUME NEW kind \in Kind, NEW session \in Session,
             CreateBegin(kind, session)
      PROVE  HistoryInv'
  BY <1>1, CreateBeginKeeps
<1>2. ASSUME NEW session \in Session, CreateDatareader(session)
      PROVE  HistoryInv'
  BY <1>2, CreateDatareaderKeeps
<1>3. ASSUME NEW session \in Session, CreateFail(session)
      PROVE  HistoryInv'
  BY <1>3, CreateFailKeeps
<1>4. ASSUME NEW session \in Session, CreateDone(session)
      PROVE  HistoryInv'
  BY <1>4, CreateDoneKeeps
<1>5. ASSUME NEW kind \in Kind, NEW session \in Session,
             CreateEndpointDone(kind, session)
      PROVE  HistoryInv'
  BY <1>5, CreateEndpointDoneKeeps
<1>6. ASSUME NEW kind \in Kind, NEW e \in Slot(kind), DestroyBegin(kind, e)
      PROVE  HistoryInv'
  BY <1>6, DestroyBeginKeeps
<1>7. ASSUME NEW kind \in Kind, NEW e \in Slot(kind), DestroyEnd(kind, e)
      PROVE  HistoryInv'
  BY <1>7, DestroyEndKeeps
<1>8. ASSUME NEW r \in served, AgentStops(r) PROVE HistoryInv'
  BY <1>8, AgentStopsKeeps
<1>9. ASSUME NEW r \in served, OnData(r) PROVE HistoryInv'
  BY <1>9, OnDataKeeps
<1>10. ASSUME NEW kind \in Kind, NEW e \in Slot(kind),
              NEW count \in 1..MaxHistory, Take(kind, e, count)
       PROVE  HistoryInv'
  BY <1>10, TakeKeeps
<1>11. ASSUME NEW e \in Slot("subscription"), NEW left \in 1..MaxHistory,
              TakeNext(e, left)
       PROVE  HistoryInv'
  BY <1>11, TakeNextKeeps
<1>12. CASE UNCHANGED vars
  BY <1>12 DEF vars, pools, agent, HistoryInv, Domains, SlotsOk, CallOk,
               MessagesOk, DeliveredOnce
<1> QED
  BY <1>1, <1>2, <1>3, <1>4, <1>5, <1>6, <1>7, <1>8, <1>9, <1>10, <1>11,
     <1>12 DEF Next

(***************************************************************************)
(* In every reachable state the slots of each kind are on one of two walks *)
(* each, the call under way has the slot it works on, and messages are     *)
(* delivered once.                                                         *)
(***************************************************************************)
THEOREM HistoryInvariant == Spec => []HistoryInv
<1> QED
  BY InitHistoryInv, NextHistoryInv, PTL DEF Spec

(***************************************************************************)
(* The variables have their types, and no more buffers are in use than     *)
(* RMW_UXRCE_MAX_HISTORY allocates.                                        *)
(***************************************************************************)
THEOREM HistoryTyping == Spec => []TypeOK
<1> QED
  BY HistoryInvariant, InvTypes, PTL

(***************************************************************************)
(* A message is in one buffer or taken by one reader (rmw_take.c,          *)
(* rmw_request.c and rmw_response.c put the buffer they read, and no       *)
(* other), for any sizes and any number of sessions.                       *)
(***************************************************************************)
THEOREM Delivery == Spec => []DeliveredOnce
<1>1. HistoryInv => DeliveredOnce
  BY DEF HistoryInv, MessagesOk
<1> QED
  BY <1>1, HistoryInvariant, PTL

-----------------------------------------------------------------------------
(***************************************************************************)
(* Applications with one session ever: an id of a kind is then given once. *)
(* A session that is finished and followed by another counts as two, as    *)
(* the ids start again.                                                    *)
(***************************************************************************)
OneSession == \A s, t \in Session : s = t

(* No two slots of a kind have the same id, and the counter is ahead. *)
IdsUnique ==
  \A kind \in Kind :
    /\ \A e \in Slot(kind), session \in Session :
         data_id[kind][e] <= created[session][kind]
    /\ \A e, f \in Slot(kind) :
         data_id[kind][e] # 0 /\ data_id[kind][e] = data_id[kind][f] => e = f

(* The id of r was given, and not to the creation under way. *)
Issued(r) ==
  /\ r.id <= created[r.session][r.kind]
  /\ call = << "datareader", r.kind, r.session >> =>
       r.id # created[r.session][r.kind]

(* What the agent sends, or has sent, is for readers of the past. *)
AllIssued ==
  /\ \A r \in served : Issued(r)
  /\ \A k \in DOMAIN static_buffers : Issued(static_buffers[k].message.to)

(* The ids of a slot only grow. *)
BuffersOfSlot ==
  \A k \in DOMAIN static_buffers :
    static_buffers[k].message.to.id
      <= data_id[static_buffers[k].owner[1]][static_buffers[k].owner[2]]

SessionInv ==
  IdsUnique /\ AllIssued /\ BuffersOfSlot /\ AddresseeOwns /\ NotFromSuccessor

LEMMA InitSessionInv == Init => SessionInv
<1> SUFFICES ASSUME Init PROVE SessionInv
  OBVIOUS
<1>1. \A kind \in Kind :
        /\ \A e \in Slot(kind) : data_id[kind][e] = 0
        /\ \A session \in Session : created[session][kind] = 0
  BY DEF Init
<1> QED
  BY <1>1 DEF Init, SessionInv, IdsUnique, AllIssued, BuffersOfSlot,
              AddresseeOwns, NotFromSuccessor

LEMMA ReaderTypes ==
  ASSUME NEW r \in Reader
  PROVE  /\ r.kind \in Kind /\ r.session \in Session
         /\ r.id \in 1..MaxCreated[r.kind] /\ r.id \in Nat \ {0}
         /\ r # NoReader
<1>1. PICK kind \in Kind :
        r \in [kind : {kind}, session : Session, id : 1..MaxCreated[kind]]
  BY DEF Reader
<1>2. /\ r.kind = kind /\ r.session \in Session
      /\ r.id \in 1..MaxCreated[kind]
  BY <1>1
<1>3. r.id \in Nat \ {0}
  BY <1>2, HistoryAssumption
<1>4. NoReader.kind \notin Kind
  BY DEF NoReader, Kind
<1> QED
  BY <1>2, <1>3, <1>4

(* A buffer's owner and addressee. *)
LEMMA BufferTypes ==
  ASSUME MessagesOk, NEW k \in DOMAIN static_buffers
  PROVE  /\ static_buffers[k].message.to \in Reader
         /\ static_buffers[k].owner[1] \in Kind
         /\ static_buffers[k].owner[2] \in Slot(static_buffers[k].owner[1])
         /\ static_buffers[k].message.to.kind = static_buffers[k].owner[1]
<1> DEFINE B == [owner : Owner, message : Message]
<1>1. static_buffers \in Seq(B)
  BY DEF MessagesOk
<1>2. static_buffers[k] \in B
  <2> HIDE DEF B
  <2> QED
    BY <1>1
<1>3. /\ static_buffers[k].message.to \in Reader
      /\ static_buffers[k].owner \in Owner
  BY <1>2 DEF Message
<1>4. \A o \in Owner : o[1] \in Kind /\ o[2] \in Slot(o[1])
  BY DEF Owner
<1> QED
  BY <1>3, <1>4 DEF MessagesOk

(* The slot of a reader that lives is the only one with its id. *)
LEMMA OnlySlot ==
  ASSUME SlotsOk, IdsUnique, NEW kind \in Kind, NEW e \in Slot(kind),
         NEW f \in Slot(kind), user[kind][e] # NoReader,
         data_id[kind][f] = user[kind][e].id
  PROVE  e = f
<1>1. user[kind][e] \in Reader /\ user[kind][e].id = data_id[kind][e]
  BY UserIs
<1>2. data_id[kind][e] # 0
  BY <1>1, ReaderTypes
<1> QED
  BY <1>1, <1>2 DEF IdsUnique

(* Steps that give no id, hold nothing, and deliver nothing. *)
LEMMA QuietSession ==
  ASSUME SessionInv,
         UNCHANGED << data_id, user, created, static_buffers, taken >>,
         served' \subseteq served,
         \/ call' = call
         \/ \A kind, session : call' # << "datareader", kind, session >>
  PROVE  SessionInv'
<1>1. IdsUnique' /\ BuffersOfSlot' /\ NotFromSuccessor'
  BY DEF SessionInv, IdsUnique, BuffersOfSlot, NotFromSuccessor
<1>2. AddresseeOwns'
  BY DEF SessionInv, AddresseeOwns, Held
<1>3. \A r : Issued(r) => Issued(r)'
  BY DEF Issued
<1>4. AllIssued'
  BY <1>3 DEF SessionInv, AllIssued
<1> QED
  BY <1>1, <1>2, <1>4 DEF SessionInv

(* A new id is greater than all that were given. *)
LEMMA NewIdSession ==
  ASSUME HistoryInv, OneSession, SessionInv,
         NEW kind \in Kind, NEW session \in Session,
         call = << "create", kind, session >>,
         NewId(kind, session),
         UNCHANGED << items, freeitems, static_buffers >>
  PROVE  /\ IdsUnique' /\ BuffersOfSlot'
         /\ \A r \in Reader : Issued(r) =>
              /\ r.id <= created'[r.session][r.kind]
              /\ r.kind = kind => r.id < created'[session][kind]
<1> DEFINE e  == Head(items[kind])
           id == created[session][kind] + 1
<1>1. /\ e \in Slot(kind) /\ id \in 1..MaxCreated[kind]
      /\ data_id'[kind] = [data_id[kind] EXCEPT ![e] = id]
      /\ created'[session][kind] = id
      /\ \A other \in Kind \ {kind} : data_id'[other] = data_id[other]
  BY NewIdGives
<1>2. /\ created \in [Session -> [Kind -> Nat]]
      /\ created' = [created EXCEPT ![session][kind] = id]
  BY DEF HistoryInv, Domains, NewId
<1>3. \A k \in Kind : data_id[k] \in [Slot(k) -> 0..MaxCreated[k]]
  BY DEF HistoryInv, SlotsOk, KindOk
<1>4. \A k \in Kind : MaxCreated[k] \in Nat
  BY HistoryAssumption
<1>5. /\ created[session][kind] \in Nat
      /\ id = created[session][kind] + 1
      /\ id \in Nat \ {0}
      /\ \A s \in Session : s = session
  BY <1>2 DEF OneSession
<1> HIDE DEF id, e
<1>6. \A f \in Slot(kind) :
        /\ data_id'[kind][f] = IF f = e THEN id ELSE data_id[kind][f]
        /\ data_id[kind][f] \in Nat /\ data_id[kind][f] < id
  BY <1>1, <1>3, <1>4, <1>5 DEF SessionInv, IdsUnique
<1>7. \A k \in Kind, s \in Session :
        /\ created[s][k] \in Nat
        /\ created'[s][k] = IF k = kind THEN id ELSE created[s][k]
  BY <1>2, <1>5
<1>8. IdsUnique'
  <2>1. ASSUME NEW k \in Kind, NEW f \in Slot(k), NEW s \in Session
        PROVE  data_id'[k][f] <= created'[s][k]
    <3>1. CASE k = kind
      BY <1>5, <1>6, <1>7, <3>1
    <3>2. CASE k # kind
      <4>1. data_id[k][f] <= created[s][k]
        BY DEF SessionInv, IdsUnique
      <4> QED
        BY <1>1, <1>7, <3>2, <4>1
    <3> QED
      BY <3>1, <3>2
  <2>2. ASSUME NEW k \in Kind, NEW f \in Slot(k), NEW g \in Slot(k),
               data_id'[k][f] # 0, data_id'[k][f] = data_id'[k][g]
        PROVE  f = g
    <3>1. CASE k = kind
      BY <1>5, <1>6, <2>2, <3>1 DEF SessionInv, IdsUnique
    <3>2. CASE k # kind
      BY <1>1, <2>2, <3>2 DEF SessionInv, IdsUnique
    <3> QED
      BY <3>1, <3>2
  <2> QED
    BY <2>1, <2>2 DEF IdsUnique
<1>9. BuffersOfSlot'
  <2> SUFFICES ASSUME NEW k \in DOMAIN static_buffers
               PROVE  static_buffers[k].message.to.id
                        <= data_id'[static_buffers[k].owner[1]]
                                   [static_buffers[k].owner[2]]
    BY DEF BuffersOfSlot
  <2> DEFINE r == static_buffers[k].message.to
             o == static_buffers[k].owner
  <2>1. r \in Reader /\ o[1] \in Kind /\ o[2] \in Slot(o[1])
    BY BufferTypes DEF HistoryInv
  <2>2. r.id \in Nat
    BY <2>1, ReaderTypes
  <2>3. r.id <= data_id[o[1]][o[2]]
    BY DEF SessionInv, BuffersOfSlot
  <2> HIDE DEF r, o
  <2>4. r.id <= data_id'[o[1]][o[2]]
    <3>1. CASE o[1] = kind
      BY <1>5, <1>6, <2>1, <2>2, <2>3, <3>1
    <3>2. CASE o[1] # kind
      BY <1>1, <2>1, <2>3, <3>2
    <3> QED
      BY <3>1, <3>2
  <2> QED
    BY <2>4 DEF r, o
<1>10. ASSUME NEW r \in Reader, Issued(r)
       PROVE  /\ r.id <= created'[r.session][r.kind]
              /\ r.kind = kind => r.id < created'[session][kind]
  <2>1. /\ r.kind \in Kind /\ r.session \in Session /\ r.id \in Nat
        /\ r.session = session
    BY <1>5, ReaderTypes
  <2>2. r.id <= created[r.session][r.kind]
    BY <1>10 DEF Issued
  <2> QED
    BY <1>5, <1>7, <2>1, <2>2
<1> QED
  BY <1>8, <1>9, <1>10

LEMMA CreateDatareaderSession ==
  ASSUME HistoryInv, OneSession, SessionInv, NEW session \in Session,
         CreateDatareader(session)
  PROVE  SessionInv'
<1> DEFINE kind == "subscription"
<1>1. /\ kind \in Kind
      /\ call = << "create", kind, session >>
      /\ NewId(kind, session)
      /\ call' = << "datareader", kind, session >>
      /\ UNCHANGED << items, freeitems, user, agent, static_buffers, taken >>
  BY DEF CreateDatareader, Kind
<1> HIDE DEF kind
<1>2. /\ IdsUnique' /\ BuffersOfSlot'
      /\ \A r \in Reader : Issued(r) =>
           /\ r.id <= created'[r.session][r.kind]
           /\ r.kind = kind => r.id < created'[session][kind]
  BY <1>1, NewIdSession
<1>3. \A s \in Session, k \in Kind : created'[s][k] \in Nat
  <2>1. created' \in [Session -> [Kind -> Nat]]
    BY <1>1, NewIdGives
  <2> QED
    BY <2>1
<1>4. ASSUME NEW r \in Reader, Issued(r) PROVE Issued(r)'
  <2>1. r.id <= created'[r.session][r.kind]
    BY <1>2, <1>4
  <2>2. ASSUME call' = << "datareader", r.kind, r.session >>
        PROVE  r.id # created'[r.session][r.kind]
    <3>1. r.kind = kind /\ r.session = session
      BY <1>1, <2>2
    <3>2. r.id < created'[session][kind]
      BY <1>2, <1>4, <3>1
    <3>3. r.id \in Nat /\ created'[session][kind] \in Nat
      BY <1>1, <1>3, ReaderTypes
    <3> QED
      BY <3>1, <3>2, <3>3
  <2> QED
    BY <2>1, <2>2 DEF Issued
<1>5. AllIssued'
  <2>1. served \subseteq Reader /\ served' = served
    BY <1>1 DEF HistoryInv, Domains, agent
  <2>2. \A k \in DOMAIN static_buffers :
          static_buffers[k].message.to \in Reader
    BY BufferTypes DEF HistoryInv
  <2>3. static_buffers' = static_buffers
    BY <1>1
  <2> QED
    BY <1>4, <2>1, <2>2, <2>3 DEF SessionInv, AllIssued
<1>6. AddresseeOwns' /\ NotFromSuccessor'
  BY <1>1 DEF SessionInv, AddresseeOwns, NotFromSuccessor, Held
<1> QED
  BY <1>2, <1>5, <1>6 DEF SessionInv

(* The end of a creation, for a reader that no message is for yet. *)
LEMMA HoldSession ==
  ASSUME HistoryInv, SessionInv, IdsUnique', BuffersOfSlot',
         NEW kind \in Kind, NEW session \in Session,
         NEW id \in 1..MaxCreated[kind],
         items[kind] # << >>, user[kind][Head(items[kind])] = NoReader,
         Hold(kind, session, id), call' = << >>,
         id <= created'[session][kind],
         \A r \in Reader : Issued(r) =>
           /\ r.id <= created'[r.session][r.kind]
           /\ r # [kind |-> kind, session |-> session, id |-> id],
         UNCHANGED << static_buffers, taken >>
  PROVE  SessionInv'
<1> DEFINE r0 == [kind |-> kind, session |-> session, id |-> id]
           e  == Head(items[kind])
<1>1. /\ r0 \in Reader /\ r0.kind = kind /\ r0.session = session
      /\ r0.id = id
  BY DEF Reader
<1>2. /\ \A r \in served : r \in Reader /\ Issued(r)
      /\ \A k \in DOMAIN static_buffers :
           /\ static_buffers[k].message.to \in Reader
           /\ Issued(static_buffers[k].message.to)
  BY BufferTypes DEF HistoryInv, Domains, SessionInv, AllIssued
<1>3. /\ user' = [user EXCEPT ![kind][e] = r0]
      /\ served' = served \cup {r0}
      /\ DOMAIN user = Kind
      /\ \A k \in Kind : DOMAIN user[k] = Slot(k)
  BY DEF Hold, HistoryInv, Domains, SlotsOk, KindOk
<1>4. \A r \in Reader : Issued(r) =>
        r.id <= created'[r.session][r.kind] /\ r # r0
  OBVIOUS
<1> HIDE DEF r0, e
<1>5. AllIssued'
  <2>1. \A r : r.id <= created'[r.session][r.kind] => Issued(r)'
    BY DEF Issued
  <2> QED
    BY <1>1, <1>2, <1>3, <1>4, <2>1 DEF AllIssued
<1>6. AddresseeOwns'
  <2> SUFFICES ASSUME NEW k \in DOMAIN static_buffers,
                      static_buffers[k].message.to \in Held'
               PROVE  user'[static_buffers[k].owner[1]]
                           [static_buffers[k].owner[2]]
                        = static_buffers[k].message.to
    BY DEF AddresseeOwns
  <2> DEFINE r == static_buffers[k].message.to
             o == static_buffers[k].owner
  <2>1. r \in Reader /\ r # r0
    BY <1>2, <1>4
  <2>2. /\ o[1] \in Kind /\ o[2] \in Slot(o[1])
    BY BufferTypes DEF HistoryInv
  <2>3. PICK f \in Slot(r.kind) : user'[r.kind][f] = r
    BY DEF Held
  <2>4. r.kind \in Kind /\ r # NoReader
    BY <2>1, ReaderTypes
  <2>5. user[r.kind][f] = r
    BY <1>3, <2>1, <2>3, <2>4
  <2>6. user[o[1]][o[2]] = r
    BY <2>1, <2>5 DEF SessionInv, AddresseeOwns, Held
  <2>7. ~ (o[1] = kind /\ o[2] = e)
    BY <2>4, <2>6 DEF e
  <2>8. user'[o[1]][o[2]] = user[o[1]][o[2]]
    BY <1>3, <2>2, <2>7
  <2> QED
    BY <2>6, <2>8
<1>7. NotFromSuccessor'
  BY DEF SessionInv, NotFromSuccessor
<1> QED
  BY <1>5, <1>6, <1>7 DEF SessionInv

LEMMA CreateDoneSession ==
  ASSUME HistoryInv, OneSession, SessionInv, NEW session \in Session,
         CreateDone(session)
  PROVE  SessionInv'
<1> DEFINE kind == "subscription"
           id == created[session][kind]
<1>1. Domains /\ SlotsOk /\ CallOk /\ MessagesOk /\ kind \in Kind
  BY DEF HistoryInv, Kind
<1>2. /\ call = << "datareader", kind, session >>
      /\ Hold(kind, session, id)
      /\ call' = << >>
      /\ UNCHANGED << items, freeitems, data_id, created, sent,
                      static_buffers, taken >>
  BY DEF CreateDone
<1>3. /\ items[kind] # << >> /\ id # 0
      /\ user[kind][Head(items[kind])] = NoReader
  BY <1>1, <1>2 DEF CallOk
<1>4. id \in 1..MaxCreated[kind] /\ id <= created'[session][kind]
  BY <1>1, <1>2, <1>3, HistoryAssumption DEF Domains
<1>5. IdsUnique' /\ BuffersOfSlot'
  BY <1>2 DEF SessionInv, IdsUnique, BuffersOfSlot
<1>6. \A r \in Reader : Issued(r) =>
        /\ r.id <= created'[r.session][r.kind]
        /\ r # [kind |-> kind, session |-> session, id |-> id]
  BY <1>2 DEF Issued
<1> QED
  BY <1>1, <1>2, <1>3, <1>4, <1>5, <1>6, HoldSession

LEMMA CreateEndpointDoneSession ==
  ASSUME HistoryInv, OneSession, SessionInv,
         NEW kind \in Kind, NEW session \in Session,
         CreateEndpointDone(kind, session)
  PROVE  SessionInv'
<1> DEFINE id == created[session][kind] + 1
<1>1. /\ call = << "create", kind, session >>
      /\ NewId(kind, session)
      /\ Hold(kind, session, id)
      /\ call' = << >>
      /\ UNCHANGED << items, freeitems, sent, static_buffers, taken >>
  BY DEF CreateEndpointDone
<1>2. /\ items[kind] # << >> /\ user[kind][Head(items[kind])] = NoReader
      /\ id \in 1..MaxCreated[kind]
      /\ created'[session][kind] = id
  BY <1>1, NewIdGives
<1>3. /\ IdsUnique' /\ BuffersOfSlot'
      /\ \A r \in Reader : Issued(r) =>
           /\ r.id <= created'[r.session][r.kind]
           /\ r.kind = kind => r.id < created'[session][kind]
  BY <1>1, NewIdSession
<1>4. id \in Nat /\ id <= created'[session][kind]
  BY <1>2, HistoryAssumption
<1> HIDE DEF id
<1>5. ASSUME NEW r \in Reader, Issued(r)
      PROVE  /\ r.id <= created'[r.session][r.kind]
             /\ r # [kind |-> kind, session |-> session, id |-> id]
  BY <1>2, <1>3, <1>4, <1>5
<1> QED
  BY <1>1, <1>2, <1>3, <1>4, <1>5, HoldSession

LEMMA DestroyBeginSession ==
  ASSUME HistoryInv, SessionInv, NEW kind \in Kind, NEW e \in Slot(kind),
         DestroyBegin(kind, e)
  PROVE  SessionInv'
<1>1. /\ user' = [user EXCEPT ![kind][e] = NoReader]
      /\ call' = << "destroy", kind, e >>
      /\ UNCHANGED << items, freeitems, data_id, created, agent,
                      static_buffers, taken >>
  BY DEF DestroyBegin
<1>2. /\ DOMAIN user = Kind
      /\ \A k \in Kind : user[k] \in [Slot(k) -> Reader \cup {NoReader}]
  BY DEF HistoryInv, Domains, SlotsOk, KindOk
<1>3. \A k \in Kind : \A f \in Slot(k) :
        user'[k][f] = IF k = kind /\ f = e THEN NoReader ELSE user[k][f]
  BY <1>1, <1>2
<1>4. IdsUnique' /\ BuffersOfSlot' /\ NotFromSuccessor'
  BY <1>1 DEF SessionInv, IdsUnique, BuffersOfSlot, NotFromSuccessor
<1>5. AllIssued'
  <2>1. \A r : Issued(r) => Issued(r)'
    BY <1>1 DEF Issued
  <2> QED
    BY <1>1, <2>1 DEF SessionInv, AllIssued, agent
<1>6. AddresseeOwns'
  <2> SUFFICES ASSUME NEW k \in DOMAIN static_buffers,
                      static_buffers[k].message.to \in Held'
               PROVE  user'[static_buffers[k].owner[1]]
                           [static_buffers[k].owner[2]]
                        = static_buffers[k].message.to
    BY <1>1 DEF AddresseeOwns
  <2> DEFINE r == static_buffers[k].message.to
             o == static_buffers[k].owner
  <2>1. /\ r \in Reader /\ o[1] \in Kind /\ o[2] \in Slot(o[1])
        /\ r.kind = o[1]
    BY BufferTypes DEF HistoryInv
  <2>2. PICK f \in Slot(r.kind) : user'[r.kind][f] = r
    BY DEF Held
  <2>3. r.kind \in Kind /\ r # NoReader
    BY <2>1, ReaderTypes
  <2>4. user[r.kind][f] = r /\ ~ (r.kind = kind /\ f = e)
    BY <1>3, <2>2, <2>3
  <2>5. user[o[1]][o[2]] = r
    BY <2>1, <2>4 DEF SessionInv, AddresseeOwns, Held
  <2>6. data_id[o[1]][o[2]] = r.id
    BY <2>1, <2>3, <2>5, UserIs DEF HistoryInv
  <2>7. f = o[2]
    <3> HIDE DEF r, o
    <3> QED
      BY <2>1, <2>3, <2>4, <2>6, OnlySlot DEF HistoryInv, SessionInv
  <2> HIDE DEF r, o
  <2>8. user'[o[1]][o[2]] = r
    BY <1>3, <2>1, <2>4, <2>5, <2>7
  <2> QED
    BY <2>8 DEF r, o
<1> QED
  BY <1>4, <1>5, <1>6 DEF SessionInv

(* The buffers after a message for r: those from before, and perhaps one *)
(* of a slot whose id is that of r.                                       *)
LEMMA BuffersAfterData ==
  ASSUME HistoryInv, NEW r \in served, OnData(r),
         NEW j \in DOMAIN static_buffers'
  PROVE  \/ \E i \in DOMAIN static_buffers :
              static_buffers'[j] = static_buffers[i]
         \/ \E e \in Slot(r.kind) :
              /\ data_id[r.kind][e] = r.id
              /\ static_buffers'[j].owner = << r.kind, e >>
              /\ static_buffers'[j].message.to = r
<1>1. r \in Reader /\ r.kind \in Kind
  BY ReaderTypes DEF HistoryInv, Domains
<1>2. CASE static_buffers' = static_buffers
  BY <1>2
<1>3. CASE static_buffers' # static_buffers
  <2>1. static_buffers' = BufferData(r.kind, r.id, [to |-> r, n |-> sent + 1])
    BY <1>3 DEF OnData
  <2>2. PICK e \in Slot(r.kind) :
          /\ data_id[r.kind][e] = r.id
          /\ Len(static_buffers) < MaxHistory
          /\ BufferData(r.kind, r.id, [to |-> r, n |-> sent + 1])
               = << [owner   |-> << r.kind, e >>,
                     message |-> [to |-> r, n |-> sent + 1]] >>
                   \o static_buffers
    BY <1>1, <1>3, <2>1, BufferDataCases
  <2> DEFINE b == [owner   |-> << r.kind, e >>,
                   message |-> [to |-> r, n |-> sent + 1]]
             w == static_buffers
  <2>3. w \in Seq([owner : Owner, message : Message] \cup {b})
    <3> DEFINE B == [owner : Owner, message : Message]
    <3>1. w \in Seq(B)
      BY DEF HistoryInv, MessagesOk
    <3> HIDE DEF B, b, w
    <3>2. w \in Seq(B \cup {b})
      BY <3>1, SeqOfMore
    <3> QED
      BY <3>2 DEF B
  <2>4. static_buffers' = << b >> \o w
    BY <2>1, <2>2
  <2>5. b.owner = << r.kind, e >> /\ b.message.to = r
    OBVIOUS
  <2>6. \A i \in DOMAIN (<< b >> \o w) :
          \/ (<< b >> \o w)[i] = b
          \/ \E k \in DOMAIN w : (<< b >> \o w)[i] = w[k]
    <3> DEFINE B == [owner : Owner, message : Message] \cup {b}
    <3>1. w \in Seq(B) /\ b \in B
      BY <2>3
    <3> HIDE DEF B, b, w
    <3> QED
      BY <3>1, ConsElements
  <2>7. \/ static_buffers'[j] = b
        \/ \E i \in DOMAIN w : static_buffers'[j] = w[i]
    <3> HIDE DEF b, w
    <3> QED
      BY <2>4, <2>6
  <2> HIDE DEF b
  <2> QED
    BY <2>2, <2>5, <2>7
<1> QED
  BY <1>2, <1>3

LEMMA OnDataSession ==
  ASSUME HistoryInv, SessionInv, NEW r \in served, OnData(r)
  PROVE  SessionInv'
<1>1. UNCHANGED << pools, served, taken >>
  BY DEF OnData
<1>2. /\ r \in Reader /\ r.kind \in Kind /\ r.id \in Nat /\ Issued(r)
  BY ReaderTypes DEF HistoryInv, Domains, SessionInv, AllIssued
<1>3. IdsUnique' /\ NotFromSuccessor'
  BY <1>1 DEF pools, SessionInv, IdsUnique, NotFromSuccessor
<1>4. \A j \in DOMAIN static_buffers' :
        \/ \E i \in DOMAIN static_buffers :
             static_buffers'[j] = static_buffers[i]
        \/ \E e \in Slot(r.kind) :
             /\ data_id[r.kind][e] = r.id
             /\ static_buffers'[j].owner = << r.kind, e >>
             /\ static_buffers'[j].message.to = r
  BY BuffersAfterData
<1>5. AllIssued'
  <2>1. \A s : Issued(s) => Issued(s)'
    BY <1>1 DEF Issued, pools
  <2> QED
    BY <1>1, <1>2, <1>4, <2>1 DEF SessionInv, AllIssued
<1>6. BuffersOfSlot'
  <2>1. data_id' = data_id
    BY <1>1 DEF pools
  <2>2. ASSUME NEW j \in DOMAIN static_buffers'
        PROVE  static_buffers'[j].message.to.id
                 <= data_id'[static_buffers'[j].owner[1]]
                            [static_buffers'[j].owner[2]]
    <3>1. CASE \E i \in DOMAIN static_buffers :
                 static_buffers'[j] = static_buffers[i]
      BY <2>1, <3>1 DEF SessionInv, BuffersOfSlot
    <3>2. CASE \E e \in Slot(r.kind) :
                 /\ data_id[r.kind][e] = r.id
                 /\ static_buffers'[j].owner = << r.kind, e >>
                 /\ static_buffers'[j].message.to = r
      BY <1>2, <2>1, <3>2
    <3> QED
      BY <1>4, <3>1, <3>2
  <2> QED
    BY <2>2 DEF BuffersOfSlot
<1>7. AddresseeOwns'
  <2>1. user' = user /\ Held' = Held
    BY <1>1 DEF pools, Held
  <2>2. ASSUME NEW j \in DOMAIN static_buffers',
               static_buffers'[j].message.to \in Held
        PROVE  user[static_buffers'[j].owner[1]][static_buffers'[j].owner[2]]
                 = static_buffers'[j].message.to
    <3>1. CASE \E i \in DOMAIN static_buffers :
                 static_buffers'[j] = static_buffers[i]
      BY <2>2, <3>1 DEF SessionInv, AddresseeOwns
    <3>2. CASE \E e \in Slot(r.kind) :
                 /\ data_id[r.kind][e] = r.id
                 /\ static_buffers'[j].owner = << r.kind, e >>
                 /\ static_buffers'[j].message.to = r
      <4>1. PICK e \in Slot(r.kind) :
              /\ data_id[r.kind][e] = r.id
              /\ static_buffers'[j].owner = << r.kind, e >>
              /\ static_buffers'[j].message.to = r
        BY <3>2
      <4>2. PICK f \in Slot(r.kind) : user[r.kind][f] = r
        BY <2>2, <4>1 DEF Held
      <4>3. f = e
        BY <1>2, <4>1, <4>2, OnlySlot, ReaderTypes DEF HistoryInv, SessionInv
      <4> QED
        BY <4>1, <4>2, <4>3
    <3> QED
      BY <1>4, <3>1, <3>2
  <2> QED
    BY <2>1, <2>2 DEF AddresseeOwns
<1> QED
  BY <1>3, <1>5, <1>6, <1>7 DEF SessionInv

LEMMA TakeFirstSession ==
  ASSUME HistoryInv, SessionInv,
         NEW kind \in Kind, NEW e \in Slot(kind), user[kind][e] # NoReader,
         NEW deserialized \in BOOLEAN, TakeFirst(kind, e, deserialized),
         UNCHANGED << items, freeitems, data_id, user, created, agent >>,
         \A k, session : call' # << "datareader", k, session >>
  PROVE  SessionInv'
<1> DEFINE w == static_buffers
<1>1. PICK k \in 1..Len(static_buffers) :
        /\ static_buffers[k].owner = << kind, e >>
        /\ \A j \in DOMAIN static_buffers :
             static_buffers[j].owner = << kind, e >> => k <= j
        /\ static_buffers' = RemoveAt(static_buffers, k)
        /\ taken' = IF deserialized
                    THEN taken \cup {[by      |-> user[kind][e],
                                      message |-> static_buffers[k].message]}
                    ELSE taken
  BY TakeFirstPuts, Zenon DEF HistoryInv
<1>2. k \in DOMAIN w
  BY DEF HistoryInv, MessagesOk
<1>3. \A j \in DOMAIN static_buffers' :
        \E i \in DOMAIN static_buffers :
          static_buffers'[j] = static_buffers[i]
  <2> DEFINE B == [owner : Owner, message : Message]
  <2>1. w \in Seq(B) /\ k \in 1..Len(w) /\ static_buffers' = RemoveAt(w, k)
    BY <1>1 DEF HistoryInv, MessagesOk
  <2> HIDE DEF B, w
  <2>2. \A j \in DOMAIN static_buffers' :
          \E i \in DOMAIN w : static_buffers'[j] = w[i]
    BY <2>1, RemoveAtElements
  <2> QED
    BY <2>2 DEF w
<1>4. IdsUnique'
  BY DEF SessionInv, IdsUnique
<1>5. BuffersOfSlot'
  BY <1>3 DEF SessionInv, BuffersOfSlot
<1>6. AddresseeOwns'
  <2>1. Held' = Held
    BY DEF Held
  <2> QED
    BY <1>3, <2>1 DEF SessionInv, AddresseeOwns
<1>7. AllIssued'
  <2>1. \A r : Issued(r) => Issued(r)'
    BY DEF Issued
  <2> QED
    BY <1>3, <2>1 DEF SessionInv, AllIssued, agent
<1>8. NotFromSuccessor'
  <2>1. /\ w[k].message.to.kind = kind
        /\ w[k].message.to.id <= data_id[kind][e]
    BY <1>1, <1>2, BufferTypes DEF HistoryInv, SessionInv, BuffersOfSlot
  <2>2. user[kind][e].kind = kind /\ user[kind][e].id = data_id[kind][e]
    BY UserIs DEF HistoryInv
  <2>3. \A t \in taken' :
          \/ t \in taken
          \/ t.by = user[kind][e] /\ t.message = w[k].message
    BY <1>1
  <2> HIDE DEF w
  <2> QED
    BY <2>1, <2>2, <2>3 DEF SessionInv, NotFromSuccessor
<1> QED
  BY <1>4, <1>5, <1>6, <1>7, <1>8 DEF SessionInv

LEMMA TakeSession ==
  ASSUME HistoryInv, SessionInv, NEW kind \in Kind, NEW e \in Slot(kind),
         NEW count, Take(kind, e, count)
  PROVE  SessionInv'
<1>1. /\ user[kind][e] # NoReader
      /\ UNCHANGED << items, freeitems, data_id, user, created, agent >>
      /\ \A k, session : call' # << "datareader", k, session >>
  BY DEF Take
<1>2. PICK deserialized \in BOOLEAN : TakeFirst(kind, e, deserialized)
  BY DEF Take
<1> QED
  BY <1>1, <1>2, TakeFirstSession

LEMMA TakeNextSession ==
  ASSUME HistoryInv, SessionInv, NEW e \in Slot("subscription"),
         NEW left \in 1..MaxHistory, TakeNext(e, left)
  PROVE  SessionInv'
<1>1. /\ "subscription" \in Kind
      /\ user["subscription"][e] # NoReader
      /\ UNCHANGED << items, freeitems, data_id, user, created, agent >>
      /\ \A k, session : call' # << "datareader", k, session >>
  BY DEF TakeNext, HistoryInv, CallOk, Kind
<1>2. CASE \E deserialized \in BOOLEAN :
             TakeFirst("subscription", e, deserialized)
  BY <1>1, <1>2, TakeFirstSession
<1>3. CASE UNCHANGED << static_buffers, taken >>
  BY <1>1, <1>3, QuietSession DEF agent
<1> QED
  BY <1>2, <1>3 DEF TakeNext

LEMMA NextSessionInv ==
  ASSUME OneSession
  PROVE  HistoryInv /\ SessionInv /\ [Next]_vars => SessionInv'
<1> SUFFICES ASSUME HistoryInv, SessionInv, [Next]_vars PROVE SessionInv'
  OBVIOUS
<1>1. ASSUME NEW kind \in Kind, NEW session \in Session,
             CreateBegin(kind, session)
      PROVE  SessionInv'
  BY <1>1, QuietSession DEF CreateBegin, agent
<1>2. ASSUME NEW session \in Session, CreateDatareader(session)
      PROVE  SessionInv'
  BY <1>2, CreateDatareaderSession
<1>3. ASSUME NEW session \in Session, CreateFail(session)
      PROVE  SessionInv'
  BY <1>3, QuietSession DEF CreateFail, agent
<1>4. ASSUME NEW session \in Session, CreateDone(session)
      PROVE  SessionInv'
  BY <1>4, CreateDoneSession
<1>5. ASSUME NEW kind \in Kind, NEW session \in Session,
             CreateEndpointDone(kind, session)
      PROVE  SessionInv'
  BY <1>5, CreateEndpointDoneSession
<1>6. ASSUME NEW kind \in Kind, NEW e \in Slot(kind), DestroyBegin(kind, e)
      PROVE  SessionInv'
  BY <1>6, DestroyBeginSession
<1>7. ASSUME NEW kind \in Kind, NEW e \in Slot(kind), DestroyEnd(kind, e)
      PROVE  SessionInv'
  BY <1>7, QuietSession DEF DestroyEnd, agent
<1>8. ASSUME NEW r \in served, AgentStops(r) PROVE SessionInv'
  BY <1>8, QuietSession DEF AgentStops, pools
<1>9. ASSUME NEW r \in served, OnData(r) PROVE SessionInv'
  BY <1>9, OnDataSession
<1>10. ASSUME NEW kind \in Kind, NEW e \in Slot(kind),
              NEW count \in 1..MaxHistory, Take(kind, e, count)
       PROVE  SessionInv'
  BY <1>10, TakeSession
<1>11. ASSUME NEW e \in Slot("subscription"), NEW left \in 1..MaxHistory,
              TakeNext(e, left)
       PROVE  SessionInv'
  BY <1>11, TakeNextSession
<1>12. CASE UNCHANGED vars
  BY <1>12, QuietSession DEF vars, pools, agent
<1> QED
  BY <1>1, <1>2, <1>3, <1>4, <1>5, <1>6, <1>7, <1>8, <1>9, <1>10, <1>11,
     <1>12 DEF Next

(* With one session ever the ids tell the readers apart. *)
THEOREM SessionInvariant ==
  ASSUME OneSession
  PROVE  Spec => []SessionInv
<1>1. HistoryInv /\ SessionInv /\ [Next]_vars => SessionInv'
  BY NextSessionInv
<1> QED
  BY <1>1, InitSessionInv, HistoryInvariant, PTL DEF Spec

(***************************************************************************)
(* With one session ever, what comes for a reader that lives goes to its   *)
(* buffers, whatever ids the slots of others still hold (callbacks.c).     *)
(***************************************************************************)
THEOREM Addressed ==
  ASSUME OneSession
  PROVE  Spec => []AddresseeOwns
<1>1. SessionInv => AddresseeOwns
  BY DEF SessionInv
<1> QED
  BY <1>1, SessionInvariant, PTL

(***************************************************************************)
(* With one session ever, no reader takes a message of one that came after *)
(* it, though a slot is used again with the buffers of its last user.      *)
(***************************************************************************)
THEOREM NoMessageFromLater ==
  ASSUME OneSession
  PROVE  Spec => []NotFromSuccessor
<1>1. SessionInv => NotFromSuccessor
  BY DEF SessionInv
<1> QED
  BY <1>1, SessionInvariant, PTL

LEMMA SlotsReach ==
  ASSUME HistoryInv, SessionInv
  PROVE  WouldReach
<1> SUFFICES ASSUME NEW r \in Held, Len(static_buffers) < MaxHistory
             PROVE  LET after == BufferData(r.kind, r.id, [to |-> r, n |-> 0])
                    IN  /\ Len(after) = Len(static_buffers) + 1
                        /\ user[r.kind][Head(after).owner[2]] = r
  BY DEF WouldReach
<1> DEFINE M == Matching(r.kind, r.id)
           k == Min(M)
           b == [owner   |-> << r.kind, items[r.kind][k] >>,
                 message |-> [to |-> r, n |-> 0]]
           w == static_buffers
<1>1. r \in Reader /\ \E e \in Slot(r.kind) : user[r.kind][e] = r
  BY DEF Held
<1>2. PICK e \in Slot(r.kind) : user[r.kind][e] = r
  BY <1>1
<1>3. r.kind \in Kind /\ r # NoReader
  BY <1>1, ReaderTypes
<1>4. data_id[r.kind][e] = r.id /\ e \in ToSet(items[r.kind])
  BY <1>2, <1>3, UserIs DEF HistoryInv
<1>5. items[r.kind] \in Seq(Slot(r.kind))
  BY <1>3 DEF HistoryInv, SlotsOk, KindOk
<1>6. M # {} /\ M \in SUBSET Nat
  BY <1>4, <1>5 DEF Matching, ToSet
<1>7. k \in M
  <2> HIDE DEF M
  <2> QED
    BY <1>6, MinProperties
<1> HIDE DEF k
<1>8. /\ items[r.kind][k] \in Slot(r.kind)
      /\ data_id[r.kind][items[r.kind][k]] = r.id
  BY <1>5, <1>7 DEF Matching
<1>9. BufferData(r.kind, r.id, [to |-> r, n |-> 0]) = << b >> \o w
  BY <1>6 DEF BufferData, k
<1>10. b.owner[2] = items[r.kind][k]
  OBVIOUS
<1>11. items[r.kind][k] = e
  BY <1>2, <1>3, <1>8, OnlySlot DEF HistoryInv, SessionInv
<1>12. w \in Seq([owner : Owner, message : Message])
  BY DEF HistoryInv, MessagesOk
<1> HIDE DEF b, w
<1>13. Len(<< b >> \o w) = Len(w) + 1 /\ Head(<< b >> \o w) = b
  <2> DEFINE A == [owner : Owner, message : Message]
             B == A \cup {b}
  <2>1. b \in B /\ w \in Seq(A)
    BY <1>12
  <2> HIDE DEF A
  <2>2. w \in Seq(B)
    BY <2>1, SeqOfMore
  <2> HIDE DEF B
  <2>3. Head(<< b >> \o w) = b /\ << b >> \o w \in Seq(B)
    BY <2>1, <2>2, ConsHead
  <2> QED
    BY <2>1, <2>2, <2>3
<1> QED
  BY <1>2, <1>9, <1>10, <1>11, <1>13 DEF w

(***************************************************************************)
(* With one session ever, every reader that lives is reached by its next   *)
(* message while a buffer is free.                                         *)
(***************************************************************************)
THEOREM Reached ==
  ASSUME OneSession
  PROVE  Spec => []WouldReach
<1>1. HistoryInv /\ SessionInv => WouldReach
  BY SlotsReach
<1> QED
  BY <1>1, HistoryInvariant, SessionInvariant, PTL

-----------------------------------------------------------------------------
(* The order of the buffers, when one joins and when one leaves. *)
LEMMA JoinOrder ==
  ASSUME NEW S, NEW w \in Seq(S), NEW x \in S, x \notin ToSet(w),
         NEW v, v = << x >> \o w
  PROVE  /\ \A b \in ToSet(w) : Newer(v, x, b)
         /\ \A a, b \in ToSet(w) : Newer(v, a, b) <=> Newer(w, a, b)
<1>1. /\ v \in Seq(S) /\ Len(v) = Len(w) + 1 /\ v[1] = x
      /\ \A j \in 1..Len(v) : j # 1 => j - 1 \in 1..Len(w) /\ v[j] = w[j - 1]
      /\ \A j \in 1..Len(w) : j + 1 \in 1..Len(v) /\ v[j + 1] = w[j]
  BY ConsProperties
<1>2. /\ DOMAIN w = 1..Len(w) /\ DOMAIN v = 1..Len(v) /\ Len(w) \in Nat
      /\ 1 \in DOMAIN v
  BY <1>1
<1>3. \A b : b \in ToSet(w) <=> \E j \in DOMAIN w : w[j] = b
  BY DEF ToSet
<1>4. ASSUME NEW b \in ToSet(w) PROVE Newer(v, x, b)
  <2>1. PICK j \in DOMAIN w : w[j] = b
    BY <1>3
  <2>2. j + 1 \in DOMAIN v /\ v[j + 1] = b /\ 1 < j + 1
    BY <1>1, <1>2, <2>1
  <2> QED
    BY <1>1, <1>2, <2>2 DEF Newer
<1>5. ASSUME NEW a \in ToSet(w), NEW b \in ToSet(w), Newer(v, a, b)
      PROVE  Newer(w, a, b)
  <2>1. PICK i \in DOMAIN v, j \in DOMAIN v : i < j /\ v[i] = a /\ v[j] = b
    BY <1>5 DEF Newer
  <2>2. i # 1 /\ j # 1
    BY <1>1, <2>1
  <2>3. /\ i - 1 \in DOMAIN w /\ w[i - 1] = a
        /\ j - 1 \in DOMAIN w /\ w[j - 1] = b /\ i - 1 < j - 1
    BY <1>1, <1>2, <2>1, <2>2
  <2> QED
    BY <2>3 DEF Newer
<1>6. ASSUME NEW a, NEW b, Newer(w, a, b) PROVE Newer(v, a, b)
  <2>1. PICK i \in DOMAIN w, j \in DOMAIN w : i < j /\ w[i] = a /\ w[j] = b
    BY <1>6 DEF Newer
  <2>2. /\ i + 1 \in DOMAIN v /\ v[i + 1] = a
        /\ j + 1 \in DOMAIN v /\ v[j + 1] = b /\ i + 1 < j + 1
    BY <1>1, <1>2, <2>1
  <2> QED
    BY <2>2 DEF Newer
<1> QED
  BY <1>4, <1>5, <1>6

LEMMA LeaveOrder ==
  ASSUME NEW S, NEW w \in Seq(S), NEW k \in 1..Len(w),
         NEW v, v = RemoveAt(w, k),
         NEW a, NEW b, a # w[k], b # w[k]
  PROVE  Newer(v, a, b) <=> Newer(w, a, b)
<1>1. /\ v \in Seq(S) /\ Len(v) = Len(w) - 1
      /\ \A j \in 1..(Len(w) - 1) : v[j] = IF j < k THEN w[j] ELSE w[j + 1]
  BY RemoveAtProperties
<1>2. DOMAIN w = 1..Len(w) /\ DOMAIN v = 1..(Len(w) - 1) /\ Len(w) \in Nat
  BY <1>1
<1>3. ASSUME Newer(v, a, b) PROVE Newer(w, a, b)
  <2>1. PICK i \in DOMAIN v, j \in DOMAIN v : i < j /\ v[i] = a /\ v[j] = b
    BY <1>3 DEF Newer
  <2> DEFINE p == IF i < k THEN i ELSE i + 1
             q == IF j < k THEN j ELSE j + 1
  <2>2. p \in DOMAIN w /\ q \in DOMAIN w /\ p < q
    BY <1>2, <2>1
  <2>3. w[p] = a /\ w[q] = b
    BY <1>1, <1>2, <2>1
  <2> HIDE DEF p, q
  <2> QED
    BY <2>2, <2>3 DEF Newer
<1>4. ASSUME Newer(w, a, b) PROVE Newer(v, a, b)
  <2>1. PICK i \in DOMAIN w, j \in DOMAIN w : i < j /\ w[i] = a /\ w[j] = b
    BY <1>4 DEF Newer
  <2>2. i # k /\ j # k
    BY <2>1
  <2> DEFINE p == IF i < k THEN i ELSE i - 1
             q == IF j < k THEN j ELSE j - 1
  <2>3. p \in DOMAIN v /\ q \in DOMAIN v /\ p < q
    BY <1>2, <2>1, <2>2
  <2>4. v[p] = a
    <3>1. CASE i < k
      BY <1>1, <1>2, <2>1, <2>3, <3>1
    <3>2. CASE i > k
      <4>1. ~ (i - 1 < k) /\ (i - 1) + 1 = i /\ p = i - 1
        BY <1>2, <3>2
      <4> QED
        BY <1>1, <1>2, <2>1, <2>3, <4>1
    <3> QED
      BY <1>2, <2>2, <3>1, <3>2
  <2>5. v[q] = b
    <3>1. CASE j < k
      BY <1>1, <1>2, <2>1, <2>3, <3>1
    <3>2. CASE j > k
      <4>1. ~ (j - 1 < k) /\ (j - 1) + 1 = j /\ q = j - 1
        BY <1>2, <3>2
      <4> QED
        BY <1>1, <1>2, <2>1, <2>3, <4>1
    <3> QED
      BY <1>2, <2>2, <3>1, <3>2
  <2> HIDE DEF p, q
  <2> QED
    BY <2>3, <2>4, <2>5 DEF Newer
<1> QED
  BY <1>3, <1>4

(* What OthersWait says of one step. *)
WaitStep ==
  /\ \A a, b \in Stayed :
       Newer(static_buffers', a, b) <=> Newer(static_buffers, a, b)
  /\ \A a \in Arrived, b \in Stayed : Newer(static_buffers', a, b)
  /\ \A a \in Left, b \in Stayed :
       a.owner = b.owner => Newer(static_buffers, a, b)
  /\ \A a, b \in Arrived \cup Left : a.owner = b.owner

LEMMA JoinWaits ==
  ASSUME NEW S, static_buffers \in Seq(S), NEW x \in S,
         x \notin ToSet(static_buffers),
         static_buffers' = << x >> \o static_buffers
  PROVE  WaitStep
<1> DEFINE w == static_buffers
           v == static_buffers'
<1>1. w \in Seq(S) /\ x \notin ToSet(w) /\ v = << x >> \o w
  OBVIOUS
<1>2. /\ \A b \in ToSet(w) : Newer(v, x, b)
      /\ \A a, b \in ToSet(w) : Newer(v, a, b) <=> Newer(w, a, b)
  <2> HIDE DEF w, v
  <2> QED
    BY <1>1, JoinOrder
<1>3. ToSet(v) = ToSet(w) \cup {x}
  <2> HIDE DEF w, v
  <2>1. /\ v \in Seq(S) /\ v[1] = x /\ Len(v) = Len(w) + 1
        /\ \A j \in 1..Len(w) : j + 1 \in 1..Len(v) /\ v[j + 1] = w[j]
    BY <1>1, ConsProperties
  <2>2. \A j \in DOMAIN v : v[j] = x \/ \E i \in DOMAIN w : v[j] = w[i]
    BY <1>1, ConsElements
  <2>3. DOMAIN w = 1..Len(w) /\ DOMAIN v = 1..Len(v) /\ 1 \in DOMAIN v
    BY <1>1, <2>1
  <2>4. \A y \in ToSet(v) : y \in ToSet(w) \cup {x}
    BY <2>2 DEF ToSet
  <2>5. \A y \in ToSet(w) : y \in ToSet(v)
    BY <2>1, <2>3 DEF ToSet
  <2>6. x \in ToSet(v)
    BY <2>1, <2>3 DEF ToSet
  <2> QED
    BY <2>4, <2>5, <2>6
<1>4. Stayed = ToSet(w) /\ Arrived = {x} /\ Left = {}
  BY <1>1, <1>3 DEF Stayed, Arrived, Left
<1> QED
  BY <1>2, <1>4 DEF WaitStep

LEMMA LeaveWaits ==
  ASSUME NEW S, static_buffers \in Seq(S),
         \A i, j \in DOMAIN static_buffers :
           static_buffers[i] = static_buffers[j] => i = j,
         NEW k \in 1..Len(static_buffers),
         \A j \in DOMAIN static_buffers :
           static_buffers[j].owner = static_buffers[k].owner => k <= j,
         static_buffers' = RemoveAt(static_buffers, k)
  PROVE  WaitStep
<1> DEFINE w == static_buffers
           v == static_buffers'
<1>1. /\ w \in Seq(S) /\ v = RemoveAt(w, k) /\ k \in 1..Len(w)
      /\ DOMAIN w = 1..Len(w) /\ Len(w) \in Nat
      /\ \A i, j \in DOMAIN w : w[i] = w[j] => i = j
      /\ \A j \in DOMAIN w : w[j].owner = w[k].owner => k <= j
  OBVIOUS
<1>2. Visits(w, ToSet(w))
  <2> HIDE DEF w, v
  <2>1. w \in Seq(ToSet(w))
    BY <1>1 DEF ToSet
  <2> QED
    BY <1>1, <2>1 DEF Visits, ToSet
<1>3. ToSet(v) = ToSet(w) \ {w[k]} /\ w[k] \in ToSet(w)
  <2> HIDE DEF w, v
  <2>1. Visits(v, ToSet(w) \ {w[k]})
    BY <1>1, <1>2, VisitsRemoveAt
  <2>2. w[k] \in ToSet(w)
    BY <1>1 DEF ToSet
  <2> QED
    BY <2>1, <2>2, VisitsToSet
<1>4. Stayed = ToSet(v) /\ Arrived = {} /\ Left = {w[k]}
  BY <1>3 DEF Stayed, Arrived, Left
<1>5. \A a, b \in ToSet(v) : Newer(v, a, b) <=> Newer(w, a, b)
  <2> HIDE DEF w, v
  <2> QED
    BY <1>1, <1>3, LeaveOrder
<1>6. ASSUME NEW b \in ToSet(v), w[k].owner = b.owner
      PROVE  Newer(w, w[k], b)
  <2> HIDE DEF w, v
  <2>1. PICK j \in DOMAIN w : w[j] = b
    BY <1>3 DEF ToSet
  <2>2. k <= j /\ k # j
    BY <1>1, <1>3, <1>6, <2>1
  <2> QED
    BY <1>1, <2>1, <2>2 DEF Newer
<1> QED
  BY <1>4, <1>5, <1>6 DEF WaitStep

LEMMA StepWaits ==
  HistoryInv /\ [Next]_vars /\ static_buffers' # static_buffers => WaitStep
<1> SUFFICES ASSUME HistoryInv, [Next]_vars,
                    static_buffers' # static_buffers
             PROVE  WaitStep
  OBVIOUS
<1> DEFINE B == [owner : Owner, message : Message]
<1>1. /\ static_buffers \in Seq(B)
      /\ \A i, j \in DOMAIN static_buffers :
           static_buffers[i] = static_buffers[j] => i = j
  BY DEF HistoryInv, MessagesOk, DeliveredOnce
<1>2. \/ \E r \in served : OnData(r)
      \/ \E kind, e : \E deserialized \in BOOLEAN :
           TakeFirst(kind, e, deserialized)
  BY DEF Next, vars, CreateBegin, CreateDatareader, CreateFail, CreateDone,
         CreateEndpointDone, DestroyBegin, DestroyEnd, AgentStops, Take,
         TakeNext
<1>3. ASSUME NEW r \in served, OnData(r) PROVE WaitStep
  <2>1. r \in Reader /\ r.kind \in Kind
    BY ReaderTypes DEF HistoryInv, Domains
  <2>2. static_buffers' = BufferData(r.kind, r.id, [to |-> r, n |-> sent + 1])
    BY <1>3 DEF OnData
  <2>3. PICK e \in Slot(r.kind) :
          /\ data_id[r.kind][e] = r.id
          /\ Len(static_buffers) < MaxHistory
          /\ BufferData(r.kind, r.id, [to |-> r, n |-> sent + 1])
               = << [owner   |-> << r.kind, e >>,
                     message |-> [to |-> r, n |-> sent + 1]] >>
                   \o static_buffers
    BY <2>1, <2>2, BufferDataCases
  <2> DEFINE b == [owner   |-> << r.kind, e >>,
                   message |-> [to |-> r, n |-> sent + 1]]
             C == B \cup {b}
  <2>4. static_buffers' = << b >> \o static_buffers
    BY <2>2, <2>3
  <2>5. b \notin ToSet(static_buffers)
    <3>1. b.message.n = sent + 1 /\ sent \in Nat
      BY HistoryAssumption DEF HistoryInv, MessagesOk
    <3>2. \A k \in DOMAIN static_buffers :
            static_buffers[k].message.n <= sent
            /\ static_buffers[k].message.n \in Nat
      BY MessageTypes DEF HistoryInv, MessagesOk
    <3> HIDE DEF b
    <3>3. \A k \in DOMAIN static_buffers : static_buffers[k] # b
      BY <3>1, <3>2
    <3> QED
      BY <3>3 DEF ToSet
  <2>6. static_buffers \in Seq(C) /\ b \in C
    <3> HIDE DEF B, b
    <3> QED
      BY <1>1, SeqOfMore
  <2> HIDE DEF b, C
  <2> QED
    BY <2>4, <2>5, <2>6, JoinWaits
<1>4. ASSUME NEW kind, NEW e, NEW deserialized \in BOOLEAN,
             TakeFirst(kind, e, deserialized)
      PROVE  WaitStep
  <2>1. PICK k \in 1..Len(static_buffers) :
          /\ static_buffers[k].owner = << kind, e >>
          /\ \A j \in DOMAIN static_buffers :
               static_buffers[j].owner = << kind, e >> => k <= j
          /\ static_buffers' = RemoveAt(static_buffers, k)
          /\ taken' = IF deserialized
                      THEN taken \cup
                             {[by      |-> user[kind][e],
                               message |-> static_buffers[k].message]}
                      ELSE taken
    BY <1>4, TakeFirstPuts, Zenon DEF HistoryInv
  <2>2. \A j \in DOMAIN static_buffers :
          static_buffers[j].owner = static_buffers[k].owner => k <= j
    BY <2>1
  <2> HIDE DEF B
  <2> QED
    BY <1>1, <2>1, <2>2, LeaveWaits
<1> QED
  BY <1>2, <1>3, <1>4

(***************************************************************************)
(* Every step that changes the buffers adds one in front or puts the       *)
(* newest of one owner (rmw_uxrce_find_static_input_buffer_by_owner); the  *)
(* rest waits in the same order.                                           *)
(***************************************************************************)
THEOREM Waiting == Spec => OthersWait
<1>1. HistoryInv /\ [Next]_vars => [WaitStep]_static_buffers
  BY StepWaits
<1>2. [WaitStep]_static_buffers
        <=> [/\ \A a, b \in Stayed :
                  Newer(static_buffers', a, b) <=> Newer(static_buffers, a, b)
             /\ \A a \in Arrived, b \in Stayed : Newer(static_buffers', a, b)
             /\ \A a \in Left, b \in Stayed :
                  a.owner = b.owner => Newer(static_buffers, a, b)
             /\ \A a, b \in Arrived \cup Left : a.owner = b.owner
            ]_static_buffers
  BY DEF WaitStep
<1> QED
  BY <1>1, <1>2, HistoryInvariant, PTL DEF Spec, OthersWait
=============================================================================
