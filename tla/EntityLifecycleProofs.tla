----------------------- MODULE EntityLifecycleProofs -----------------------
(***************************************************************************)
(* Proofs about EntityLifecycle, for pools of any size.  The failures that *)
(* put a slot twice (DoublePut) or leave one on the allocated list         *)
(* (CreationLeak) break what is proved here, so each theorem names the     *)
(* failures it allows.                                                     *)
(***************************************************************************)
EXTENDS EntityLifecycle, PoolLemmas

LEMMA SlotFacts ==
  ASSUME NEW name \in PoolName
  PROVE  /\ MaxOf[name] \in Nat
         /\ Slot(name) = 1..MaxOf[name]
         /\ NULL \notin Slot(name) /\ Dangling \notin Slot(name)
         /\ NULL # Dangling
         /\ IsFiniteSet(Slot(name)) /\ Cardinality(Slot(name)) = MaxOf[name]
<1>1. MaxOf[name] \in Nat
  BY MaxAssumption
<1>2. IsFiniteSet(1..MaxOf[name]) /\ Cardinality(1..MaxOf[name]) = MaxOf[name]
  <2>1. 1 \in Int /\ MaxOf[name] \in Int
    BY <1>1
  <2>2. /\ IsFiniteSet(1..MaxOf[name])
        /\ Cardinality(1..MaxOf[name])
             = IF 1 > MaxOf[name] THEN 0 ELSE MaxOf[name] - 1 + 1
    BY <2>1, FS_Interval
  <2> QED
    BY <1>1, <2>2
<1> QED
  BY <1>1, <1>2 DEF Slot, NULL, Dangling

-----------------------------------------------------------------------------
(***************************************************************************)
(* One pool: its allocated list w, as get_memory and put_memory change it. *)
(***************************************************************************)
Listed(name, p) == AllocatedItems(p, MaxOf[name] + 1)

Healthy(name, p) ==
  /\ Sound(Slot(name), p, ToSet(Listed(name, p)),
           Slot(name) \ ToSet(Listed(name, p)))
  /\ \A i \in Slot(name) : ~ p.is_dynamic_memory[i]

HealthyWith(name, p, H) ==
  /\ Healthy(name, p)
  /\ ToSet(Listed(name, p)) = H
  /\ ToSet(FreeItems(p, MaxOf[name] + 1)) = Slot(name) \ H
  /\ Chains(p, H, Slot(name) \ H, Listed(name, p),
            FreeItems(p, MaxOf[name] + 1))

LEMMA SoundIsHealthy ==
  ASSUME NEW name \in PoolName, NEW p, NEW H,
         Sound(Slot(name), p, H, Slot(name) \ H),
         \A i \in Slot(name) : ~ p.is_dynamic_memory[i]
  PROVE  HealthyWith(name, p, H)
<1>1. /\ IsFiniteSet(Slot(name))
      /\ MaxOf[name] + 1 \in Nat
      /\ Cardinality(Slot(name)) <= MaxOf[name] + 1
  BY SlotFacts
<1>2. Chains(p, H, Slot(name) \ H, Listed(name, p),
             FreeItems(p, MaxOf[name] + 1))
  BY <1>1, WalksAreChains DEF Listed
<1>3. /\ ToSet(Listed(name, p)) = H
      /\ ToSet(FreeItems(p, MaxOf[name] + 1)) = Slot(name) \ H
  BY <1>2 DEF Chains, IsChain, Visits, ToSet
<1> QED
  BY <1>2, <1>3 DEF HealthyWith, Healthy

LEMMA HealthyIs ==
  ASSUME NEW name \in PoolName, NEW p, Healthy(name, p)
  PROVE  HealthyWith(name, p, ToSet(Listed(name, p)))
BY SoundIsHealthy DEF Healthy

(* The chains of the pool say what its lists are. *)
LEMMA ListedIs ==
  ASSUME NEW name \in PoolName, NEW p, NEW H, HealthyWith(name, p, H),
         NEW lent, NEW spare,
         Chains(p, H, Slot(name) \ H, lent, spare)
  PROVE  Listed(name, p) = lent
<1>1. NULL \notin H
  BY DEF HealthyWith, Healthy, Sound
<1> QED
  BY <1>1, ChainUnique DEF HealthyWith, Chains

(* get_memory with a free slot: x is what it returns, q what it leaves. *)
Lends(name, p, q, x) ==
  /\ x \in Slot(name) \ ToSet(Listed(name, p))
  /\ Healthy(name, q)
  /\ Listed(name, q) = << x >> \o Listed(name, p)
  /\ ToSet(Listed(name, q)) = ToSet(Listed(name, p)) \cup {x}

LEMMA GetHealthy ==
  ASSUME NEW name \in PoolName, NEW p, Healthy(name, p),
         GetMemory(p, NULL).item # NULL
  PROVE  Lends(name, p, GetMemory(p, NULL).pool, GetMemory(p, NULL).item)
<1> DEFINE H == ToSet(Listed(name, p))
           S == Slot(name) \ H
           x == p.freeitems
           q == TakeFree(p)
           spare == FreeItems(p, MaxOf[name] + 1)
<1>1. /\ x # NULL
      /\ GetMemory(p, NULL).item = x /\ GetMemory(p, NULL).pool = q
  BY DEF GetMemory, HasMemory
<1>2. HealthyWith(name, p, H)
  BY HealthyIs
<1>3. Sound(Slot(name), p, H, S) /\ H \in SUBSET Slot(name)
  BY DEF Healthy, Sound
<1>4. Chains(p, H, S, Listed(name, p), spare)
  BY <1>2 DEF HealthyWith
<1> HIDE DEF H
<1>5. x \in S /\ Sound(Slot(name), q, H \cup {x}, S \ {x})
  BY <1>1, <1>3, TakeFreeSound
<1>6. S \ {x} = Slot(name) \ (H \cup {x})
  OBVIOUS
<1>7. \A i \in Slot(name) : ~ q.is_dynamic_memory[i]
  BY <1>3 DEF Healthy, TakeFree, Sound, Pools
<1>8. HealthyWith(name, q, H \cup {x})
  BY <1>5, <1>6, <1>7, SoundIsHealthy
<1>9. Chains(q, H \cup {x}, S \ {x}, << x >> \o Listed(name, p), Tail(spare))
  BY <1>1, <1>3, <1>4, TakeFreeWalks
<1>10. Listed(name, q) = << x >> \o Listed(name, p)
  BY <1>6, <1>8, <1>9, ListedIs
<1> QED
  BY <1>1, <1>5, <1>8, <1>10 DEF Lends, HealthyWith, H

LEMMA GetExhausted ==
  ASSUME NEW name \in PoolName, NEW p, Healthy(name, p),
         GetMemory(p, NULL).item = NULL
  PROVE  /\ ToSet(Listed(name, p)) = Slot(name)
         /\ GetMemory(p, NULL).pool = p
<1> DEFINE H == ToSet(Listed(name, p))
           S == Slot(name) \ H
<1>1. Sound(Slot(name), p, H, S)
  BY DEF Healthy
<1>2. p.freeitems = NULL /\ GetMemory(p, NULL).pool = p
  BY DEF GetMemory, HasMemory
<1>3. PICK rank \in [Slot(name) -> Nat], top \in Nat :
        Ranked(p.next, H \cup S, rank, top)
  BY <1>1 DEF Sound
<1> HIDE DEF H
<1>4. Ranked(p.next, S, rank, top)
  BY <1>3 DEF Ranked
<1>5. /\ H \in SUBSET Slot(name) /\ NULL \notin Slot(name)
      /\ p.next \in [Slot(name) -> Slot(name) \cup {NULL}]
      /\ p.prev \in [Slot(name) -> Slot(name) \cup {NULL}]
      /\ Threaded(p.next, p.prev, S, NULL)
  BY <1>1, <1>2 DEF Sound, Pools
<1>6. S = {}
  BY <1>3, <1>4, <1>5, NoHeadNoItem
<1> QED
  BY <1>2, <1>5, <1>6 DEF H

(* put_memory of the slot at position k of the allocated list. *)
TakesBack(name, p, q, k) ==
  /\ Healthy(name, q)
  /\ Listed(name, q) = RemoveAt(Listed(name, p), k)
  /\ ToSet(Listed(name, q)) = ToSet(Listed(name, p)) \ {Listed(name, p)[k]}

LEMMA PutHealthy ==
  ASSUME NEW name \in PoolName, NEW p, Healthy(name, p),
         NEW k \in DOMAIN Listed(name, p)
  PROVE  TakesBack(name, p, PutMemory(p, Listed(name, p)[k]), k)
<1> DEFINE w == Listed(name, p)
           x == w[k]
           H == ToSet(w)
           S == Slot(name) \ H
           m == UnlinkItem(p, x)
           q == PutMemory(p, x)
           spare == FreeItems(p, MaxOf[name] + 1)
<1>1. /\ Sound(Slot(name), p, H, S) /\ H \in SUBSET Slot(name)
      /\ x \in H
  BY DEF Healthy, Sound, ToSet
<1>2. Chains(p, H, S, w, spare)
  BY HealthyIs DEF HealthyWith
<1> HIDE DEF H, w
<1>3. ~ p.is_dynamic_memory[x] /\ q = PushFree(m, x)
  BY <1>1 DEF Healthy, PutMemory
<1>4. Sound(Slot(name), m, H \ {x}, S)
  BY <1>1, UnlinkItemSound
<1>5. Chains(m, H \ {x}, S, RemoveAt(w, k), spare)
  <2>1. k \in DOMAIN w
    BY DEF w
  <2> HIDE DEF S, m
  <2>2. Chains(UnlinkItem(p, w[k]), H \ {w[k]}, S, RemoveAt(w, k), spare)
    BY <1>1, <1>2, <2>1, UnlinkItemWalks
  <2> QED
    BY <2>2 DEF m
<1>6. x \in Slot(name) \ ((H \ {x}) \cup S)
  BY <1>1
<1>7. Sound(Slot(name), q, H \ {x}, S \cup {x})
  BY <1>3, <1>4, <1>6, PushFreeSound
<1>8. Chains(q, H \ {x}, S \cup {x}, RemoveAt(w, k), << x >> \o spare)
  BY <1>3, <1>4, <1>5, <1>6, PushFreeWalks
<1>9. S \cup {x} = Slot(name) \ (H \ {x})
  BY <1>1
<1>10. \A i \in Slot(name) : ~ q.is_dynamic_memory[i]
  <2>1. q.is_dynamic_memory = p.is_dynamic_memory
    BY <1>1, <1>3 DEF PushFree, UnlinkItem, Sound, Pools
  <2> QED
    BY <2>1 DEF Healthy
<1>11. HealthyWith(name, q, H \ {x})
  BY <1>7, <1>9, <1>10, SoundIsHealthy
<1>12. Listed(name, q) = RemoveAt(w, k)
  BY <1>8, <1>9, <1>11, ListedIs
<1> QED
  BY <1>11, <1>12 DEF TakesBack, HealthyWith, w, H

-----------------------------------------------------------------------------
(***************************************************************************)
(* The tables of the state, each over its own slots.                       *)
(***************************************************************************)
Tables(D, T) ==
  {f \in [D -> UNION {T[x] : x \in D}] : \A x \in D : f[x] \in T[x]}

LEMMA TableWrite ==
  ASSUME NEW D, NEW T, NEW f \in Tables(D, T), NEW x \in D, NEW v \in T[x]
  PROVE  /\ [f EXCEPT ![x] = v] \in Tables(D, T)
         /\ [f EXCEPT ![x] = v][x] = v
         /\ \A y \in D : y # x => [f EXCEPT ![x] = v][y] = f[y]
         /\ f[x] \in T[x]
BY DEF Tables

LEMMA TableMake ==
  ASSUME NEW D, NEW T, NEW f, f = [x \in D |-> f[x]],
         \A x \in D : f[x] \in T[x]
  PROVE  f \in Tables(D, T)
BY DEF Tables

PoolTables ==
  Tables(PoolName, [name \in PoolName |-> Pools(Slot(name))])
OwnerTables ==
  Tables(Kind, [kind \in Kind |-> [Slot(kind) -> Slot("node") \cup {NULL}]])
TopicTables ==
  Tables(Kind, [kind \in Kind |-> [Slot(kind) -> Slot("topic") \cup {NULL}]])
TopicOwners ==
  [Slot("topic") -> Slot("node") \cup {NULL}]
HandleTables ==
  Tables(PoolName, [name \in PoolName |->
                      [Slot(name) -> Slot(name) \cup {NULL, Dangling}]])
ObjectTables ==
  Tables(PoolName, [name \in PoolName |-> [Slot(name) -> Nat]])

States ==
  [pool : PoolTables, owner_node : OwnerTables, topic : TopicTables,
   topic_owner : TopicOwners, rmw_handle : HandleTables,
   objects : ObjectTables]

WithPool(s, name, p) == [s EXCEPT !.pool[name] = p]

LEMMA PoolWrite ==
  ASSUME NEW s \in States, NEW name \in PoolName, NEW p \in Pools(Slot(name))
  PROVE  /\ WithPool(s, name, p) \in States
         /\ WithPool(s, name, p).pool = [s.pool EXCEPT ![name] = p]
         /\ WithPool(s, name, p).owner_node = s.owner_node
         /\ WithPool(s, name, p).topic = s.topic
         /\ WithPool(s, name, p).topic_owner = s.topic_owner
         /\ WithPool(s, name, p).rmw_handle = s.rmw_handle
         /\ WithPool(s, name, p).objects = s.objects
<1>1. [s.pool EXCEPT ![name] = p] \in PoolTables
  <2>1. s.pool \in PoolTables
    BY DEF States
  <2> QED
    BY <2>1, TableWrite DEF PoolTables
<1> QED
  BY <1>1 DEF WithPool, States

-----------------------------------------------------------------------------
(***************************************************************************)
(* Get and Put as steps of the state: one pool changes and nothing else.   *)
(***************************************************************************)
AllHealthy(s) ==
  s \in States /\ \A name \in PoolName : Healthy(name, s.pool[name])

Used(s, name) == ToSet(Allocated(s, name))

SameFields(s, u) ==
  /\ u.owner_node = s.owner_node
  /\ u.topic = s.topic
  /\ u.topic_owner = s.topic_owner
  /\ u.rmw_handle = s.rmw_handle
  /\ u.objects = s.objects

PoolsBut(s, u, name) ==
  \A m \in PoolName : m # name => u.pool[m] = s.pool[m]

LEMMA UsedFacts ==
  ASSUME NEW s, AllHealthy(s), NEW name \in PoolName
  PROVE  /\ Used(s, name) \in SUBSET Slot(name)
         /\ ToSet(Free(s, name)) = Slot(name) \ Used(s, name)
         /\ Allocated(s, name) \in Seq(Slot(name))
<1>1. HealthyWith(name, s.pool[name], Used(s, name))
  BY HealthyIs DEF AllHealthy, Used, Allocated, Listed
<1>2. /\ Used(s, name) \in SUBSET Slot(name)
      /\ Allocated(s, name) \in Seq(Used(s, name))
  BY <1>1 DEF HealthyWith, Healthy, Sound, Chains, IsChain, Visits,
              Allocated, Listed
<1>3. ASSUME NEW A, NEW B, A \in SUBSET B, NEW q \in Seq(A)
      PROVE  q \in Seq(B)
  BY <1>3
<1> QED
  BY <1>1, <1>2, <1>3 DEF HealthyWith, Free

Got(s, u, name, x) ==
  /\ AllHealthy(u) /\ SameFields(s, u) /\ PoolsBut(s, u, name)
  /\ x \in Slot(name) \ Used(s, name)
  /\ Used(u, name) = Used(s, name) \cup {x}
  /\ Allocated(u, name) = << x >> \o Allocated(s, name)

LEMMA GetIs ==
  ASSUME NEW s, AllHealthy(s), NEW name \in PoolName, GetSlot(s, name) # NULL
  PROVE  Got(s, Get(s, name), name, GetSlot(s, name))
<1> DEFINE p == s.pool[name]
           q == GetMemory(p, NULL).pool
           u == WithPool(s, name, q)
<1>1. /\ s \in States /\ Healthy(name, p)
      /\ GetSlot(s, name) = GetMemory(p, NULL).item
      /\ s.pool \in PoolTables
  BY DEF AllHealthy, GetSlot, States
<1>2. Get(s, name) = u
  BY DEF Get, WithPool
<1>3. Lends(name, p, q, GetSlot(s, name))
  <2> HIDE DEF p
  <2> QED
    BY <1>1, GetHealthy
<1> HIDE DEF q
<1>4. q \in Pools(Slot(name))
  BY <1>3 DEF Lends, Healthy, Sound
<1>5. u \in States /\ u.pool = [s.pool EXCEPT ![name] = q] /\ SameFields(s, u)
  BY <1>1, <1>4, PoolWrite DEF SameFields
<1> HIDE DEF u
<1>6. u.pool[name] = q /\ PoolsBut(s, u, name)
  BY <1>1, <1>5 DEF PoolsBut, PoolTables, Tables
<1>7. AllHealthy(u)
  BY <1>3, <1>5, <1>6 DEF AllHealthy, PoolsBut, Lends
<1> QED
  BY <1>2, <1>3, <1>5, <1>6, <1>7
     DEF Got, Lends, Used, Allocated, Listed

LEMMA NoneLeft ==
  ASSUME NEW s, AllHealthy(s), NEW name \in PoolName, GetSlot(s, name) = NULL
  PROVE  Used(s, name) = Slot(name)
BY GetExhausted DEF AllHealthy, GetSlot, Used, Allocated, Listed

Gave(s, u, name, e) ==
  /\ AllHealthy(u) /\ SameFields(s, u) /\ PoolsBut(s, u, name)
  /\ Used(u, name) = Used(s, name) \ {e}
  /\ \A k \in DOMAIN Allocated(s, name) :
       Allocated(s, name)[k] = e =>
         Allocated(u, name) = RemoveAt(Allocated(s, name), k)

LEMMA PutIs ==
  ASSUME NEW s, AllHealthy(s), NEW name \in PoolName, NEW e \in Used(s, name)
  PROVE  Gave(s, Put(s, name, e), name, e)
<1> DEFINE p == s.pool[name]
           q == PutMemory(p, e)
           u == WithPool(s, name, q)
           w == Listed(name, p)
<1>1. /\ s \in States /\ Healthy(name, p) /\ s.pool \in PoolTables
      /\ Allocated(s, name) = w
  BY DEF AllHealthy, States, Allocated, Listed
<1>2. Put(s, name, e) = u
  BY DEF Put, WithPool
<1>3. \A k \in DOMAIN w : w[k] = e => TakesBack(name, p, q, k)
  <2> SUFFICES ASSUME NEW k \in DOMAIN w, w[k] = e
               PROVE  TakesBack(name, p, q, k)
    OBVIOUS
  <2>1. TakesBack(name, p, PutMemory(p, Listed(name, p)[k]), k)
    <3> HIDE DEF p
    <3> QED
      BY <1>1, PutHealthy DEF w
  <2> QED
    BY <2>1
<1>4. \E k \in DOMAIN w : w[k] = e
  BY <1>1 DEF Used, ToSet
<1> HIDE DEF q
<1>5. q \in Pools(Slot(name)) /\ Healthy(name, q)
  BY <1>3, <1>4 DEF TakesBack, Healthy, Sound
<1>6. u \in States /\ u.pool = [s.pool EXCEPT ![name] = q] /\ SameFields(s, u)
  BY <1>1, <1>5, PoolWrite DEF SameFields
<1> HIDE DEF u
<1>7. u.pool[name] = q /\ PoolsBut(s, u, name)
  BY <1>1, <1>6 DEF PoolsBut, PoolTables, Tables
<1>8. AllHealthy(u)
  BY <1>5, <1>6, <1>7 DEF AllHealthy, PoolsBut
<1>9. Allocated(u, name) = Listed(name, q)
  BY <1>7 DEF Allocated, Listed
<1>10. Used(u, name) = Used(s, name) \ {e}
  <2> HIDE DEF w
  <2> QED
    BY <1>1, <1>3, <1>4, <1>9 DEF TakesBack, Used, w
<1>11. \A k \in DOMAIN w : w[k] = e => Allocated(u, name) = RemoveAt(w, k)
  BY <1>3, <1>9 DEF TakesBack
<1> QED
  BY <1>1, <1>2, <1>6, <1>7, <1>8, <1>10, <1>11 DEF Gave

(* A slot that is taken and put at once leaves the list as it was. *)
LEMMA GetPut ==
  ASSUME NEW s, AllHealthy(s), NEW u, NEW v, NEW name \in PoolName, NEW x,
         NEW m, Allocated(m, name) = Allocated(u, name),
         Got(s, u, name, x), Gave(m, v, name, x)
  PROVE  Allocated(v, name) = Allocated(s, name)
<1> DEFINE w == Allocated(s, name)
           B == Slot(name)
<1>1. w \in Seq(B) /\ x \in B
  BY UsedFacts DEF Got
<1>2. Allocated(m, name) = << x >> \o w
  BY DEF Got
<1> HIDE DEF w, B
<1>3. /\ << x >> \o w \in Seq(B) /\ << x >> \o w # << >>
      /\ (<< x >> \o w)[1] = x /\ Tail(<< x >> \o w) = w
  BY <1>1
<1>4. 1 \in DOMAIN (<< x >> \o w) /\ RemoveAt(<< x >> \o w, 1) = w
  BY <1>3, TailRemoves
<1> QED
  BY <1>2, <1>3, <1>4 DEF Gave, w

-----------------------------------------------------------------------------
(***************************************************************************)
(* The other pieces of the handlers, each with all that it changes.        *)
(***************************************************************************)
Dangle(h, name, e) ==
  [f \in Slot(name) |-> IF h[f] = e THEN Dangling ELSE h[f]]

Retire(h, name, e) ==
  [f \in Slot(name) |-> IF f = e THEN NULL
                        ELSE IF h[f] = e THEN Dangling ELSE h[f]]

PointAt(h, kind, e, reused) ==
  [f \in Slot(kind) |-> IF f = e \/ f \in reused THEN e ELSE h[f]]

(* The handles of one pool are h now, and nothing else changed. *)
Rehandled(s, u, name, h) ==
  /\ AllHealthy(u)
  /\ u.pool = s.pool
  /\ u.owner_node = s.owner_node
  /\ u.topic = s.topic
  /\ u.topic_owner = s.topic_owner
  /\ u.rmw_handle = [s.rmw_handle EXCEPT ![name] = h]
  /\ u.objects = s.objects

LEMMA HandleWrite ==
  ASSUME NEW s, AllHealthy(s), NEW name \in PoolName,
         NEW h \in [Slot(name) -> Slot(name) \cup {NULL, Dangling}]
  PROVE  Rehandled(s, [s EXCEPT !.rmw_handle[name] = h], name, h)
<1>1. s \in States /\ s.rmw_handle \in HandleTables
  BY DEF AllHealthy, States
<1>2. [s.rmw_handle EXCEPT ![name] = h] \in HandleTables
  BY <1>1, TableWrite DEF HandleTables
<1>3. [s EXCEPT !.rmw_handle[name] = h]
        = [s EXCEPT !.rmw_handle = [s.rmw_handle EXCEPT ![name] = h]]
  OBVIOUS
<1> QED
  BY <1>1, <1>2, <1>3 DEF Rehandled, AllHealthy, States

LEMMA HandleType ==
  ASSUME NEW s, AllHealthy(s), NEW name \in PoolName
  PROVE  /\ s.rmw_handle[name] \in
              [Slot(name) -> Slot(name) \cup {NULL, Dangling}]
         /\ s.objects[name] \in [Slot(name) -> Nat]
BY DEF AllHealthy, States, HandleTables, ObjectTables, Tables

LEMMA FreeObjectIs ==
  ASSUME NEW s, AllHealthy(s), NEW name \in PoolName, NEW e \in Slot(name)
  PROVE  Rehandled(s, FreeObject(s, name, e), name,
                   Dangle(s.rmw_handle[name], name, e))
<1>1. Dangle(s.rmw_handle[name], name, e)
        \in [Slot(name) -> Slot(name) \cup {NULL, Dangling}]
  BY HandleType DEF Dangle
<1>2. FreeObject(s, name, e)
        = [s EXCEPT !.rmw_handle[name] = Dangle(s.rmw_handle[name], name, e)]
  BY DEF FreeObject, Dangle
<1> QED
  BY <1>1, <1>2, HandleWrite

Finished(s, u, name, e) ==
  /\ AllHealthy(u) /\ PoolsBut(s, u, name)
  /\ Used(u, name) = Used(s, name) \ {e}
  /\ \A k \in DOMAIN Allocated(s, name) :
       Allocated(s, name)[k] = e =>
         Allocated(u, name) = RemoveAt(Allocated(s, name), k)
  /\ u.owner_node = s.owner_node
  /\ u.topic = s.topic
  /\ u.topic_owner = s.topic_owner
  /\ u.rmw_handle =
       [s.rmw_handle EXCEPT ![name] = Retire(s.rmw_handle[name], name, e)]
  /\ u.objects = s.objects

LEMMA FiniMemoryIs ==
  ASSUME NEW s, AllHealthy(s), NEW name \in PoolName, NEW e \in Used(s, name)
  PROVE  Finished(s, FiniMemory(s, name, e), name, e)
<1> DEFINE h  == s.rmw_handle[name]
           h1 == [h EXCEPT ![e] = NULL]
           s1 == [s EXCEPT !.rmw_handle[name][e] = NULL]
           s2 == FreeObject(s1, name, e)
           u  == Put(s2, name, e)
<1>1. /\ e \in Slot(name) /\ e # NULL
      /\ h \in [Slot(name) -> Slot(name) \cup {NULL, Dangling}]
      /\ s \in States /\ s.rmw_handle \in HandleTables
  BY UsedFacts, HandleType, SlotFacts DEF AllHealthy, States
<1>2. Rehandled(s, s1, name, h1)
  <2>1. h1 \in [Slot(name) -> Slot(name) \cup {NULL, Dangling}]
    BY <1>1
  <2>2. s1 = [s EXCEPT !.rmw_handle[name] = h1]
    OBVIOUS
  <2> HIDE DEF h1, s1
  <2> QED
    BY <2>1, <2>2, HandleWrite
<1>3. /\ s1.rmw_handle[name] = h1
      /\ AllHealthy(s1) /\ s1.pool = s.pool
      /\ s1.rmw_handle = [s.rmw_handle EXCEPT ![name] = h1]
  BY <1>1, <1>2 DEF Rehandled, HandleTables, Tables
<1> HIDE DEF s1
<1>4. Rehandled(s1, s2, name, Dangle(h1, name, e))
  BY <1>1, <1>3, FreeObjectIs
<1>5. Dangle(h1, name, e) = Retire(h, name, e)
  BY <1>1 DEF Dangle, Retire
<1>6. s2.rmw_handle = [s.rmw_handle EXCEPT ![name] = Retire(h, name, e)]
  BY <1>1, <1>3, <1>4, <1>5 DEF Rehandled, HandleTables, Tables
<1>7. /\ AllHealthy(s2) /\ s2.pool = s.pool
      /\ e \in Used(s2, name)
      /\ Allocated(s2, name) = Allocated(s, name)
      /\ Used(s2, name) = Used(s, name)
      /\ s2.owner_node = s.owner_node /\ s2.topic = s.topic
      /\ s2.topic_owner = s.topic_owner /\ s2.objects = s.objects
  BY <1>2, <1>3, <1>4 DEF Rehandled, Used, Allocated
<1> HIDE DEF s2
<1>8. Gave(s2, u, name, e)
  BY <1>7, PutIs
<1>9. FiniMemory(s, name, e) = u
  BY DEF FiniMemory, s1, s2
<1> HIDE DEF u
<1> QED
  BY <1>6, <1>7, <1>8, <1>9 DEF Finished, Gave, SameFields, PoolsBut

(* A topic's slot is put: its owner is cleared. *)
TopicGone(s, u, t) ==
  /\ AllHealthy(u) /\ PoolsBut(s, u, "topic")
  /\ Used(u, "topic") = Used(s, "topic") \ {t}
  /\ u.owner_node = s.owner_node
  /\ u.topic = s.topic
  /\ u.topic_owner = [s.topic_owner EXCEPT ![t] = NULL]
  /\ u.rmw_handle = s.rmw_handle
  /\ u.objects = s.objects

LEMMA TopicOwnerWrite ==
  ASSUME NEW s, AllHealthy(s), NEW t \in Slot("topic"),
         NEW n \in Slot("node") \cup {NULL}
  PROVE  LET u == [s EXCEPT !.topic_owner[t] = n]
         IN  /\ AllHealthy(u)
             /\ u.pool = s.pool
             /\ u.owner_node = s.owner_node
             /\ u.topic = s.topic
             /\ u.topic_owner = [s.topic_owner EXCEPT ![t] = n]
             /\ u.rmw_handle = s.rmw_handle
             /\ u.objects = s.objects
<1>1. s \in States /\ s.topic_owner \in TopicOwners
  BY DEF AllHealthy, States
<1>2. [s.topic_owner EXCEPT ![t] = n] \in TopicOwners
  BY <1>1 DEF TopicOwners
<1>3. [s EXCEPT !.topic_owner[t] = n]
        = [s EXCEPT !.topic_owner = [s.topic_owner EXCEPT ![t] = n]]
  OBVIOUS
<1> QED
  BY <1>1, <1>2, <1>3 DEF AllHealthy, States

LEMMA FiniTopicMemoryIs ==
  ASSUME NEW s, AllHealthy(s), NEW t \in Used(s, "topic")
  PROVE  TopicGone(s, FiniTopicMemory(s, t), t)
<1> DEFINE s1 == Put(s, "topic", t)
           u  == [s1 EXCEPT !.topic_owner[t] = NULL]
<1>1. "topic" \in PoolName
  BY DEF PoolName
<1>2. Gave(s, s1, "topic", t) /\ t \in Slot("topic")
  BY <1>1, PutIs, UsedFacts
<1>3. FiniTopicMemory(s, t) = u
  BY DEF FiniTopicMemory
<1> HIDE DEF s1
<1>4. /\ AllHealthy(u)
      /\ u.pool = s1.pool
      /\ u.owner_node = s1.owner_node
      /\ u.topic = s1.topic
      /\ u.topic_owner = [s1.topic_owner EXCEPT ![t] = NULL]
      /\ u.rmw_handle = s1.rmw_handle
      /\ u.objects = s1.objects
  BY <1>2, TopicOwnerWrite DEF Gave
<1> HIDE DEF u
<1> QED
  BY <1>2, <1>3, <1>4
     DEF TopicGone, Gave, SameFields, PoolsBut, Used, Allocated

(***************************************************************************)
(* A topic's slot that has an owner is an allocated one: what create_topic *)
(* and destroy_topic rely on.                                              *)
(***************************************************************************)
TopicsHeld(s) ==
  \A t \in Slot("topic") : s.topic_owner[t] # NULL => t \in Used(s, "topic")

TopicMade(s, u, t, n) ==
  /\ AllHealthy(u) /\ PoolsBut(s, u, "topic")
  /\ t \in Slot("topic") \ Used(s, "topic")
  /\ Used(u, "topic") = Used(s, "topic") \cup {t}
  /\ u.owner_node = s.owner_node
  /\ u.topic = s.topic
  /\ u.topic_owner = [s.topic_owner EXCEPT ![t] = n]
  /\ u.rmw_handle = s.rmw_handle
  /\ u.objects = s.objects

TopicRefused(s, u) ==
  /\ AllHealthy(u) /\ PoolsBut(s, u, "topic")
  /\ Used(u, "topic") = Used(s, "topic")
  /\ u.owner_node = s.owner_node
  /\ u.topic = s.topic
  /\ u.topic_owner = s.topic_owner
  /\ u.rmw_handle = s.rmw_handle
  /\ u.objects = s.objects

LEMMA CreateTopicIs ==
  ASSUME NEW s, AllHealthy(s), TopicsHeld(s), NEW n \in Slot("node"), NEW fail
  PROVE  LET made == CreateTopic(s, n, fail)
         IN  \/ /\ made.topic # NULL
                /\ TopicMade(s, made.s, made.topic, n)
             \/ /\ made.topic = NULL
                /\ TopicRefused(s, made.s)
                /\ fail = "topic" \/ Used(s, "topic") = Slot("topic")
<1> DEFINE made  == CreateTopic(s, n, fail)
           t     == GetSlot(s, "topic")
           s1    == Get(s, "topic")
           owned == [s1 EXCEPT !.topic_owner[t] = n]
<1>1. "topic" \in PoolName
  BY DEF PoolName
<1>2. CASE t = NULL
  <2>1. made = [topic |-> NULL, s |-> s]
    BY <1>2 DEF CreateTopic
  <2>2. TopicRefused(s, s)
    BY DEF TopicRefused, PoolsBut
  <2>3. Used(s, "topic") = Slot("topic")
    BY <1>1, <1>2, NoneLeft
  <2> QED
    BY <2>1, <2>2, <2>3
<1>3. CASE t # NULL
  <2>1. Got(s, s1, "topic", t) /\ t \in Slot("topic")
    BY <1>1, <1>3, GetIs DEF Got
  <2>2. made = IF fail = "topic"
               THEN [topic |-> NULL, s |-> FiniTopicMemory(owned, t)]
               ELSE [topic |-> t, s |-> owned]
    BY <1>3 DEF CreateTopic
  <2> HIDE DEF s1, t, made
  <2>3. /\ AllHealthy(owned)
        /\ owned.pool = s1.pool
        /\ owned.owner_node = s1.owner_node
        /\ owned.topic = s1.topic
        /\ owned.topic_owner = [s1.topic_owner EXCEPT ![t] = n]
        /\ owned.rmw_handle = s1.rmw_handle
        /\ owned.objects = s1.objects
    BY <2>1, TopicOwnerWrite DEF Got
  <2> HIDE DEF owned
  <2>4. TopicMade(s, owned, t, n)
    BY <2>1, <2>3
       DEF TopicMade, Got, SameFields, PoolsBut, Used, Allocated
  <2>5. CASE fail = "topic"
    <3> DEFINE u == FiniTopicMemory(owned, t)
    <3>1. t \in Used(owned, "topic")
      BY <2>4 DEF TopicMade
    <3>2. TopicGone(owned, u, t)
      BY <2>3, <3>1, FiniTopicMemoryIs
    <3> HIDE DEF u
    <3>3. u.topic_owner = s.topic_owner
      <4>1. s.topic_owner \in TopicOwners /\ s.topic_owner[t] = NULL
        BY <2>4 DEF TopicsHeld, TopicMade, AllHealthy, States
      <4>2. u.topic_owner
              = [[s.topic_owner EXCEPT ![t] = n] EXCEPT ![t] = NULL]
        BY <2>4, <3>2 DEF TopicMade, TopicGone
      <4> QED
        BY <4>1, <4>2 DEF TopicOwners
    <3>4. Used(u, "topic") = Used(s, "topic")
      BY <2>4, <3>2 DEF TopicMade, TopicGone
    <3>5. TopicRefused(s, u)
      BY <2>4, <3>2, <3>3, <3>4
         DEF TopicRefused, TopicMade, TopicGone, PoolsBut
    <3> QED
      BY <2>2, <2>5, <3>5 DEF made, u
  <2>6. CASE fail # "topic"
    BY <1>3, <2>2, <2>4, <2>6 DEF made, t
  <2> QED
    BY <2>5, <2>6
<1> QED
  BY <1>2, <1>3

(* get_memory of an entity and the first writes into its slot. *)
Begun(s, u, kind, n, e, reused) ==
  /\ AllHealthy(u) /\ PoolsBut(s, u, kind)
  /\ e \in Slot(kind) \ Used(s, kind)
  /\ Used(u, kind) = Used(s, kind) \cup {e}
  /\ Allocated(u, kind) = << e >> \o Allocated(s, kind)
  /\ u.owner_node =
       [s.owner_node EXCEPT ![kind] = [s.owner_node[kind] EXCEPT ![e] = n]]
  /\ u.topic = s.topic
  /\ u.topic_owner = s.topic_owner
  /\ u.rmw_handle =
       [s.rmw_handle EXCEPT ![kind] =
          PointAt(s.rmw_handle[kind], kind, e, reused)]
  /\ u.objects = s.objects

LEMMA OwnerWrite ==
  ASSUME NEW s, AllHealthy(s), NEW kind \in Kind, NEW e \in Slot(kind),
         NEW n \in Slot("node")
  PROVE  LET u == [s EXCEPT !.owner_node[kind][e] = n]
         IN  /\ AllHealthy(u)
             /\ u.pool = s.pool
             /\ u.owner_node =
                  [s.owner_node EXCEPT
                     ![kind] = [s.owner_node[kind] EXCEPT ![e] = n]]
             /\ u.topic = s.topic
             /\ u.topic_owner = s.topic_owner
             /\ u.rmw_handle = s.rmw_handle
             /\ u.objects = s.objects
<1> DEFINE o == [s.owner_node[kind] EXCEPT ![e] = n]
<1>1. s \in States /\ s.owner_node \in OwnerTables
  BY DEF AllHealthy, States
<1>2. o \in [Slot(kind) -> Slot("node") \cup {NULL}]
  BY <1>1 DEF OwnerTables, Tables
<1>3. [s EXCEPT !.owner_node[kind][e] = n]
        = [s EXCEPT !.owner_node = [s.owner_node EXCEPT ![kind] = o]]
  OBVIOUS
<1> HIDE DEF o
<1>4. [s.owner_node EXCEPT ![kind] = o] \in OwnerTables
  BY <1>1, <1>2, TableWrite DEF OwnerTables
<1>5. QED
  BY <1>1, <1>3, <1>4 DEF AllHealthy, States, o

LEMMA NewEntityIs ==
  ASSUME NEW s, AllHealthy(s), NEW kind \in Kind, NEW n \in Slot("node"),
         GetSlot(s, kind) # NULL, NEW reused
  PROVE  Begun(s, NewEntity(s, kind, n, reused), kind, n, GetSlot(s, kind),
               reused)
<1> DEFINE e  == GetSlot(s, kind)
           s1 == Get(s, kind)
           h  == PointAt(s1.rmw_handle[kind], kind, e, reused)
           s2 == [s1 EXCEPT !.rmw_handle[kind] = h]
           u  == [s2 EXCEPT !.owner_node[kind][e] = n]
<1>1. kind \in PoolName
  BY DEF PoolName
<1>2. Got(s, s1, kind, e) /\ e \in Slot(kind)
  BY <1>1, GetIs DEF Got
<1>3. NewEntity(s, kind, n, reused) = u
  BY DEF NewEntity, PointAt
<1> HIDE DEF s1, e
<1>4. h \in [Slot(kind) -> Slot(kind) \cup {NULL, Dangling}]
  BY <1>1, <1>2, HandleType DEF PointAt, Got
<1> HIDE DEF h
<1>5. Rehandled(s1, s2, kind, h)
  BY <1>1, <1>2, <1>4, HandleWrite DEF Got
<1> HIDE DEF s2
<1>6. /\ AllHealthy(u)
      /\ u.pool = s2.pool
      /\ u.owner_node =
           [s2.owner_node EXCEPT
              ![kind] = [s2.owner_node[kind] EXCEPT ![e] = n]]
      /\ u.topic = s2.topic
      /\ u.topic_owner = s2.topic_owner
      /\ u.rmw_handle = s2.rmw_handle
      /\ u.objects = s2.objects
  BY <1>2, <1>5, OwnerWrite DEF Rehandled
<1> HIDE DEF u
<1>7. Begun(s, u, kind, n, e, reused)
  BY <1>2, <1>5, <1>6
     DEF Begun, Got, Rehandled, SameFields, PoolsBut, Used, Allocated, h
<1> QED
  BY <1>3, <1>7 DEF e

-----------------------------------------------------------------------------
(***************************************************************************)
(* What a destruction changes.                                             *)
(***************************************************************************)
WithTopics == {"publisher", "subscription"}

(* The topic that goes with the entity. *)
TopicGoing(s, kind, e) ==
  IF kind \in WithTopics
  THEN {t \in {s.topic[kind][e]} : s.topic_owner[t] # NULL}
  ELSE {}

Destroyed(s, u, kind, e) ==
  /\ AllHealthy(u)
  /\ \A m \in PoolName : m \notin {kind, "topic"} => u.pool[m] = s.pool[m]
  /\ Used(u, kind) = Used(s, kind) \ {e}
  /\ \A k \in DOMAIN Allocated(s, kind) :
       Allocated(s, kind)[k] = e =>
         Allocated(u, kind) = RemoveAt(Allocated(s, kind), k)
  /\ u.owner_node = s.owner_node
  /\ u.topic = s.topic
  /\ Used(u, "topic") = Used(s, "topic") \ TopicGoing(s, kind, e)
  /\ u.topic_owner =
       [t \in Slot("topic") |->
          IF t \in TopicGoing(s, kind, e) THEN NULL ELSE s.topic_owner[t]]
  /\ u.rmw_handle =
       [s.rmw_handle EXCEPT ![kind] = Retire(s.rmw_handle[kind], kind, e)]
  /\ u.objects =
       [s.objects EXCEPT
          ![kind] = [s.objects[kind] EXCEPT ![e] = s.objects[kind][e] - 1]]

LEMMA ObjectsWrite ==
  ASSUME NEW s, AllHealthy(s), NEW name \in PoolName, NEW e \in Slot(name),
         NEW k \in Nat
  PROVE  LET u == [s EXCEPT !.objects[name][e] = k]
         IN  /\ AllHealthy(u)
             /\ u.pool = s.pool
             /\ u.owner_node = s.owner_node
             /\ u.topic = s.topic
             /\ u.topic_owner = s.topic_owner
             /\ u.rmw_handle = s.rmw_handle
             /\ u.objects = [s.objects EXCEPT
                               ![name] = [s.objects[name] EXCEPT ![e] = k]]
<1> DEFINE o == [s.objects[name] EXCEPT ![e] = k]
<1>1. s \in States /\ s.objects \in ObjectTables
  BY DEF AllHealthy, States
<1>2. o \in [Slot(name) -> Nat]
  BY HandleType
<1>3. [s EXCEPT !.objects[name][e] = k]
        = [s EXCEPT !.objects = [s.objects EXCEPT ![name] = o]]
  OBVIOUS
<1> HIDE DEF o
<1>4. [s.objects EXCEPT ![name] = o] \in ObjectTables
  BY <1>1, <1>2, TableWrite DEF ObjectTables
<1> QED
  BY <1>1, <1>3, <1>4 DEF AllHealthy, States, o

LEMMA DestroyTopicIs ==
  ASSUME NEW s, AllHealthy(s), TopicsHeld(s), NEW t \in Slot("topic")
  PROVE  \/ s.topic_owner[t] = NULL /\ DestroyTopic(s, t) = s
         \/ s.topic_owner[t] # NULL /\ TopicGone(s, DestroyTopic(s, t), t)
<1>1. CASE s.topic_owner[t] = NULL
  BY <1>1 DEF DestroyTopic
<1>2. CASE s.topic_owner[t] # NULL
  <2>1. t \in Used(s, "topic")
    BY <1>2 DEF TopicsHeld
  <2> QED
    BY <1>2, <2>1, FiniTopicMemoryIs DEF DestroyTopic
<1> QED
  BY <1>1, <1>2

LEMMA DestroyEntityIs ==
  ASSUME NEW s, AllHealthy(s), TopicsHeld(s), NEW kind \in Kind,
         NEW e \in Used(s, kind), s.objects[kind][e] # 0,
         kind \in WithTopics => s.topic[kind][e] \in Slot("topic")
  PROVE  Destroyed(s, DestroyEntity(s, kind, e), kind, e)
<1> DEFINE t  == s.topic[kind][e]
           s1 == IF kind \in {"publisher", "subscription"}
                 THEN DestroyTopic(s, t) ELSE s
           s2 == FiniMemory(s1, kind, e)
           k  == s2.objects[kind][e] - 1
           u  == [s2 EXCEPT !.objects[kind][e] = k]
           T  == TopicGoing(s, kind, e)
<1>1. kind \in PoolName /\ kind # "topic" /\ e \in Slot(kind)
  BY UsedFacts DEF PoolName, Kind
<1>2. DestroyEntity(s, kind, e) = u
  BY DEF DestroyEntity
<1>3. s.topic_owner \in TopicOwners
  BY DEF AllHealthy, States
<1>4. /\ AllHealthy(s1) /\ PoolsBut(s, s1, "topic")
      /\ Used(s1, "topic") = Used(s, "topic") \ T
      /\ s1.owner_node = s.owner_node
      /\ s1.topic = s.topic
      /\ s1.topic_owner =
           [y \in Slot("topic") |-> IF y \in T THEN NULL ELSE s.topic_owner[y]]
      /\ s1.rmw_handle = s.rmw_handle
      /\ s1.objects = s.objects
  <2>1. CASE kind \in WithTopics /\ s.topic_owner[t] # NULL
    <3>1. T = {t} /\ t \in Slot("topic")
      BY <2>1 DEF TopicGoing
    <3>2. s1 = DestroyTopic(s, t)
      BY <2>1 DEF WithTopics
    <3> HIDE DEF T, t, s1
    <3>3. TopicGone(s, s1, t)
      BY <2>1, <3>1, <3>2, DestroyTopicIs DEF t
    <3>4. [s.topic_owner EXCEPT ![t] = NULL] =
           [y \in Slot("topic") |-> IF y \in T THEN NULL ELSE s.topic_owner[y]]
      BY <1>3, <3>1 DEF TopicOwners
    <3> QED
      BY <3>1, <3>3, <3>4 DEF TopicGone
  <2>2. CASE ~ (kind \in WithTopics /\ s.topic_owner[t] # NULL)
    <3>1. T = {}
      BY <2>2 DEF TopicGoing
    <3>2. s1 = s
      BY <2>2, DestroyTopicIs DEF WithTopics
    <3>3. s.topic_owner =
           [y \in Slot("topic") |-> IF y \in T THEN NULL ELSE s.topic_owner[y]]
      BY <1>3, <3>1 DEF TopicOwners
    <3> QED
      BY <3>1, <3>2, <3>3 DEF PoolsBut
  <2> QED
    BY <2>1, <2>2
<1> HIDE DEF s1, T
<1>5. /\ Allocated(s1, kind) = Allocated(s, kind)
      /\ Used(s1, kind) = Used(s, kind)
  BY <1>1, <1>4 DEF PoolsBut, Used, Allocated
<1>6. Finished(s1, s2, kind, e)
  BY <1>1, <1>4, <1>5, FiniMemoryIs
<1> HIDE DEF s2
<1>7. s2.objects = s.objects /\ k = s.objects[kind][e] - 1 /\ k \in Nat
  <2>1. s.objects[kind][e] \in Nat
    BY <1>1, HandleType
  <2>2. s2.objects = s.objects
    BY <1>4, <1>6 DEF Finished
  <2> QED
    BY <2>1, <2>2
<1> HIDE DEF k
<1>8. /\ AllHealthy(u)
      /\ u.pool = s2.pool
      /\ u.owner_node = s2.owner_node
      /\ u.topic = s2.topic
      /\ u.topic_owner = s2.topic_owner
      /\ u.rmw_handle = s2.rmw_handle
      /\ u.objects = [s2.objects EXCEPT
                        ![kind] = [s2.objects[kind] EXCEPT ![e] = k]]
  BY <1>1, <1>6, <1>7, ObjectsWrite DEF Finished
<1> HIDE DEF u
<1>9. Used(u, "topic") = Used(s1, "topic")
  BY <1>1, <1>6, <1>8 DEF Finished, PoolsBut, Used, Allocated, PoolName
<1>10. /\ Used(u, kind) = Used(s2, kind)
       /\ Allocated(u, kind) = Allocated(s2, kind)
  BY <1>8 DEF Used, Allocated
<1>11. \A m \in PoolName : m \notin {kind, "topic"} => u.pool[m] = s.pool[m]
  BY <1>4, <1>6, <1>8 DEF Finished, PoolsBut
<1> QED
  BY <1>2, <1>4, <1>5, <1>6, <1>7, <1>8, <1>9, <1>10, <1>11
     DEF Destroyed, Finished, T

(* The end of rmw_destroy_node. *)
NodeGone(s, u, n) ==
  /\ AllHealthy(u) /\ PoolsBut(s, u, "node")
  /\ Used(u, "node") = Used(s, "node") \ {n}
  /\ u.owner_node = s.owner_node
  /\ u.topic = s.topic
  /\ u.topic_owner = s.topic_owner
  /\ u.rmw_handle =
       [s.rmw_handle EXCEPT
          !["node"] = Retire(s.rmw_handle["node"], "node", n)]
  /\ u.objects =
       [s.objects EXCEPT
          !["node"] = [s.objects["node"] EXCEPT
                         ![n] = s.objects["node"][n] - 1]]

LEMMA FiniNodeIs ==
  ASSUME NEW s, AllHealthy(s), NEW n \in Used(s, "node"),
         s.objects["node"][n] # 0
  PROVE  NodeGone(s, FiniNode(s, n), n)
<1> DEFINE s2 == FiniMemory(s, "node", n)
           k  == s2.objects["node"][n] - 1
           u  == [s2 EXCEPT !.objects["node"][n] = k]
<1>1. "node" \in PoolName /\ n \in Slot("node")
  BY UsedFacts DEF PoolName
<1>2. FiniNode(s, n) = u
  BY DEF FiniNode
<1>3. Finished(s, s2, "node", n)
  BY <1>1, FiniMemoryIs
<1> HIDE DEF s2
<1>4. s2.objects = s.objects /\ k = s.objects["node"][n] - 1 /\ k \in Nat
  <2>1. s.objects["node"][n] \in Nat
    BY <1>1, HandleType
  <2>2. s2.objects = s.objects
    BY <1>3 DEF Finished
  <2> QED
    BY <2>1, <2>2
<1> HIDE DEF k
<1>5. /\ AllHealthy(u)
      /\ u.pool = s2.pool
      /\ u.owner_node = s2.owner_node
      /\ u.topic = s2.topic
      /\ u.topic_owner = s2.topic_owner
      /\ u.rmw_handle = s2.rmw_handle
      /\ u.objects = [s2.objects EXCEPT
                        !["node"] = [s2.objects["node"] EXCEPT ![n] = k]]
  BY <1>1, <1>3, <1>4, ObjectsWrite DEF Finished
<1> HIDE DEF u
<1> QED
  BY <1>2, <1>3, <1>4, <1>5
     DEF NodeGone, Finished, PoolsBut, Used, Allocated

-----------------------------------------------------------------------------
(***************************************************************************)
(* What a creation changes when it succeeds and when it fails.             *)
(***************************************************************************)
NodeMade(s, u, n) ==
  /\ AllHealthy(u) /\ PoolsBut(s, u, "node")
  /\ n \in Slot("node") \ Used(s, "node")
  /\ Used(u, "node") = Used(s, "node") \cup {n}
  /\ u.owner_node = s.owner_node
  /\ u.topic = s.topic
  /\ u.topic_owner = s.topic_owner
  /\ u.rmw_handle =
       [s.rmw_handle EXCEPT
          !["node"] = [s.rmw_handle["node"] EXCEPT ![n] = n]]
  /\ u.objects =
       [s.objects EXCEPT
          !["node"] = [s.objects["node"] EXCEPT
                         ![n] = s.objects["node"][n] + 1]]

NodeRefused(s, u, n) ==
  /\ AllHealthy(u) /\ PoolsBut(s, u, "node")
  /\ n \in Slot("node") \ Used(s, "node")
  /\ Used(u, "node") = Used(s, "node")
  /\ u.owner_node = s.owner_node
  /\ u.topic = s.topic
  /\ u.topic_owner = s.topic_owner
  /\ u.rmw_handle =
       [s.rmw_handle EXCEPT
          !["node"] = Retire(s.rmw_handle["node"], "node", n)]
  /\ u.objects = s.objects

LEMMA CreateNodeIs ==
  ASSUME NEW s, AllHealthy(s), NEW fail
  PROVE  LET u == CreateNode(s, fail)
         IN  \/ u = s
             \/ \E n : NodeMade(s, u, n)
             \/ \E n : NodeRefused(s, u, n)
<1> DEFINE n  == GetSlot(s, "node")
           s0 == Get(s, "node")
           h  == [s0.rmw_handle["node"] EXCEPT ![n] = n]
           s1 == [s0 EXCEPT !.rmw_handle["node"][n] = n]
           u  == CreateNode(s, fail)
<1>1. "node" \in PoolName
  BY DEF PoolName
<1>2. CASE n = NULL
  BY <1>2 DEF CreateNode
<1>3. CASE n # NULL
  <2>1. Got(s, s0, "node", n) /\ n \in Slot("node")
    BY <1>1, <1>3, GetIs DEF Got
  <2>2. u = IF fail = "participant" THEN FiniMemory(s1, "node", n)
                                    ELSE GiveObject(s1, "node", n)
    BY <1>3 DEF CreateNode
  <2>3. s1 = [s0 EXCEPT !.rmw_handle["node"] = h]
    OBVIOUS
  <2> HIDE DEF n, s0, s1, u
  <2>4. Rehandled(s0, s1, "node", h)
    <3>1. h \in [Slot("node") -> Slot("node") \cup {NULL, Dangling}]
      BY <1>1, <2>1, HandleType DEF Got
    <3> HIDE DEF h
    <3> QED
      BY <1>1, <2>1, <2>3, <3>1, HandleWrite DEF Got
  <2>5. /\ AllHealthy(s1) /\ PoolsBut(s, s1, "node")
        /\ Used(s1, "node") = Used(s, "node") \cup {n}
        /\ s1.owner_node = s.owner_node
        /\ s1.topic = s.topic
        /\ s1.topic_owner = s.topic_owner
        /\ s1.rmw_handle =
             [s.rmw_handle EXCEPT
                !["node"] = [s.rmw_handle["node"] EXCEPT ![n] = n]]
        /\ s1.objects = s.objects
    BY <2>1, <2>4
       DEF Got, Rehandled, SameFields, PoolsBut, Used, Allocated
  <2>6. CASE fail = "participant"
    <3>1. u = FiniMemory(s1, "node", n)
      BY <2>2, <2>6
    <3>2. Finished(s1, u, "node", n)
      BY <1>1, <2>5, <3>1, FiniMemoryIs
    <3>3. /\ s.rmw_handle \in HandleTables
          /\ s.rmw_handle["node"] \in
               [Slot("node") -> Slot("node") \cup {NULL, Dangling}]
      BY <1>1, HandleType DEF AllHealthy, States
    <3>4. s1.rmw_handle["node"] = [s.rmw_handle["node"] EXCEPT ![n] = n]
      BY <1>1, <2>5, <3>3 DEF HandleTables, Tables
    <3>5. Retire(s1.rmw_handle["node"], "node", n)
            = Retire(s.rmw_handle["node"], "node", n)
      BY <3>3, <3>4 DEF Retire
    <3>6. u.rmw_handle = [s.rmw_handle EXCEPT
                !["node"] = Retire(s.rmw_handle["node"], "node", n)]
      <4>1. u.rmw_handle = [s1.rmw_handle EXCEPT
                !["node"] = Retire(s.rmw_handle["node"], "node", n)]
        BY <3>2, <3>5 DEF Finished
      <4> QED
        BY <2>5, <3>3, <4>1 DEF HandleTables, Tables
    <3>7. Used(u, "node") = Used(s, "node")
      BY <2>1, <2>5, <3>2 DEF Finished, Got
    <3>8. NodeRefused(s, u, n)
      BY <2>1, <2>5, <3>2, <3>6, <3>7
         DEF NodeRefused, Finished, Got, PoolsBut
    <3> QED
      BY <3>8 DEF u
  <2>7. CASE fail # "participant"
    <3> DEFINE k == s1.objects["node"][n] + 1
    <3>1. u = [s1 EXCEPT !.objects["node"][n] = k]
      BY <2>2, <2>7 DEF GiveObject
    <3>2. k \in Nat /\ k = s.objects["node"][n] + 1
      BY <1>1, <2>1, <2>5, HandleType
    <3> HIDE DEF k
    <3>3. /\ AllHealthy(u)
          /\ u.pool = s1.pool
          /\ u.owner_node = s1.owner_node
          /\ u.topic = s1.topic
          /\ u.topic_owner = s1.topic_owner
          /\ u.rmw_handle = s1.rmw_handle
          /\ u.objects = [s1.objects EXCEPT
                            !["node"] = [s1.objects["node"] EXCEPT ![n] = k]]
      BY <1>1, <2>1, <2>5, <3>1, <3>2, ObjectsWrite
    <3>4. NodeMade(s, u, n)
      BY <2>1, <2>5, <3>2, <3>3
         DEF NodeMade, Got, PoolsBut, Used, Allocated
    <3> QED
      BY <3>4 DEF u
  <2> QED
    BY <2>6, <2>7
<1> QED
  BY <1>2, <1>3

TopicStage(s, u, kind, n, e, t) ==
  \/ /\ t = NULL
     /\ \/ u.topic = s.topic
        \/ u.topic = [s.topic EXCEPT
                        ![kind] = [s.topic[kind] EXCEPT ![e] = NULL]]
     /\ Used(u, "topic") = Used(s, "topic")
     /\ u.topic_owner = s.topic_owner
  \/ /\ t \in Slot("topic") \ Used(s, "topic")
     /\ u.topic = [s.topic EXCEPT ![kind] = [s.topic[kind] EXCEPT ![e] = t]]
     /\ Used(u, "topic") = Used(s, "topic") \cup {t}
     /\ u.topic_owner = [s.topic_owner EXCEPT ![t] = n]

Creation(s, u, kind, n, e, t) ==
  /\ AllHealthy(u)
  /\ \A m \in PoolName : m \notin {kind, "topic"} => u.pool[m] = s.pool[m]
  /\ e \in Slot(kind) \ Used(s, kind)
  /\ u.owner_node =
       [s.owner_node EXCEPT ![kind] = [s.owner_node[kind] EXCEPT ![e] = n]]
  /\ TopicStage(s, u, kind, n, e, t)

(* The slot is lent and no request was refused so far. *)
Staged(s, u, kind, n, e, reused, t) ==
  /\ Creation(s, u, kind, n, e, t)
  /\ Used(u, kind) = Used(s, kind) \cup {e}
  /\ Allocated(u, kind) = << e >> \o Allocated(s, kind)
  /\ u.rmw_handle =
       [s.rmw_handle EXCEPT ![kind] =
          PointAt(s.rmw_handle[kind], kind, e, reused)]
  /\ u.objects = s.objects

EntityMade(s, u, kind, n, e, reused, t) ==
  /\ Creation(s, u, kind, n, e, t)
  /\ kind \in WithTopics <=> t # NULL
  /\ Used(u, kind) = Used(s, kind) \cup {e}
  /\ Allocated(u, kind) = << e >> \o Allocated(s, kind)
  /\ u.rmw_handle =
       [s.rmw_handle EXCEPT ![kind] =
          PointAt(s.rmw_handle[kind], kind, e, reused)]
  /\ u.objects =
       [s.objects EXCEPT
          ![kind] = [s.objects[kind] EXCEPT ![e] = s.objects[kind][e] + 1]]

(* A creation that fails and leaves its slot on the allocated list. *)
EntityKept(s, u, kind, n, e, reused) ==
  /\ Creation(s, u, kind, n, e, NULL)
  /\ Used(u, kind) = Used(s, kind) \cup {e}
  /\ Allocated(u, kind) = << e >> \o Allocated(s, kind)
  /\ u.rmw_handle =
       [s.rmw_handle EXCEPT ![kind] =
          Dangle(PointAt(s.rmw_handle[kind], kind, e, reused), kind, e)]
  /\ u.objects = s.objects

(* A creation that fails and puts its slot once. *)
EntityRefused(s, u, kind, n, e, reused, t) ==
  /\ Creation(s, u, kind, n, e, t)
  /\ Used(u, kind) = Used(s, kind)
  /\ Allocated(u, kind) = Allocated(s, kind)
  /\ u.rmw_handle =
       [s.rmw_handle EXCEPT ![kind] =
          Dangle(PointAt(s.rmw_handle[kind], kind, e, reused), kind, e)]
  /\ u.objects = s.objects

LEMMA BegunIsStaged ==
  ASSUME NEW s, NEW u, NEW kind, NEW n, NEW e, NEW reused,
         Begun(s, u, kind, n, e, reused), kind \in Kind
  PROVE  Staged(s, u, kind, n, e, reused, NULL)
<1>1. "topic" \in PoolName /\ kind # "topic"
  BY DEF PoolName, Kind
<1> QED
  BY <1>1 DEF Begun, Staged, Creation, TopicStage, PoolsBut, Used, Allocated

LEMMA TopicWrite ==
  ASSUME NEW s, AllHealthy(s), NEW kind \in Kind, NEW e \in Slot(kind),
         NEW t \in Slot("topic") \cup {NULL}
  PROVE  LET u == [s EXCEPT !.topic[kind][e] = t]
         IN  /\ AllHealthy(u)
             /\ u.pool = s.pool
             /\ u.owner_node = s.owner_node
             /\ u.topic = [s.topic EXCEPT
                             ![kind] = [s.topic[kind] EXCEPT ![e] = t]]
             /\ u.topic_owner = s.topic_owner
             /\ u.rmw_handle = s.rmw_handle
             /\ u.objects = s.objects
<1> DEFINE o == [s.topic[kind] EXCEPT ![e] = t]
<1>1. s \in States /\ s.topic \in TopicTables
  BY DEF AllHealthy, States
<1>2. o \in [Slot(kind) -> Slot("topic") \cup {NULL}]
  BY <1>1 DEF TopicTables, Tables
<1>3. [s EXCEPT !.topic[kind][e] = t]
        = [s EXCEPT !.topic = [s.topic EXCEPT ![kind] = o]]
  OBVIOUS
<1> HIDE DEF o
<1>4. [s.topic EXCEPT ![kind] = o] \in TopicTables
  BY <1>1, <1>2, TableWrite DEF TopicTables
<1> QED
  BY <1>1, <1>3, <1>4 DEF AllHealthy, States, o

(* The same after create_topic, which answered made. *)
TopicStaged(s, made, kind, n, e, reused, fail) ==
  /\ Staged(s, [made.s EXCEPT !.topic[kind][e] = made.topic], kind, n, e,
            reused, made.topic)
  /\ made.topic = NULL => fail = "topic" \/ Used(s, "topic") = Slot("topic")

LEMMA TopicIsStaged ==
  ASSUME NEW s, NEW m, NEW kind \in Kind, NEW n \in Slot("node"), NEW e,
         NEW reused, Begun(s, m, kind, n, e, reused), TopicsHeld(s), NEW fail
  PROVE  TopicStaged(s, CreateTopic(m, n, fail), kind, n, e, reused, fail)
<1> DEFINE made == CreateTopic(m, n, fail)
           u    == [made.s EXCEPT !.topic[kind][e] = made.topic]
<1>1. "topic" \in PoolName /\ kind # "topic" /\ kind \in PoolName
  BY DEF PoolName, Kind
<1>2. /\ AllHealthy(m) /\ e \in Slot(kind)
      /\ Used(m, "topic") = Used(s, "topic")
  BY <1>1 DEF Begun, PoolsBut, Used, Allocated
<1>3. TopicsHeld(m)
  BY <1>2 DEF TopicsHeld, Begun
<1>4. \/ /\ made.topic # NULL
         /\ TopicMade(m, made.s, made.topic, n)
      \/ /\ made.topic = NULL
         /\ TopicRefused(m, made.s)
         /\ fail = "topic" \/ Used(m, "topic") = Slot("topic")
  BY <1>2, <1>3, CreateTopicIs
<1> HIDE DEF made
<1>5. AllHealthy(made.s) /\ made.topic \in Slot("topic") \cup {NULL}
  BY <1>4 DEF TopicMade, TopicRefused
<1>6. /\ AllHealthy(u)
      /\ u.pool = made.s.pool
      /\ u.owner_node = made.s.owner_node
      /\ u.topic = [made.s.topic EXCEPT
                      ![kind] = [made.s.topic[kind] EXCEPT ![e] = made.topic]]
      /\ u.topic_owner = made.s.topic_owner
      /\ u.rmw_handle = made.s.rmw_handle
      /\ u.objects = made.s.objects
  BY <1>2, <1>5, TopicWrite
<1> HIDE DEF u
<1>7. /\ PoolsBut(m, made.s, "topic")
      /\ made.s.owner_node = m.owner_node /\ made.s.topic = m.topic
      /\ made.s.rmw_handle = m.rmw_handle /\ made.s.objects = m.objects
  BY <1>4 DEF TopicMade, TopicRefused
<1>8. Used(u, "topic") = Used(made.s, "topic")
  BY <1>6 DEF Used, Allocated
<1>9. TopicStage(s, u, kind, n, e, made.topic)
  <2>1. CASE made.topic # NULL
    BY <1>2, <1>4, <1>6, <1>7, <1>8, <2>1
       DEF TopicMade, TopicStage, Begun
  <2>2. CASE made.topic = NULL
    BY <1>2, <1>4, <1>6, <1>7, <1>8, <2>2
       DEF TopicRefused, TopicStage, Begun
  <2> QED
    BY <2>1, <2>2
<1>10. /\ Used(u, kind) = Used(m, kind)
       /\ Allocated(u, kind) = Allocated(m, kind)
  BY <1>1, <1>6, <1>7 DEF PoolsBut, Used, Allocated
<1>11. \A p \in PoolName : p \notin {kind, "topic"} => u.pool[p] = s.pool[p]
  BY <1>6, <1>7 DEF PoolsBut, Begun
<1>12. Staged(s, u, kind, n, e, reused, made.topic)
  BY <1>6, <1>7, <1>9, <1>10, <1>11 DEF Staged, Creation, Begun
<1> QED
  BY <1>2, <1>4, <1>12 DEF TopicStaged, made, u

LEMMA StagedSame ==
  ASSUME NEW s, NEW m, NEW u, NEW kind \in Kind, NEW n, NEW e, NEW reused,
         NEW t, Creation(s, m, kind, n, e, t), AllHealthy(u),
         \A p \in PoolName : p # kind => u.pool[p] = m.pool[p],
         u.owner_node = m.owner_node, u.topic = m.topic,
         u.topic_owner = m.topic_owner
  PROVE  Creation(s, u, kind, n, e, t)
<1>1. "topic" \in PoolName /\ kind # "topic"
  BY DEF PoolName, Kind
<1>2. Used(u, "topic") = Used(m, "topic")
  BY <1>1 DEF Used, Allocated
<1> QED
  BY <1>2 DEF Creation, TopicStage

LEMMA StagedMade ==
  ASSUME NEW s, NEW m, NEW kind \in Kind, NEW n, NEW e, NEW reused, NEW t,
         Staged(s, m, kind, n, e, reused, t), kind \in WithTopics <=> t # NULL
  PROVE  EntityMade(s, GiveObject(m, kind, e), kind, n, e, reused, t)
<1> DEFINE k == m.objects[kind][e] + 1
           u == GiveObject(m, kind, e)
<1>1. kind \in PoolName /\ e \in Slot(kind) /\ AllHealthy(m)
  BY DEF PoolName, Staged, Creation
<1>2. u = [m EXCEPT !.objects[kind][e] = k]
  BY DEF GiveObject
<1>3. k \in Nat /\ k = s.objects[kind][e] + 1
  BY <1>1, HandleType DEF Staged
<1> HIDE DEF k, u
<1>4. /\ AllHealthy(u)
      /\ u.pool = m.pool
      /\ u.owner_node = m.owner_node
      /\ u.topic = m.topic
      /\ u.topic_owner = m.topic_owner
      /\ u.rmw_handle = m.rmw_handle
      /\ u.objects = [m.objects EXCEPT
                        ![kind] = [m.objects[kind] EXCEPT ![e] = k]]
  BY <1>1, <1>2, <1>3, ObjectsWrite
<1>5. Creation(s, u, kind, n, e, t)
  BY <1>4, StagedSame DEF Staged
<1>6. Used(u, kind) = Used(m, kind) /\ Allocated(u, kind) = Allocated(m, kind)
  BY <1>4 DEF Used, Allocated
<1>7. EntityMade(s, u, kind, n, e, reused, t)
  BY <1>3, <1>4, <1>5, <1>6 DEF EntityMade, Staged
<1> QED
  BY <1>7 DEF u

LEMMA StagedHandles ==
  ASSUME NEW s, AllHealthy(s), NEW m, NEW kind \in Kind, NEW n, NEW e,
         NEW reused, NEW t, Staged(s, m, kind, n, e, reused, t),
         NEW u,
         u.rmw_handle = [m.rmw_handle EXCEPT
                           ![kind] = Dangle(m.rmw_handle[kind], kind, e)]
  PROVE  u.rmw_handle =
           [s.rmw_handle EXCEPT ![kind] =
              Dangle(PointAt(s.rmw_handle[kind], kind, e, reused), kind, e)]
<1> DEFINE h == PointAt(s.rmw_handle[kind], kind, e, reused)
<1>1. m.rmw_handle = [s.rmw_handle EXCEPT ![kind] = h]
  BY DEF Staged
<1>2. kind \in PoolName /\ s.rmw_handle \in HandleTables
  BY DEF PoolName, AllHealthy, States
<1> HIDE DEF h
<1>3. m.rmw_handle[kind] = h
  BY <1>1, <1>2 DEF HandleTables, Tables
<1> QED
  BY <1>1, <1>2, <1>3 DEF HandleTables, Tables, h

LEMMA StagedKept ==
  ASSUME NEW s, AllHealthy(s), NEW m, NEW kind \in Kind, NEW n, NEW e,
         NEW reused, Staged(s, m, kind, n, e, reused, NULL)
  PROVE  EntityKept(s, FiniWithoutData(m, kind, e), kind, n, e, reused)
<1> DEFINE u == FiniWithoutData(m, kind, e)
<1>1. kind \in PoolName /\ e \in Slot(kind) /\ AllHealthy(m)
  BY DEF PoolName, Staged, Creation
<1>2. Rehandled(m, u, kind, Dangle(m.rmw_handle[kind], kind, e))
  BY <1>1, FreeObjectIs DEF FiniWithoutData
<1> HIDE DEF u
<1>3. Creation(s, u, kind, n, e, NULL)
  BY <1>2, StagedSame DEF Staged, Rehandled
<1>4. Used(u, kind) = Used(m, kind) /\ Allocated(u, kind) = Allocated(m, kind)
  BY <1>2 DEF Used, Allocated, Rehandled
<1>5. u.rmw_handle =
        [s.rmw_handle EXCEPT ![kind] =
           Dangle(PointAt(s.rmw_handle[kind], kind, e, reused), kind, e)]
  BY <1>2, StagedHandles DEF Rehandled
<1>6. EntityKept(s, u, kind, n, e, reused)
  BY <1>2, <1>3, <1>4, <1>5 DEF EntityKept, Staged, Rehandled
<1> QED
  BY <1>6 DEF u

LEMMA StagedRefused ==
  ASSUME NEW s, AllHealthy(s), NEW m, NEW kind \in Kind, NEW n, NEW e,
         NEW reused, NEW t, Staged(s, m, kind, n, e, reused, t)
  PROVE  EntityRefused(s, FiniWithoutData(Put(m, kind, e), kind, e),
                       kind, n, e, reused, t)
<1> DEFINE v == Put(m, kind, e)
           u == FiniWithoutData(v, kind, e)
<1>1. /\ kind \in PoolName /\ e \in Slot(kind) /\ AllHealthy(m)
      /\ e \in Used(m, kind) /\ e \notin Used(s, kind)
  BY DEF PoolName, Staged, Creation
<1>2. Gave(m, v, kind, e)
  BY <1>1, PutIs
<1> HIDE DEF v
<1>3. Rehandled(v, u, kind, Dangle(v.rmw_handle[kind], kind, e))
  BY <1>1, <1>2, FreeObjectIs DEF FiniWithoutData, Gave
<1> HIDE DEF u
<1>4. Creation(s, u, kind, n, e, t)
  BY <1>2, <1>3, StagedSame DEF Staged, Rehandled, Gave, SameFields, PoolsBut
<1>5. Used(u, kind) = Used(v, kind) /\ Allocated(u, kind) = Allocated(v, kind)
  BY <1>3 DEF Used, Allocated, Rehandled
<1>6. Used(u, kind) = Used(s, kind)
  BY <1>1, <1>2, <1>5 DEF Gave, Staged
<1>7. Allocated(v, kind) = Allocated(s, kind)
  <2> DEFINE w == Allocated(s, kind)
             B == Slot(kind)
  <2>1. w \in Seq(B) /\ e \in B
    BY <1>1, UsedFacts
  <2>2. Allocated(m, kind) = << e >> \o w
    BY DEF Staged
  <2> HIDE DEF w, B
  <2>3. /\ << e >> \o w \in Seq(B) /\ << e >> \o w # << >>
        /\ (<< e >> \o w)[1] = e /\ Tail(<< e >> \o w) = w
    BY <2>1
  <2>4. 1 \in DOMAIN (<< e >> \o w) /\ RemoveAt(<< e >> \o w, 1) = w
    BY <2>3, TailRemoves
  <2> QED
    BY <1>2, <2>2, <2>3, <2>4 DEF Gave, w
<1>8. u.rmw_handle =
        [s.rmw_handle EXCEPT ![kind] =
           Dangle(PointAt(s.rmw_handle[kind], kind, e, reused), kind, e)]
  <2>1. u.rmw_handle = [m.rmw_handle EXCEPT
                          ![kind] = Dangle(m.rmw_handle[kind], kind, e)]
    BY <1>2, <1>3 DEF Rehandled, Gave, SameFields
  <2> QED
    BY <2>1, StagedHandles
<1>9. EntityRefused(s, u, kind, n, e, reused, t)
  BY <1>2, <1>3, <1>4, <1>5, <1>6, <1>7, <1>8
     DEF EntityRefused, Staged, Rehandled, Gave, SameFields
<1> QED
  BY <1>9 DEF u, v

-----------------------------------------------------------------------------
(***************************************************************************)
(* The failures after which a slot is put twice.                           *)
(***************************************************************************)
TwicePut == {"datawriter", "replier", "requester"}

(* Every outcome of a creation when none of those occurs. *)
CreateOutcome(s, u, kind, n, fail, reused) ==
  \/ u = s /\ Used(s, kind) = Slot(kind)
  \/ \E e, t : EntityMade(s, u, kind, n, e, reused, t)
  \/ /\ \E e : EntityKept(s, u, kind, n, e, reused)
     /\ \/ fail \in {"typesupport", "topic"}
        \/ kind \in WithTopics /\ Used(s, "topic") = Slot("topic")
  \/ /\ \E e, t : EntityRefused(s, u, kind, n, e, reused, t)
     /\ fail \in {"publisher", "subscriber", "datareader"}

LEMMA CreatePublisherIs ==
  ASSUME NEW s, AllHealthy(s), TopicsHeld(s), NEW n \in Slot("node"),
         NEW fail, fail \notin TwicePut, NEW reused
  PROVE  CreateOutcome(s, CreatePublisher(s, n, fail, reused), "publisher",
                       n, fail, reused)
<1> DEFINE kind == "publisher"
           e  == GetSlot(s, kind)
           s1 == NewEntity(s, kind, n, reused)
           t  == CreateTopic(s1, n, fail)
           s2 == [t.s EXCEPT !.topic[kind][e] = t.topic]
           u  == CreatePublisher(s, n, fail, reused)
<1>1. kind \in Kind /\ kind \in PoolName /\ kind \in WithTopics
  BY DEF Kind, PoolName, WithTopics
<1>2. CASE e = NULL
  BY <1>1, <1>2, NoneLeft DEF CreatePublisher, CreateOutcome
<1>3. CASE e # NULL
  <2>1. Begun(s, s1, kind, n, e, reused)
    BY <1>1, <1>3, NewEntityIs
  <2>2. u = IF fail = "typesupport" THEN FiniWithoutData(s1, kind, e)
            ELSE IF t.topic = NULL THEN FiniWithoutData(s2, kind, e)
            ELSE IF fail = "publisher"
                 THEN FiniWithoutData(Put(s2, kind, e), kind, e)
                 ELSE GiveObject(s2, kind, e)
    BY <1>3 DEF CreatePublisher, TwicePut
  <2> HIDE DEF kind, s1, e, u
  <2>3. Staged(s, s1, kind, n, e, reused, NULL)
    BY <1>1, <2>1, BegunIsStaged
  <2>4. /\ Staged(s, s2, kind, n, e, reused, t.topic)
        /\ t.topic = NULL =>
             fail = "topic" \/ Used(s, "topic") = Slot("topic")
    <3>1. TopicStaged(s, t, kind, n, e, reused, fail)
      BY <1>1, <2>1, TopicIsStaged
    <3> HIDE DEF t
    <3> QED
      BY <3>1 DEF TopicStaged
  <2> HIDE DEF s2, t
  <2>5. CASE fail = "typesupport"
    <3>1. EntityKept(s, u, kind, n, e, reused)
      BY <1>1, <2>2, <2>3, <2>5, StagedKept
    <3> QED
      BY <2>5, <3>1 DEF CreateOutcome, kind, u
  <2>6. CASE fail # "typesupport" /\ t.topic = NULL
    <3>1. EntityKept(s, u, kind, n, e, reused)
      BY <1>1, <2>2, <2>4, <2>6, StagedKept
    <3> QED
      BY <1>1, <2>4, <2>6, <3>1 DEF CreateOutcome, kind, u
  <2>7. CASE fail # "typesupport" /\ t.topic # NULL /\ fail = "publisher"
    <3>1. EntityRefused(s, u, kind, n, e, reused, t.topic)
      BY <1>1, <2>2, <2>4, <2>7, StagedRefused
    <3> QED
      BY <2>7, <3>1 DEF CreateOutcome, kind, u
  <2>8. CASE fail # "typesupport" /\ t.topic # NULL /\ fail # "publisher"
    <3>1. EntityMade(s, u, kind, n, e, reused, t.topic)
      BY <1>1, <2>2, <2>4, <2>8, StagedMade
    <3> QED
      BY <3>1 DEF CreateOutcome, kind, u
  <2> QED
    BY <2>5, <2>6, <2>7, <2>8
<1> QED
  BY <1>2, <1>3

LEMMA CreateSubscriptionIs ==
  ASSUME NEW s, AllHealthy(s), TopicsHeld(s), NEW n \in Slot("node"),
         NEW fail, NEW reused
  PROVE  CreateOutcome(s, CreateSubscription(s, n, fail, reused),
                       "subscription", n, fail, reused)
<1> DEFINE kind == "subscription"
           e  == GetSlot(s, kind)
           s1 == NewEntity(s, kind, n, reused)
           t  == CreateTopic(s1, n, fail)
           s2 == [t.s EXCEPT !.topic[kind][e] = t.topic]
           u  == CreateSubscription(s, n, fail, reused)
<1>1. kind \in Kind /\ kind \in PoolName /\ kind \in WithTopics
  BY DEF Kind, PoolName, WithTopics
<1>2. CASE e = NULL
  BY <1>1, <1>2, NoneLeft DEF CreateSubscription, CreateOutcome
<1>3. CASE e # NULL
  <2>1. Begun(s, s1, kind, n, e, reused)
    BY <1>1, <1>3, NewEntityIs
  <2>2. u = IF fail = "typesupport" THEN FiniWithoutData(s1, kind, e)
            ELSE IF t.topic = NULL THEN FiniWithoutData(s2, kind, e)
            ELSE IF fail \in {"subscriber", "datareader"}
                 THEN FiniWithoutData(Put(s2, kind, e), kind, e)
                 ELSE GiveObject(s2, kind, e)
    BY <1>3 DEF CreateSubscription
  <2> HIDE DEF kind, s1, e, u
  <2>3. Staged(s, s1, kind, n, e, reused, NULL)
    BY <1>1, <2>1, BegunIsStaged
  <2>4. /\ Staged(s, s2, kind, n, e, reused, t.topic)
        /\ t.topic = NULL =>
             fail = "topic" \/ Used(s, "topic") = Slot("topic")
    <3>1. TopicStaged(s, t, kind, n, e, reused, fail)
      BY <1>1, <2>1, TopicIsStaged
    <3> HIDE DEF t
    <3> QED
      BY <3>1 DEF TopicStaged
  <2> HIDE DEF s2, t
  <2>5. CASE fail = "typesupport"
    <3>1. EntityKept(s, u, kind, n, e, reused)
      BY <1>1, <2>2, <2>3, <2>5, StagedKept
    <3> QED
      BY <2>5, <3>1 DEF CreateOutcome, kind, u
  <2>6. CASE fail # "typesupport" /\ t.topic = NULL
    <3>1. EntityKept(s, u, kind, n, e, reused)
      BY <1>1, <2>2, <2>4, <2>6, StagedKept
    <3> QED
      BY <1>1, <2>4, <2>6, <3>1 DEF CreateOutcome, kind, u
  <2>7. CASE /\ fail # "typesupport" /\ t.topic # NULL
             /\ fail \in {"subscriber", "datareader"}
    <3>1. EntityRefused(s, u, kind, n, e, reused, t.topic)
      BY <1>1, <2>2, <2>4, <2>7, StagedRefused
    <3> QED
      BY <2>7, <3>1 DEF CreateOutcome, kind, u
  <2>8. CASE /\ fail # "typesupport" /\ t.topic # NULL
             /\ fail \notin {"subscriber", "datareader"}
    <3>1. EntityMade(s, u, kind, n, e, reused, t.topic)
      BY <1>1, <2>2, <2>4, <2>8, StagedMade
    <3> QED
      BY <3>1 DEF CreateOutcome, kind, u
  <2> QED
    BY <2>5, <2>6, <2>7, <2>8
<1> QED
  BY <1>2, <1>3

LEMMA CreateEndpointIs ==
  ASSUME NEW s, AllHealthy(s), NEW kind \in Kind, kind \notin WithTopics,
         NEW n \in Slot("node"), NEW fail, NEW request, fail # request,
         NEW reused
  PROVE  CreateOutcome(s, CreateEndpoint(s, kind, n, fail, request, reused),
                       kind, n, fail, reused)
<1> DEFINE e  == GetSlot(s, kind)
           s1 == NewEntity(s, kind, n, reused)
           u  == CreateEndpoint(s, kind, n, fail, request, reused)
<1>1. kind \in PoolName
  BY DEF PoolName
<1>2. CASE e = NULL
  BY <1>1, <1>2, NoneLeft DEF CreateEndpoint, CreateOutcome
<1>3. CASE e # NULL
  <2>1. Begun(s, s1, kind, n, e, reused)
    BY <1>1, <1>3, NewEntityIs
  <2>2. u = IF fail = "typesupport" THEN FiniWithoutData(s1, kind, e)
                                    ELSE GiveObject(s1, kind, e)
    BY <1>3 DEF CreateEndpoint
  <2> HIDE DEF s1, e, u
  <2>3. Staged(s, s1, kind, n, e, reused, NULL)
    BY <1>1, <2>1, BegunIsStaged
  <2>4. CASE fail = "typesupport"
    <3>1. EntityKept(s, u, kind, n, e, reused)
      BY <2>2, <2>3, <2>4, StagedKept
    <3> QED
      BY <2>4, <3>1 DEF CreateOutcome, u
  <2>5. CASE fail # "typesupport"
    <3>1. EntityMade(s, u, kind, n, e, reused, NULL)
      BY <2>2, <2>3, <2>5, StagedMade
    <3> QED
      BY <3>1 DEF CreateOutcome, u
  <2> QED
    BY <2>4, <2>5
<1> QED
  BY <1>2, <1>3

LEMMA CreateIs ==
  ASSUME NEW s, AllHealthy(s), TopicsHeld(s), NEW kind \in Kind,
         NEW n \in Slot("node"), NEW fail, fail \notin TwicePut, NEW reused
  PROVE  CreateOutcome(s, Create(s, kind, n, fail, reused), kind, n, fail,
                       reused)
<1>1. CASE kind = "publisher"
  BY <1>1, CreatePublisherIs DEF Create
<1>2. CASE kind = "subscription"
  BY <1>2, CreateSubscriptionIs DEF Create
<1>3. CASE kind = "service"
  BY <1>3, CreateEndpointIs DEF Create, WithTopics, TwicePut
<1>4. CASE kind = "client"
  BY <1>4, CreateEndpointIs DEF Create, WithTopics, TwicePut
<1> QED
  BY <1>1, <1>2, <1>3, <1>4 DEF Kind

-----------------------------------------------------------------------------
(***************************************************************************)
(* Objects and handles of one pool with the slots I, of which U are        *)
(* allocated: o counts the objects on each slot, h is where each slot's    *)
(* rmw_handle points.                                                      *)
(***************************************************************************)
Right(I, U, h, o) ==
  /\ \A e \in I : o[e] \in {0, 1}
  /\ \A e \in I : o[e] = 1 => e \in U /\ h[e] = e
  /\ \A f \in I : h[f] \in I => o[h[f]] = 1

LEMMA RightWhenMade ==
  ASSUME NEW name \in PoolName, NEW U,
         NEW h \in [Slot(name) -> Slot(name) \cup {NULL, Dangling}],
         NEW o \in [Slot(name) -> Nat], Right(Slot(name), U, h, o),
         NEW e \in Slot(name) \ U,
         NEW reused, \A f \in reused : h[f] = Dangling
  PROVE  Right(Slot(name), U \cup {e}, PointAt(h, name, e, reused),
               [o EXCEPT ![e] = o[e] + 1])
<1> DEFINE I == Slot(name)
           g == PointAt(h, name, e, reused)
           q == [o EXCEPT ![e] = o[e] + 1]
<1>1. o[e] = 0 /\ Dangling \notin Slot(name) /\ e \in I
  BY SlotFacts DEF Right
<1>2. \A f \in I : g[f] = IF f = e \/ f \in reused THEN e ELSE h[f]
  BY DEF PointAt
<1>3. \A f \in I : q[f] = IF f = e THEN 1 ELSE o[f]
  BY <1>1
<1> HIDE DEF g, q, I
<1>4. /\ \A f \in I : o[f] \in {0, 1}
      /\ \A f \in I : o[f] = 1 => f \in U /\ h[f] = f
      /\ \A f \in I : h[f] \in I => o[h[f]] = 1
  BY DEF Right, I
<1>5. \A f \in I : q[f] \in {0, 1}
  BY <1>3, <1>4
<1>6. ASSUME NEW f \in I, q[f] = 1 PROVE f \in U \cup {e} /\ g[f] = f
  <2>1. CASE f = e
    BY <1>2, <2>1
  <2>2. CASE f # e
    <3>1. o[f] = 1 /\ h[f] = f
      BY <1>3, <1>4, <1>6, <2>2
    <3>2. f \notin reused
      BY <1>1, <3>1 DEF I
    <3> QED
      BY <1>2, <1>4, <2>2, <3>1, <3>2
  <2> QED
    BY <2>1, <2>2
<1>7. ASSUME NEW f \in I, g[f] \in I PROVE q[g[f]] = 1
  <2>1. CASE f = e \/ f \in reused
    BY <1>1, <1>2, <1>3, <2>1
  <2>2. CASE ~ (f = e \/ f \in reused)
    <3>1. g[f] = h[f] /\ o[h[f]] = 1
      BY <1>2, <1>4, <1>7, <2>2
    <3> QED
      BY <1>3, <1>7, <3>1
  <2> QED
    BY <2>1, <2>2
<1> QED
  BY <1>5, <1>6, <1>7 DEF Right, I, g, q

LEMMA RightWhenRefused ==
  ASSUME NEW name \in PoolName, NEW U,
         NEW h \in [Slot(name) -> Slot(name) \cup {NULL, Dangling}],
         NEW o \in [Slot(name) -> Nat], Right(Slot(name), U, h, o),
         NEW e \in Slot(name) \ U,
         NEW reused, \A f \in reused : h[f] = Dangling,
         NEW V, U \subseteq V
  PROVE  Right(Slot(name), V, Dangle(PointAt(h, name, e, reused), name, e), o)
<1>1. o[e] = 0 /\ Dangling \notin Slot(name)
  BY SlotFacts DEF Right
<1> DEFINE g == Dangle(PointAt(h, name, e, reused), name, e)
<1>2. \A f \in Slot(name) :
        g[f] = IF f = e \/ f \in reused \/ h[f] = e THEN Dangling ELSE h[f]
  BY DEF Dangle, PointAt
<1> HIDE DEF g
<1>3. \A f \in Slot(name) : o[f] = 1 => f # e /\ f \notin reused /\ h[f] = f
  BY <1>1 DEF Right
<1> HIDE DEF Slot
<1>4. \A f \in Slot(name) : o[f] = 1 => f \in V /\ g[f] = f
  BY <1>2, <1>3 DEF Right
<1>5. \A f \in Slot(name) : g[f] \in Slot(name) => o[g[f]] = 1
  BY <1>1, <1>2 DEF Right
<1>6. Right(Slot(name), V, g, o)
  BY <1>4, <1>5 DEF Right
<1> QED
  BY <1>6 DEF g

LEMMA RightWhenDestroyed ==
  ASSUME NEW name \in PoolName, NEW U,
         NEW h \in [Slot(name) -> Slot(name) \cup {NULL, Dangling}],
         NEW o \in [Slot(name) -> Nat], Right(Slot(name), U, h, o),
         NEW e \in U, e \in Slot(name), o[e] = 1
  PROVE  Right(Slot(name), U \ {e}, Retire(h, name, e),
               [o EXCEPT ![e] = o[e] - 1])
<1> DEFINE I == Slot(name)
           g == Retire(h, name, e)
           q == [o EXCEPT ![e] = o[e] - 1]
<1>1. Dangling \notin I /\ NULL \notin I /\ e \in I
  BY SlotFacts
<1>2. \A f \in I : g[f] = IF f = e THEN NULL
                          ELSE IF h[f] = e THEN Dangling ELSE h[f]
  BY DEF Retire
<1>3. \A f \in I : q[f] = IF f = e THEN 0 ELSE o[f]
  OBVIOUS
<1> HIDE DEF g, q, I
<1>4. /\ \A f \in I : o[f] \in {0, 1}
      /\ \A f \in I : o[f] = 1 => f \in U /\ h[f] = f
      /\ \A f \in I : h[f] \in I => o[h[f]] = 1
  BY DEF Right, I
<1>5. \A f \in I : q[f] \in {0, 1}
  BY <1>3, <1>4
<1>6. \A f \in I : q[f] = 1 => f \in U \ {e} /\ g[f] = f
  BY <1>2, <1>3, <1>4
<1>7. \A f \in I : g[f] \in I => q[g[f]] = 1
  BY <1>1, <1>2, <1>3, <1>4
<1> QED
  BY <1>5, <1>6, <1>7 DEF Right, I, g, q

LEMMA RightWhenRetired ==
  ASSUME NEW name \in PoolName, NEW U,
         NEW h \in [Slot(name) -> Slot(name) \cup {NULL, Dangling}],
         NEW o \in [Slot(name) -> Nat], Right(Slot(name), U, h, o),
         NEW e \in Slot(name) \ U
  PROVE  Right(Slot(name), U, Retire(h, name, e), o)
<1> DEFINE I == Slot(name)
           g == Retire(h, name, e)
<1>1. Dangling \notin I /\ NULL \notin I /\ e \in I
  BY SlotFacts
<1>2. \A f \in I : g[f] = IF f = e THEN NULL
                          ELSE IF h[f] = e THEN Dangling ELSE h[f]
  BY DEF Retire
<1> HIDE DEF g, I
<1>3. /\ \A f \in I : o[f] \in {0, 1}
      /\ \A f \in I : o[f] = 1 => f \in U /\ h[f] = f
      /\ \A f \in I : h[f] \in I => o[h[f]] = 1
  BY DEF Right, I
<1>4. \A f \in I : o[f] = 1 => f \in U /\ g[f] = f
  BY <1>2, <1>3
<1>5. \A f \in I : g[f] \in I => o[g[f]] = 1
  BY <1>1, <1>2, <1>3
<1> QED
  BY <1>3, <1>4, <1>5 DEF Right, I, g

-----------------------------------------------------------------------------
(***************************************************************************)
(* Between calls: every pool is sound, what has an object is allocated and *)
(* points to it, and a live publisher or subscription has a topic.         *)
(***************************************************************************)
Orderly(s) ==
  /\ AllHealthy(s)
  /\ TopicsHeld(s)
  /\ \A name \in Entity :
       Right(Slot(name), Used(s, name), s.rmw_handle[name], s.objects[name])
  /\ \A kind \in WithTopics : \A e \in Slot(kind) :
       s.objects[kind][e] = 1 => s.topic[kind][e] \in Slot("topic")

LEMMA Names ==
  /\ Kind \subseteq Entity /\ "node" \in Entity /\ "topic" \notin Entity
  /\ Entity \subseteq PoolName /\ "topic" \in PoolName
  /\ WithTopics \subseteq Kind /\ "node" \notin Kind
  /\ \A name \in Entity : name = "node" \/ name \in Kind
BY DEF Kind, Entity, PoolName, WithTopics

LEMMA StateTypes ==
  ASSUME NEW s, AllHealthy(s)
  PROVE  /\ DOMAIN s.rmw_handle = PoolName /\ DOMAIN s.objects = PoolName
         /\ DOMAIN s.owner_node = Kind /\ DOMAIN s.topic = Kind
         /\ s.topic_owner \in [Slot("topic") -> Slot("node") \cup {NULL}]
         /\ \A name \in PoolName :
              /\ s.rmw_handle[name] \in
                   [Slot(name) -> Slot(name) \cup {NULL, Dangling}]
              /\ s.objects[name] \in [Slot(name) -> Nat]
         /\ \A kind \in Kind :
              /\ s.owner_node[kind] \in
                   [Slot(kind) -> Slot("node") \cup {NULL}]
              /\ s.topic[kind] \in [Slot(kind) -> Slot("topic") \cup {NULL}]
BY DEF AllHealthy, States, OwnerTables, TopicTables, TopicOwners,
       HandleTables, ObjectTables, Tables

(* What a step does to the pools that it does not name. *)
LEMMA SamePool ==
  ASSUME NEW s, NEW u, NEW name, u.pool[name] = s.pool[name]
  PROVE  /\ Used(u, name) = Used(s, name)
         /\ Allocated(u, name) = Allocated(s, name)
BY DEF Used, Allocated

(* The fields of every slot but e of one kind are as they were. *)
KeepsOthers(s, u, kind, e) ==
  \A c \in Kind : \A f \in Slot(c) :
    ~ (c = kind /\ f = e) =>
      /\ u.topic[c][f] = s.topic[c][f]
      /\ u.owner_node[c][f] = s.owner_node[c][f]

LEMMA CreationTopics ==
  ASSUME NEW s, Orderly(s), NEW u, NEW kind \in Kind, NEW n \in Slot("node"),
         NEW e, NEW t, Creation(s, u, kind, n, e, t)
  PROVE  /\ TopicsHeld(u)
         /\ KeepsOthers(s, u, kind, e)
         /\ u.owner_node[kind][e] = n
         /\ t # NULL => u.topic[kind][e] = t /\ t \in Slot("topic")
<1>1. TopicStage(s, u, kind, n, e, t) /\ e \in Slot(kind)
  BY DEF Creation
<1>2. /\ DOMAIN s.owner_node = Kind /\ DOMAIN s.topic = Kind
      /\ s.topic_owner \in [Slot("topic") -> Slot("node") \cup {NULL}]
      /\ \A c \in Kind :
           /\ s.owner_node[c] \in [Slot(c) -> Slot("node") \cup {NULL}]
           /\ s.topic[c] \in [Slot(c) -> Slot("topic") \cup {NULL}]
  BY StateTypes DEF Orderly
<1>3. TopicsHeld(u)
  <2>1. TopicsHeld(s)
    BY DEF Orderly
  <2> QED
    BY <1>1, <1>2, <2>1 DEF TopicsHeld, TopicStage
<1>4. \A c \in Kind : \A f \in Slot(c) :
        ~ (c = kind /\ f = e) => u.topic[c][f] = s.topic[c][f]
  <2>1. CASE u.topic = s.topic
    BY <2>1
  <2>2. CASE u.topic # s.topic
    <3>1. PICK x : u.topic = [s.topic EXCEPT
                                ![kind] = [s.topic[kind] EXCEPT ![e] = x]]
      BY <1>1, <2>2 DEF TopicStage
    <3> QED
      BY <1>1, <1>2, <3>1
  <2> QED
    BY <2>1, <2>2
<1>5. /\ u.owner_node[kind][e] = n
      /\ \A c \in Kind : \A f \in Slot(c) :
        ~ (c = kind /\ f = e) => u.owner_node[c][f] = s.owner_node[c][f]
  <2>1. u.owner_node =
         [s.owner_node EXCEPT ![kind] = [s.owner_node[kind] EXCEPT ![e] = n]]
    BY DEF Creation
  <2> QED
    BY <1>1, <1>2, <2>1
<1>6. t # NULL => u.topic[kind][e] = t /\ t \in Slot("topic")
  BY <1>1, <1>2 DEF TopicStage
<1> QED
  BY <1>3, <1>4, <1>5, <1>6 DEF KeepsOthers

LEMMA MadeOrderly ==
  ASSUME NEW s, Orderly(s), NEW u, NEW kind \in Kind, NEW n \in Slot("node"),
         NEW e, NEW reused, \A f \in reused : s.rmw_handle[kind][f] = Dangling,
         NEW t, EntityMade(s, u, kind, n, e, reused, t)
  PROVE  Orderly(u)
<1> DEFINE o == [s.objects[kind] EXCEPT ![e] = s.objects[kind][e] + 1]
           h == PointAt(s.rmw_handle[kind], kind, e, reused)
<1>1. /\ Creation(s, u, kind, n, e, t) /\ AllHealthy(u) /\ AllHealthy(s)
      /\ e \in Slot(kind) \ Used(s, kind) /\ kind \in PoolName
      /\ u.rmw_handle = [s.rmw_handle EXCEPT ![kind] = h]
      /\ u.objects = [s.objects EXCEPT ![kind] = o]
      /\ Used(u, kind) = Used(s, kind) \cup {e}
  BY Names DEF EntityMade, Creation, Orderly
<1>2. /\ DOMAIN s.rmw_handle = PoolName /\ DOMAIN s.objects = PoolName
      /\ s.rmw_handle[kind] \in
           [Slot(kind) -> Slot(kind) \cup {NULL, Dangling}]
      /\ s.objects[kind] \in [Slot(kind) -> Nat]
  BY <1>1, StateTypes
<1>3. Right(Slot(kind), Used(u, kind), h, o)
  <2>1. Right(Slot(kind), Used(s, kind), s.rmw_handle[kind], s.objects[kind])
    BY Names DEF Orderly
  <2> QED
    BY <1>1, <1>2, <2>1, RightWhenMade
<1> HIDE DEF h
<1>4. ASSUME NEW name \in Entity
      PROVE  Right(Slot(name), Used(u, name), u.rmw_handle[name],
                   u.objects[name])
  <2>1. CASE name = kind
    <3> HIDE DEF o
    <3> QED
      BY <1>1, <1>2, <1>3, <2>1
  <2>2. CASE name # kind
    <3>1. u.pool[name] = s.pool[name] /\ name \in PoolName
      BY <1>1, <2>2, Names DEF Creation
    <3>2. /\ u.rmw_handle[name] = s.rmw_handle[name]
          /\ u.objects[name] = s.objects[name]
      BY <1>1, <1>2, <2>2, <3>1
    <3> QED
      BY <3>1, <3>2, SamePool DEF Orderly
  <2> QED
    BY <2>1, <2>2
<1>5. ASSUME NEW c \in WithTopics, NEW f \in Slot(c), u.objects[c][f] = 1
      PROVE  u.topic[c][f] \in Slot("topic")
  <2>1. CASE c = kind /\ f = e
    BY <1>1, <2>1, CreationTopics DEF EntityMade
  <2>2. CASE ~ (c = kind /\ f = e)
    <3>1. s.objects[c][f] = 1
      <4>1. c \in PoolName
        BY Names
      <4> QED
        BY <1>1, <1>2, <1>5, <2>2, <4>1
    <3>2. u.topic[c][f] = s.topic[c][f]
      <4>1. c \in Kind /\ KeepsOthers(s, u, kind, e)
        BY <1>1, Names, CreationTopics
      <4> QED
        BY <2>2, <4>1 DEF KeepsOthers
    <3> QED
      BY <3>1, <3>2 DEF Orderly
  <2> QED
    BY <2>1, <2>2
<1> QED
  BY <1>1, <1>4, <1>5, CreationTopics DEF Orderly

(* A creation that fails, whether its slot is put or not. *)
LEMMA NotMadeOrderly ==
  ASSUME NEW s, Orderly(s), NEW u, NEW kind \in Kind, NEW n \in Slot("node"),
         NEW e, NEW reused, \A f \in reused : s.rmw_handle[kind][f] = Dangling,
         NEW t, \/ EntityKept(s, u, kind, n, e, reused) /\ t = NULL
                \/ EntityRefused(s, u, kind, n, e, reused, t)
  PROVE  Orderly(u)
<1> DEFINE h == Dangle(PointAt(s.rmw_handle[kind], kind, e, reused), kind, e)
<1>1. /\ Creation(s, u, kind, n, e, t) /\ AllHealthy(u) /\ AllHealthy(s)
      /\ e \in Slot(kind) \ Used(s, kind) /\ kind \in PoolName
      /\ u.rmw_handle = [s.rmw_handle EXCEPT ![kind] = h]
      /\ u.objects = s.objects
      /\ Used(s, kind) \subseteq Used(u, kind)
  BY Names DEF EntityKept, EntityRefused, Creation, Orderly
<1>2. /\ DOMAIN s.rmw_handle = PoolName
      /\ s.rmw_handle[kind] \in
           [Slot(kind) -> Slot(kind) \cup {NULL, Dangling}]
      /\ s.objects[kind] \in [Slot(kind) -> Nat]
  BY <1>1, StateTypes
<1>3. Right(Slot(kind), Used(u, kind), h, s.objects[kind])
  <2>1. Right(Slot(kind), Used(s, kind), s.rmw_handle[kind], s.objects[kind])
    BY Names DEF Orderly
  <2> QED
    BY <1>1, <1>2, <2>1, RightWhenRefused
<1> HIDE DEF h
<1>4. ASSUME NEW name \in Entity
      PROVE  Right(Slot(name), Used(u, name), u.rmw_handle[name],
                   u.objects[name])
  <2>1. CASE name = kind
    BY <1>1, <1>2, <1>3, <2>1
  <2>2. CASE name # kind
    <3>1. u.pool[name] = s.pool[name] /\ name \in PoolName
      BY <1>1, <2>2, Names DEF Creation
    <3>2. u.rmw_handle[name] = s.rmw_handle[name]
      BY <1>1, <1>2, <2>2, <3>1
    <3> QED
      BY <1>1, <3>1, <3>2, SamePool DEF Orderly
  <2> QED
    BY <2>1, <2>2
<1>5. ASSUME NEW c \in WithTopics, NEW f \in Slot(c), u.objects[c][f] = 1
      PROVE  u.topic[c][f] \in Slot("topic")
  <2>1. CASE c = kind /\ f = e
    <3>1. s.objects[kind][e] # 1
      BY <1>1, Names DEF Orderly, Right
    <3> QED
      BY <1>1, <1>5, <2>1, <3>1
  <2>2. CASE ~ (c = kind /\ f = e)
    <3>2. u.topic[c][f] = s.topic[c][f]
      <4>1. c \in Kind /\ KeepsOthers(s, u, kind, e)
        BY <1>1, Names, CreationTopics
      <4> QED
        BY <2>2, <4>1 DEF KeepsOthers
    <3> QED
      BY <1>1, <1>5, <3>2 DEF Orderly
  <2> QED
    BY <2>1, <2>2
<1> QED
  BY <1>1, <1>4, <1>5, CreationTopics DEF Orderly

LEMMA DestroyedOrderly ==
  ASSUME NEW s, Orderly(s), NEW u, NEW kind \in Kind, NEW e \in Slot(kind),
         s.objects[kind][e] = 1, Destroyed(s, u, kind, e)
  PROVE  Orderly(u)
<1> DEFINE o == [s.objects[kind] EXCEPT ![e] = s.objects[kind][e] - 1]
           h == Retire(s.rmw_handle[kind], kind, e)
           T == TopicGoing(s, kind, e)
<1>1. /\ AllHealthy(u) /\ AllHealthy(s)
      /\ kind \in PoolName /\ kind \in Entity
      /\ u.rmw_handle = [s.rmw_handle EXCEPT ![kind] = h]
      /\ u.objects = [s.objects EXCEPT ![kind] = o]
      /\ Used(u, kind) = Used(s, kind) \ {e}
      /\ u.topic = s.topic
      /\ \A m \in PoolName : m \notin {kind, "topic"} => u.pool[m] = s.pool[m]
  BY Names DEF Destroyed, Orderly
<1>2. /\ DOMAIN s.rmw_handle = PoolName /\ DOMAIN s.objects = PoolName
      /\ s.rmw_handle[kind] \in
           [Slot(kind) -> Slot(kind) \cup {NULL, Dangling}]
      /\ s.objects[kind] \in [Slot(kind) -> Nat]
  BY <1>1, StateTypes
<1>3. Right(Slot(kind), Used(u, kind), h, o)
  <2>1. Right(Slot(kind), Used(s, kind), s.rmw_handle[kind], s.objects[kind])
    BY <1>1 DEF Orderly
  <2>2. e \in Used(s, kind)
    BY <2>1 DEF Right
  <2> QED
    BY <1>1, <1>2, <2>1, <2>2, RightWhenDestroyed
<1> HIDE DEF h
<1>4. ASSUME NEW name \in Entity
      PROVE  Right(Slot(name), Used(u, name), u.rmw_handle[name],
                   u.objects[name])
  <2>1. CASE name = kind
    <3> HIDE DEF o
    <3> QED
      BY <1>1, <1>2, <1>3, <2>1
  <2>2. CASE name # kind
    <3>1. u.pool[name] = s.pool[name] /\ name \in PoolName
      BY <1>1, <2>2, Names
    <3>2. /\ u.rmw_handle[name] = s.rmw_handle[name]
          /\ u.objects[name] = s.objects[name]
      BY <1>1, <1>2, <2>2, <3>1
    <3> QED
      BY <3>1, <3>2, SamePool DEF Orderly
  <2> QED
    BY <2>1, <2>2
<1>5. ASSUME NEW c \in WithTopics, NEW f \in Slot(c), u.objects[c][f] = 1
      PROVE  u.topic[c][f] \in Slot("topic")
  <2>1. c \in PoolName
    BY Names
  <2>2. s.objects[c][f] = 1
    <3>1. CASE c = kind /\ f = e
      BY <1>1, <1>2, <1>5, <2>1, <3>1
    <3>2. CASE ~ (c = kind /\ f = e)
      BY <1>1, <1>2, <1>5, <2>1, <3>2
    <3> QED
      BY <3>1, <3>2
  <2> QED
    BY <1>1, <2>2 DEF Orderly
<1>6. TopicsHeld(u)
  <2> HIDE DEF T
  <2>1. /\ Used(u, "topic") = Used(s, "topic") \ T
        /\ u.topic_owner = [t \in Slot("topic") |->
                              IF t \in T THEN NULL ELSE s.topic_owner[t]]
    BY DEF Destroyed, T
  <2> QED
    BY <2>1 DEF Orderly, TopicsHeld
<1> QED
  BY <1>1, <1>4, <1>5, <1>6 DEF Orderly

(***************************************************************************)
(* A step that changes the pool, the handles and the objects of nodes only *)
(* is orderly if the nodes are.                                            *)
(***************************************************************************)
LEMMA NodesOrderly ==
  ASSUME NEW s, Orderly(s), NEW u, AllHealthy(u), PoolsBut(s, u, "node"),
         u.topic = s.topic, u.topic_owner = s.topic_owner,
         NEW h, NEW o,
         u.rmw_handle = [s.rmw_handle EXCEPT !["node"] = h],
         \/ u.objects = [s.objects EXCEPT !["node"] = o]
         \/ u.objects = s.objects /\ o = s.objects["node"],
         Right(Slot("node"), Used(u, "node"), h, o)
  PROVE  Orderly(u)
<1>1. /\ DOMAIN s.rmw_handle = PoolName /\ DOMAIN s.objects = PoolName
      /\ "node" \in PoolName
  BY StateTypes, Names DEF Orderly
<1>2. \A name \in PoolName :
        name # "node" => /\ u.rmw_handle[name] = s.rmw_handle[name]
                         /\ u.objects[name] = s.objects[name]
                         /\ u.pool[name] = s.pool[name]
  BY <1>1 DEF PoolsBut
<1>3. u.rmw_handle["node"] = h /\ u.objects["node"] = o
  BY <1>1
<1>4. ASSUME NEW name \in Entity
      PROVE  Right(Slot(name), Used(u, name), u.rmw_handle[name],
                   u.objects[name])
  <2>1. CASE name = "node"
    BY <1>3, <2>1
  <2>2. CASE name # "node"
    <3>1. /\ u.rmw_handle[name] = s.rmw_handle[name]
          /\ u.objects[name] = s.objects[name]
          /\ u.pool[name] = s.pool[name]
      BY <1>2, <2>2, Names
    <3> QED
      BY <3>1, SamePool DEF Orderly
  <2> QED
    BY <2>1, <2>2
<1>5. TopicsHeld(u)
  <2>1. Used(u, "topic") = Used(s, "topic")
    BY <1>2, Names, SamePool
  <2> QED
    BY <2>1 DEF Orderly, TopicsHeld
<1>6. ASSUME NEW c \in WithTopics, NEW f \in Slot(c), u.objects[c][f] = 1
      PROVE  u.topic[c][f] \in Slot("topic")
  <2>1. c \in PoolName /\ c # "node"
    BY Names
  <2>2. s.objects[c][f] = 1
    BY <1>2, <1>6, <2>1
  <2> QED
    BY <2>2 DEF Orderly
<1> QED
  BY <1>4, <1>5, <1>6 DEF Orderly

LEMMA NodeMadeOrderly ==
  ASSUME NEW s, Orderly(s), NEW u, NEW n, NodeMade(s, u, n)
  PROVE  Orderly(u)
<1> DEFINE h == [s.rmw_handle["node"] EXCEPT ![n] = n]
           o == [s.objects["node"] EXCEPT ![n] = s.objects["node"][n] + 1]
<1>1. /\ s.rmw_handle["node"] \in
           [Slot("node") -> Slot("node") \cup {NULL, Dangling}]
      /\ s.objects["node"] \in [Slot("node") -> Nat]
      /\ "node" \in PoolName /\ n \in Slot("node") \ Used(s, "node")
      /\ Used(u, "node") = Used(s, "node") \cup {n}
      /\ Right(Slot("node"), Used(s, "node"), s.rmw_handle["node"],
               s.objects["node"])
  BY StateTypes, Names DEF Orderly, NodeMade
<1>2. h = PointAt(s.rmw_handle["node"], "node", n, {})
  BY <1>1 DEF PointAt
<1>3. Right(Slot("node"), Used(u, "node"),
            PointAt(s.rmw_handle["node"], "node", n, {}), o)
  <2>1. \A f \in {} : s.rmw_handle["node"][f] = Dangling
    OBVIOUS
  <2> QED
    BY <1>1, <2>1, RightWhenMade
<1>4. Right(Slot("node"), Used(u, "node"), h, o)
  BY <1>2, <1>3
<1>5. /\ AllHealthy(u) /\ PoolsBut(s, u, "node")
      /\ u.topic = s.topic /\ u.topic_owner = s.topic_owner
      /\ u.rmw_handle = [s.rmw_handle EXCEPT !["node"] = h]
      /\ u.objects = [s.objects EXCEPT !["node"] = o]
  BY DEF NodeMade
<1> HIDE DEF h, o
<1> QED
  BY <1>4, <1>5, NodesOrderly

LEMMA NodeRefusedOrderly ==
  ASSUME NEW s, Orderly(s), NEW u, NEW n, NodeRefused(s, u, n)
  PROVE  Orderly(u)
<1> DEFINE h == Retire(s.rmw_handle["node"], "node", n)
<1>1. /\ s.rmw_handle["node"] \in
           [Slot("node") -> Slot("node") \cup {NULL, Dangling}]
      /\ s.objects["node"] \in [Slot("node") -> Nat]
      /\ "node" \in PoolName /\ n \in Slot("node") \ Used(s, "node")
      /\ Used(u, "node") = Used(s, "node")
      /\ Right(Slot("node"), Used(s, "node"), s.rmw_handle["node"],
               s.objects["node"])
  BY StateTypes, Names DEF Orderly, NodeRefused
<1>2. Right(Slot("node"), Used(u, "node"), h, s.objects["node"])
  BY <1>1, RightWhenRetired
<1>3. /\ AllHealthy(u) /\ PoolsBut(s, u, "node")
      /\ u.topic = s.topic /\ u.topic_owner = s.topic_owner
      /\ u.rmw_handle = [s.rmw_handle EXCEPT !["node"] = h]
      /\ u.objects = s.objects
  BY DEF NodeRefused
<1> HIDE DEF h
<1> QED
  BY <1>2, <1>3, NodesOrderly

LEMMA NodeGoneOrderly ==
  ASSUME NEW s, Orderly(s), NEW u, NEW n \in Slot("node"),
         s.objects["node"][n] = 1, NodeGone(s, u, n)
  PROVE  Orderly(u)
<1> DEFINE h == Retire(s.rmw_handle["node"], "node", n)
           o == [s.objects["node"] EXCEPT ![n] = s.objects["node"][n] - 1]
<1>1. /\ s.rmw_handle["node"] \in
           [Slot("node") -> Slot("node") \cup {NULL, Dangling}]
      /\ s.objects["node"] \in [Slot("node") -> Nat]
      /\ "node" \in PoolName
      /\ Used(u, "node") = Used(s, "node") \ {n}
      /\ Right(Slot("node"), Used(s, "node"), s.rmw_handle["node"],
               s.objects["node"])
  BY StateTypes, Names DEF Orderly, NodeGone
<1>2. n \in Used(s, "node")
  BY <1>1 DEF Right
<1>3. Right(Slot("node"), Used(u, "node"), h, o)
  BY <1>1, <1>2, RightWhenDestroyed
<1>4. /\ AllHealthy(u) /\ PoolsBut(s, u, "node")
      /\ u.topic = s.topic /\ u.topic_owner = s.topic_owner
      /\ u.rmw_handle = [s.rmw_handle EXCEPT !["node"] = h]
      /\ u.objects = [s.objects EXCEPT !["node"] = o]
  BY DEF NodeGone
<1> HIDE DEF h, o
<1> QED
  BY <1>3, <1>4, NodesOrderly

-----------------------------------------------------------------------------
LEMMA InitPools ==
  ASSUME Init, NEW name \in PoolName
  PROVE  /\ rmw.pool[name] \in Pools(Slot(name))
         /\ Healthy(name, rmw.pool[name])
         /\ Used(rmw, name) = {}
<1> DEFINE p == rmw.pool[name]
           n == MaxOf[name]
<1>1. /\ p = IF n = 0 THEN EmptyPool({}) ELSE InitMemory(n, Slot(name))
      /\ n \in Nat /\ Slot(name) = 1..n
  BY SlotFacts DEF Init
<1> HIDE DEF p, n
<1>2. Sound(Slot(name), p, {}, Slot(name) \ {})
  <2>1. CASE n = 0
    <3>1. Slot(name) = {} /\ p = EmptyPool(Slot(name))
      BY <1>1, <2>1
    <3>2. p \in Pools({})
      BY <3>1 DEF EmptyPool, Pools
    <3>3. Threaded(p.next, p.prev, {}, NULL)
      BY DEF Threaded
    <3>4. [i \in {} |-> 0] \in [{} -> Nat] /\ 0 \in Nat
          /\ Ranked(p.next, {}, [i \in {} |-> 0], 0)
      BY DEF Ranked
    <3>5. p.allocateditems = NULL /\ p.freeitems = NULL
      BY <3>1 DEF EmptyPool
    <3>6. \E rank \in [{} -> Nat] : \E top \in Nat :
            Ranked(p.next, {} \cup {}, rank, top)
      BY <3>4
    <3> QED
      BY <3>1, <3>2, <3>3, <3>5, <3>6 DEF Sound
  <2>2. CASE n # 0
    <3>1. Sound(1..n, InitMemory(n, 1..n), {}, 1..n)
      <4>1. n <= n
        BY <1>1
      <4> QED
        BY <1>1, <4>1, InitMemorySound
    <3>2. Slot(name) \ {} = 1..n /\ p = InitMemory(n, 1..n)
      BY <1>1, <2>2
    <3> QED
      BY <1>1, <3>1, <3>2
  <2> QED
    BY <2>1, <2>2
<1>3. \A i \in Slot(name) : ~ p.is_dynamic_memory[i]
  BY <1>1 DEF EmptyPool, InitMemory
<1> QED
  BY <1>2, <1>3, SoundIsHealthy
     DEF Sound, p, HealthyWith, Used, Allocated, Listed

LEMMA InitOrderly == Init => Orderly(rmw)
<1> SUFFICES ASSUME Init PROVE Orderly(rmw)
  OBVIOUS
<1>1. ASSUME NEW name \in PoolName
      PROVE  /\ rmw.pool[name] \in Pools(Slot(name))
             /\ Healthy(name, rmw.pool[name])
             /\ Used(rmw, name) = {}
  BY InitPools
<1>3. rmw \in States
  <2>1. rmw.pool \in PoolTables
    BY <1>1 DEF Init, PoolTables, Tables
  <2>2. rmw.owner_node \in OwnerTables /\ rmw.topic \in TopicTables
    <3>1. /\ rmw.owner_node = [kind \in Kind |-> rmw.owner_node[kind]]
          /\ rmw.topic = [kind \in Kind |-> rmw.topic[kind]]
          /\ \A kind \in Kind :
               /\ rmw.owner_node[kind] \in
                    [Slot(kind) -> Slot("node") \cup {NULL}]
               /\ rmw.topic[kind] \in [Slot(kind) -> Slot("topic") \cup {NULL}]
      BY DEF Init
    <3> QED
      BY <3>1, TableMake DEF OwnerTables, TopicTables
  <2>3. rmw.topic_owner \in TopicOwners
    BY DEF Init, TopicOwners
  <2>4. rmw.rmw_handle \in HandleTables /\ rmw.objects \in ObjectTables
    <3>1. /\ rmw.rmw_handle = [name \in PoolName |-> rmw.rmw_handle[name]]
          /\ rmw.objects = [name \in PoolName |-> rmw.objects[name]]
          /\ \A name \in PoolName :
               /\ rmw.rmw_handle[name] \in
                    [Slot(name) -> Slot(name) \cup {NULL, Dangling}]
               /\ rmw.objects[name] \in [Slot(name) -> Nat]
      BY DEF Init
    <3> QED
      BY <3>1, TableMake DEF HandleTables, ObjectTables
  <2>5. rmw = [pool |-> rmw.pool, owner_node |-> rmw.owner_node,
               topic |-> rmw.topic, topic_owner |-> rmw.topic_owner,
               rmw_handle |-> rmw.rmw_handle, objects |-> rmw.objects]
    BY DEF Init
  <2> QED
    BY <2>1, <2>2, <2>3, <2>4, <2>5 DEF States
<1>4. AllHealthy(rmw)
  BY <1>1, <1>3 DEF AllHealthy
<1>5. /\ \A t \in Slot("topic") : rmw.topic_owner[t] = NULL
      /\ \A name \in PoolName : \A e \in Slot(name) :
           rmw.rmw_handle[name][e] = NULL /\ rmw.objects[name][e] = 0
  BY DEF Init
<1>6. TopicsHeld(rmw)
  BY <1>5 DEF TopicsHeld
<1>7. ASSUME NEW name \in Entity
      PROVE  Right(Slot(name), Used(rmw, name), rmw.rmw_handle[name],
                   rmw.objects[name])
  BY <1>5, Names, SlotFacts DEF Right
<1>8. \A kind \in WithTopics : \A e \in Slot(kind) :
        rmw.objects[kind][e] # 1
  BY <1>5, Names
<1> QED
  BY <1>4, <1>6, <1>7, <1>8 DEF Orderly

-----------------------------------------------------------------------------
(***************************************************************************)
(* The lists of a walk.                                                    *)
(***************************************************************************)
ListsFrom(k) == SubSeq(OwnedKinds, k, Len(OwnedKinds))

LEMMA ListsFacts ==
  /\ Len(OwnedKinds) = 4
  /\ \A k \in 1..4 : /\ OwnedKinds[k] \in Kind
                     /\ ListsFrom(k) # << >>
                     /\ Head(ListsFrom(k)) = OwnedKinds[k]
                     /\ k < 4 => /\ Tail(ListsFrom(k)) = ListsFrom(k + 1)
                                 /\ Tail(ListsFrom(k)) # << >>
                     /\ k = 4 => Tail(ListsFrom(k)) = << >>
  /\ ListsFrom(1) = OwnedKinds
  /\ \A kind \in Kind : \E k \in 1..4 : OwnedKinds[k] = kind
<1>1. /\ Len(OwnedKinds) = 4
      /\ OwnedKinds[1] = "publisher" /\ OwnedKinds[2] = "subscription"
      /\ OwnedKinds[3] = "service" /\ OwnedKinds[4] = "client"
      /\ OwnedKinds \in Seq(Kind)
  BY DEF OwnedKinds, Kind
<1>2. \A kind \in Kind : \E k \in 1..4 : OwnedKinds[k] = kind
  BY <1>1 DEF Kind
<1>3. ListsFrom(1) = OwnedKinds
  BY <1>1, SubSeqFull DEF ListsFrom
<1>4. ASSUME NEW k \in 1..4
      PROVE  /\ OwnedKinds[k] \in Kind
             /\ ListsFrom(k) # << >>
             /\ Head(ListsFrom(k)) = OwnedKinds[k]
             /\ k < 4 => Tail(ListsFrom(k)) = ListsFrom(k + 1)
             /\ k = 4 => Tail(ListsFrom(k)) = << >>
  <2>1. OwnedKinds[k] \in Kind
    BY <1>1, ElementOfSeq
  <2>2. /\ Head(ListsFrom(k)) = OwnedKinds[k]
        /\ Tail(ListsFrom(k)) = ListsFrom(k + 1)
    <3>1. k \in 1..Len(OwnedKinds) /\ Len(OwnedKinds) \in k..Len(OwnedKinds)
      BY <1>1
    <3> QED
      BY <1>1, <3>1, HeadTailOfSubSeq DEF ListsFrom
  <2>3. Len(ListsFrom(k)) # 0
    <3>0. \A i \in 1..4 : OwnedKinds[i] \in Kind
      <4>1. \A i \in 1..Len(OwnedKinds) : OwnedKinds[i] \in Kind
        BY <1>1, ElementOfSeq, Zenon
      <4> QED
        BY <1>1, <4>1, Zenon
    <3>1. /\ \A i \in k..4 : OwnedKinds[i] \in Kind
          /\ k \in Int /\ 4 \in Int /\ k <= 4
      <4>1. k \in Int /\ 4 \in Int /\ k <= 4 /\ \A i \in k..4 : i \in 1..4
        OBVIOUS
      <4> QED
        BY <3>0, <4>1, Zenon
    <3>2. Len(SubSeq(OwnedKinds, k, 4)) = 4 - k + 1
      BY <3>1, SubSeqProperties
    <3> QED
      BY <1>1, <3>1, <3>2 DEF ListsFrom
  <2>4. k = 4 => ListsFrom(k + 1) = << >>
    BY <1>1, SubSeqEmpty DEF ListsFrom
  <2> QED
    BY <2>1, <2>2, <2>3, <2>4, EmptySeq
<1>5. \A k \in 1..4 : k < 4 => k + 1 \in 1..4
  OBVIOUS
<1>6. \A k \in 1..4 : k < 4 => Tail(ListsFrom(k)) # << >>
  BY <1>4, <1>5
<1> QED
  BY <1>1, <1>2, <1>3, <1>4, <1>6

(* Where the links of an allocated list lead. *)
LEMMA ListLinks ==
  ASSUME NEW s, AllHealthy(s), NEW name \in PoolName
  PROVE  LET w == Allocated(s, name)
         IN  /\ w \in Seq(Slot(name)) /\ Len(w) \in Nat
             /\ DOMAIN w = 1..Len(w)
             /\ s.pool[name].allocateditems
                  = IF Len(w) = 0 THEN NULL ELSE w[1]
             /\ \A i \in 1..Len(w) :
                  /\ w[i] \in Slot(name)
                  /\ w[i] \in Used(s, name)
                  /\ s.pool[name].next[w[i]]
                       = IF i < Len(w) THEN w[i + 1] ELSE NULL
             /\ \A i, j \in 1..Len(w) : w[i] = w[j] => i = j
             /\ \A e \in Used(s, name) : \E i \in 1..Len(w) : w[i] = e
<1> DEFINE w == Allocated(s, name)
<1>1. w \in Seq(Slot(name)) /\ Len(w) \in Nat /\ DOMAIN w = 1..Len(w)
  BY UsedFacts
<1>2. IsChain(w, s.pool[name].next, s.pool[name].allocateditems,
              Used(s, name))
  BY HealthyIs DEF AllHealthy, HealthyWith, Chains, Used, Allocated, Listed
<1> HIDE DEF w
<1>3. \A i \in 1..Len(w) : w[i] \in Slot(name)
  BY <1>1
<1> QED
  BY <1>1, <1>2, <1>3 DEF IsChain, Follows, Visits, w

-----------------------------------------------------------------------------
(***************************************************************************)
(* Handles that were reused point to a newer slot, and newer slots stand   *)
(* further ahead in the list.                                              *)
(***************************************************************************)
BehindIn(w, h) ==
  \A i, j \in 1..Len(w) : h[w[i]] = w[j] => j <= i

LEMMA BehindCons ==
  ASSUME NEW I, NEW w \in Seq(I), NEW h, NEW g, NEW e \in I,
         BehindIn(w, h), Dangling \notin I,
         \A i \in 1..Len(w) : w[i] # e,
         g[e] \in {e, Dangling},
         \A i \in 1..Len(w) : g[w[i]] \in {e, Dangling, h[w[i]]}
  PROVE  BehindIn(<< e >> \o w, g)
<1> DEFINE v == << e >> \o w
<1>1. /\ v \in Seq(I) /\ Len(v) = Len(w) + 1 /\ Len(w) \in Nat /\ v[1] = e
      /\ \A j \in 1..Len(v) :
              j # 1 => j - 1 \in 1..Len(w) /\ v[j] = w[j - 1]
  BY ConsProperties
<1> HIDE DEF v
<1>2. ASSUME NEW i \in 1..Len(v), NEW j \in 1..Len(v), g[v[i]] = v[j]
      PROVE  j <= i
  <2>1. v[j] \in I /\ v[j] # Dangling
    BY <1>1
  <2>2. CASE j = 1
    BY <2>2
  <2>3. CASE j # 1
    <3>1. v[j] = w[j - 1] /\ j - 1 \in 1..Len(w) /\ v[j] # e
      BY <1>1, <2>3
    <3>2. i # 1
      BY <1>1, <1>2, <2>1, <3>1
    <3>3. v[i] = w[i - 1] /\ i - 1 \in 1..Len(w)
      BY <1>1, <3>2
    <3>4. h[w[i - 1]] = w[j - 1]
      BY <1>2, <2>1, <3>1, <3>3
    <3>5. j - 1 <= i - 1
      BY <3>1, <3>3, <3>4 DEF BehindIn
    <3> QED
      BY <3>5
  <2> QED
    BY <2>2, <2>3
<1> QED
  BY <1>2 DEF BehindIn, v

LEMMA BehindRemove ==
  ASSUME NEW I, NEW w \in Seq(I), NEW h, NEW g, NEW k \in 1..Len(w),
         BehindIn(w, h), Dangling \notin I, NULL \notin I,
         \A i \in 1..Len(w) : g[w[i]] \in {NULL, Dangling, h[w[i]]}
  PROVE  BehindIn(RemoveAt(w, k), g)
<1> DEFINE v == RemoveAt(w, k)
<1>1. /\ v \in Seq(I) /\ Len(v) = Len(w) - 1 /\ Len(w) \in Nat
      /\ \A j \in 1..(Len(w) - 1) : v[j] = IF j < k THEN w[j] ELSE w[j + 1]
  BY RemoveAtProperties
<1> HIDE DEF v
<1>2. ASSUME NEW i \in 1..Len(v), NEW j \in 1..Len(v), g[v[i]] = v[j]
      PROVE  j <= i
  <2> DEFINE i2 == IF i < k THEN i ELSE i + 1
             j2 == IF j < k THEN j ELSE j + 1
  <2>1. /\ i2 \in 1..Len(w) /\ j2 \in 1..Len(w)
        /\ v[i] = w[i2] /\ v[j] = w[j2] /\ v[j] \in I
    BY <1>1
  <2>2. j2 <= i2 => j <= i
    OBVIOUS
  <2> HIDE DEF i2, j2
  <2>3. h[w[i2]] = w[j2]
    BY <1>2, <2>1
  <2> QED
    BY <2>1, <2>2, <2>3 DEF BehindIn
<1> QED
  BY <1>2 DEF BehindIn, v

LEMMA BehindSame ==
  ASSUME NEW I, NEW w \in Seq(I), NEW h, NEW g,
         BehindIn(w, h), Dangling \notin I,
         \A i \in 1..Len(w) : g[w[i]] \in {Dangling, h[w[i]]}
  PROVE  BehindIn(w, g)
<1>1. \A j \in 1..Len(w) : w[j] \in I
  OBVIOUS
<1> QED
  BY <1>1 DEF BehindIn

-----------------------------------------------------------------------------
(***************************************************************************)
(* Ownership: the node of every live entity is alive, and a walk of        *)
(* rmw_destroy_node has not passed by any live entity of its node.         *)
(***************************************************************************)
Owned(s) ==
  \A kind \in Kind : \A e \in Slot(kind) :
    s.objects[kind][e] = 1 =>
      /\ s.owner_node[kind][e] \in Slot("node")
      /\ s.objects["node"][s.owner_node[kind][e]] = 1

Behind(s) ==
  \A kind \in Kind : BehindIn(Allocated(s, kind), s.rmw_handle[kind])

(* The live entities of a kind that name n as their owner. *)
Mine(s, kind, n) ==
  {e \in Slot(kind) : s.objects[kind][e] = 1 /\ s.owner_node[kind][e] = n}

(* The item x is in the list w, or past its end, and no member of M is     *)
(* before it.                                                              *)
NoneBefore(w, x, M) ==
  \/ x = NULL /\ M = {}
  \/ \E i \in 1..Len(w) : x = w[i] /\ \A j \in 1..(i - 1) : w[j] \notin M

(* The walk w is at the kth list. *)
WalkAt(s, w, k) ==
  /\ w.lists = ListsFrom(k)
  /\ \A m \in 1..(k - 1) : Mine(s, OwnedKinds[m], w.node) = {}
  /\ NoneBefore(Allocated(s, OwnedKinds[k]), w.item,
                Mine(s, OwnedKinds[k], w.node))

OnWalk(s, w) ==
  w = NoWalk \/ /\ w = [node |-> w.node, lists |-> w.lists, item |-> w.item]
                /\ w.node \in Slot("node")
                /\ s.objects["node"][w.node] = 1
                /\ \E k \in 1..4 : WalkAt(s, w, k)

(* How a creation leaves the list and the handles of its kind. *)
ListAndHandles(s, u, kind, e, h) ==
  /\ \A m \in PoolName : m \notin {kind, "topic"} => u.pool[m] = s.pool[m]
  /\ \/ /\ Allocated(u, kind) = << e >> \o Allocated(s, kind)
        /\ \/ u.rmw_handle = [s.rmw_handle EXCEPT ![kind] = h]
           \/ u.rmw_handle =
                [s.rmw_handle EXCEPT ![kind] = Dangle(h, kind, e)]
     \/ /\ Allocated(u, kind) = Allocated(s, kind)
        /\ u.rmw_handle =
             [s.rmw_handle EXCEPT ![kind] = Dangle(h, kind, e)]

LEMMA CreationBehind ==
  ASSUME NEW s, Orderly(s), Behind(s), NEW u, AllHealthy(u),
         NEW kind \in Kind, NEW e \in Slot(kind) \ Used(s, kind),
         NEW reused, NEW h,
         h = PointAt(s.rmw_handle[kind], kind, e, reused),
         ListAndHandles(s, u, kind, e, h)
  PROVE  Behind(u)
<1> DEFINE I == Slot(kind)
           w == Allocated(s, kind)
           g == s.rmw_handle[kind]
           d == Dangle(h, kind, e)
<1>1. /\ AllHealthy(s) /\ kind \in PoolName /\ kind # "topic"
      /\ DOMAIN s.rmw_handle = PoolName
      /\ Dangling \notin I /\ e \in I
  BY Names, StateTypes, SlotFacts DEF Orderly
<1>2. /\ w \in Seq(I) /\ Len(w) \in Nat
      /\ \A i \in 1..Len(w) : w[i] \in I /\ w[i] # e
  BY <1>1, ListLinks
<1>3. BehindIn(w, g)
  BY DEF Behind
<1>4. \A f \in I : /\ h[f] = IF f = e \/ f \in reused THEN e ELSE g[f]
                   /\ d[f] = IF h[f] = e THEN Dangling ELSE h[f]
  BY DEF PointAt, Dangle
<1> HIDE DEF I, w, g, d
<1>5. BehindIn(<< e >> \o w, h)
  <2> DEFINE r == h
  <2>1. /\ r[e] \in {e, Dangling}
        /\ \A i \in 1..Len(w) : r[w[i]] \in {e, Dangling, g[w[i]]}
    BY <1>1, <1>2, <1>4
  <2>2. \A i \in 1..Len(w) : w[i] # e
    BY <1>2
  <2> HIDE DEF r
  <2>3. BehindIn(<< e >> \o w, r)
    BY <1>1, <1>2, <1>3, <2>1, <2>2, BehindCons
  <2> QED
    BY <2>3 DEF r
<1>6. BehindIn(<< e >> \o w, d)
  <2>1. /\ d[e] \in {e, Dangling}
        /\ \A i \in 1..Len(w) : d[w[i]] \in {e, Dangling, g[w[i]]}
    BY <1>1, <1>2, <1>4
  <2> QED
    BY <1>1, <1>2, <1>3, <2>1, BehindCons
<1>7. BehindIn(w, d)
  <2>1. \A i \in 1..Len(w) : d[w[i]] \in {Dangling, g[w[i]]}
    BY <1>1, <1>2, <1>4
  <2> QED
    BY <1>1, <1>2, <1>3, <2>1, BehindSame
<1>8. ASSUME NEW c \in Kind
      PROVE  BehindIn(Allocated(u, c), u.rmw_handle[c])
  <2>1. CASE c = kind
    <3>1. \/ Allocated(u, c) = << e >> \o w /\ u.rmw_handle[c] \in {h, d}
          \/ Allocated(u, c) = w /\ u.rmw_handle[c] = d
      BY <1>1, <2>1 DEF ListAndHandles, w, d
    <3> QED
      BY <1>5, <1>6, <1>7, <3>1
  <2>2. CASE c # kind
    <3>1. c \in PoolName /\ c # "topic"
      BY Names
    <3>2. u.rmw_handle[c] = s.rmw_handle[c] /\ u.pool[c] = s.pool[c]
      BY <1>1, <2>2, <3>1 DEF ListAndHandles
    <3> QED
      BY <3>2, SamePool DEF Behind
  <2> QED
    BY <2>1, <2>2
<1> QED
  BY <1>8 DEF Behind

LEMMA MadeOwned ==
  ASSUME NEW s, Orderly(s), Owned(s), Behind(s), NEW u, NEW kind \in Kind,
         NEW n \in Slot("node"), s.objects["node"][n] = 1,
         NEW e, NEW reused, NEW t, EntityMade(s, u, kind, n, e, reused, t)
  PROVE  Owned(u) /\ Behind(u)
<1>1. /\ Creation(s, u, kind, n, e, t) /\ AllHealthy(u) /\ AllHealthy(s)
      /\ e \in Slot(kind) \ Used(s, kind)
      /\ u.objects = [s.objects EXCEPT
           ![kind] = [s.objects[kind] EXCEPT ![e] = s.objects[kind][e] + 1]]
      /\ \A m \in PoolName : m \notin {kind, "topic"} => u.pool[m] = s.pool[m]
  BY DEF EntityMade, Creation, Orderly
<1>2. Behind(u)
  <2> DEFINE h == PointAt(s.rmw_handle[kind], kind, e, reused)
  <2>1. h = PointAt(s.rmw_handle[kind], kind, e, reused)
    OBVIOUS
  <2>2. /\ Allocated(u, kind) = << e >> \o Allocated(s, kind)
        /\ u.rmw_handle = [s.rmw_handle EXCEPT ![kind] = h]
    BY DEF EntityMade
  <2> HIDE DEF h
  <2>3. ListAndHandles(s, u, kind, e, h)
    BY <1>1, <2>2 DEF ListAndHandles
  <2> QED
    BY <1>1, <2>1, <2>3, CreationBehind
<1>3. DOMAIN s.objects = PoolName /\ s.objects[kind] \in [Slot(kind) -> Nat]
  BY <1>1, StateTypes, Names
<1>4. ASSUME NEW c \in Kind, NEW f \in Slot(c), ~ (c = kind /\ f = e)
      PROVE  u.objects[c][f] = s.objects[c][f]
  <2>1. c \in PoolName
    BY Names
  <2> QED
    BY <1>1, <1>3, <1>4, <2>1
<1>5. u.objects["node"] = s.objects["node"]
  BY <1>1, <1>3, Names
<1>6. ASSUME NEW c \in Kind, NEW f \in Slot(c), u.objects[c][f] = 1
      PROVE  /\ u.owner_node[c][f] \in Slot("node")
             /\ s.objects["node"][u.owner_node[c][f]] = 1
  <2>1. CASE c = kind /\ f = e
    BY <1>1, <2>1, CreationTopics
  <2>2. CASE ~ (c = kind /\ f = e)
    <3>2. KeepsOthers(s, u, kind, e)
      BY <1>1, CreationTopics
    <3>1. u.owner_node[c][f] = s.owner_node[c][f]
      BY <2>2, <3>2 DEF KeepsOthers
    <3> QED
      BY <1>4, <1>6, <2>2, <3>1 DEF Owned
  <2> QED
    BY <2>1, <2>2
<1> QED
  BY <1>2, <1>5, <1>6 DEF Owned

LEMMA NotMadeOwned ==
  ASSUME NEW s, Orderly(s), Owned(s), Behind(s), NEW u, NEW kind \in Kind,
         NEW n \in Slot("node"), NEW e, NEW reused, NEW t,
         \/ EntityKept(s, u, kind, n, e, reused) /\ t = NULL
         \/ EntityRefused(s, u, kind, n, e, reused, t)
  PROVE  Owned(u) /\ Behind(u)
<1>1. /\ Creation(s, u, kind, n, e, t) /\ AllHealthy(u) /\ AllHealthy(s)
      /\ e \in Slot(kind) \ Used(s, kind)
      /\ u.objects = s.objects
      /\ \A m \in PoolName : m \notin {kind, "topic"} => u.pool[m] = s.pool[m]
  BY DEF EntityKept, EntityRefused, Creation, Orderly
<1>2. Behind(u)
  <2> DEFINE h == PointAt(s.rmw_handle[kind], kind, e, reused)
  <2>1. h = PointAt(s.rmw_handle[kind], kind, e, reused)
    OBVIOUS
  <2>2. /\ \/ Allocated(u, kind) = << e >> \o Allocated(s, kind)
           \/ Allocated(u, kind) = Allocated(s, kind)
        /\ u.rmw_handle = [s.rmw_handle EXCEPT ![kind] = Dangle(h, kind, e)]
    BY DEF EntityKept, EntityRefused
  <2> HIDE DEF h
  <2>3. ListAndHandles(s, u, kind, e, h)
    BY <1>1, <2>2 DEF ListAndHandles
  <2> QED
    BY <1>1, <2>1, <2>3, CreationBehind
<1>3. ASSUME NEW c \in Kind, NEW f \in Slot(c), u.objects[c][f] = 1
      PROVE  /\ u.owner_node[c][f] \in Slot("node")
             /\ s.objects["node"][u.owner_node[c][f]] = 1
  <2>1. ~ (c = kind /\ f = e)
    BY <1>1, <1>3, Names DEF Orderly, Right
  <2>3. KeepsOthers(s, u, kind, e)
    BY <1>1, CreationTopics
  <2>2. u.owner_node[c][f] = s.owner_node[c][f]
    BY <2>1, <2>3 DEF KeepsOthers
  <2> QED
    BY <1>1, <1>3, <2>2 DEF Owned
<1> QED
  BY <1>1, <1>2, <1>3 DEF Owned

(* The nodes that stay alive are enough for what they own. *)
LEMMA NodesOwned ==
  ASSUME NEW s, Orderly(s), Owned(s), Behind(s), NEW u,
         PoolsBut(s, u, "node"), u.owner_node = s.owner_node,
         NEW h, u.rmw_handle = [s.rmw_handle EXCEPT !["node"] = h],
         NEW o, \/ u.objects = [s.objects EXCEPT !["node"] = o]
                \/ u.objects = s.objects /\ o = s.objects["node"],
         \A kind \in Kind : \A e \in Slot(kind) :
           s.objects[kind][e] = 1 => o[s.owner_node[kind][e]] = 1
  PROVE  Owned(u) /\ Behind(u)
<1>1. DOMAIN s.rmw_handle = PoolName /\ DOMAIN s.objects = PoolName
  BY StateTypes DEF Orderly
<1>2. u.objects["node"] = o
  BY <1>1, Names
<1>3. ASSUME NEW kind \in Kind
      PROVE  /\ u.objects[kind] = s.objects[kind]
             /\ u.rmw_handle[kind] = s.rmw_handle[kind]
             /\ Allocated(u, kind) = Allocated(s, kind)
  <2>1. kind \in PoolName /\ kind # "node"
    BY Names
  <2>2. u.pool[kind] = s.pool[kind]
    BY <2>1 DEF PoolsBut
  <2> QED
    BY <1>1, <2>1, <2>2, SamePool
<1> QED
  BY <1>2, <1>3 DEF Owned, Behind

MineLess(s, u, kind, e) ==
  \A c \in Kind : \A n \in Slot("node") :
    Mine(u, c, n) = IF c = kind THEN Mine(s, c, n) \ {e} ELSE Mine(s, c, n)

LEMMA DestroyedOwned ==
  ASSUME NEW s, Orderly(s), Owned(s), Behind(s), NEW u, NEW kind \in Kind,
         NEW e \in Slot(kind), s.objects[kind][e] = 1,
         Destroyed(s, u, kind, e)
  PROVE  /\ Owned(u) /\ Behind(u) /\ u.objects["node"] = s.objects["node"]
         /\ MineLess(s, u, kind, e)
<1>1. /\ AllHealthy(u) /\ AllHealthy(s)
      /\ DOMAIN s.objects = PoolName /\ DOMAIN s.rmw_handle = PoolName
      /\ s.objects[kind] \in [Slot(kind) -> Nat]
      /\ kind \in PoolName /\ kind # "topic" /\ kind \in Entity
      /\ "node" \in PoolName /\ kind # "node"
  BY StateTypes, Names DEF Destroyed, Orderly
<1>2. /\ u.objects = [s.objects EXCEPT
           ![kind] = [s.objects[kind] EXCEPT ![e] = s.objects[kind][e] - 1]]
      /\ u.owner_node = s.owner_node
      /\ u.rmw_handle = [s.rmw_handle EXCEPT
                           ![kind] = Retire(s.rmw_handle[kind], kind, e)]
      /\ \A m \in PoolName : m \notin {kind, "topic"} => u.pool[m] = s.pool[m]
      /\ \A k \in DOMAIN Allocated(s, kind) :
           Allocated(s, kind)[k] = e =>
             Allocated(u, kind) = RemoveAt(Allocated(s, kind), k)
  BY DEF Destroyed
<1>3. /\ u.objects["node"] = s.objects["node"]
      /\ u.objects[kind] = [s.objects[kind] EXCEPT ![e] = 0]
      /\ \A c \in Kind : c # kind => u.objects[c] = s.objects[c]
  BY <1>1, <1>2, Names
<1>4. \A c \in Kind : \A f \in Slot(c) :
        u.objects[c][f] = 1 <=> s.objects[c][f] = 1 /\ ~ (c = kind /\ f = e)
  BY <1>1, <1>3
<1>5. Owned(u)
  BY <1>2, <1>3, <1>4 DEF Owned
<1>6. MineLess(s, u, kind, e)
  BY <1>2, <1>4 DEF MineLess, Mine
<1>7. BehindIn(Allocated(u, kind), u.rmw_handle[kind])
  <2> DEFINE w == Allocated(s, kind)
             h == s.rmw_handle[kind]
             g == Retire(h, kind, e)
  <2>1. e \in Used(s, kind)
    BY <1>1 DEF Orderly, Right
  <2>2. /\ w \in Seq(Slot(kind)) /\ DOMAIN w = 1..Len(w)
        /\ \A i \in 1..Len(w) : w[i] \in Slot(kind)
        /\ \E k \in 1..Len(w) : w[k] = e
    BY <1>1, <2>1, ListLinks
  <2>3. PICK k \in 1..Len(w) : w[k] = e
    BY <2>2
  <2>4. Allocated(u, kind) = RemoveAt(w, k) /\ u.rmw_handle[kind] = g
    BY <1>1, <1>2, <2>2, <2>3
  <2>5. \A f \in Slot(kind) : g[f] \in {NULL, Dangling, h[f]}
    BY DEF Retire
  <2>6. BehindIn(w, h)
    BY DEF Behind
  <2> HIDE DEF w, h, g
  <2>7. \A i \in 1..Len(w) : g[w[i]] \in {NULL, Dangling, h[w[i]]}
    BY <2>2, <2>5
  <2>8. BehindIn(RemoveAt(w, k), g)
    BY <1>1, <2>2, <2>6, <2>7, BehindRemove, SlotFacts
  <2> QED
    BY <2>4, <2>8
<1>8. ASSUME NEW c \in Kind, c # kind
      PROVE  BehindIn(Allocated(u, c), u.rmw_handle[c])
  <2>1. c \in PoolName /\ c # "topic"
    BY Names
  <2>2. u.rmw_handle[c] = s.rmw_handle[c] /\ u.pool[c] = s.pool[c]
    BY <1>1, <1>2, <1>8, <2>1
  <2> QED
    BY <2>2, SamePool DEF Behind
<1>9. Behind(u)
  BY <1>7, <1>8 DEF Behind
<1> QED
  BY <1>3, <1>5, <1>6, <1>9

-----------------------------------------------------------------------------
(***************************************************************************)
(* One turn of the loop: to the next item, past one that is not of M, or   *)
(* past one whose destruction took an item of the list away at or before   *)
(* its own place.                                                          *)
(***************************************************************************)
LEMMA StepPast ==
  ASSUME NEW I, NEW w \in Seq(I), NEW M, NEW i \in 1..Len(w),
         \A e \in M : \E j \in 1..Len(w) : w[j] = e,
         \A j \in 1..(i - 1) : w[j] \notin M, w[i] \notin M,
         NEW x, x = IF i < Len(w) THEN w[i + 1] ELSE NULL
  PROVE  NoneBefore(w, x, M)
<1>1. Len(w) \in Nat
  OBVIOUS
<1>2. CASE i < Len(w)
  <2>1. i + 1 \in 1..Len(w) /\ x = w[i + 1]
    BY <1>1, <1>2
  <2>2. \A j \in 1..((i + 1) - 1) : w[j] \notin M
    BY <1>1
  <2> QED
    BY <2>1, <2>2 DEF NoneBefore
<1>3. CASE ~ (i < Len(w))
  <2>1. x = NULL
    BY <1>3
  <2>2. \A j \in 1..Len(w) : w[j] \notin M
    BY <1>1, <1>3
  <2> QED
    BY <2>1, <2>2 DEF NoneBefore
<1> QED
  BY <1>2, <1>3

LEMMA StepOver ==
  ASSUME NEW I, NEW w \in Seq(I), NEW M, NEW i \in 1..Len(w), NEW k \in 1..i,
         \A e \in M : \E j \in 1..Len(w) : w[j] = e,
         \A j \in 1..(i - 1) : w[j] \notin M, w[i] \in M => w[i] = w[k],
         \A j, l \in 1..Len(w) : w[j] = w[l] => j = l,
         NEW x, x = IF i < Len(w) THEN w[i + 1] ELSE NULL
  PROVE  NoneBefore(RemoveAt(w, k), x, M \ {w[k]})
<1> DEFINE v == RemoveAt(w, k)
           N == M \ {w[k]}
<1>1. /\ Len(w) \in Nat /\ k \in 1..Len(w) /\ i \in Nat /\ k \in Nat /\ k <= i
      /\ i <= Len(w)
  OBVIOUS
<1>2. /\ v \in Seq(I) /\ Len(v) = Len(w) - 1
      /\ \A j \in 1..(Len(w) - 1) : v[j] = IF j < k THEN w[j] ELSE w[j + 1]
  BY <1>1, RemoveAtProperties
<1>3. \A j \in 1..i : w[j] \notin N
  <2>1. ASSUME NEW j \in 1..i
        PROVE  w[j] \notin N
    <3>1. j \in 1..(i - 1) \/ j = i
      BY <1>1
    <3> QED
      BY <3>1
  <2> QED
    BY <2>1
<1> HIDE DEF v
<1>4. CASE i < Len(w)
  <2>1. i \in 1..Len(v) /\ x = v[i]
    BY <1>1, <1>2, <1>4
  <2>2. ASSUME NEW j \in 1..(i - 1)
        PROVE  v[j] \notin N
    <3>1. j \in 1..(Len(w) - 1) /\ j \in 1..i /\ j + 1 \in 1..i
      BY <1>1
    <3>2. v[j] = w[j] \/ v[j] = w[j + 1]
      BY <1>2, <3>1
    <3> HIDE DEF N
    <3> QED
      BY <1>3, <3>1, <3>2
  <2> HIDE DEF N
  <2> QED
    BY <2>1, <2>2 DEF NoneBefore, v, N
<1>5. CASE ~ (i < Len(w))
  <2>1. x = NULL /\ i = Len(w)
    BY <1>1, <1>5
  <2>2. N = {}
    BY <1>3, <2>1
  <2> QED
    BY <2>1, <2>2 DEF NoneBefore, v
<1> QED
  BY <1>4, <1>5

(* Every entity that names n as its owner is on the allocated list. *)
LEMMA MineListed ==
  ASSUME NEW s, Orderly(s), NEW kind \in Kind, NEW n
  PROVE  \A e \in Mine(s, kind, n) :
           \E i \in 1..Len(Allocated(s, kind)) : Allocated(s, kind)[i] = e
<1>1. kind \in PoolName /\ kind \in Entity /\ AllHealthy(s)
  BY Names DEF Orderly
<1>2. \A e \in Mine(s, kind, n) : e \in Used(s, kind)
  BY <1>1 DEF Mine, Orderly, Right
<1> QED
  BY <1>1, <1>2, ListLinks

(* The walk passes by an item: its entity is destroyed (with another one   *)
(* whose slot has the object that item's rmw_handle points to now), or it  *)
(* was not the node's.                                                     *)
LEMMA VisitKeepsPlace ==
  ASSUME NEW s, Orderly(s), Owned(s), Behind(s), NEW kind \in Kind,
         NEW n \in Slot("node"), NEW item, item # NULL,
         NoneBefore(Allocated(s, kind), item, Mine(s, kind, n)),
         NEW u, u = DestroyOwned(s, kind, item, n),
         NEW x, x = s.pool[kind].next[item]
  PROVE  /\ Orderly(u) /\ Owned(u) /\ Behind(u)
         /\ u.objects["node"] = s.objects["node"]
         /\ \A c \in Kind : c # kind => Mine(u, c, n) = Mine(s, c, n)
         /\ NoneBefore(Allocated(u, kind), x, Mine(u, kind, n))
<1> DEFINE w == Allocated(s, kind)
           h == s.rmw_handle[kind]
           M == Mine(s, kind, n)
           I == Slot(kind)
<1>1. /\ AllHealthy(s) /\ TopicsHeld(s) /\ kind \in PoolName /\ kind \in Entity
      /\ Right(I, Used(s, kind), h, s.objects[kind])
  BY Names DEF Orderly
<1>2. /\ w \in Seq(I) /\ DOMAIN w = 1..Len(w)
      /\ \A i \in 1..Len(w) :
           /\ w[i] \in I
           /\ s.pool[kind].next[w[i]] = IF i < Len(w) THEN w[i + 1] ELSE NULL
      /\ \A i, j \in 1..Len(w) : w[i] = w[j] => i = j
      /\ \A e \in Used(s, kind) : \E i \in 1..Len(w) : w[i] = e
  BY <1>1, ListLinks
<1>3. \A e \in M : \E j \in 1..Len(w) : w[j] = e
  BY MineListed
<1>4. PICK i \in 1..Len(w) :
        item = w[i] /\ \A j \in 1..(i - 1) : w[j] \notin M
  BY DEF NoneBefore
<1>5. item \in I /\ x = IF i < Len(w) THEN w[i + 1] ELSE NULL
  BY <1>2, <1>4
<1>6. item \in M => h[item] = item /\ item \in I
  BY <1>1 DEF Mine, Right
<1>7. CASE s.owner_node[kind][item] = n /\ h[item] \in I
  <2> DEFINE e == h[item]
  <2>1. /\ u = DestroyEntity(s, kind, e) /\ e \in I
        /\ s.objects[kind][e] = 1 /\ e \in Used(s, kind)
    BY <1>1, <1>5, <1>7 DEF DestroyOwned, Right
  <2>2. kind \in WithTopics => s.topic[kind][e] \in Slot("topic")
    BY <2>1 DEF Orderly
  <2>3. PICK k \in 1..Len(w) : w[k] = e
    BY <1>2, <2>1
  <2>4. k <= i
    <3>1. BehindIn(w, h)
      BY DEF Behind
    <3>2. h[w[i]] = w[k]
      BY <1>4, <2>3
    <3> HIDE DEF w, h, e
    <3> QED
      BY <3>1, <3>2 DEF BehindIn
  <2>5. item \in M => w[i] = w[k]
    BY <1>4, <1>6, <2>3
  <2> HIDE DEF e
  <2>6. s.objects[kind][e] # 0
    BY <2>1
  <2>7. Destroyed(s, u, kind, e)
    BY <1>1, <2>1, <2>2, <2>6, DestroyEntityIs
  <2>8. Orderly(u)
    BY <2>1, <2>7, DestroyedOrderly
  <2>9. /\ Owned(u) /\ Behind(u) /\ u.objects["node"] = s.objects["node"]
        /\ MineLess(s, u, kind, e)
    BY <2>1, <2>7, DestroyedOwned
  <2>10. /\ Mine(u, kind, n) = M \ {w[k]}
         /\ \A c \in Kind : c # kind => Mine(u, c, n) = Mine(s, c, n)
    BY <2>3, <2>9 DEF MineLess
  <2>11. Allocated(u, kind) = RemoveAt(w, k)
    BY <1>2, <2>3, <2>7 DEF Destroyed
  <2>12. NoneBefore(RemoveAt(w, k), x, M \ {w[k]})
    <3>1. k \in 1..i
      BY <2>4, <1>2
    <3>2. \A j \in 1..(i - 1) : w[j] \notin M
      BY <1>4
    <3>3. w[i] \in M => w[i] = w[k]
      BY <1>4, <2>5
    <3> HIDE DEF w, h, M, I
    <3> QED
      BY <1>2, <1>3, <1>5, <3>1, <3>2, <3>3, StepOver
  <2> QED
    BY <2>8, <2>9, <2>10, <2>11, <2>12
<1>8. CASE ~ (s.owner_node[kind][item] = n /\ h[item] \in I)
  <2>1. u = s
    BY <1>8 DEF DestroyOwned
  <2>2. w[i] \notin M
    BY <1>4, <1>6, <1>8 DEF Mine
  <2>3. \A j \in 1..(i - 1) : w[j] \notin M
    BY <1>4
  <2>4. NoneBefore(w, x, M)
    <3> HIDE DEF w, h, M, I
    <3> QED
      BY <1>2, <1>3, <1>5, <2>2, <2>3, StepPast
  <2> QED
    BY <2>1, <2>4
<1> QED
  BY <1>7, <1>8

-----------------------------------------------------------------------------
(***************************************************************************)
(* The inductive invariant, and the steps that keep it.                    *)
(***************************************************************************)
Kept(s) == Orderly(s) /\ Owned(s) /\ Behind(s)

IInv == Kept(rmw) /\ OnWalk(rmw, walk)

(* No creation whose failure puts a slot twice. *)
NoTwicePut == FailPoints \cap TwicePut = {}

LEMMA CreateNodeKeeps ==
  ASSUME NEW s, Kept(s), NEW fail
  PROVE  Kept(CreateNode(s, fail))
<1> DEFINE u == CreateNode(s, fail)
<1>1. u = s \/ (\E n : NodeMade(s, u, n)) \/ (\E n : NodeRefused(s, u, n))
  BY CreateNodeIs DEF Kept, Orderly
<1> HIDE DEF u
<1>2. ASSUME NEW n, NodeMade(s, u, n)
      PROVE  Kept(u)
  <2> DEFINE h == [s.rmw_handle["node"] EXCEPT ![n] = n]
             o == [s.objects["node"] EXCEPT ![n] = s.objects["node"][n] + 1]
  <2>1. Orderly(u)
    BY <1>2, NodeMadeOrderly DEF Kept
  <2>2. /\ PoolsBut(s, u, "node") /\ u.owner_node = s.owner_node
        /\ u.rmw_handle = [s.rmw_handle EXCEPT !["node"] = h]
        /\ u.objects = [s.objects EXCEPT !["node"] = o]
    BY <1>2 DEF NodeMade
  <2>3. \A m \in Slot("node") : s.objects["node"][m] = 1 => o[m] = 1
    <3>1. /\ n \in Slot("node") \ Used(s, "node")
          /\ s.objects["node"] \in [Slot("node") -> Nat]
          /\ Right(Slot("node"), Used(s, "node"), s.rmw_handle["node"],
                   s.objects["node"])
      BY <1>2, StateTypes, Names DEF Kept, Orderly, NodeMade
    <3> QED
      BY <3>1 DEF Right
  <2>4. \A kind \in Kind : \A e \in Slot(kind) :
          s.objects[kind][e] = 1 => o[s.owner_node[kind][e]] = 1
    BY <2>3 DEF Kept, Owned
  <2> HIDE DEF h, o
  <2>5. Owned(u) /\ Behind(u)
    BY <2>2, <2>4, NodesOwned DEF Kept
  <2> QED
    BY <2>1, <2>5 DEF Kept
<1>3. ASSUME NEW n, NodeRefused(s, u, n)
      PROVE  Kept(u)
  <2> DEFINE h == Retire(s.rmw_handle["node"], "node", n)
             o == s.objects["node"]
  <2>1. Orderly(u)
    BY <1>3, NodeRefusedOrderly DEF Kept
  <2>2. /\ PoolsBut(s, u, "node") /\ u.owner_node = s.owner_node
        /\ u.rmw_handle = [s.rmw_handle EXCEPT !["node"] = h]
        /\ \/ u.objects = [s.objects EXCEPT !["node"] = o]
           \/ u.objects = s.objects /\ o = s.objects["node"]
    BY <1>3 DEF NodeRefused
  <2>4. \A kind \in Kind : \A e \in Slot(kind) :
          s.objects[kind][e] = 1 => o[s.owner_node[kind][e]] = 1
    BY DEF Kept, Owned
  <2> HIDE DEF h, o
  <2>5. Owned(u) /\ Behind(u)
    BY <2>2, <2>4, NodesOwned DEF Kept
  <2> QED
    BY <2>1, <2>5 DEF Kept
<1>4. Kept(u)
  BY <1>1, <1>2, <1>3
<1> QED
  BY <1>4 DEF u

LEMMA CreateKeeps ==
  ASSUME NEW s, Kept(s), NEW kind \in Kind, NEW n \in Slot("node"),
         s.objects["node"][n] = 1, NEW fail, fail \notin TwicePut,
         NEW reused, \A f \in reused : s.rmw_handle[kind][f] = Dangling
  PROVE  Kept(Create(s, kind, n, fail, reused))
<1> DEFINE u == Create(s, kind, n, fail, reused)
<1>1. CreateOutcome(s, u, kind, n, fail, reused)
  BY CreateIs DEF Kept, Orderly
<1> HIDE DEF u
<1>2. ASSUME NEW e, NEW t, EntityMade(s, u, kind, n, e, reused, t)
      PROVE  Kept(u)
  BY <1>2, MadeOrderly, MadeOwned DEF Kept
<1>3. ASSUME NEW e, NEW t,
             \/ EntityKept(s, u, kind, n, e, reused) /\ t = NULL
             \/ EntityRefused(s, u, kind, n, e, reused, t)
      PROVE  Kept(u)
  BY <1>3, NotMadeOrderly, NotMadeOwned DEF Kept
<1>4. Kept(u)
  BY <1>1, <1>2, <1>3 DEF CreateOutcome
<1> QED
  BY <1>4 DEF u

LEMMA DestroyKeeps ==
  ASSUME NEW s, Kept(s), NEW kind \in Kind, NEW e \in Slot(kind),
         s.objects[kind][e] = 1
  PROVE  /\ Destroyed(s, DestroyEntity(s, kind, e), kind, e)
         /\ Kept(DestroyEntity(s, kind, e))
<1>1. e \in Used(s, kind) /\ s.objects[kind][e] # 0
  BY Names DEF Kept, Orderly, Right
<1>2. kind \in WithTopics => s.topic[kind][e] \in Slot("topic")
  BY DEF Kept, Orderly
<1>3. Destroyed(s, DestroyEntity(s, kind, e), kind, e)
  BY <1>1, <1>2, DestroyEntityIs DEF Kept, Orderly
<1> QED
  BY <1>3, DestroyedOrderly, DestroyedOwned DEF Kept

LEMMA FiniNodeKeeps ==
  ASSUME NEW s, Kept(s), NEW n \in Slot("node"), s.objects["node"][n] = 1,
         \A kind \in Kind : Mine(s, kind, n) = {}
  PROVE  NodeGone(s, FiniNode(s, n), n) /\ Kept(FiniNode(s, n))
<1> DEFINE u == FiniNode(s, n)
           h == Retire(s.rmw_handle["node"], "node", n)
           o == [s.objects["node"] EXCEPT ![n] = s.objects["node"][n] - 1]
<1>1. n \in Used(s, "node") /\ s.objects["node"][n] # 0
  BY Names DEF Kept, Orderly, Right
<1>2. NodeGone(s, u, n)
  BY <1>1, FiniNodeIs DEF Kept, Orderly
<1> HIDE DEF u
<1>3. Orderly(u)
  BY <1>2, NodeGoneOrderly DEF Kept
<1>4. /\ PoolsBut(s, u, "node") /\ u.owner_node = s.owner_node
      /\ u.rmw_handle = [s.rmw_handle EXCEPT !["node"] = h]
      /\ u.objects = [s.objects EXCEPT !["node"] = o]
  BY <1>2 DEF NodeGone
<1>5. \A kind \in Kind : \A e \in Slot(kind) :
        s.objects[kind][e] = 1 => o[s.owner_node[kind][e]] = 1
  <2>1. s.objects["node"] \in [Slot("node") -> Nat]
    BY StateTypes, Names DEF Kept, Orderly
  <2> QED
    BY <2>1 DEF Kept, Owned, Mine
<1> HIDE DEF h, o
<1>6. Owned(u) /\ Behind(u)
  BY <1>4, <1>5, NodesOwned DEF Kept
<1>7. NodeGone(s, u, n) /\ Kept(u)
  BY <1>2, <1>3, <1>6 DEF Kept
<1> QED
  BY <1>7 DEF u

LEMMA InitIInv == Init => IInv
<1> SUFFICES ASSUME Init PROVE IInv
  OBVIOUS
<1>1. Orderly(rmw)
  BY InitOrderly
<1>2. \A name \in PoolName : \A e \in Slot(name) :
        rmw.rmw_handle[name][e] = NULL /\ rmw.objects[name][e] = 0
  BY DEF Init
<1>3. Owned(rmw)
  <2>1. \A kind \in Kind : \A e \in Slot(kind) : rmw.objects[kind][e] # 1
    BY <1>2, Names
  <2> QED
    BY <2>1 DEF Owned
<1>4. ASSUME NEW kind \in Kind
      PROVE  BehindIn(Allocated(rmw, kind), rmw.rmw_handle[kind])
  <2>1. kind \in PoolName /\ AllHealthy(rmw)
    BY <1>1, Names DEF Orderly
  <2>2. \A i \in 1..Len(Allocated(rmw, kind)) :
          Allocated(rmw, kind)[i] \in Slot(kind)
    BY <2>1, ListLinks
  <2>3. NULL \notin Slot(kind)
    BY <2>1, SlotFacts
  <2> QED
    BY <1>2, <2>1, <2>2, <2>3 DEF BehindIn
<1>5. walk = NoWalk
  BY DEF Init
<1> QED
  BY <1>1, <1>3, <1>4, <1>5 DEF IInv, Kept, Behind, OnWalk

(* What a state predicate about the live entities says of a kept state. *)
LEMMA LiveFacts ==
  ASSUME NEW s, Kept(s)
  PROVE  \A name \in Entity : \A e \in Slot(name) :
           /\ s.objects[name][e] \in {0, 1}
           /\ s.objects[name][e] > 0 <=> s.objects[name][e] = 1
<1>1. \A name \in Entity : \A e \in Slot(name) : s.objects[name][e] \in {0, 1}
  BY DEF Kept, Orderly, Right
<1>2. \A k \in {0, 1} : k > 0 <=> k = 1
  OBVIOUS
<1> QED
  BY <1>1, <1>2

LEMMA VisitKeeps ==
  ASSUME IInv, DestroyNodeVisit
  PROVE  IInv'
<1> DEFINE n == walk.node
<1>1. /\ walk = [node |-> n, lists |-> walk.lists, item |-> walk.item]
      /\ n \in Slot("node") /\ rmw.objects["node"][n] = 1
  BY DEF IInv, OnWalk, DestroyNodeVisit
<1>2. PICK k \in 1..4 : WalkAt(rmw, walk, k)
  BY DEF IInv, OnWalk, DestroyNodeVisit
<1> DEFINE kind == OwnedKinds[k]
           x == rmw.pool[kind].next[walk.item]
<1>3. kind \in Kind /\ Head(walk.lists) = kind
  BY <1>2, ListsFacts DEF WalkAt
<1>4. /\ rmw' = DestroyOwned(rmw, kind, walk.item, n)
      /\ walk' = [walk EXCEPT !.item = x]
      /\ walk.item # NULL
  BY <1>3 DEF DestroyNodeVisit, NextOf
<1>5. walk' = [node |-> n, lists |-> walk.lists, item |-> x]
  BY <1>1, <1>4
<1>6. NoneBefore(Allocated(rmw, kind), walk.item, Mine(rmw, kind, n))
  BY <1>2 DEF WalkAt
<1> HIDE DEF n, x, kind
<1>7. /\ Orderly(rmw') /\ Owned(rmw') /\ Behind(rmw')
      /\ rmw'.objects["node"] = rmw.objects["node"]
      /\ \A c \in Kind : c # kind => Mine(rmw', c, n) = Mine(rmw, c, n)
      /\ NoneBefore(Allocated(rmw', kind), x, Mine(rmw', kind, n))
  <2>1. x = rmw.pool[kind].next[walk.item]
    BY DEF x
  <2> QED
    BY <1>1, <1>3, <1>4, <1>6, <2>1, VisitKeepsPlace DEF IInv, Kept
<1>8. WalkAt(rmw', walk', k)
  <2>1. walk'.lists = ListsFrom(k)
    BY <1>2, <1>5 DEF WalkAt
  <2>2. ASSUME NEW m \in 1..(k - 1)
        PROVE  Mine(rmw', OwnedKinds[m], n) = {}
    <3>1. m \in 1..4 /\ m # k
      OBVIOUS
    <3>2. OwnedKinds[m] \in Kind /\ OwnedKinds[m] # kind
      BY <3>1 DEF OwnedKinds, Kind, kind
    <3>3. Mine(rmw, OwnedKinds[m], n) = {}
      BY <1>2 DEF WalkAt, n
    <3> QED
      BY <1>7, <3>2, <3>3
  <2> QED
    BY <1>5, <1>7, <2>1, <2>2 DEF WalkAt, kind
<1> QED
  BY <1>1, <1>5, <1>7, <1>8 DEF IInv, Kept, OnWalk

(* The head of a list has none of the list before it. *)
LEMMA AtHead ==
  ASSUME NEW s, Kept(s), NEW kind \in Kind, NEW n
  PROVE  NoneBefore(Allocated(s, kind), s.pool[kind].allocateditems,
                    Mine(s, kind, n))
<1> DEFINE w == Allocated(s, kind)
<1>1. kind \in PoolName /\ AllHealthy(s)
  BY Names DEF Kept, Orderly
<1>2. /\ Len(w) \in Nat
      /\ s.pool[kind].allocateditems = IF Len(w) = 0 THEN NULL ELSE w[1]
  BY <1>1, ListLinks
<1>3. \A e \in Mine(s, kind, n) : \E i \in 1..Len(w) : w[i] = e
  BY MineListed DEF Kept
<1> HIDE DEF w
<1>4. CASE Len(w) = 0
  <2>1. Mine(s, kind, n) = {}
    BY <1>3, <1>4
  <2> QED
    BY <1>2, <1>4, <2>1 DEF NoneBefore, w
<1>5. CASE Len(w) # 0
  <2>1. 1 \in 1..Len(w) /\ \A j \in 1..(1 - 1) : w[j] \notin Mine(s, kind, n)
    BY <1>2, <1>5
  <2> QED
    BY <1>2, <1>5, <2>1 DEF NoneBefore, w
<1> QED
  BY <1>4, <1>5

(* A list with its walk at the end of it has nothing left of the node. *)
LEMMA PastEnd ==
  ASSUME NEW s, Kept(s), NEW kind \in Kind, NEW M, NEW x, x = NULL,
         NoneBefore(Allocated(s, kind), x, M)
  PROVE  M = {}
<1>1. kind \in PoolName /\ AllHealthy(s)
  BY Names DEF Kept, Orderly
<1>2. \A i \in 1..Len(Allocated(s, kind)) :
        Allocated(s, kind)[i] \in Slot(kind)
  BY <1>1, ListLinks
<1>3. NULL \notin Slot(kind)
  BY <1>1, SlotFacts
<1> QED
  BY <1>2, <1>3 DEF NoneBefore

LEMMA NextListKeeps ==
  ASSUME IInv, DestroyNodeNextList
  PROVE  IInv'
<1> DEFINE n == walk.node
<1>1. /\ walk = [node |-> n, lists |-> walk.lists, item |-> walk.item]
      /\ n \in Slot("node") /\ rmw.objects["node"][n] = 1
      /\ walk.item = NULL /\ rmw' = rmw
  BY DEF IInv, OnWalk, DestroyNodeNextList
<1>2. PICK k \in 1..4 : WalkAt(rmw, walk, k)
  BY DEF IInv, OnWalk, DestroyNodeNextList
<1>3. k < 4 /\ k + 1 \in 1..4
  <2>1. Tail(ListsFrom(k)) # << >>
    BY <1>2 DEF WalkAt, DestroyNodeNextList
  <2>2. k # 4
    BY <2>1, ListsFacts
  <2> QED
    BY <2>2
<1> DEFINE kind == OwnedKinds[k]
           c == OwnedKinds[k + 1]
           x == rmw.pool[c].allocateditems
<1>4. /\ kind \in Kind /\ c \in Kind
      /\ Tail(walk.lists) = ListsFrom(k + 1)
      /\ Head(ListsFrom(k + 1)) = c
  BY <1>2, <1>3, ListsFacts DEF WalkAt
<1>5. walk' = [node |-> n, lists |-> ListsFrom(k + 1), item |-> x]
  BY <1>1, <1>4 DEF DestroyNodeNextList
<1>6. Mine(rmw, kind, n) = {}
  <2>1. NoneBefore(Allocated(rmw, kind), walk.item, Mine(rmw, kind, n))
    BY <1>2 DEF WalkAt
  <2> HIDE DEF kind, n
  <2> QED
    BY <1>1, <1>4, <2>1, PastEnd DEF IInv
<1>7. NoneBefore(Allocated(rmw, c), x, Mine(rmw, c, n))
  <2> HIDE DEF c, n
  <2> QED
    BY <1>4, AtHead DEF IInv
<1>8. WalkAt(rmw, walk', k + 1)
  <2>1. ASSUME NEW m \in 1..((k + 1) - 1)
        PROVE  Mine(rmw, OwnedKinds[m], n) = {}
    <3>1. m \in 1..(k - 1) \/ m = k
      OBVIOUS
    <3>2. \A j \in 1..(k - 1) : Mine(rmw, OwnedKinds[j], n) = {}
      BY <1>2 DEF WalkAt
    <3> QED
      BY <1>6, <3>1, <3>2
  <2> QED
    BY <1>5, <1>7, <2>1 DEF WalkAt
<1> HIDE DEF n, x, c, kind
<1> QED
  BY <1>1, <1>3, <1>5, <1>8 DEF IInv, OnWalk

LEMMA DestroyNodeKeeps ==
  ASSUME IInv, RmwDestroyNode
  PROVE  IInv'
<1>1. PICK n \in Live("node") :
        walk' = [node  |-> n,
                 lists |-> OwnedKinds,
                 item  |-> rmw.pool[Head(OwnedKinds)].allocateditems]
  BY DEF RmwDestroyNode
<1>2. rmw' = rmw /\ n \in Slot("node") /\ rmw.objects["node"][n] = 1
  BY LiveFacts, Names DEF RmwDestroyNode, Live, IInv
<1> DEFINE c == OwnedKinds[1]
           x == rmw.pool[c].allocateditems
<1>3. c \in Kind /\ Head(OwnedKinds) = c /\ OwnedKinds = ListsFrom(1)
  BY ListsFacts
<1>4. walk' = [node |-> n, lists |-> ListsFrom(1), item |-> x]
  BY <1>1, <1>3
<1>5. NoneBefore(Allocated(rmw, c), x, Mine(rmw, c, n))
  <2> HIDE DEF c
  <2> QED
    BY <1>3, AtHead DEF IInv
<1>6. WalkAt(rmw, walk', 1)
  BY <1>4, <1>5 DEF WalkAt
<1> HIDE DEF x, c
<1> QED
  BY <1>2, <1>4, <1>6 DEF IInv, OnWalk

LEMMA WalkEnds ==
  ASSUME IInv, DestroyNodeEnd
  PROVE  /\ walk.node \in Slot("node") /\ rmw.objects["node"][walk.node] = 1
         /\ \A kind \in Kind : Mine(rmw, kind, walk.node) = {}
<1> DEFINE n == walk.node
<1>1. /\ n \in Slot("node") /\ rmw.objects["node"][n] = 1 /\ walk.item = NULL
  BY DEF IInv, OnWalk, DestroyNodeEnd
<1>2. PICK k \in 1..4 : WalkAt(rmw, walk, k)
  BY DEF IInv, OnWalk, DestroyNodeEnd
<1>3. k = 4
  <2>1. Tail(ListsFrom(k)) = << >>
    BY <1>2 DEF WalkAt, DestroyNodeEnd
  <2>2. ~ (k < 4)
    BY <2>1, ListsFacts
  <2> QED
    BY <2>2
<1>4. \A m \in 1..4 : Mine(rmw, OwnedKinds[m], n) = {}
  <2> DEFINE c == OwnedKinds[4]
  <2>1. c \in Kind /\ NoneBefore(Allocated(rmw, c), walk.item, Mine(rmw, c, n))
    BY <1>2, <1>3, ListsFacts DEF WalkAt
  <2>2. Mine(rmw, c, n) = {}
    <3> HIDE DEF c, n
    <3> QED
      BY <1>1, <2>1, PastEnd DEF IInv
  <2>3. \A m \in 1..(4 - 1) : Mine(rmw, OwnedKinds[m], n) = {}
    BY <1>2, <1>3 DEF WalkAt
  <2>4. \A m \in 1..4 : m \in 1..(4 - 1) \/ m = 4
    OBVIOUS
  <2> QED
    BY <2>2, <2>3, <2>4
<1>5. \A kind \in Kind : \E m \in 1..4 : OwnedKinds[m] = kind
  BY ListsFacts
<1> QED
  BY <1>1, <1>4, <1>5

LEMMA NextIInv ==
  ASSUME NoTwicePut, IInv, [Next]_vars
  PROVE  IInv'
<1>1. Kept(rmw)
  BY DEF IInv
<1>2. ASSUME Kept(rmw'), walk' = NoWalk
      PROVE  IInv'
  BY <1>2 DEF IInv, OnWalk
<1>3. CASE RmwCreateNode
  <2>1. PICK fail \in Fails : rmw' = CreateNode(rmw, fail)
    BY <1>3 DEF RmwCreateNode
  <2>2. Kept(rmw')
    BY <1>1, <2>1, CreateNodeKeeps
  <2> QED
    BY <1>2, <1>3, <2>2 DEF RmwCreateNode
<1>4. ASSUME NEW kind \in Kind, RmwCreate(kind)
      PROVE  IInv'
  <2>1. PICK n \in Live("node"), fail \in Fails,
             reused \in SUBSET Stale(kind) :
          rmw' = Create(rmw, kind, n, fail, reused)
    BY <1>4 DEF RmwCreate
  <2>2. n \in Slot("node") /\ rmw.objects["node"][n] = 1
    BY <1>1, LiveFacts, Names DEF Live
  <2>3. fail \notin TwicePut
    BY DEF NoTwicePut, Fails, TwicePut
  <2>4. \A f \in reused : rmw.rmw_handle[kind][f] = Dangling
    BY DEF Stale
  <2>5. Kept(rmw')
    BY <1>1, <2>1, <2>2, <2>3, <2>4, CreateKeeps
  <2> QED
    BY <1>2, <1>4, <2>5 DEF RmwCreate
<1>5. ASSUME NEW kind \in Kind, RmwDestroy(kind)
      PROVE  IInv'
  <2>1. PICK e \in Live(kind) : rmw' = DestroyEntity(rmw, kind, e)
    BY <1>5 DEF RmwDestroy
  <2>2. e \in Slot(kind) /\ rmw.objects[kind][e] = 1
    BY <1>1, LiveFacts, Names DEF Live
  <2>3. Kept(rmw')
    BY <1>1, <2>1, <2>2, DestroyKeeps
  <2> QED
    BY <1>2, <1>5, <2>3 DEF RmwDestroy
<1>6. CASE DestroyNodeEnd
  <2>1. Kept(rmw')
    BY <1>1, <1>6, WalkEnds, FiniNodeKeeps DEF DestroyNodeEnd
  <2> QED
    BY <1>2, <1>6, <2>1 DEF DestroyNodeEnd
<1>7. CASE UNCHANGED vars
  BY <1>7 DEF vars, IInv
<1>8. \A kind \in {"publisher", "subscription", "service", "client"} :
        kind \in Kind
  BY DEF Kind
<1> QED
  BY <1>3, <1>4, <1>5, <1>6, <1>7, <1>8, DestroyNodeKeeps, VisitKeeps,
     NextListKeeps DEF Next

(***************************************************************************)
(* The invariant in every reachable state, when no creation fails where    *)
(* the code puts the slot twice (the runs with these failures break it).   *)
(***************************************************************************)
THEOREM LifecycleInvariant ==
  ASSUME NoTwicePut
  PROVE  Spec => []IInv
<1>1. Init => IInv
  BY InitIInv
<1>2. IInv /\ [Next]_vars => IInv'
  BY NextIInv
<1> QED
  BY <1>1, <1>2, PTL DEF Spec

LEMMA IInvTypes == IInv => TypeOK
<1> SUFFICES ASSUME IInv PROVE TypeOK
  OBVIOUS
<1>1. AllHealthy(rmw) /\ Kept(rmw)
  BY DEF IInv, Kept, Orderly
<1>2. \A name \in PoolName : rmw.pool[name] \in Pools(Slot(name))
  BY <1>1 DEF AllHealthy, States, PoolTables, Tables
<1>3. \A kind \in Kind : \A e \in Slot(kind) :
        /\ rmw.owner_node[kind][e] \in Slot("node") \cup {NULL}
        /\ rmw.topic[kind][e] \in Slot("topic") \cup {NULL}
  BY <1>1, StateTypes
<1>4. /\ rmw.topic_owner \in [Slot("topic") -> Slot("node") \cup {NULL}]
      /\ \A name \in PoolName :
           /\ rmw.rmw_handle[name] \in
                [Slot(name) -> Slot(name) \cup {NULL, Dangling}]
           /\ rmw.objects[name] \in [Slot(name) -> Nat]
  BY <1>1, StateTypes
<1>5. CASE walk # NoWalk
  <2>1. PICK k \in 1..4 : WalkAt(rmw, walk, k)
    BY <1>5 DEF IInv, OnWalk
  <2>2. walk.lists = SubSeq(OwnedKinds, k, Len(OwnedKinds))
    BY <2>1 DEF WalkAt, ListsFrom
  <2>3. OwnedKinds[k] \in PoolName
    BY ListsFacts, Names
  <2>4. walk.item \in Slot(OwnedKinds[k]) \cup {NULL}
    <3> DEFINE kind == OwnedKinds[k]
    <3>1. NoneBefore(Allocated(rmw, kind), walk.item,
                     Mine(rmw, kind, walk.node))
      BY <2>1 DEF WalkAt
    <3>2. \A i \in 1..Len(Allocated(rmw, kind)) :
            Allocated(rmw, kind)[i] \in Slot(kind)
      <4> HIDE DEF kind
      <4> QED
        BY <1>1, <2>3, ListLinks DEF kind
    <3> HIDE DEF kind
    <3>3. walk.item \in Slot(kind) \cup {NULL}
      BY <3>1, <3>2 DEF NoneBefore
    <3> QED
      BY <3>3 DEF kind
  <2>5. k \in 1..Len(OwnedKinds)
    BY ListsFacts
  <2>6. walk.node \in Slot("node")
    BY <1>5 DEF IInv, OnWalk
  <2> QED
    BY <1>2, <1>3, <1>4, <2>2, <2>4, <2>5, <2>6 DEF TypeOK
<1>6. CASE walk = NoWalk
  BY <1>2, <1>3, <1>4, <1>6 DEF TypeOK
<1> QED
  BY <1>5, <1>6

(* The types of the variables. *)
THEOREM Typing ==
  ASSUME NoTwicePut
  PROVE  Spec => []TypeOK
  BY LifecycleInvariant, IInvTypes, PTL

LEMMA IInvExclusive == IInv => SlotExclusive
<1> SUFFICES ASSUME IInv, NEW name \in Entity, NEW e \in Slot(name)
             PROVE  /\ rmw.objects[name][e] <= 1
                    /\ rmw.objects[name][e] = 1 =>
                         e \notin ToSet(Free(rmw, name))
  BY DEF SlotExclusive
<1>1. AllHealthy(rmw) /\ name \in PoolName
  BY Names DEF IInv, Kept, Orderly
<1>2. Right(Slot(name), Used(rmw, name), rmw.rmw_handle[name],
            rmw.objects[name])
  BY DEF IInv, Kept, Orderly
<1>3. rmw.objects[name][e] \in {0, 1}
  BY <1>2 DEF Right
<1>4. rmw.objects[name][e] = 1 => e \in Used(rmw, name)
  BY <1>2 DEF Right
<1>5. ToSet(Free(rmw, name)) = Slot(name) \ Used(rmw, name)
  BY <1>1, UsedFacts
<1> QED
  BY <1>3, <1>4, <1>5

(***************************************************************************)
(* Two objects of the application never stand on the same slot, and no     *)
(* object stands on a slot that the pool would lend again.                 *)
(***************************************************************************)
THEOREM Exclusive ==
  ASSUME NoTwicePut
  PROVE  Spec => []SlotExclusive
  BY LifecycleInvariant, IInvExclusive, PTL

LEMMA IInvOwned == IInv => NoOrphan
<1> SUFFICES ASSUME IInv, NEW kind \in Kind, NEW e \in Live(kind)
             PROVE  rmw.owner_node[kind][e] \in Live("node")
  BY DEF NoOrphan
<1>1. e \in Slot(kind) /\ rmw.objects[kind][e] = 1
  BY LiveFacts, Names DEF IInv, Live
<1>2. /\ rmw.owner_node[kind][e] \in Slot("node")
      /\ rmw.objects["node"][rmw.owner_node[kind][e]] = 1
  BY <1>1 DEF IInv, Kept, Owned
<1> QED
  BY <1>2 DEF Live

(***************************************************************************)
(* No entity outlives its node: rmw_destroy_node reaches every entity of   *)
(* the node, although it walks along a list from which each destruction    *)
(* takes an item, and although a failed creation may have left behind a    *)
(* slot whose rmw_handle points to an object of another one.               *)
(***************************************************************************)
THEOREM NodeOutlives ==
  ASSUME NoTwicePut
  PROVE  Spec => []NoOrphan
  BY LifecycleInvariant, IInvOwned, PTL

-----------------------------------------------------------------------------
(***************************************************************************)
(* Topics: when no creation fails after its topic was made (the code then  *)
(* forgets the topic), each topic lent is the topic of one live publisher  *)
(* or subscription, and has its node.                                      *)
(***************************************************************************)
TopicsKept == FailPoints \subseteq {"participant", "typesupport", "topic"}

Has(s, c, f) == f \in Slot(c) /\ s.objects[c][f] = 1

TopicsRight(s) ==
  /\ \A c \in WithTopics : \A f \in Slot(c) :
       s.objects[c][f] = 1 =>
         /\ s.topic[c][f] \in Used(s, "topic")
         /\ s.topic_owner[s.topic[c][f]] = s.owner_node[c][f]
  /\ \A c, d \in WithTopics : \A f, g \in Int :
       Has(s, c, f) /\ Has(s, d, g) /\ s.topic[c][f] = s.topic[d][g]
         => c = d /\ f = g
  /\ \A t \in Used(s, "topic") : \E c \in WithTopics : \E f \in Slot(c) :
       s.objects[c][f] = 1 /\ s.topic[c][f] = t

LEMMA TopicsSame ==
  ASSUME NEW s, TopicsRight(s), NEW u,
         Used(u, "topic") = Used(s, "topic"), u.topic_owner = s.topic_owner,
         \A c \in WithTopics : \A f \in Slot(c) :
           /\ u.objects[c][f] = 1 <=> s.objects[c][f] = 1
           /\ s.objects[c][f] = 1 => /\ u.topic[c][f] = s.topic[c][f]
                                     /\ u.owner_node[c][f] = s.owner_node[c][f]
  PROVE  TopicsRight(u)
<1>1. \A c \in WithTopics : \A f \in Slot(c) :
        u.objects[c][f] = 1 =>
          /\ u.topic[c][f] \in Used(u, "topic")
          /\ u.topic_owner[u.topic[c][f]] = u.owner_node[c][f]
  BY DEF TopicsRight
<1>2. \A c, d \in WithTopics : \A f, g \in Int :
        Has(u, c, f) /\ Has(u, d, g) /\ u.topic[c][f] = u.topic[d][g]
          => c = d /\ f = g
  BY DEF TopicsRight, Has
<1>3. \A t \in Used(u, "topic") : \E c \in WithTopics : \E f \in Slot(c) :
        u.objects[c][f] = 1 /\ u.topic[c][f] = t
  BY DEF TopicsRight
<1> QED
  BY <1>1, <1>2, <1>3 DEF TopicsRight

LEMMA MadeTopics ==
  ASSUME NEW s, Orderly(s), TopicsRight(s), NEW u, NEW kind \in Kind,
         NEW n \in Slot("node"), NEW e, NEW reused, NEW t,
         EntityMade(s, u, kind, n, e, reused, t)
  PROVE  TopicsRight(u)
<1>1. /\ Creation(s, u, kind, n, e, t) /\ AllHealthy(s)
      /\ TopicStage(s, u, kind, n, e, t)
      /\ e \in Slot(kind) \ Used(s, kind) /\ s.objects[kind][e] = 0
      /\ kind \in WithTopics <=> t # NULL
      /\ u.objects = [s.objects EXCEPT
           ![kind] = [s.objects[kind] EXCEPT ![e] = s.objects[kind][e] + 1]]
  BY Names DEF EntityMade, Creation, Orderly, Right
<1>2. /\ DOMAIN s.objects = PoolName /\ s.objects[kind] \in [Slot(kind) -> Nat]
      /\ s.topic_owner \in [Slot("topic") -> Slot("node") \cup {NULL}]
      /\ Used(s, "topic") \subseteq Slot("topic")
  BY <1>1, StateTypes, UsedFacts, Names
<1>3. KeepsOthers(s, u, kind, e) /\ u.owner_node[kind][e] = n
  BY <1>1, CreationTopics
<1>4. \A c \in Kind : \A f \in Slot(c) :
        u.objects[c][f] = 1 <=> s.objects[c][f] = 1 \/ (c = kind /\ f = e)
  <2>1. \A c \in Kind : c \in PoolName
    BY Names
  <2> QED
    BY <1>1, <1>2, <2>1
<1>5. \A c \in Kind : \A f \in Slot(c) :
        s.objects[c][f] = 1 =>
          /\ u.topic[c][f] = s.topic[c][f]
          /\ u.owner_node[c][f] = s.owner_node[c][f]
          /\ ~ (c = kind /\ f = e)
  BY <1>1, <1>3 DEF KeepsOthers
<1>6. CASE kind \notin WithTopics
  <2>1. Used(u, "topic") = Used(s, "topic") /\ u.topic_owner = s.topic_owner
    BY <1>1, <1>6, SlotFacts, Names DEF TopicStage
  <2>2. \A c \in WithTopics : c \in Kind /\ c # kind
    BY <1>6, Names
  <2>3. \A c \in WithTopics : \A f \in Slot(c) :
           /\ u.objects[c][f] = 1 <=> s.objects[c][f] = 1
           /\ s.objects[c][f] = 1 => /\ u.topic[c][f] = s.topic[c][f]
                                     /\ u.owner_node[c][f] = s.owner_node[c][f]
    BY <1>4, <1>5, <2>2
  <2> QED
    BY <2>1, <2>3, TopicsSame
<1>7. CASE kind \in WithTopics
  <2>1. /\ t \in Slot("topic") \ Used(s, "topic")
        /\ Used(u, "topic") = Used(s, "topic") \cup {t}
        /\ u.topic_owner = [s.topic_owner EXCEPT ![t] = n]
        /\ u.topic[kind][e] = t
    BY <1>1, <1>7, CreationTopics DEF TopicStage
  <2>2. \A c \in WithTopics : c \in Kind
    BY Names
  <2>3. \A x \in Used(s, "topic") : u.topic_owner[x] = s.topic_owner[x]
    BY <1>2, <2>1
  <2>4. u.topic_owner[t] = n
    BY <1>2, <2>1
  <2>5. \A c \in WithTopics : \A f \in Slot(c) :
          s.objects[c][f] = 1 =>
            /\ u.topic[c][f] \in Used(s, "topic")
            /\ u.topic_owner[u.topic[c][f]] = u.owner_node[c][f]
    BY <1>5, <2>2, <2>3 DEF TopicsRight
  <2>6. \A c \in WithTopics : \A f \in Slot(c) :
          u.objects[c][f] = 1 =>
            /\ u.topic[c][f] \in Used(u, "topic")
            /\ u.topic_owner[u.topic[c][f]] = u.owner_node[c][f]
    BY <1>3, <1>4, <2>1, <2>2, <2>4, <2>5
  <2>7. ASSUME NEW c \in WithTopics, NEW d \in WithTopics,
               NEW f \in Int, NEW g \in Int, Has(u, c, f), Has(u, d, g),
               u.topic[c][f] = u.topic[d][g]
        PROVE  c = d /\ f = g
    <3>1. CASE s.objects[c][f] = 1 /\ s.objects[d][g] = 1
      <4>1. s.topic[c][f] = s.topic[d][g] /\ Has(s, c, f) /\ Has(s, d, g)
        BY <1>5, <2>2, <2>7, <3>1 DEF Has
      <4> QED
        BY <4>1 DEF TopicsRight
    <3>2. CASE s.objects[c][f] = 1 /\ d = kind /\ g = e
      BY <2>1, <2>5, <2>7, <3>2 DEF Has
    <3>3. CASE c = kind /\ f = e /\ s.objects[d][g] = 1
      BY <2>1, <2>5, <2>7, <3>3 DEF Has
    <3> QED
      BY <1>4, <2>2, <2>7, <3>1, <3>2, <3>3 DEF Has
  <2>8. ASSUME NEW x \in Used(u, "topic")
        PROVE  \E c \in WithTopics : \E f \in Slot(c) :
                 u.objects[c][f] = 1 /\ u.topic[c][f] = x
    <3>1. CASE x = t
      BY <1>1, <1>4, <1>7, <2>1, <3>1
    <3>2. CASE x \in Used(s, "topic")
      <4>1. PICK c \in WithTopics : \E f \in Slot(c) :
                   s.objects[c][f] = 1 /\ s.topic[c][f] = x
        BY <3>2 DEF TopicsRight
      <4>2. PICK f \in Slot(c) : s.objects[c][f] = 1 /\ s.topic[c][f] = x
        BY <4>1
      <4>3. u.objects[c][f] = 1 /\ u.topic[c][f] = x
        BY <1>4, <1>5, <2>2, <4>2
      <4> QED
        BY <4>3
    <3> QED
      BY <2>1, <3>1, <3>2
  <2> QED
    BY <2>6, <2>7, <2>8 DEF TopicsRight
<1> QED
  BY <1>6, <1>7

LEMMA KeptTopics ==
  ASSUME NEW s, Orderly(s), TopicsRight(s), NEW u, NEW kind \in Kind,
         NEW n \in Slot("node"), NEW e, NEW reused,
         EntityKept(s, u, kind, n, e, reused)
  PROVE  TopicsRight(u)
<1>1. /\ Creation(s, u, kind, n, e, NULL) /\ AllHealthy(s)
      /\ TopicStage(s, u, kind, n, e, NULL)
      /\ e \in Slot(kind) \ Used(s, kind) /\ s.objects[kind][e] = 0
      /\ u.objects = s.objects
  BY Names DEF EntityKept, Creation, Orderly, Right
<1>2. KeepsOthers(s, u, kind, e)
  BY <1>1, CreationTopics
<1>3. NULL \notin Slot("topic")
  BY SlotFacts, Names
<1>4. Used(u, "topic") = Used(s, "topic") /\ u.topic_owner = s.topic_owner
  BY <1>1, <1>3 DEF TopicStage
<1>5. \A c \in WithTopics : \A f \in Slot(c) :
         /\ u.objects[c][f] = 1 <=> s.objects[c][f] = 1
         /\ s.objects[c][f] = 1 => /\ u.topic[c][f] = s.topic[c][f]
                                   /\ u.owner_node[c][f] = s.owner_node[c][f]
  <2>1. \A c \in WithTopics : c \in Kind
    BY Names
  <2> QED
    BY <1>1, <1>2, <2>1 DEF KeepsOthers
<1> QED
  BY <1>4, <1>5, TopicsSame

LEMMA DestroyedTopics ==
  ASSUME NEW s, Orderly(s), Owned(s), TopicsRight(s), NEW u,
         NEW kind \in Kind, NEW e \in Slot(kind), s.objects[kind][e] = 1,
         Destroyed(s, u, kind, e)
  PROVE  TopicsRight(u)
<1>1. /\ AllHealthy(s) /\ DOMAIN s.objects = PoolName
      /\ s.objects[kind] \in [Slot(kind) -> Nat]
      /\ s.topic_owner \in [Slot("topic") -> Slot("node") \cup {NULL}]
      /\ Used(s, "topic") \subseteq Slot("topic")
      /\ \A c \in WithTopics : c \in Kind
      /\ \A c \in Kind : c \in PoolName
  BY StateTypes, UsedFacts, Names DEF Orderly
<1>2. /\ u.owner_node = s.owner_node /\ u.topic = s.topic
      /\ Used(u, "topic") = Used(s, "topic") \ TopicGoing(s, kind, e)
      /\ u.topic_owner =
           [t \in Slot("topic") |->
              IF t \in TopicGoing(s, kind, e) THEN NULL ELSE s.topic_owner[t]]
      /\ u.objects =
           [s.objects EXCEPT
              ![kind] = [s.objects[kind] EXCEPT ![e] = s.objects[kind][e] - 1]]
  BY DEF Destroyed
<1>3. \A c \in Kind : \A f \in Slot(c) :
        u.objects[c][f] = 1 <=> s.objects[c][f] = 1 /\ ~ (c = kind /\ f = e)
  BY <1>1, <1>2
<1>4. CASE kind \notin WithTopics
  <2>1. TopicGoing(s, kind, e) = {}
    BY <1>4 DEF TopicGoing
  <2>2. Used(u, "topic") = Used(s, "topic") /\ u.topic_owner = s.topic_owner
    BY <1>1, <1>2, <2>1
  <2>3. \A c \in WithTopics : \A f \in Slot(c) :
           u.objects[c][f] = 1 <=> s.objects[c][f] = 1
    BY <1>1, <1>3, <1>4
  <2> QED
    BY <1>2, <2>2, <2>3, TopicsSame
<1>5. CASE kind \in WithTopics
  <2> DEFINE t == s.topic[kind][e]
  <2>1. t \in Used(s, "topic") /\ s.topic_owner[t] = s.owner_node[kind][e]
    BY <1>5 DEF TopicsRight
  <2>2. s.topic_owner[t] # NULL
    BY <2>1, SlotFacts, Names DEF Owned
  <2>3. TopicGoing(s, kind, e) = {t}
    BY <1>5, <2>2 DEF TopicGoing
  <2> HIDE DEF t
  <2>4. /\ Used(u, "topic") = Used(s, "topic") \ {t}
        /\ \A x \in Used(u, "topic") : u.topic_owner[x] = s.topic_owner[x]
    BY <1>1, <1>2, <2>3
  <2>5. \A c \in WithTopics : \A f \in Slot(c) :
          u.objects[c][f] = 1 => s.objects[c][f] = 1 /\ u.topic[c][f] # t
    <3>1. ASSUME NEW c \in WithTopics, NEW f \in Slot(c), u.objects[c][f] = 1
          PROVE  s.objects[c][f] = 1 /\ u.topic[c][f] # t
      <4>1. s.objects[c][f] = 1 /\ ~ (c = kind /\ f = e)
        BY <1>1, <1>3, <3>1
      <4>2. f \in Int /\ e \in Int
        BY <1>1, SlotFacts
      <4>3. Has(s, c, f) /\ Has(s, kind, e)
        BY <4>1 DEF Has
      <4>4. s.topic[c][f] # s.topic[kind][e]
        BY <1>5, <4>1, <4>2, <4>3 DEF TopicsRight
      <4> QED
        BY <1>2, <4>1, <4>4 DEF t
    <3> QED
      BY <3>1
  <2>6. \A c \in WithTopics : \A f \in Slot(c) :
          u.objects[c][f] = 1 =>
            /\ u.topic[c][f] \in Used(u, "topic")
            /\ u.topic_owner[u.topic[c][f]] = u.owner_node[c][f]
    <3>1. /\ u.topic = s.topic /\ u.owner_node = s.owner_node
          /\ Used(u, "topic") = Used(s, "topic") \ {t}
      BY <1>2, <2>4
    <3>2. \A c \in WithTopics : \A f \in Slot(c) :
            s.objects[c][f] = 1 =>
              /\ s.topic[c][f] \in Used(s, "topic")
              /\ s.topic_owner[s.topic[c][f]] = s.owner_node[c][f]
      BY DEF TopicsRight
    <3>3. ASSUME NEW c \in WithTopics, NEW f \in Slot(c), u.objects[c][f] = 1
          PROVE  /\ u.topic[c][f] \in Used(u, "topic")
                 /\ u.topic_owner[u.topic[c][f]] = u.owner_node[c][f]
      <4>1. s.objects[c][f] = 1 /\ u.topic[c][f] # t
        BY <2>5, <3>3
      <4>2. u.topic[c][f] \in Used(u, "topic")
        BY <3>1, <3>2, <4>1
      <4>3. u.topic_owner[u.topic[c][f]] = s.topic_owner[u.topic[c][f]]
        BY <2>4, <4>2
      <4> QED
        BY <3>1, <3>2, <4>1, <4>2, <4>3
    <3> QED
      BY <3>3
  <2>7. \A c, d \in WithTopics : \A f, g \in Int :
          Has(u, c, f) /\ Has(u, d, g) /\ u.topic[c][f] = u.topic[d][g]
            => c = d /\ f = g
    BY <1>2, <2>5 DEF TopicsRight, Has
  <2>8. ASSUME NEW x \in Used(u, "topic")
        PROVE  \E c \in WithTopics : \E f \in Slot(c) :
                 u.objects[c][f] = 1 /\ u.topic[c][f] = x
    <3>1. x \in Used(s, "topic") /\ x # t
      BY <2>4
    <3>2. PICK c \in WithTopics : \E f \in Slot(c) :
                 s.objects[c][f] = 1 /\ s.topic[c][f] = x
      BY <3>1 DEF TopicsRight
    <3>3. PICK f \in Slot(c) : s.objects[c][f] = 1 /\ s.topic[c][f] = x
      BY <3>2
    <3>4. ~ (c = kind /\ f = e)
      BY <3>1, <3>3 DEF t
    <3>5. u.objects[c][f] = 1 /\ u.topic[c][f] = x
      BY <1>1, <1>2, <1>3, <3>3, <3>4
    <3> QED
      BY <3>5
  <2> QED
    BY <2>6, <2>7, <2>8 DEF TopicsRight
<1> QED
  BY <1>4, <1>5

(* Steps of nodes. *)
LEMMA NodesTopics ==
  ASSUME NEW s, Orderly(s), TopicsRight(s), NEW u, PoolsBut(s, u, "node"),
         u.owner_node = s.owner_node, u.topic = s.topic,
         u.topic_owner = s.topic_owner,
         NEW o, \/ u.objects = [s.objects EXCEPT !["node"] = o]
                \/ u.objects = s.objects
  PROVE  TopicsRight(u)
<1>1. u.pool["topic"] = s.pool["topic"]
  BY Names DEF PoolsBut, Entity
<1>2. Used(u, "topic") = Used(s, "topic")
  BY <1>1, SamePool
<1>3. \A c \in WithTopics : u.objects[c] = s.objects[c]
  <2>1. DOMAIN s.objects = PoolName
    BY StateTypes DEF Orderly
  <2>2. \A c \in WithTopics : c \in PoolName /\ c # "node"
    BY Names
  <2> QED
    BY <2>1, <2>2
<1> QED
  BY <1>2, <1>3, TopicsSame

-----------------------------------------------------------------------------
(***************************************************************************)
(* All that a step does to the memory.                                     *)
(***************************************************************************)
Creates(s, u, kind, fail) ==
  \E n \in Slot("node") : \E reused :
    /\ s.objects["node"][n] = 1
    /\ \A f \in reused : s.rmw_handle[kind][f] = Dangling
    /\ CreateOutcome(s, u, kind, n, fail, reused)

Destroys(s, u, kind, e) ==
  e \in Slot(kind) /\ s.objects[kind][e] = 1 /\ Destroyed(s, u, kind, e)

(* The entity that a turn of rmw_destroy_node's loop destroys. *)
Reaches(s, w, e) ==
  \E item \in Slot(Head(w.lists)) :
    /\ item \in Used(s, Head(w.lists))
    /\ e = s.rmw_handle[Head(w.lists)][item]
    /\ s.owner_node[Head(w.lists)][item] = w.node

Changes(s, u, w) ==
  \/ u = s
  \/ \E n : NodeMade(s, u, n)
  \/ \E n : NodeRefused(s, u, n)
  \/ \E kind \in Kind, fail \in Fails : Creates(s, u, kind, fail)
  \/ w = NoWalk /\ \E kind \in Kind : \E e : Destroys(s, u, kind, e)
  \/ /\ w # NoWalk
     /\ \E kind \in Kind : /\ kind = Head(w.lists)
                           /\ \E e :
                                Destroys(s, u, kind, e) /\ Reaches(s, w, e)
  \/ /\ w # NoWalk
     /\ NodeGone(s, u, w.node)
     /\ w.node \in Slot("node") /\ s.objects["node"][w.node] = 1
     /\ \A kind \in Kind : Mine(s, kind, w.node) = {}

(* A turn of the loop destroys nothing or one entity. *)
Turn(s, u, w) ==
  \/ u = s
  \/ \E kind \in Kind : /\ kind = Head(w.lists)
                        /\ \E e :
                             Destroys(s, u, kind, e) /\ Reaches(s, w, e)

LEMMA VisitIs ==
  ASSUME IInv, DestroyNodeVisit
  PROVE  Turn(rmw, rmw', walk)
<1> DEFINE n == walk.node
           item == walk.item
           kind == Head(walk.lists)
           e == rmw.rmw_handle[kind][item]
<1>1. PICK k \in 1..4 : WalkAt(rmw, walk, k)
  BY DEF IInv, OnWalk, DestroyNodeVisit
<1>2. kind \in Kind /\ kind = OwnedKinds[k] /\ kind \in PoolName
      /\ kind \in Entity
  BY <1>1, ListsFacts, Names DEF WalkAt
<1>3. item # NULL /\ rmw' = DestroyOwned(rmw, kind, item, n) /\ walk # NoWalk
  BY DEF DestroyNodeVisit
<1>4. item \in Slot(kind) /\ item \in Used(rmw, kind)
  <2>1. NoneBefore(Allocated(rmw, kind), item, Mine(rmw, kind, n))
    BY <1>1, <1>2 DEF WalkAt
  <2>2. \A i \in 1..Len(Allocated(rmw, kind)) :
          /\ Allocated(rmw, kind)[i] \in Slot(kind)
          /\ Allocated(rmw, kind)[i] \in Used(rmw, kind)
    <3> HIDE DEF kind
    <3> QED
      BY <1>2, ListLinks DEF IInv, Kept, Orderly
  <2> HIDE DEF kind, item, n
  <2> QED
    BY <1>3, <2>1, <2>2 DEF NoneBefore
<1>5. CASE rmw.owner_node[kind][item] = n /\ e \in Slot(kind)
  <2>1. rmw' = DestroyEntity(rmw, kind, e)
    BY <1>3, <1>5 DEF DestroyOwned
  <2>2. rmw.objects[kind][e] = 1
    <3>1. Right(Slot(kind), Used(rmw, kind), rmw.rmw_handle[kind],
                rmw.objects[kind])
      BY <1>2 DEF IInv, Kept, Orderly
    <3> HIDE DEF kind, item
    <3> QED
      BY <1>4, <1>5, <3>1 DEF Right
  <2>3. Destroys(rmw, rmw', kind, e)
    <3> HIDE DEF kind, e
    <3> QED
      BY <1>2, <1>5, <2>1, <2>2, DestroyKeeps DEF Destroys, IInv
  <2>4. Reaches(rmw, walk, e)
    BY <1>4, <1>5 DEF Reaches
  <2> QED
    BY <1>2, <1>3, <2>3, <2>4 DEF Turn
<1>6. CASE ~ (rmw.owner_node[kind][item] = n /\ e \in Slot(kind))
  BY <1>3, <1>6 DEF DestroyOwned, Turn
<1> QED
  BY <1>5, <1>6

LEMMA VisitChanges ==
  ASSUME IInv, DestroyNodeVisit
  PROVE  Changes(rmw, rmw', walk)
<1>1. walk # NoWalk
  BY DEF DestroyNodeVisit
<1> QED
  BY <1>1, VisitIs DEF Turn, Changes

LEMMA StepChanges ==
  ASSUME NoTwicePut, IInv, [Next]_vars
  PROVE  Changes(rmw, rmw', walk)
<1>1. Kept(rmw) /\ AllHealthy(rmw) /\ TopicsHeld(rmw)
  BY DEF IInv, Kept, Orderly
<1>2. CASE RmwCreateNode
  <2>1. PICK fail \in Fails : rmw' = CreateNode(rmw, fail)
    BY <1>2 DEF RmwCreateNode
  <2>2. \/ rmw' = rmw
        \/ \E n : NodeMade(rmw, rmw', n)
        \/ \E n : NodeRefused(rmw, rmw', n)
    BY <1>1, <2>1, CreateNodeIs
  <2> QED
    BY <2>2 DEF Changes
<1>3. ASSUME NEW kind \in Kind, RmwCreate(kind)
      PROVE  Changes(rmw, rmw', walk)
  <2>1. PICK n \in Live("node"), fail \in Fails,
             reused \in SUBSET Stale(kind) :
          rmw' = Create(rmw, kind, n, fail, reused)
    BY <1>3 DEF RmwCreate
  <2>2. /\ n \in Slot("node") /\ rmw.objects["node"][n] = 1
        /\ fail \notin TwicePut
    BY <1>1, LiveFacts, Names DEF Live, NoTwicePut, Fails, TwicePut
  <2>3. \A f \in reused : rmw.rmw_handle[kind][f] = Dangling
    BY DEF Stale
  <2>4. CreateOutcome(rmw, rmw', kind, n, fail, reused)
    BY <1>1, <2>1, <2>2, CreateIs
  <2>5. Creates(rmw, rmw', kind, fail)
    BY <2>2, <2>3, <2>4 DEF Creates
  <2> QED
    BY <2>5 DEF Changes
<1>4. ASSUME NEW kind \in Kind, RmwDestroy(kind)
      PROVE  Changes(rmw, rmw', walk)
  <2>1. PICK e \in Live(kind) : rmw' = DestroyEntity(rmw, kind, e)
    BY <1>4 DEF RmwDestroy
  <2>2. e \in Slot(kind) /\ rmw.objects[kind][e] = 1 /\ walk = NoWalk
    BY <1>1, <1>4, LiveFacts, Names DEF Live, RmwDestroy
  <2>3. Destroys(rmw, rmw', kind, e)
    BY <1>1, <2>1, <2>2, DestroyKeeps DEF Destroys
  <2> QED
    BY <2>2, <2>3 DEF Changes
<1>5. CASE DestroyNodeEnd
  <2>1. /\ rmw' = FiniNode(rmw, walk.node) /\ walk # NoWalk
        /\ walk.node \in Slot("node") /\ rmw.objects["node"][walk.node] = 1
        /\ \A kind \in Kind : Mine(rmw, kind, walk.node) = {}
    BY <1>5, WalkEnds DEF DestroyNodeEnd
  <2>2. NodeGone(rmw, rmw', walk.node)
    BY <1>1, <2>1, FiniNodeKeeps
  <2> QED
    BY <2>1, <2>2 DEF Changes
<1>6. CASE RmwDestroyNode \/ DestroyNodeNextList \/ UNCHANGED vars
  BY <1>6 DEF RmwDestroyNode, DestroyNodeNextList, vars, Changes
<1>7. \A kind \in {"publisher", "subscription", "service", "client"} :
        kind \in Kind
  BY DEF Kind
<1> QED
  BY <1>2, <1>3, <1>4, <1>5, <1>6, <1>7, VisitChanges DEF Next

LEMMA NextTopics ==
  ASSUME TopicsKept, IInv, TopicsRight(rmw), [Next]_vars
  PROVE  TopicsRight(rmw')
<1>1. NoTwicePut
  BY DEF TopicsKept, NoTwicePut, TwicePut
<1>2. Orderly(rmw) /\ Owned(rmw)
  BY DEF IInv, Kept
<1>3. Changes(rmw, rmw', walk)
  BY <1>1, StepChanges
<1>4. ASSUME NEW n, NodeMade(rmw, rmw', n)
      PROVE  TopicsRight(rmw')
  BY <1>2, <1>4, NodesTopics DEF NodeMade
<1>5. ASSUME NEW n, NodeRefused(rmw, rmw', n)
      PROVE  TopicsRight(rmw')
  BY <1>2, <1>5, NodesTopics DEF NodeRefused
<1>6. ASSUME NodeGone(rmw, rmw', walk.node)
      PROVE  TopicsRight(rmw')
  BY <1>2, <1>6, NodesTopics DEF NodeGone
<1>7. ASSUME NEW kind \in Kind, NEW e, Destroys(rmw, rmw', kind, e)
      PROVE  TopicsRight(rmw')
  BY <1>2, <1>7, DestroyedTopics DEF Destroys
<1>8. ASSUME NEW kind \in Kind, NEW fail \in Fails,
             Creates(rmw, rmw', kind, fail)
      PROVE  TopicsRight(rmw')
  <2>1. PICK n, reused :
          /\ n \in Slot("node")
          /\ CreateOutcome(rmw, rmw', kind, n, fail, reused)
    BY <1>8 DEF Creates
  <2>2. fail \notin {"publisher", "subscriber", "datareader"}
    BY DEF TopicsKept, Fails
  <2>3. ASSUME NEW e, NEW t, EntityMade(rmw, rmw', kind, n, e, reused, t)
        PROVE  TopicsRight(rmw')
    BY <1>2, <2>1, <2>3, MadeTopics
  <2>4. ASSUME NEW e, EntityKept(rmw, rmw', kind, n, e, reused)
        PROVE  TopicsRight(rmw')
    BY <1>2, <2>1, <2>4, KeptTopics
  <2> QED
    BY <2>1, <2>2, <2>3, <2>4 DEF CreateOutcome
<1> QED
  BY <1>3, <1>4, <1>5, <1>6, <1>7, <1>8 DEF Changes

LEMMA InitTopics == Init => TopicsRight(rmw)
<1> SUFFICES ASSUME Init PROVE TopicsRight(rmw)
  OBVIOUS
<1>1. Used(rmw, "topic") = {}
  BY InitPools, Names
<1>2. \A c \in WithTopics : \A f \in Slot(c) : rmw.objects[c][f] # 1
  <2>1. \A c \in WithTopics : c \in PoolName
    BY Names
  <2> QED
    BY <2>1 DEF Init
<1> QED
  BY <1>1, <1>2 DEF TopicsRight, Has

LEMMA TopicsRightOwned == IInv /\ TopicsRight(rmw) => TopicsOwned
<1> SUFFICES ASSUME IInv, TopicsRight(rmw) PROVE TopicsOwned
  OBVIOUS
<1>1. \A c \in WithTopics :
        c \in Entity /\ c \in PoolName /\ Slot(c) \subseteq Int
  BY Names, SlotFacts
<1>2. \A c \in WithTopics : \A f \in Slot(c) :
        rmw.objects[c][f] > 0 <=> rmw.objects[c][f] = 1
  BY <1>1, LiveFacts DEF IInv
<1>3. ASSUME NEW x \in WithTopic
      PROVE  /\ x = << x[1], x[2] >> /\ x[1] \in WithTopics
             /\ x[2] \in Slot(x[1]) /\ rmw.objects[x[1]][x[2]] = 1
             /\ x[2] \in Int
  BY <1>1, <1>2 DEF WithTopic, WithTopics, Live
<1>4. ASSUME NEW c \in WithTopics, NEW f \in Slot(c), rmw.objects[c][f] = 1
      PROVE  << c, f >> \in WithTopic /\ TopicOf(<< c, f >>) = rmw.topic[c][f]
  BY <1>2, <1>4 DEF WithTopic, WithTopics, Live, TopicOf
<1>5. ASSUME NEW x \in WithTopic
      PROVE  /\ rmw.topic_owner[TopicOf(x)] = rmw.owner_node[x[1]][x[2]]
             /\ TopicOf(x) \in Used(rmw, "topic")
  BY <1>3 DEF TopicOf, TopicsRight
<1>6. ASSUME NEW x \in WithTopic, NEW y \in WithTopic, TopicOf(x) = TopicOf(y)
      PROVE  x = y
  <2>1. Has(rmw, x[1], x[2]) /\ Has(rmw, y[1], y[2])
    BY <1>3 DEF Has
  <2>2. x[1] = y[1] /\ x[2] = y[2]
    BY <1>3, <1>6, <2>1 DEF TopicOf, TopicsRight
  <2> QED
    BY <1>3, <2>2
<1>7. ASSUME NEW t \in Used(rmw, "topic")
      PROVE  \E x \in WithTopic : TopicOf(x) = t
  <2>1. PICK c \in WithTopics : \E f \in Slot(c) :
               rmw.objects[c][f] = 1 /\ rmw.topic[c][f] = t
    BY DEF TopicsRight
  <2>2. PICK f \in Slot(c) : rmw.objects[c][f] = 1 /\ rmw.topic[c][f] = t
    BY <2>1
  <2> QED
    BY <1>4, <2>2
<1>8. Used(rmw, "topic") = {TopicOf(x) : x \in WithTopic}
  BY <1>5, <1>7
<1> QED
  BY <1>5, <1>6, <1>8 DEF TopicsOwned, Used

(***************************************************************************)
(* Each live publisher or subscription has a topic to itself, of its own   *)
(* node, and no other topic is lent.                                       *)
(***************************************************************************)
THEOREM TopicsPaired ==
  ASSUME TopicsKept
  PROVE  Spec => []TopicsOwned
<1>1. NoTwicePut
  BY DEF TopicsKept, NoTwicePut, TwicePut
<1>2. Spec => []IInv
  BY <1>1, LifecycleInvariant
<1>3. Init => TopicsRight(rmw)
  BY InitTopics
<1>4. IInv /\ TopicsRight(rmw) /\ [Next]_vars => TopicsRight(rmw)'
  BY NextTopics
<1>5. IInv /\ TopicsRight(rmw) => TopicsOwned
  BY TopicsRightOwned
<1> QED
  BY <1>2, <1>3, <1>4, <1>5, PTL DEF Spec

-----------------------------------------------------------------------------
(***************************************************************************)
(* Slots: when only requests for a participant fail and the topics are as  *)
(* many as the publishers and subscriptions that use them, every slot that *)
(* is lent has its object.                                                 *)
(***************************************************************************)
TopicsEnough == MaxOf["topic"] >= MaxOf["publisher"] + MaxOf["subscription"]

NothingLeaks == FailPoints \subseteq {"participant"} /\ TopicsEnough

Full(s) ==
  \A name \in Entity : \A e \in Used(s, name) : s.objects[name][e] = 1

Alive(s, name) == {e \in Slot(name) : s.objects[name][e] = 1}

LEMMA AliveCount ==
  ASSUME NEW s, NEW name \in PoolName
  PROVE  /\ IsFiniteSet(Alive(s, name)) /\ Cardinality(Alive(s, name)) \in Nat
         /\ Cardinality(Alive(s, name)) <= MaxOf[name]
         /\ Cardinality(Alive(s, name)) = MaxOf[name]
              => Alive(s, name) = Slot(name)
<1>1. Alive(s, name) \in SUBSET Slot(name)
  BY DEF Alive
<1>2. IsFiniteSet(Slot(name)) /\ Cardinality(Slot(name)) = MaxOf[name]
  BY SlotFacts
<1> QED
  BY <1>1, <1>2, FS_Subset, FS_CardinalityType

LEMMA TopicsCount ==
  ASSUME NEW s, NEW c \in PoolName, NEW T,
         T = {s.topic[c][f] : f \in Alive(s, c)}
  PROVE  /\ IsFiniteSet(T) /\ Cardinality(T) \in Nat
         /\ Cardinality(T) <= Cardinality(Alive(s, c))
<1> DEFINE S == Alive(s, c)
           g == [f \in S |-> s.topic[c][f]]
<1>1. g \in Surjection(S, T)
  BY DEF Surjection
<1>2. IsFiniteSet(S)
  BY AliveCount
<1> HIDE DEF S, g
<1>3. IsFiniteSet(T) /\ Cardinality(T) <= Cardinality(S)
  BY <1>1, <1>2, FS_Surjection
<1> QED
  BY <1>3, FS_CardinalityType DEF S

(* A free slot of a publisher or subscription leaves a free topic. *)
LEMMA TopicLeft ==
  ASSUME TopicsEnough, NEW s, Kept(s), TopicsRight(s),
         NEW kind \in WithTopics, NEW e \in Slot(kind) \ Used(s, kind)
  PROVE  Used(s, "topic") # Slot("topic")
<1> DEFINE P == "publisher"
           S == "subscription"
           TP == {s.topic[P][f] : f \in Alive(s, P)}
           TS == {s.topic[S][f] : f \in Alive(s, S)}
<1>1. /\ P \in PoolName /\ S \in PoolName /\ "topic" \in PoolName
      /\ kind \in {P, S} /\ kind \in Entity
  BY Names DEF WithTopics, PoolName, Kind
<1>2. /\ MaxOf[P] \in Nat /\ MaxOf[S] \in Nat /\ MaxOf["topic"] \in Nat
      /\ Cardinality(Slot("topic")) = MaxOf["topic"]
  BY <1>1, SlotFacts
<1>3. /\ IsFiniteSet(TP) /\ Cardinality(TP) \in Nat
      /\ Cardinality(TP) <= Cardinality(Alive(s, P))
      /\ IsFiniteSet(TS) /\ Cardinality(TS) \in Nat
      /\ Cardinality(TS) <= Cardinality(Alive(s, S))
  BY <1>1, TopicsCount
<1>4. /\ Cardinality(Alive(s, P)) \in Nat
      /\ Cardinality(Alive(s, P)) <= MaxOf[P]
      /\ Cardinality(Alive(s, S)) \in Nat
      /\ Cardinality(Alive(s, S)) <= MaxOf[S]
  BY <1>1, AliveCount
<1>5. Cardinality(Alive(s, kind)) # MaxOf[kind]
  <2>1. e \notin Alive(s, kind) /\ e \in Slot(kind)
    BY <1>1 DEF Alive, Kept, Orderly, Right
  <2> QED
    BY <1>1, <2>1, AliveCount
<1>6. Used(s, "topic") \subseteq TP \cup TS
  BY DEF TopicsRight, WithTopics, Alive
<1>7. /\ IsFiniteSet(TP \cup TS)
      /\ Cardinality(TP \cup TS) <= Cardinality(TP) + Cardinality(TS)
  <2> HIDE DEF TP, TS
  <2>1. /\ IsFiniteSet(TP \cup TS)
        /\ Cardinality(TP \cup TS)
             = Cardinality(TP) + Cardinality(TS) - Cardinality(TP \cap TS)
    BY <1>3, FS_Union
  <2>2. Cardinality(TP \cap TS) \in Nat
    BY <1>3, FS_Intersection, FS_CardinalityType
  <2> QED
    BY <1>3, <2>1, <2>2
<1>8. /\ Cardinality(Used(s, "topic")) <= Cardinality(TP \cup TS)
      /\ Cardinality(TP \cup TS) \in Nat
      /\ Cardinality(Used(s, "topic")) \in Nat
  <2> HIDE DEF TP, TS
  <2> QED
    BY <1>6, <1>7, FS_Subset, FS_CardinalityType
<1>9. Cardinality(Alive(s, P)) + Cardinality(Alive(s, S)) < MaxOf[P] + MaxOf[S]
  <2>1. CASE kind = P
    BY <1>2, <1>4, <1>5, <2>1
  <2>2. CASE kind = S
    BY <1>2, <1>4, <1>5, <2>2
  <2> QED
    BY <1>1, <2>1, <2>2
<1>10. Cardinality(TP) + Cardinality(TS) < MaxOf[P] + MaxOf[S]
  <2> HIDE DEF TP, TS
  <2> QED
    BY <1>2, <1>3, <1>4, <1>9
<1>11. Cardinality(Used(s, "topic")) < MaxOf["topic"]
  <2> HIDE DEF TP, TS
  <2> QED
    BY <1>2, <1>3, <1>7, <1>8, <1>10 DEF TopicsEnough
<1> QED
  BY <1>2, <1>8, <1>11

(* A pool whose slots and objects change together stays full. *)
LEMMA FullWrite ==
  ASSUME NEW s, Orderly(s), Full(s), NEW u, NEW name \in Entity,
         \A m \in Entity : m # name => Used(u, m) = Used(s, m),
         NEW o, \/ u.objects = [s.objects EXCEPT ![name] = o]
                \/ u.objects = s.objects /\ o = s.objects[name],
         \A e \in Used(u, name) : o[e] = 1
  PROVE  Full(u)
<1>1. DOMAIN s.objects = PoolName /\ \A m \in Entity : m \in PoolName
  BY StateTypes, Names DEF Orderly
<1>2. ASSUME NEW m \in Entity, NEW e \in Used(u, m)
      PROVE  u.objects[m][e] = 1
  <2>1. CASE m = name
    BY <1>1, <1>2, <2>1
  <2>2. CASE m # name
    <3>1. u.objects[m] = s.objects[m] /\ e \in Used(s, m)
      BY <1>1, <1>2, <2>2
    <3> QED
      BY <3>1 DEF Full
  <2> QED
    BY <2>1, <2>2
<1> QED
  BY <1>2 DEF Full

UsedAlike(s, u, name) ==
  \A m \in Entity : m # name => Used(u, m) = Used(s, m)

PoolsAlike(s, u, name) ==
  \A m \in PoolName : m \notin {name, "topic"} => u.pool[m] = s.pool[m]

LEMMA UsedBut ==
  ASSUME NEW s, NEW u, NEW name, PoolsAlike(s, u, name)
  PROVE  UsedAlike(s, u, name)
<1>1. ASSUME NEW m \in Entity, m # name
      PROVE  Used(u, m) = Used(s, m)
  <2>1. m \in PoolName /\ m # "topic"
    BY Names
  <2>2. u.pool[m] = s.pool[m]
    BY <1>1, <2>1 DEF PoolsAlike
  <2> QED
    BY <2>2, SamePool
<1> QED
  BY <1>1 DEF UsedAlike

LEMMA FullAdds ==
  ASSUME NEW s, Orderly(s), Full(s), NEW u, NEW name \in Entity,
         PoolsAlike(s, u, name),
         NEW e \in Slot(name) \ Used(s, name),
         Used(u, name) = Used(s, name) \cup {e},
         u.objects = [s.objects EXCEPT
           ![name] = [s.objects[name] EXCEPT ![e] = s.objects[name][e] + 1]]
  PROVE  Full(u)
<1> DEFINE o == [s.objects[name] EXCEPT ![e] = s.objects[name][e] + 1]
<1>1. /\ s.objects[name] \in [Slot(name) -> Nat] /\ name \in PoolName
      /\ s.objects[name][e] = 0 /\ Used(s, name) \in SUBSET Slot(name)
  BY StateTypes, UsedFacts, Names DEF Orderly, Right
<1>2. \A f \in Used(s, name) : s.objects[name][f] = 1
  BY DEF Full
<1>3. \A f \in Used(u, name) : o[f] = 1
  BY <1>1, <1>2
<1>4. \A m \in Entity : m # name => Used(u, m) = Used(s, m)
  BY UsedBut DEF UsedAlike
<1>5. u.objects = [s.objects EXCEPT ![name] = o]
  OBVIOUS
<1> HIDE DEF o
<1> QED
  BY <1>3, <1>4, <1>5, FullWrite

LEMMA FullRemoves ==
  ASSUME NEW s, Orderly(s), Full(s), NEW u, NEW name \in Entity,
         PoolsAlike(s, u, name),
         NEW e,
         Used(u, name) = Used(s, name) \ {e},
         u.objects = [s.objects EXCEPT
           ![name] = [s.objects[name] EXCEPT ![e] = s.objects[name][e] - 1]]
  PROVE  Full(u)
<1> DEFINE o == [s.objects[name] EXCEPT ![e] = s.objects[name][e] - 1]
<1>1. /\ s.objects[name] \in [Slot(name) -> Nat] /\ name \in PoolName
      /\ Used(s, name) \in SUBSET Slot(name)
  BY StateTypes, UsedFacts, Names DEF Orderly
<1>2. \A f \in Used(s, name) : s.objects[name][f] = 1
  BY DEF Full
<1>3. \A f \in Used(u, name) : o[f] = 1
  BY <1>1, <1>2
<1>4. \A m \in Entity : m # name => Used(u, m) = Used(s, m)
  BY UsedBut DEF UsedAlike
<1>5. u.objects = [s.objects EXCEPT ![name] = o]
  OBVIOUS
<1> HIDE DEF o
<1> QED
  BY <1>3, <1>4, <1>5, FullWrite

LEMMA CreatesFull ==
  ASSUME NothingLeaks, NEW s, Kept(s), TopicsRight(s), NEW u,
         NEW kind \in Kind, NEW fail \in Fails, NEW n, NEW reused,
         CreateOutcome(s, u, kind, n, fail, reused)
  PROVE  \/ u = s /\ Used(s, kind) = Slot(kind)
         \/ \E e, t : EntityMade(s, u, kind, n, e, reused, t)
<1>1. fail \in {"participant", "none"}
  BY DEF NothingLeaks, Fails
<1>2. ASSUME NEW e, EntityKept(s, u, kind, n, e, reused), kind \in WithTopics
      PROVE  Used(s, "topic") # Slot("topic")
  <2>1. e \in Slot(kind) \ Used(s, kind)
    BY <1>2 DEF EntityKept, Creation
  <2> QED
    BY <1>2, <2>1, TopicLeft DEF NothingLeaks
<1> QED
  BY <1>1, <1>2 DEF CreateOutcome

LEMMA NextFull ==
  ASSUME NothingLeaks, IInv, TopicsRight(rmw), Full(rmw), [Next]_vars
  PROVE  Full(rmw')
<1>1. NoTwicePut
  BY DEF NothingLeaks, NoTwicePut, TwicePut
<1>2. Orderly(rmw) /\ Kept(rmw)
  BY DEF IInv, Kept
<1>3. Changes(rmw, rmw', walk)
  BY <1>1, StepChanges
<1>4. "node" \in Entity
  BY Names
<1>5. ASSUME NEW n, NodeMade(rmw, rmw', n)
      PROVE  Full(rmw')
  BY <1>2, <1>4, <1>5, FullAdds DEF NodeMade, PoolsBut, PoolsAlike
<1>6. ASSUME NEW n, NodeRefused(rmw, rmw', n)
      PROVE  Full(rmw')
  <2>1. \A m \in Entity : Used(rmw', m) = Used(rmw, m)
    <3>1. PoolsAlike(rmw, rmw', "node")
      BY <1>6 DEF NodeRefused, PoolsBut, PoolsAlike
    <3>2. UsedAlike(rmw, rmw', "node")
      BY <3>1, UsedBut
    <3> QED
      BY <1>6, <3>2 DEF NodeRefused, UsedAlike
  <2> QED
    BY <1>6, <2>1 DEF NodeRefused, Full
<1>7. ASSUME NodeGone(rmw, rmw', walk.node)
      PROVE  Full(rmw')
  BY <1>2, <1>4, <1>7, FullRemoves DEF NodeGone, PoolsBut, PoolsAlike
<1>8. ASSUME NEW kind \in Kind, NEW e, Destroys(rmw, rmw', kind, e)
      PROVE  Full(rmw')
  BY <1>2, <1>8, FullRemoves, Names DEF Destroys, Destroyed, PoolsAlike
<1>9. ASSUME NEW kind \in Kind, NEW fail \in Fails,
             Creates(rmw, rmw', kind, fail)
      PROVE  Full(rmw')
  <2>1. PICK n, reused :
          /\ n \in Slot("node")
          /\ CreateOutcome(rmw, rmw', kind, n, fail, reused)
    BY <1>9 DEF Creates
  <2>2. \/ rmw' = rmw
        \/ \E e, t : EntityMade(rmw, rmw', kind, n, e, reused, t)
    BY <1>2, <2>1, CreatesFull
  <2>3. ASSUME NEW e, NEW t, EntityMade(rmw, rmw', kind, n, e, reused, t)
        PROVE  Full(rmw')
    BY <1>2, <2>3, FullAdds, Names DEF EntityMade, Creation, PoolsAlike
  <2> QED
    BY <2>2, <2>3
<1> QED
  BY <1>3, <1>5, <1>6, <1>7, <1>8, <1>9 DEF Changes

LEMMA InitFull == Init => Full(rmw)
<1> SUFFICES ASSUME Init PROVE Full(rmw)
  OBVIOUS
<1>1. \A name \in Entity : Used(rmw, name) = {}
  BY InitPools, Names
<1> QED
  BY <1>1 DEF Full

SlotsInv == IInv /\ TopicsRight(rmw) /\ Full(rmw)

(***************************************************************************)
(* The invariant of these runs: nothing leaks.                             *)
(***************************************************************************)
THEOREM SlotsInvariant ==
  ASSUME NothingLeaks
  PROVE  Spec => []SlotsInv
<1>1. TopicsKept /\ NoTwicePut
  BY DEF NothingLeaks, TopicsKept, NoTwicePut, TwicePut
<1>2. Spec => []IInv
  BY <1>1, LifecycleInvariant
<1>3. Init => TopicsRight(rmw) /\ Full(rmw)
  BY InitTopics, InitFull
<1>4. IInv /\ TopicsRight(rmw) /\ Full(rmw) /\ [Next]_vars
        => (TopicsRight(rmw) /\ Full(rmw))'
  BY <1>1, NextTopics, NextFull
<1>5. SlotsInv <=> IInv /\ TopicsRight(rmw) /\ Full(rmw)
  BY DEF SlotsInv
<1> QED
  BY <1>2, <1>3, <1>4, <1>5, PTL DEF Spec

LEMMA UsedLive ==
  ASSUME IInv, Full(rmw), NEW name \in Entity
  PROVE  Used(rmw, name) = Live(name) /\ Live(name) = Alive(rmw, name)
<1>1. /\ Right(Slot(name), Used(rmw, name), rmw.rmw_handle[name],
               rmw.objects[name])
      /\ Used(rmw, name) \in SUBSET Slot(name)
  BY UsedFacts, Names DEF IInv, Kept, Orderly
<1>2. \A e \in Slot(name) :
        rmw.objects[name][e] > 0 <=> rmw.objects[name][e] = 1
  BY LiveFacts DEF IInv
<1>3. Live(name) = Alive(rmw, name)
  BY <1>2 DEF Live, Alive
<1>4. Used(rmw, name) \subseteq Alive(rmw, name)
  BY <1>1 DEF Full, Alive
<1>5. Alive(rmw, name) \subseteq Used(rmw, name)
  BY <1>1 DEF Right, Alive
<1> QED
  BY <1>3, <1>4, <1>5

LEMMA SlotsLive == SlotsInv => NoSlotLost
<1> SUFFICES ASSUME SlotsInv, NEW name \in Entity
             PROVE  /\ ToSet(Allocated(rmw, name)) = Live(name)
                    /\ ToSet(Free(rmw, name)) = Slot(name) \ Live(name)
  BY DEF NoSlotLost
<1>1. Used(rmw, name) = Live(name)
  BY UsedLive DEF SlotsInv
<1>2. ToSet(Free(rmw, name)) = Slot(name) \ Used(rmw, name)
  BY UsedFacts, Names DEF SlotsInv, IInv, Kept, Orderly
<1> QED
  BY <1>1, <1>2 DEF Used

(***************************************************************************)
(* The allocated list of each pool of entities is the application's        *)
(* objects and the free list is the rest.                                  *)
(***************************************************************************)
THEOREM SlotsCounted ==
  ASSUME NothingLeaks
  PROVE  Spec => []NoSlotLost
  BY SlotsInvariant, SlotsLive, PTL

LEMMA SlotsHandles == SlotsInv => HandlesAlive
<1> SUFFICES ASSUME SlotsInv, NEW name \in Entity,
                    NEW e \in Used(rmw, name)
             PROVE  rmw.rmw_handle[name][e] = e
  BY DEF HandlesAlive, Used
<1>1. rmw.objects[name][e] = 1
  BY DEF SlotsInv, Full
<1>2. /\ Right(Slot(name), Used(rmw, name), rmw.rmw_handle[name],
               rmw.objects[name])
      /\ Used(rmw, name) \in SUBSET Slot(name)
  BY UsedFacts, Names DEF SlotsInv, IInv, Kept, Orderly
<1> QED
  BY <1>1, <1>2 DEF Right

(***************************************************************************)
(* The rmw_handle of every allocated slot is its own object, alive.        *)
(***************************************************************************)
THEOREM HandlesPoint ==
  ASSUME NothingLeaks
  PROVE  Spec => []HandlesAlive
  BY SlotsInvariant, SlotsHandles, PTL

LEMMA SlotsAvailable ==
  ASSUME NothingLeaks, SlotsInv
  PROVE  CreationAvailable
<1> SUFFICES ASSUME NEW kind \in Kind, NEW n \in Live("node"),
                    Cardinality(Live(kind)) < MaxOf[kind]
             PROVE  \E e \in Slot(kind) \ Live(kind) :
                      Create(rmw, kind, n, "none", {}).objects[kind][e] = 1
  BY DEF CreationAvailable
<1> DEFINE u == Create(rmw, kind, n, "none", {})
<1>1. /\ Kept(rmw) /\ AllHealthy(rmw) /\ TopicsHeld(rmw) /\ TopicsRight(rmw)
      /\ kind \in Entity /\ kind \in PoolName
  BY Names DEF SlotsInv, IInv, Kept, Orderly
<1>2. n \in Slot("node") /\ "none" \in Fails /\ "none" \notin TwicePut
  BY DEF Live, Fails, TwicePut
<1>3. CreateOutcome(rmw, u, kind, n, "none", {})
  BY <1>1, <1>2, CreateIs
<1>4. Used(rmw, kind) = Live(kind)
  BY <1>1, UsedLive DEF SlotsInv
<1>5. Used(rmw, kind) # Slot(kind)
  <2>1. Cardinality(Slot(kind)) = MaxOf[kind] /\ MaxOf[kind] \in Nat
    BY <1>1, SlotFacts
  <2> QED
    BY <1>4, <2>1
<1> HIDE DEF u
<1>6. \E e, t : EntityMade(rmw, u, kind, n, e, {}, t)
  BY <1>1, <1>2, <1>3, <1>5, CreatesFull
<1>7. PICK e, t : EntityMade(rmw, u, kind, n, e, {}, t)
  BY <1>6, Zenon
<1>8. /\ e \in Slot(kind) \ Used(rmw, kind)
      /\ u.objects = [rmw.objects EXCEPT
           ![kind] = [rmw.objects[kind] EXCEPT
                        ![e] = rmw.objects[kind][e] + 1]]
  BY <1>7 DEF EntityMade, Creation
<1>9. /\ rmw.objects[kind] \in [Slot(kind) -> Nat]
      /\ DOMAIN rmw.objects = PoolName
      /\ rmw.objects[kind][e] = 0
  BY <1>1, <1>8, StateTypes DEF Kept, Orderly, Right
<1>10. u.objects[kind][e] = 1
  BY <1>1, <1>8, <1>9
<1> QED
  BY <1>4, <1>8, <1>10 DEF u

(***************************************************************************)
(* A creation whose every step succeeds creates the entity, as long as     *)
(* fewer are alive than the configured maximum.                            *)
(***************************************************************************)
THEOREM Available ==
  ASSUME NothingLeaks
  PROVE  Spec => []CreationAvailable
<1>1. SlotsInv => CreationAvailable
  BY SlotsAvailable
<1> QED
  BY <1>1, SlotsInvariant, PTL

-----------------------------------------------------------------------------
(***************************************************************************)
(* What a step takes away.                                                 *)
(***************************************************************************)
LEMMA EntitiesAre ==
  ASSUME IInv
  PROVE  \A x : x \in LiveEntities <=>
           /\ x = << x[1], x[2] >> /\ x[1] \in Kind
           /\ x[2] \in Slot(x[1]) /\ rmw.objects[x[1]][x[2]] = 1
<1>1. \A kind \in Kind : \A e \in Slot(kind) :
        rmw.objects[kind][e] > 0 <=> rmw.objects[kind][e] = 1
  BY LiveFacts, Names DEF IInv
<1>2. ASSUME NEW x, x \in LiveEntities
      PROVE  /\ x = << x[1], x[2] >> /\ x[1] \in Kind
             /\ x[2] \in Slot(x[1]) /\ rmw.objects[x[1]][x[2]] = 1
  <2>1. PICK kind \in Kind : x \in {kind} \X Live(kind)
    BY <1>2 DEF LiveEntities
  <2> QED
    BY <1>1, <2>1 DEF Live
<1>3. ASSUME NEW x, x = << x[1], x[2] >>, x[1] \in Kind, x[2] \in Slot(x[1]),
             rmw.objects[x[1]][x[2]] = 1
      PROVE  x \in LiveEntities
  <2>1. x[2] \in Live(x[1])
    BY <1>1, <1>3 DEF Live
  <2>2. x \in {x[1]} \X Live(x[1])
    BY <1>3, <2>1
  <2> QED
    BY <1>3, <2>2 DEF LiveEntities
<1> QED
  BY <1>2, <1>3

LEMMA EntitiesNext == IInv' => \A x : x \in LiveEntities' <=>
                         /\ x = << x[1], x[2] >> /\ x[1] \in Kind
                         /\ x[2] \in Slot(x[1])
                         /\ rmw'.objects[x[1]][x[2]] = 1
<1> DEFINE E == \A x : x \in LiveEntities <=>
                  /\ x = << x[1], x[2] >> /\ x[1] \in Kind
                  /\ x[2] \in Slot(x[1]) /\ rmw.objects[x[1]][x[2]] = 1
<1>1. IInv => E
  BY EntitiesAre
<1>2. IInv' => E'
  BY <1>1, PTL
<1> QED
  BY <1>2

NodesStay == \A n \in Slot("node") :
  rmw.objects["node"][n] = 1 => rmw'.objects["node"][n] = 1

EntityStays(c, f) ==
  /\ rmw'.objects[c][f] = 1
  /\ rmw'.owner_node[c][f] = rmw.owner_node[c][f]
  /\ rmw'.topic[c][f] = rmw.topic[c][f]

EntitiesStay ==
  \A c \in Kind : \A f \in Slot(c) :
    rmw.objects[c][f] = 1 => EntityStays(c, f)

LEMMA NothingLost ==
  ASSUME IInv, EntitiesStay
  PROVE  LostEntities = {}
<1>1. ASSUME NEW x \in LiveEntities
      PROVE  Survives(x[1], x[2])
  BY EntitiesAre DEF EntitiesStay, EntityStays, Survives
<1> QED
  BY <1>1 DEF LostEntities

LEMMA LiveNodes ==
  ASSUME IInv, IInv'
  PROVE  /\ \A n : n \in Live("node") <=>
              n \in Slot("node") /\ rmw.objects["node"][n] = 1
         /\ \A n : n \in Live("node")' <=>
              n \in Slot("node") /\ rmw'.objects["node"][n] = 1
<1>1. \A n \in Slot("node") :
        rmw.objects["node"][n] > 0 <=> rmw.objects["node"][n] = 1
  BY LiveFacts, Names DEF IInv
<1>2. \A n \in Slot("node") :
        rmw'.objects["node"][n] > 0 <=> rmw'.objects["node"][n] = 1
  <2>1. Kept(rmw')
    BY DEF IInv
  <2> QED
    BY <2>1, LiveFacts, Names
<1> QED
  BY <1>1, <1>2 DEF Live

LEMMA StayLoses ==
  ASSUME IInv, IInv', EntitiesStay, NodesStay
  PROVE  LosesItsOwn
<1>1. LostEntities = {}
  BY NothingLost
<1>2. Live("node") \subseteq Live("node")'
  BY LiveNodes DEF NodesStay
<1> QED
  BY <1>1, <1>2 DEF LosesItsOwn

(* The end of a walk takes its node and no entity. *)
LEMMA NodeLoses ==
  ASSUME IInv, IInv', walk # NoWalk, NodeGone(rmw, rmw', walk.node),
         walk.node \in Slot("node"), rmw.objects["node"][walk.node] = 1
  PROVE  LosesItsOwn
<1> DEFINE n == walk.node
<1>1. /\ DOMAIN rmw.objects = PoolName
      /\ rmw.objects["node"] \in [Slot("node") -> Nat]
      /\ "node" \in PoolName
      /\ \A c \in Kind : c \in PoolName /\ c # "node"
  BY StateTypes, Names DEF IInv, Kept, Orderly
<1>2. /\ rmw'.owner_node = rmw.owner_node /\ rmw'.topic = rmw.topic
      /\ rmw'.objects =
           [rmw.objects EXCEPT
              !["node"] = [rmw.objects["node"] EXCEPT
                             ![n] = rmw.objects["node"][n] - 1]]
  BY DEF NodeGone
<1>3. EntitiesStay
  BY <1>1, <1>2 DEF EntitiesStay, EntityStays
<1>4. LostEntities = {}
  BY <1>3, NothingLost
<1>5. \A m \in Slot("node") :
        rmw'.objects["node"][m] = 1 <=> rmw.objects["node"][m] = 1 /\ m # n
  BY <1>1, <1>2
<1>6. Live("node")' = Live("node") \ {n}
  BY <1>5, LiveNodes
<1> QED
  BY <1>4, <1>6 DEF LosesItsOwn

(* What a destruction does to the objects of the application. *)
LEMMA DestroyTakes ==
  ASSUME IInv, IInv', NEW kind \in Kind, NEW e, Destroys(rmw, rmw', kind, e)
  PROVE  /\ \A c \in Kind : \A f \in Slot(c) :
              ~ (c = kind /\ f = e) => rmw'.objects[c][f] = rmw.objects[c][f]
         /\ rmw'.objects[kind][e] = 0
         /\ rmw'.objects["node"] = rmw.objects["node"]
         /\ << kind, e >> \in LiveEntities
         /\ LiveEntities' = LiveEntities \ {<< kind, e >>}
<1> DEFINE x == << kind, e >>
<1>1. /\ DOMAIN rmw.objects = PoolName
      /\ rmw.objects[kind] \in [Slot(kind) -> Nat]
      /\ kind \in PoolName /\ "node" \in PoolName /\ kind # "node"
      /\ \A c \in Kind : c \in PoolName
  BY StateTypes, Names DEF IInv, Kept, Orderly
<1>2. /\ e \in Slot(kind) /\ rmw.objects[kind][e] = 1
      /\ rmw'.owner_node = rmw.owner_node /\ rmw'.topic = rmw.topic
      /\ rmw'.objects =
           [rmw.objects EXCEPT
              ![kind] = [rmw.objects[kind] EXCEPT
                           ![e] = rmw.objects[kind][e] - 1]]
  BY DEF Destroys, Destroyed
<1>3. /\ \A c \in Kind : \A f \in Slot(c) :
           ~ (c = kind /\ f = e) => rmw'.objects[c][f] = rmw.objects[c][f]
      /\ rmw'.objects[kind][e] = 0
      /\ rmw'.objects["node"] = rmw.objects["node"]
  BY <1>1, <1>2
<1>4. x \in LiveEntities
  BY <1>2, EntitiesAre
<1>5. LiveEntities' = LiveEntities \ {x}
  <2>1. \A y : y \in LiveEntities <=>
          /\ y = << y[1], y[2] >> /\ y[1] \in Kind
          /\ y[2] \in Slot(y[1]) /\ rmw.objects[y[1]][y[2]] = 1
    BY EntitiesAre
  <2>2. \A y : y \in LiveEntities' <=>
          /\ y = << y[1], y[2] >> /\ y[1] \in Kind
          /\ y[2] \in Slot(y[1]) /\ rmw'.objects[y[1]][y[2]] = 1
    BY EntitiesNext
  <2>3. ASSUME NEW y, y \in LiveEntities'
        PROVE  y \in LiveEntities \ {x}
    BY <1>3, <2>1, <2>2, <2>3
  <2>4. ASSUME NEW y, y \in LiveEntities, y # x
        PROVE  y \in LiveEntities'
    BY <1>3, <2>1, <2>2, <2>4
  <2> QED
    BY <2>3, <2>4
<1> QED
  BY <1>3, <1>4, <1>5

(* A destruction takes one entity, that of the walk if there is one. *)
LEMMA DestroyLoses ==
  ASSUME IInv, IInv', NEW kind \in Kind, NEW e, Destroys(rmw, rmw', kind, e),
         walk # NoWalk => rmw.owner_node[kind][e] = walk.node
  PROVE  LosesItsOwn
<1>1. /\ \A c \in Kind : \A f \in Slot(c) :
           ~ (c = kind /\ f = e) => rmw'.objects[c][f] = rmw.objects[c][f]
      /\ rmw'.objects[kind][e] = 0
      /\ rmw'.objects["node"] = rmw.objects["node"]
      /\ LiveEntities' = LiveEntities \ {<< kind, e >>}
  BY DestroyTakes
<1> DEFINE x == << kind, e >>
<1>2. /\ e \in Slot(kind) /\ rmw.objects[kind][e] = 1
      /\ rmw'.owner_node = rmw.owner_node /\ rmw'.topic = rmw.topic
  BY DEF Destroys, Destroyed
<1>4. ASSUME NEW y \in LiveEntities, y # x
      PROVE  Survives(y[1], y[2])
  <2>1. y = << y[1], y[2] >> /\ y[1] \in Kind /\ y[2] \in Slot(y[1])
    BY EntitiesAre
  <2>2. ~ (y[1] = kind /\ y[2] = e)
    BY <1>4, <2>1
  <2> QED
    BY <1>2, <1>1, <2>1, <2>2 DEF Survives
<1>5. x \in LiveEntities /\ ~ Survives(x[1], x[2])
  BY <1>2, <1>1, EntitiesAre DEF Survives
<1>6. LostEntities = {x}
  BY <1>4, <1>5 DEF LostEntities
<1>7. LiveEntities' = LiveEntities \ {x}
  BY <1>1
<1>8. Live("node") \subseteq Live("node")'
  BY <1>1, LiveNodes
<1>9. walk # NoWalk => rmw.owner_node[x[1]][x[2]] = walk.node
  OBVIOUS
<1> HIDE DEF x
<1> QED
  BY <1>6, <1>7, <1>8, <1>9 DEF LosesItsOwn

LEMMA MadeStays ==
  ASSUME IInv, NEW kind \in Kind, NEW n \in Slot("node"), NEW e, NEW reused,
         NEW t, EntityMade(rmw, rmw', kind, n, e, reused, t)
  PROVE  EntitiesStay /\ NodesStay
<1>1. /\ Creation(rmw, rmw', kind, n, e, t) /\ Orderly(rmw)
      /\ e \in Slot(kind) \ Used(rmw, kind) /\ rmw.objects[kind][e] = 0
      /\ rmw'.objects =
           [rmw.objects EXCEPT
              ![kind] = [rmw.objects[kind] EXCEPT
                           ![e] = rmw.objects[kind][e] + 1]]
  BY Names DEF EntityMade, Creation, IInv, Kept, Orderly, Right
<1>2. /\ DOMAIN rmw.objects = PoolName
      /\ rmw.objects[kind] \in [Slot(kind) -> Nat]
      /\ kind # "node" /\ "node" \in PoolName
      /\ \A c \in Kind : c \in PoolName
  BY <1>1, StateTypes, Names DEF Orderly
<1>3. KeepsOthers(rmw, rmw', kind, e)
  BY <1>1, CreationTopics
<1>4. ASSUME NEW c \in Kind, NEW f \in Slot(c), rmw.objects[c][f] = 1
      PROVE  EntityStays(c, f)
  <2>1. ~ (c = kind /\ f = e)
    BY <1>1, <1>4
  <2>2. rmw'.objects[c][f] = 1
    BY <1>1, <1>2, <1>4, <2>1
  <2>3. /\ rmw'.topic[c][f] = rmw.topic[c][f]
        /\ rmw'.owner_node[c][f] = rmw.owner_node[c][f]
    BY <1>3, <2>1 DEF KeepsOthers
  <2> QED
    BY <2>2, <2>3 DEF EntityStays
<1>5. NodesStay
  BY <1>1, <1>2 DEF NodesStay
<1> QED
  BY <1>4, <1>5 DEF EntitiesStay

LEMMA NodeMadeStays ==
  ASSUME IInv, NEW n, NodeMade(rmw, rmw', n) \/ NodeRefused(rmw, rmw', n)
  PROVE  EntitiesStay /\ NodesStay
<1>1. /\ DOMAIN rmw.objects = PoolName
      /\ rmw.objects["node"] \in [Slot("node") -> Nat]
      /\ "node" \in PoolName
      /\ \A c \in Kind : c \in PoolName /\ c # "node"
      /\ Right(Slot("node"), Used(rmw, "node"), rmw.rmw_handle["node"],
               rmw.objects["node"])
  BY StateTypes, Names DEF IInv, Kept, Orderly
<1>2. /\ rmw'.owner_node = rmw.owner_node /\ rmw'.topic = rmw.topic
      /\ n \in Slot("node") \ Used(rmw, "node")
      /\ \/ rmw'.objects = rmw.objects
         \/ rmw'.objects =
              [rmw.objects EXCEPT
                 !["node"] = [rmw.objects["node"] EXCEPT
                                ![n] = rmw.objects["node"][n] + 1]]
  BY DEF NodeMade, NodeRefused
<1>3. EntitiesStay
  BY <1>1, <1>2 DEF EntitiesStay, EntityStays
<1>4. NodesStay
  BY <1>1, <1>2 DEF NodesStay, Right
<1> QED
  BY <1>3, <1>4

LEMMA NextLoses ==
  ASSUME NothingLeaks, SlotsInv, IInv', Next
  PROVE  LosesItsOwn
<1>1. IInv /\ Kept(rmw) /\ TopicsRight(rmw) /\ Full(rmw) /\ NoTwicePut
  BY DEF SlotsInv, IInv, NothingLeaks, NoTwicePut, TwicePut
<1>2. Changes(rmw, rmw', walk)
  BY <1>1, StepChanges
<1>3. CASE rmw' = rmw
  <2>1. EntitiesStay /\ NodesStay
    BY <1>3 DEF EntitiesStay, EntityStays, NodesStay
  <2> QED
    BY <1>1, <2>1, StayLoses
<1>4. ASSUME NEW n, NodeMade(rmw, rmw', n) \/ NodeRefused(rmw, rmw', n)
      PROVE  LosesItsOwn
  BY <1>1, <1>4, NodeMadeStays, StayLoses
<1>5. ASSUME NEW kind \in Kind, NEW fail \in Fails,
             Creates(rmw, rmw', kind, fail)
      PROVE  LosesItsOwn
  <2>1. PICK n, reused :
          /\ n \in Slot("node")
          /\ CreateOutcome(rmw, rmw', kind, n, fail, reused)
    BY <1>5 DEF Creates
  <2>2. \/ rmw' = rmw
        \/ \E e, t : EntityMade(rmw, rmw', kind, n, e, reused, t)
    BY <1>1, <2>1, CreatesFull
  <2>3. ASSUME NEW e, NEW t, EntityMade(rmw, rmw', kind, n, e, reused, t)
        PROVE  LosesItsOwn
    BY <1>1, <2>1, <2>3, MadeStays, StayLoses
  <2> QED
    BY <1>3, <2>2, <2>3
<1>6. ASSUME walk = NoWalk, NEW kind \in Kind, NEW e,
             Destroys(rmw, rmw', kind, e)
      PROVE  LosesItsOwn
  BY <1>1, <1>6, DestroyLoses
<1>7. ASSUME walk # NoWalk, NEW kind \in Kind, kind = Head(walk.lists),
             NEW e, Destroys(rmw, rmw', kind, e), Reaches(rmw, walk, e)
      PROVE  LosesItsOwn
  <2>1. PICK item \in Slot(kind) :
          /\ item \in Used(rmw, kind)
          /\ e = rmw.rmw_handle[kind][item]
          /\ rmw.owner_node[kind][item] = walk.node
    BY <1>7 DEF Reaches
  <2>2. rmw.rmw_handle[kind][item] = item
    <3>1. HandlesAlive
      BY SlotsHandles
    <3> QED
      BY <2>1, <3>1, Names DEF HandlesAlive, Used
  <2> QED
    BY <1>1, <1>7, <2>1, <2>2, DestroyLoses
<1>8. ASSUME walk # NoWalk, NodeGone(rmw, rmw', walk.node),
             walk.node \in Slot("node"), rmw.objects["node"][walk.node] = 1
      PROVE  LosesItsOwn
  BY <1>1, <1>8, NodeLoses
<1> QED
  BY <1>2, <1>3, <1>4, <1>5, <1>6, <1>7, <1>8 DEF Changes

(***************************************************************************)
(* A call on one object leaves every other one as it was.                  *)
(***************************************************************************)
THEOREM OthersKept ==
  ASSUME NothingLeaks
  PROVE  Spec => OthersSurvive
<1>1. NoTwicePut
  BY DEF NothingLeaks, NoTwicePut, TwicePut
<1>2. Spec => []IInv
  BY <1>1, LifecycleInvariant
<1>3. Spec => []SlotsInv
  BY SlotsInvariant
<1>4. SlotsInv /\ IInv' /\ [Next]_vars => [LosesItsOwn]_vars
  BY NextLoses
<1> QED
  BY <1>2, <1>3, <1>4, PTL DEF Spec, OthersSurvive

-----------------------------------------------------------------------------
(***************************************************************************)
(* The steps as steps of EntityRegistry.                                   *)
(***************************************************************************)
Closing == IF walk = NoWalk THEN {} ELSE {walk.node}

(* Every entity that is stays with its node, and none comes. *)
EntitiesAlike ==
  /\ rmw'.owner_node = rmw.owner_node
  /\ \A c \in Kind : rmw'.objects[c] = rmw.objects[c]

LEMMA OwnersAlike ==
  ASSUME IInv, IInv', EntitiesAlike
  PROVE  OwnerOf' = OwnerOf
<1>1. LiveEntities' = LiveEntities
  <2>1. \A x : x \in LiveEntities' <=> x \in LiveEntities
    BY EntitiesAre, EntitiesNext DEF EntitiesAlike
  <2> QED
    BY <2>1
<1>2. rmw'.owner_node = rmw.owner_node
  BY DEF EntitiesAlike
<1> QED
  BY <1>1, <1>2 DEF OwnerOf

LEMMA OwnerDomain == Registry!Entities = LiveEntities
BY DEF Registry!Entities, OwnerOf

LEMMA RegistrySame ==
  ASSUME rmw' = rmw, Closing' = Closing
  PROVE  UNCHANGED Registry!registry
<1>1. Live("node")' = Live("node") /\ OwnerOf' = OwnerOf
  BY DEF Live, OwnerOf, LiveEntities
<1> QED
  BY <1>1 DEF Registry!registry, Closing

(* A creation of a node, refused or not. *)
LEMMA RegistryNode ==
  ASSUME IInv, IInv', walk = NoWalk, walk' = walk,
         NEW n, NodeMade(rmw, rmw', n) \/ NodeRefused(rmw, rmw', n)
  PROVE  [Registry!Next]_(Registry!registry)
<1>1. /\ DOMAIN rmw.objects = PoolName
      /\ rmw.objects["node"] \in [Slot("node") -> Nat]
      /\ "node" \in PoolName
      /\ \A c \in Kind : c \in PoolName /\ c # "node"
      /\ Right(Slot("node"), Used(rmw, "node"), rmw.rmw_handle["node"],
               rmw.objects["node"])
  BY StateTypes, Names DEF IInv, Kept, Orderly
<1>2. /\ rmw'.owner_node = rmw.owner_node
      /\ n \in Slot("node") /\ rmw.objects["node"][n] = 0
  BY <1>1 DEF NodeMade, NodeRefused, Right
<1>3. CASE NodeMade(rmw, rmw', n)
  <2>1. rmw'.objects =
          [rmw.objects EXCEPT
             !["node"] = [rmw.objects["node"] EXCEPT
                            ![n] = rmw.objects["node"][n] + 1]]
    BY <1>3 DEF NodeMade
  <2>2. EntitiesAlike
    BY <1>1, <1>2, <2>1 DEF EntitiesAlike
  <2>3. /\ OwnerOf' = OwnerOf
        /\ n \notin Live("node")
    BY <1>2, <2>2, OwnersAlike, LiveNodes
  <2>4. \A m \in Slot("node") :
          rmw'.objects["node"][m] = 1 <=>
            rmw.objects["node"][m] = 1 \/ m = n
    BY <1>1, <1>2, <2>1
  <2>5. Live("node")' = Live("node") \cup {n}
    BY <1>2, <2>4, LiveNodes
  <2>6. Registry!AddNode(n)
    BY <2>3, <2>5 DEF Registry!AddNode
  <2> QED
    BY <1>2, <2>6 DEF Registry!Next
<1>4. CASE NodeRefused(rmw, rmw', n)
  <2>1. rmw'.objects = rmw.objects
    BY <1>4 DEF NodeRefused
  <2>2. EntitiesAlike
    BY <1>2, <2>1 DEF EntitiesAlike
  <2>3. OwnerOf' = OwnerOf
    BY <2>2, OwnersAlike
  <2>4. Live("node")' = Live("node")
    BY <2>1 DEF Live
  <2> QED
    BY <2>3, <2>4 DEF Registry!registry
<1> QED
  BY <1>3, <1>4

(* A creation of an entity that succeeds. *)
LEMMA RegistryEntity ==
  ASSUME IInv, IInv', walk = NoWalk, walk' = walk, NEW kind \in Kind,
         NEW n \in Slot("node"), rmw.objects["node"][n] = 1,
         NEW e, NEW reused, NEW t,
         EntityMade(rmw, rmw', kind, n, e, reused, t)
  PROVE  Registry!AddEntity(<< kind, e >>, n)
<1> DEFINE x == << kind, e >>
           E == UNION {{c} \X Slot(c) : c \in Kind}
<1>1. /\ Creation(rmw, rmw', kind, n, e, t) /\ Orderly(rmw)
      /\ e \in Slot(kind) \ Used(rmw, kind) /\ rmw.objects[kind][e] = 0
      /\ rmw'.objects =
           [rmw.objects EXCEPT
              ![kind] = [rmw.objects[kind] EXCEPT
                           ![e] = rmw.objects[kind][e] + 1]]
  BY Names DEF EntityMade, Creation, IInv, Kept, Orderly, Right
<1>2. /\ DOMAIN rmw.objects = PoolName
      /\ rmw.objects[kind] \in [Slot(kind) -> Nat]
      /\ kind # "node" /\ "node" \in PoolName
      /\ \A c \in Kind : c \in PoolName
  BY <1>1, StateTypes, Names DEF Orderly
<1>3. /\ KeepsOthers(rmw, rmw', kind, e)
      /\ rmw'.owner_node[kind][e] = n
  BY <1>1, CreationTopics
<1>4. \A c \in Kind : \A f \in Slot(c) :
        rmw'.objects[c][f] = 1 <=>
          rmw.objects[c][f] = 1 \/ (c = kind /\ f = e)
  BY <1>1, <1>2
<1>5. /\ x \notin LiveEntities
      /\ n \in Live("node")
  BY <1>1, EntitiesAre, LiveNodes
<1>6. LiveEntities' = LiveEntities \cup {x}
  <2>1. ASSUME NEW y, y \in LiveEntities'
        PROVE  y \in LiveEntities \cup {x}
    BY <1>4, <2>1, EntitiesAre, EntitiesNext
  <2>2. ASSUME NEW y, y \in LiveEntities
        PROVE  y \in LiveEntities'
    BY <1>4, <2>2, EntitiesAre, EntitiesNext
  <2>3. x \in LiveEntities'
    BY <1>1, <1>4, EntitiesNext
  <2> QED
    BY <2>1, <2>2, <2>3
<1>7. \A y \in LiveEntities :
        rmw'.owner_node[y[1]][y[2]] = rmw.owner_node[y[1]][y[2]]
  BY <1>3, <1>5, EntitiesAre DEF KeepsOthers
<1>8. OwnerOf' = [y \in LiveEntities \cup {x} |->
                    IF y = x THEN n ELSE OwnerOf[y]]
  BY <1>3, <1>5, <1>6, <1>7 DEF OwnerOf
<1>9. Live("node")' = Live("node")
  <2>1. rmw'.objects["node"] = rmw.objects["node"]
    BY <1>1, <1>2
  <2> QED
    BY <2>1 DEF Live
<1> HIDE DEF x
<1> QED
  BY <1>5, <1>8, <1>9, OwnerDomain DEF Registry!AddEntity, x

(* A destruction, by the application or by the walk of its node. *)
LEMMA RegistryTake ==
  ASSUME IInv, IInv', Closing' = Closing, NEW kind \in Kind, NEW e,
         Destroys(rmw, rmw', kind, e),
         walk # NoWalk => rmw.owner_node[kind][e] = walk.node
  PROVE  Registry!RemoveEntity(<< kind, e >>)
<1> DEFINE x == << kind, e >>
<1>1. /\ rmw'.owner_node = rmw.owner_node
      /\ rmw'.objects["node"] = rmw.objects["node"]
      /\ x \in LiveEntities /\ LiveEntities' = LiveEntities \ {x}
  BY DestroyTakes DEF Destroys, Destroyed
<1>2. OwnerOf[x] = rmw.owner_node[kind][e]
  BY <1>1 DEF OwnerOf
<1>3. OwnerOf' = [y \in LiveEntities \ {x} |-> OwnerOf[y]]
  BY <1>1 DEF OwnerOf
<1>4. Live("node")' = Live("node")
  BY <1>1 DEF Live
<1>5. Closing = {} \/ OwnerOf[x] \in Closing
  BY <1>2 DEF Closing
<1> HIDE DEF x
<1> QED
  BY <1>1, <1>3, <1>4, <1>5, OwnerDomain
     DEF Registry!RemoveEntity, Closing, x

(* The end of a walk: none of the node's entities is left. *)
LEMMA RegistryNodeGone ==
  ASSUME IInv, IInv', DestroyNodeEnd
  PROVE  Registry!RemoveNode(walk.node)
<1> DEFINE n == walk.node
<1>1. /\ walk # NoWalk /\ walk' = NoWalk /\ rmw' = FiniNode(rmw, n)
      /\ n \in Slot("node") /\ rmw.objects["node"][n] = 1
      /\ \A kind \in Kind : Mine(rmw, kind, n) = {}
  BY WalkEnds DEF DestroyNodeEnd
<1>2. NodeGone(rmw, rmw', n)
  BY <1>1, FiniNodeKeeps DEF IInv
<1>3. /\ DOMAIN rmw.objects = PoolName
      /\ rmw.objects["node"] \in [Slot("node") -> Nat]
      /\ "node" \in PoolName
      /\ \A c \in Kind : c \in PoolName /\ c # "node"
  BY StateTypes, Names DEF IInv, Kept, Orderly
<1>4. /\ rmw'.owner_node = rmw.owner_node
      /\ rmw'.objects =
           [rmw.objects EXCEPT
              !["node"] = [rmw.objects["node"] EXCEPT
                             ![n] = rmw.objects["node"][n] - 1]]
  BY <1>2 DEF NodeGone
<1>5. OwnerOf' = OwnerOf
  <2>1. EntitiesAlike
    BY <1>3, <1>4 DEF EntitiesAlike
  <2> QED
    BY <2>1, OwnersAlike
<1>6. Live("node")' = Live("node") \ {n}
  <2>1. \A m \in Slot("node") :
          rmw'.objects["node"][m] = 1 <=>
            rmw.objects["node"][m] = 1 /\ m # n
    BY <1>1, <1>3, <1>4
  <2> QED
    BY <2>1, LiveNodes
<1>7. \A x \in LiveEntities : OwnerOf[x] # n
  <2>1. \A x \in LiveEntities :
          /\ x[1] \in Kind /\ x[2] \in Slot(x[1])
          /\ rmw.objects[x[1]][x[2]] = 1
    BY EntitiesAre
  <2>2. \A kind \in Kind : \A e \in Slot(kind) :
          rmw.objects[kind][e] = 1 => rmw.owner_node[kind][e] # n
    BY <1>1 DEF Mine
  <2> QED
    BY <2>1, <2>2 DEF OwnerOf
<1> HIDE DEF n
<1> QED
  BY <1>1, <1>5, <1>6, <1>7, OwnerDomain DEF Registry!RemoveNode, n

LEMMA EntityIdIs ==
  ASSUME NEW kind \in Kind, NEW e \in Slot(kind)
  PROVE  << kind, e >> \in UNION {{c} \X Slot(c) : c \in Kind}
<1>1. << kind, e >> \in {kind} \X Slot(kind)
  OBVIOUS
<1> QED
  BY <1>1

(* A call that is one step. *)
LEMMA RegistryCall ==
  ASSUME NothingLeaks, SlotsInv, IInv', [Next]_vars,
         walk = NoWalk, walk' = NoWalk
  PROVE  [Registry!Next]_(Registry!registry)
<1>1. IInv /\ Kept(rmw) /\ TopicsRight(rmw) /\ Full(rmw) /\ NoTwicePut
  BY DEF SlotsInv, IInv, NothingLeaks, NoTwicePut, TwicePut
<1>2. Changes(rmw, rmw', walk)
  BY <1>1, StepChanges
<1>3. CASE rmw' = rmw
  BY <1>3, RegistrySame DEF Closing
<1>4. ASSUME NEW n, NodeMade(rmw, rmw', n) \/ NodeRefused(rmw, rmw', n)
      PROVE  [Registry!Next]_(Registry!registry)
  BY <1>1, <1>4, RegistryNode
<1>5. ASSUME NEW kind \in Kind, NEW fail \in Fails,
             Creates(rmw, rmw', kind, fail)
      PROVE  [Registry!Next]_(Registry!registry)
  <2>1. PICK n, reused :
          /\ n \in Slot("node") /\ rmw.objects["node"][n] = 1
          /\ CreateOutcome(rmw, rmw', kind, n, fail, reused)
    BY <1>5 DEF Creates
  <2>2. \/ rmw' = rmw
        \/ \E e, t : EntityMade(rmw, rmw', kind, n, e, reused, t)
    BY <1>1, <2>1, CreatesFull
  <2>3. ASSUME NEW e, NEW t, EntityMade(rmw, rmw', kind, n, e, reused, t)
        PROVE  [Registry!Next]_(Registry!registry)
    <3>1. Registry!AddEntity(<< kind, e >>, n)
      BY <1>1, <2>1, <2>3, RegistryEntity
    <3>2. e \in Slot(kind)
      BY <2>3 DEF EntityMade, Creation
    <3> QED
      BY <2>1, <3>1, <3>2, EntityIdIs DEF Registry!Next
  <2> QED
    BY <1>3, <2>2, <2>3
<1>6. ASSUME NEW kind \in Kind, NEW e, Destroys(rmw, rmw', kind, e)
      PROVE  [Registry!Next]_(Registry!registry)
  <2>1. Closing' = Closing
    BY DEF Closing
  <2>2. Registry!RemoveEntity(<< kind, e >>)
    BY <1>1, <1>6, <2>1, RegistryTake
  <2> QED
    BY <1>6, <2>2, EntityIdIs DEF Registry!Next, Destroys
<1> QED
  BY <1>2, <1>3, <1>4, <1>5, <1>6 DEF Changes

(* A turn of the loop of rmw_destroy_node. *)
LEMMA RegistryVisit ==
  ASSUME SlotsInv, IInv', DestroyNodeVisit
  PROVE  [Registry!Next]_(Registry!registry)
<1>1. IInv /\ walk # NoWalk
  BY DEF SlotsInv, DestroyNodeVisit
<1>2. Closing' = Closing
  <2>1. walk = [node |-> walk.node, lists |-> walk.lists, item |-> walk.item]
    BY <1>1 DEF IInv, OnWalk
  <2>2. walk'.node = walk.node /\ walk' # NoWalk
    BY <2>1 DEF DestroyNodeVisit, NoWalk
  <2> QED
    BY <1>1, <2>2 DEF Closing
<1>3. CASE rmw' = rmw
  BY <1>2, <1>3, RegistrySame
<1>4. ASSUME NEW kind \in Kind, kind = Head(walk.lists), NEW e,
             Destroys(rmw, rmw', kind, e), Reaches(rmw, walk, e)
      PROVE  [Registry!Next]_(Registry!registry)
  <2>1. PICK item \in Slot(kind) :
          /\ item \in Used(rmw, kind)
          /\ e = rmw.rmw_handle[kind][item]
          /\ rmw.owner_node[kind][item] = walk.node
    BY <1>4 DEF Reaches
  <2>2. rmw.rmw_handle[kind][item] = item
    <3>1. HandlesAlive
      BY SlotsHandles
    <3> QED
      BY <2>1, <3>1, Names DEF HandlesAlive, Used
  <2>3. rmw.owner_node[kind][e] = walk.node
    BY <2>1, <2>2
  <2>4. Registry!RemoveEntity(<< kind, e >>)
    BY <1>1, <1>2, <1>4, <2>3, RegistryTake
  <2> QED
    BY <1>4, <2>4, EntityIdIs DEF Registry!Next, Destroys
<1> QED
  BY <1>1, <1>3, <1>4, VisitIs DEF Turn

LEMMA RegistryStep ==
  ASSUME NothingLeaks, SlotsInv, IInv', [Next]_vars
  PROVE  [Registry!Next]_(Registry!registry)
<1>1. IInv
  BY DEF SlotsInv
<1>2. CASE walk = NoWalk /\ walk' = NoWalk
  BY <1>2, RegistryCall
<1>3. CASE DestroyNodeVisit
  BY <1>3, RegistryVisit
<1>4. CASE RmwDestroyNode
  <2>1. PICK n \in Live("node") :
          walk' = [node  |-> n,
                   lists |-> OwnedKinds,
                   item  |-> rmw.pool[Head(OwnedKinds)].allocateditems]
    BY <1>4 DEF RmwDestroyNode
  <2>2. Closing = {} /\ Closing' = {n} /\ n \in Slot("node") /\ rmw' = rmw
    BY <1>4, <2>1 DEF RmwDestroyNode, Closing, NoWalk, Live
  <2>3. Live("node")' = Live("node") /\ OwnerOf' = OwnerOf
    BY <2>2 DEF Live, OwnerOf, LiveEntities
  <2>4. Registry!CloseNode(n)
    BY <2>2, <2>3 DEF Registry!CloseNode, Closing
  <2> QED
    BY <2>2, <2>4 DEF Registry!Next
<1>5. CASE DestroyNodeNextList
  <2>1. walk = [node |-> walk.node, lists |-> walk.lists, item |-> walk.item]
    BY <1>1, <1>5 DEF IInv, OnWalk, DestroyNodeNextList
  <2> DEFINE x == rmw.pool[Head(Tail(walk.lists))].allocateditems
             l == Tail(walk.lists)
  <2>2. /\ walk # NoWalk
        /\ walk' = [walk EXCEPT !.lists = l, !.item = x]
    BY <1>5 DEF DestroyNodeNextList
  <2> HIDE DEF x, l
  <2>3. walk' = [node |-> walk.node, lists |-> l, item |-> x]
    BY <2>1, <2>2
  <2>4. walk'.node = walk.node /\ walk' # NoWalk
    BY <2>3 DEF NoWalk
  <2>5. Closing' = Closing /\ rmw' = rmw
    BY <1>5, <2>2, <2>4 DEF Closing, DestroyNodeNextList
  <2> QED
    BY <2>5, RegistrySame
<1>6. CASE DestroyNodeEnd
  <2>1. Registry!RemoveNode(walk.node) /\ walk.node \in Slot("node")
    BY <1>1, <1>6, RegistryNodeGone, WalkEnds
  <2> QED
    BY <2>1 DEF Registry!Next
<1>7. CASE UNCHANGED vars
  BY <1>7, RegistrySame DEF vars, Closing
<1>8. ASSUME NEW kind \in Kind, RmwCreate(kind) \/ RmwDestroy(kind)
      PROVE  walk = NoWalk /\ walk' = NoWalk
  BY <1>8 DEF RmwCreate, RmwDestroy
<1>9. RmwCreateNode => walk = NoWalk /\ walk' = NoWalk
  BY DEF RmwCreateNode
<1>10. \A kind \in {"publisher", "subscription", "service", "client"} :
         kind \in Kind
  BY DEF Kind
<1> QED
  BY <1>2, <1>3, <1>4, <1>5, <1>6, <1>7, <1>8, <1>9, <1>10 DEF Next

LEMMA InitRegistry == Init => Registry!Init
<1> SUFFICES ASSUME Init PROVE Registry!Init
  OBVIOUS
<1>1. \A name \in PoolName : \A e \in Slot(name) : rmw.objects[name][e] = 0
  BY DEF Init
<1>2. Live("node") = {} /\ \A kind \in Kind : Live(kind) = {}
  BY <1>1 DEF Live, PoolName
<1>3. LiveEntities = {}
  BY <1>2 DEF LiveEntities
<1>4. OwnerOf = [x \in {} |-> x]
  BY <1>3 DEF OwnerOf
<1> QED
  BY <1>2, <1>4 DEF Registry!Init, Init

(***************************************************************************)
(* Behind the pools, the lists, the handles and the topics, the calls add  *)
(* and take one object at a time, and rmw_destroy_node takes all that its  *)
(* node owns and nothing else before the node: they implement the registry *)
(* of EntityRegistry for any sizes of the pools.                           *)
(***************************************************************************)
THEOREM LifecycleImplementsRegistry ==
  ASSUME NothingLeaks
  PROVE  Spec => ImplementsRegistry
<1>1. NoTwicePut
  BY DEF NothingLeaks, NoTwicePut, TwicePut
<1>2. Spec => []IInv
  BY <1>1, LifecycleInvariant
<1>3. Spec => []SlotsInv
  BY SlotsInvariant
<1>4. SlotsInv /\ IInv' /\ [Next]_vars
        => [Registry!Next]_(Registry!registry)
  BY RegistryStep
<1> QED
  BY <1>2, <1>3, <1>4, InitRegistry, PTL
     DEF Spec, ImplementsRegistry, Registry!Spec

=============================================================================
