--------------------------- MODULE GraphInfoProofs ---------------------------
(***************************************************************************)
(* Proofs that the queries of GraphInfo agree about every message.         *)
(***************************************************************************)
EXTENDS GraphInfo, SequenceLemmas, FiniteSetTheorems

(* The lists after each turn of the loop over the entities es. *)
IsListing(es, kinds, after, n) ==
  after = [m \in 0..n |-> IF m = 0 THEN << >>
                          ELSE Include(after[m - 1], es[m], kinds)]

(* The recursion of NamesAndTypes has a solution. *)
LEMMA ListingExists ==
  ASSUME NEW es, NEW kinds, NEW bound \in Nat
  PROVE  \E after : IsListing(es, kinds, after, bound)
<1> DEFINE Bad == {n \in Nat : ~ \E after : IsListing(es, kinds, after, n)}
<1> SUFFICES ASSUME Bad # {} PROVE FALSE
  OBVIOUS
<1>1. PICK n \in Bad : \A m \in Bad : n <= m
  BY LeastNumber
<1>2. n # 0
  <2> DEFINE f == [m \in 0..0 |-> << >>]
  <2>1. IsListing(es, kinds, f, 0)
    BY DEF IsListing
  <2> QED
    BY <1>1, <2>1
<1>3. PICK g : IsListing(es, kinds, g, n - 1)
  BY <1>1, <1>2
<1>4. \A m \in 0..(n - 1) :
        g[m] = IF m = 0 THEN << >> ELSE Include(g[m - 1], es[m], kinds)
  BY <1>3 DEF IsListing
<1> DEFINE f == [m \in 0..n |-> IF m = n THEN Include(g[n - 1], es[n], kinds)
                                ELSE g[m]]
<1>5. ASSUME NEW m \in 0..n
      PROVE  f[m] = IF m = 0 THEN << >> ELSE Include(f[m - 1], es[m], kinds)
  <2>1. m # 0 => m - 1 \in 0..n /\ m - 1 # n /\ f[m - 1] = g[m - 1]
    BY <1>1
  <2>2. CASE m = n
    BY <1>2, <2>1, <2>2
  <2>3. CASE m # n
    BY <1>1, <1>4, <2>1, <2>3
  <2> QED
    BY <2>2, <2>3
<1>6. IsListing(es, kinds, f, n)
  BY <1>5 DEF IsListing
<1> QED
  BY <1>1, <1>6

LEMMA NamesAndTypesIs ==
  ASSUME NEW message, NEW kinds, Len(message.entities) \in Nat
  PROVE  \E after :
           /\ IsListing(message.entities, kinds, after, Len(message.entities))
           /\ NamesAndTypes(message, kinds) = after[Len(message.entities)]
<1> DEFINE last == Len(message.entities)
<1>1. PICK f : IsListing(message.entities, kinds, f, last)
  BY ListingExists
<1>2. f = [m \in 0..last |->
             IF m = 0 THEN << >>
             ELSE Include(f[m - 1], message.entities[m], kinds)]
  BY <1>1, Zenon DEF IsListing
<1> DEFINE after[n \in 0..Len(message.entities)] ==
             IF n = 0 THEN << >>
             ELSE Include(after[n - 1], message.entities[n], kinds)
<1>3. after = [n \in 0..last |->
                 IF n = 0 THEN << >>
                 ELSE Include(after[n - 1], message.entities[n], kinds)]
  BY <1>2, Zenon
<1>4. NamesAndTypes(message, kinds) = after[last]
  BY Zenon DEF NamesAndTypes
<1> HIDE DEF after
<1> QED
  BY <1>3, <1>4, Zenon DEF IsListing

-----------------------------------------------------------------------------
Entry == [name : STRING, types : Seq(STRING) \ {<< >>}]

(***************************************************************************)
(* What the loop keeps after n turns: every entry is from one of the       *)
(* entities seen, every one of them is listed, and no name twice.          *)
(***************************************************************************)
Lists(es, kinds, list, n) ==
  /\ list \in Seq(Entry)
  /\ \A k \in 1..Len(list) : \E i \in 1..n :
       /\ es[i].kind \in kinds
       /\ es[i].name = list[k].name /\ es[i].types = list[k].types
  /\ \A i \in 1..n :
       es[i].kind \in kinds =>
         \E k \in 1..Len(list) : list[k].name = es[i].name
  /\ \A j, k \in 1..Len(list) : list[j].name = list[k].name => j = k

LEMMA IncludeLists ==
  ASSUME NEW es \in Seq(GraphEntity), NEW kinds, NEW list,
         NEW n \in Nat, n + 1 \in 1..Len(es), Lists(es, kinds, list, n)
  PROVE  Lists(es, kinds, Include(list, es[n + 1], kinds), n + 1)
<1> DEFINE e == es[n + 1]
           x == [name |-> e.name, types |-> e.types]
           l == Append(list, x)
<1>1. e \in GraphEntity /\ x \in Entry /\ list \in Seq(Entry)
  <2>1. e \in GraphEntity
    OBVIOUS
  <2> HIDE DEF e
  <2>2. e.name \in STRING /\ e.types \in Seq(STRING) \ {<< >>}
    BY <2>1, Zenon DEF GraphEntity
  <2>3. x \in Entry
    BY <2>2, Zenon DEF Entry
  <2>4. list \in Seq(Entry)
    BY DEF Lists
  <2> QED
    BY <2>1, <2>3, <2>4
<1>2. \A i \in 1..(n + 1) : i \in 1..n \/ i = n + 1
  OBVIOUS
<1>3. CASE Include(list, e, kinds) = list
  <2>1. e.kind \notin kinds \/ \E k \in 1..Len(list) : list[k].name = e.name
    <3>1. l # list
      BY <1>1
    <3> QED
      BY <1>1, <1>3, <3>1 DEF Include
  <2>2. \A i \in 1..(n + 1) :
          es[i].kind \in kinds =>
            \E k \in 1..Len(list) : list[k].name = es[i].name
    BY <1>2, <2>1 DEF Lists
  <2> HIDE DEF e
  <2>3. Lists(es, kinds, list, n + 1)
    BY <2>2 DEF Lists
  <2> QED
    BY <1>3, <2>3 DEF e
<1>4. CASE Include(list, e, kinds) # list
  <2>1. /\ e.kind \in kinds /\ Include(list, e, kinds) = l
        /\ \A k \in 1..Len(list) : list[k].name # e.name
    BY <1>1, <1>4 DEF Include
  <2>2. /\ l \in Seq(Entry) /\ Len(l) = Len(list) + 1 /\ Len(list) \in Nat
        /\ l[Len(l)] = x
        /\ \A k \in 1..Len(list) : l[k] = list[k]
        /\ \A k \in 1..Len(l) : k \in 1..Len(list) \/ k = Len(l)
    BY <1>1
  <2>3. x.name = e.name /\ x.types = e.types
    OBVIOUS
  <2> HIDE DEF l, x
  <2>4. ASSUME NEW k \in 1..Len(l)
        PROVE  \E i \in 1..(n + 1) :
                 /\ es[i].kind \in kinds
                 /\ es[i].name = l[k].name /\ es[i].types = l[k].types
    <3>1. CASE k \in 1..Len(list)
      <4>1. PICK i \in 1..n :
              /\ es[i].kind \in kinds
              /\ es[i].name = list[k].name /\ es[i].types = list[k].types
        BY <3>1 DEF Lists
      <4>2. i \in 1..(n + 1) /\ l[k] = list[k]
        BY <2>2, <3>1
      <4> QED
        BY <4>1, <4>2
    <3>2. CASE k = Len(l)
      <4>1. n + 1 \in 1..(n + 1)
        OBVIOUS
      <4> QED
        BY <2>1, <2>2, <2>3, <3>2, <4>1
    <3> QED
      BY <2>2, <3>1, <3>2
  <2>5. ASSUME NEW i \in 1..(n + 1), es[i].kind \in kinds
        PROVE  \E k \in 1..Len(l) : l[k].name = es[i].name
    <3>1. CASE i \in 1..n
      <4>1. PICK k \in 1..Len(list) : list[k].name = es[i].name
        BY <2>5, <3>1 DEF Lists
      <4>2. k \in 1..Len(l) /\ l[k] = list[k]
        BY <2>2
      <4> QED
        BY <4>1, <4>2
    <3>2. CASE i = n + 1
      <4>1. Len(l) \in 1..Len(l)
        BY <2>2
      <4> QED
        BY <2>2, <2>3, <3>2, <4>1
    <3> QED
      BY <1>2, <3>1, <3>2
  <2>6. ASSUME NEW j \in 1..Len(l), NEW k \in 1..Len(l), l[j].name = l[k].name
        PROVE  j = k
    <3>1. CASE j \in 1..Len(list) /\ k \in 1..Len(list)
      BY <2>2, <2>6, <3>1 DEF Lists
    <3>2. CASE j = Len(l) /\ k \in 1..Len(list)
      BY <2>1, <2>2, <2>3, <2>6, <3>2
    <3>3. CASE k = Len(l) /\ j \in 1..Len(list)
      BY <2>1, <2>2, <2>3, <2>6, <3>3
    <3>4. CASE j = Len(l) /\ k = Len(l)
      BY <3>4
    <3> QED
      BY <2>2, <3>1, <3>2, <3>3, <3>4
  <2>7. Lists(es, kinds, l, n + 1)
    BY <2>2, <2>4, <2>5, <2>6 DEF Lists
  <2> QED
    BY <2>1, <2>7
<1> QED
  BY <1>3, <1>4

LEMMA ListingLists ==
  ASSUME NEW es \in Seq(GraphEntity), NEW kinds, NEW after,
         IsListing(es, kinds, after, Len(es))
  PROVE  Lists(es, kinds, after[Len(es)], Len(es))
<1>1. Len(es) \in Nat
  OBVIOUS
<1>2. \A n \in 0..Len(es) :
        after[n] = IF n = 0 THEN << >>
                   ELSE Include(after[n - 1], es[n], kinds)
  BY DEF IsListing
<1> DEFINE Bad == {n \in 0..Len(es) : ~ Lists(es, kinds, after[n], n)}
<1>3. ASSUME Bad # {} PROVE FALSE
  <2>1. PICK n \in Bad : \A m \in Bad : n <= m
    <3>1. Bad \in SUBSET Nat
      BY <1>1
    <3> QED
      BY <1>3, <3>1, LeastNumber
  <2>2. n # 0
    <3>1. after[0] = << >>
      BY <1>1, <1>2
    <3>2. Lists(es, kinds, << >>, 0)
      BY DEF Lists
    <3> QED
      BY <2>1, <3>1, <3>2
  <2>3. PICK m \in Nat : m + 1 = n /\ n \in 1..Len(es)
    <3>1. n - 1 \in Nat /\ (n - 1) + 1 = n /\ n \in 1..Len(es)
      BY <1>1, <2>1, <2>2
    <3> QED
      BY <3>1
  <2>4. m \in 0..Len(es) /\ Lists(es, kinds, after[m], m)
    BY <1>1, <2>1, <2>3
  <2>5. after[n] = Include(after[m], es[m + 1], kinds)
    BY <1>1, <1>2, <2>3
  <2>6. Lists(es, kinds, after[n], n)
    BY <2>3, <2>4, <2>5, IncludeLists
  <2> QED
    BY <2>1, <2>6
<1> QED
  BY <1>1, <1>3

LEMMA NamesAndTypesLists ==
  ASSUME NEW message \in GraphData, NEW kinds
  PROVE  Lists(message.entities, kinds, NamesAndTypes(message, kinds),
               Len(message.entities))
<1>1. /\ message.entities \in Seq(GraphEntity)
      /\ Len(message.entities) \in Nat
  BY DEF GraphData
<1> QED
  BY <1>1, NamesAndTypesIs, ListingLists

-----------------------------------------------------------------------------
(* An entity is counted if and only if the message has it. *)
LEMMA CountedWhenThere ==
  ASSUME NEW message \in GraphData, NEW kind, NEW name
  PROVE  CountEntities(message, kind, name) > 0
           <=> OfTopic(message, kind, name) # {}
<1> DEFINE n == Len(message.entities)
<1>1. n \in Nat /\ DOMAIN message.entities = 1..n
  BY DEF GraphData
<1> HIDE DEF n
<1>2. IsFiniteSet(1..n)
  BY <1>1, FS_Interval, 1 \in Int, n \in Int
<1>3. OfTopic(message, kind, name) \in SUBSET (1..n)
  BY <1>1 DEF OfTopic
<1>4. IsFiniteSet(OfTopic(message, kind, name))
  BY <1>2, <1>3, FS_Subset
<1>5. /\ Cardinality(OfTopic(message, kind, name)) \in Nat
      /\ Cardinality(OfTopic(message, kind, name)) = 0
           <=> OfTopic(message, kind, name) = {}
  BY <1>4, FS_CardinalityType, FS_EmptySet
<1> QED
  BY <1>5 DEF CountEntities

(***************************************************************************)
(* For every message and all kinds asked for, a name is listed once if and *)
(* only if it is counted, with the types of an endpoint.                   *)
(***************************************************************************)
THEOREM ListsAgree ==
  ASSUME NEW message \in GraphData, NEW kinds
  PROVE  ListAgrees(message, NamesAndTypes(message, kinds), kinds)
<1> DEFINE es   == message.entities
           list == NamesAndTypes(message, kinds)
<1>1. /\ es \in Seq(GraphEntity) /\ DOMAIN es = 1..Len(es)
      /\ Lists(es, kinds, list, Len(es))
  BY NamesAndTypesLists DEF GraphData
<1> HIDE DEF list
<1>2. DOMAIN list = 1..Len(list)
  BY <1>1 DEF Lists
<1> SUFFICES ASSUME NEW name
             PROVE  LET at == {k \in DOMAIN list : list[k].name = name}
                    IN  /\ at # {} <=> \E kind \in kinds :
                             CountEntities(message, kind, name) > 0
                        /\ \A j, k \in at : j = k
                        /\ \A k \in at : \E kind \in kinds :
                             \E i \in OfTopic(message, kind, name) :
                               EndpointInfo(message, kind, name)[i].topic_type
                                 = Head(list[k].types)
  BY DEF ListAgrees, list
<1> DEFINE at == {k \in DOMAIN list : list[k].name = name}
<1>3. ASSUME NEW k \in at
      PROVE  \E kind \in kinds : \E i \in OfTopic(message, kind, name) :
               EndpointInfo(message, kind, name)[i].topic_type
                 = Head(list[k].types)
  <2>1. PICK i \in 1..Len(es) :
          /\ es[i].kind \in kinds
          /\ es[i].name = name /\ es[i].types = list[k].types
    BY <1>1, <1>2 DEF Lists
  <2>2. i \in OfTopic(message, es[i].kind, name)
    BY <1>1, <2>1 DEF OfTopic
  <2>3. EndpointInfo(message, es[i].kind, name)[i].topic_type
          = Head(list[k].types)
    BY <2>1, <2>2 DEF EndpointInfo
  <2> QED
    BY <2>1, <2>2, <2>3
<1>4. ASSUME NEW kind \in kinds, NEW i \in OfTopic(message, kind, name)
      PROVE  at # {}
  <2>1. i \in 1..Len(es) /\ es[i].kind \in kinds /\ es[i].name = name
    BY <1>1 DEF OfTopic
  <2>2. PICK k \in 1..Len(list) : list[k].name = name
    BY <1>1, <2>1 DEF Lists
  <2> QED
    BY <1>2, <2>2
<1>5. at # {} <=> \E kind \in kinds :
                    CountEntities(message, kind, name) > 0
  <2>1. \A kind \in kinds : CountEntities(message, kind, name) > 0
                              <=> OfTopic(message, kind, name) # {}
    BY CountedWhenThere
  <2> HIDE DEF at
  <2>2. at # {} => \E kind \in kinds : OfTopic(message, kind, name) # {}
    BY <1>3
  <2>3. (\E kind \in kinds : OfTopic(message, kind, name) # {}) => at # {}
    BY <1>4
  <2> QED
    BY <2>1, <2>2, <2>3
<1>6. \A j, k \in at : j = k
  BY <1>1, <1>2 DEF Lists
<1> QED
  BY <1>3, <1>5, <1>6
=============================================================================
