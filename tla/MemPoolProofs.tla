--------------------------- MODULE MemPoolProofs ---------------------------
(***************************************************************************)
(* Proofs about MemPoolClients, for every Size and every HeapSize, from    *)
(* the lemmas about pools of PoolLemmas.                                   *)
(***************************************************************************)
EXTENDS MemPoolClients, PoolLemmas

LEMMA NullNotItem == NULL \notin Item
BY SizeAssumption DEF NULL, Item

-----------------------------------------------------------------------------
(* The inductive invariant of MemPoolClients. *)
PoolInv == 
  /\ TypeOK
  /\ ListsThreaded
  /\ DynamicMarked
  /\ Acyclic(Nat)

LEMMA PoolInvSound ==
  PoolInv <=> /\ Sound(Item, pool, held, Spare)
              /\ DynamicMarked
              /\ answer \in Item \cup {NULL}
<1>1. held \in SUBSET Item => Spare \in SUBSET Item /\ held \cap Spare = {}
  BY SizeAssumption DEF Spare, StaticItem, Item
<1> QED
  BY <1>1, NullNotItem DEF PoolInv, TypeOK, ListsThreaded, Acyclic, Sound

(* The same, of the state after a step. *)
LEMMA SoundPoolInvNext ==
  ASSUME Sound(Item, pool', held', Spare'), DynamicMarked', 
         answer' \in Item \cup {NULL}
  PROVE  PoolInv'
BY DEF PoolInv, TypeOK, ListsThreaded, Acyclic, Sound

LEMMA InitPoolInv == Init => PoolInv
<1> SUFFICES ASSUME Init PROVE PoolInv
  OBVIOUS
<1>1. /\ pool = InitMemory(Size, Item)
      /\ held = {} /\ answer = NULL
      /\ Spare = 1..Size
  BY DEF Init, Spare, StaticItem
<1>2. Sound(Item, pool, held, Spare)
  <2>1. Size \in Nat /\ Size + HeapSize \in Nat /\ Size <= Size + HeapSize
    BY SizeAssumption
  <2> QED
    BY <1>1, <2>1, InitMemorySound DEF Item
<1>3. DynamicMarked
  <2>1. pool.is_dynamic_memory = [i \in Item |-> FALSE]
    BY <1>1 DEF InitMemory
  <2> QED
    BY <1>1, <2>1, SizeAssumption DEF DynamicMarked, Item, DynamicItem
<1> QED
  BY <1>1, <1>2, <1>3, PoolInvSound

-----------------------------------------------------------------------------
(* An empty free list means that callers hold every static item. *)
LEMMA EmptyMeansExhausted ==
  ASSUME PoolInv, ~ HasMemory(pool)
  PROVE  Spare = {}
<1>1. Sound(Item, pool, held, Spare) /\ pool.freeitems = NULL
  BY PoolInvSound DEF HasMemory
<1>2. PICK rank \in [Item -> Nat], top \in Nat :
        Ranked(pool.next, held \cup Spare, rank, top)
  BY <1>1 DEF Sound
<1>3. Ranked(pool.next, Spare, rank, top)
  BY <1>2 DEF Ranked
<1>4. /\ Spare \in SUBSET Item
      /\ pool.next \in [Item -> Item \cup {NULL}]
      /\ pool.prev \in [Item -> Item \cup {NULL}]
      /\ Threaded(pool.next, pool.prev, Spare, NULL)
  BY <1>1 DEF Sound, Pools
<1> QED
  BY <1>2, <1>3, <1>4, NullNotItem, NoHeadNoItem

(* Get with a free item. *)
LEMMA GetFree ==
  ASSUME PoolInv, Get, HasMemory(pool)
  PROVE  /\ PoolInv'
         /\ \E x \in StaticItem \ held : held' = held \cup {x} /\ answer' = x
<1> DEFINE x == pool.freeitems
<1>1. Sound(Item, pool, held, Spare) /\ x # NULL
  BY PoolInvSound DEF HasMemory
<1>2. /\ pool' = TakeFree(pool)
      /\ held' = held \cup {x}
      /\ answer' = x
  BY <1>1 DEF Get, Fresh, GetMemory, HasMemory
<1>3. x \in Spare /\ Sound(Item, pool', held \cup {x}, Spare \ {x})
  BY <1>1, <1>2, TakeFreeSound
<1>4. Spare' = Spare \ {x}
  BY <1>2 DEF Spare
<1>5. pool'.is_dynamic_memory = pool.is_dynamic_memory
  BY <1>1, <1>2 DEF TakeFree, Sound, Pools
<1>6. DynamicMarked'
  BY <1>2, <1>3, <1>4, <1>5, PoolInvSound DEF DynamicMarked, DynamicItem
<1>7. answer' \in Item \cup {NULL}
  BY <1>1, <1>2, <1>3 DEF Sound
<1>8. Sound(Item, pool', held', Spare')
  BY <1>2, <1>3, <1>4
<1>9. PoolInv'
  BY <1>6, <1>7, <1>8, SoundPoolInvNext
<1> QED
  BY <1>2, <1>3, <1>9 DEF Spare

(* Get with no free item in a build without dynamic allocations. *)
LEMMA GetRefused ==
  ASSUME PoolInv, Get, ~ HasMemory(pool), HeapSize = 0
  PROVE  PoolInv' /\ answer' = NULL /\ held' = held
<1>1. pool' = pool /\ held' = held /\ answer' = NULL
  BY DEF Get, Fresh, GetMemory
<1>2. Spare' = Spare
  BY <1>1 DEF Spare
<1>3. Sound(Item, pool', held', Spare') /\ DynamicMarked'
  BY <1>1, <1>2, PoolInvSound DEF DynamicMarked
<1> QED
  BY <1>1, <1>3, SoundPoolInvNext

(***************************************************************************)
(* Get with no free item in a build with dynamic allocations: the fresh    *)
(* item passes through the free list.                                      *)
(***************************************************************************)
LEMMA GetHeap ==
  ASSUME PoolInv, Get, ~ HasMemory(pool), HeapSize # 0
  PROVE  /\ PoolInv'
         /\ \E x \in DynamicItem \ held : held' = held \cup {x} /\ answer' = x
<1>1. PICK x \in DynamicItem \ held :
        LET got == GetMemory(pool, x)
        IN  /\ pool' = got.pool
            /\ answer' = got.item
            /\ held' = IF got.item = NULL THEN held ELSE held \cup {got.item}
  BY DEF Get, Fresh
<1>2. x \in Item \ (held \cup Spare) /\ x # NULL
  BY <1>1, SizeAssumption DEF DynamicItem, Item, Spare, StaticItem, NULL
<1>3. /\ pool' = TakeFree(AddDynamicItem(pool, x))
      /\ answer' = x
      /\ held' = held \cup {x}
  BY <1>1, <1>2 DEF GetMemory
<1>4. /\ Sound(Item, pool, held, Spare) /\ DynamicMarked
      /\ pool \in Pools(Item)
      /\ held \in SUBSET Item /\ Spare \in SUBSET Item
  BY PoolInvSound DEF Sound
<1>5. /\ Sound(Item, pool', held \cup {x}, Spare)
      /\ pool'.is_dynamic_memory = [pool.is_dynamic_memory EXCEPT ![x] = TRUE]
  BY <1>2, <1>3, <1>4, FreshItemTaken, FreshItemMarked
<1>6. Spare' = Spare
  BY <1>1, <1>3, SizeAssumption DEF Spare, StaticItem, DynamicItem
<1>7. DynamicMarked'
  BY <1>1, <1>2, <1>3, <1>4, <1>5, <1>6, PoolInvSound
  DEF DynamicMarked, Pools, DynamicItem
<1>8. PoolInv'
  BY <1>2, <1>3, <1>5, <1>6, <1>7, SoundPoolInvNext
<1> QED
  BY <1>1, <1>3, <1>8

(* Put of a held item, static or dynamic. *)
LEMMA PutKeeps ==
  ASSUME PoolInv, NEW x \in Item, Put(x)
  PROVE  PoolInv' /\ held' = held \ {x} /\ x \in held
<1>1. /\ x \in held
      /\ pool' = PutMemory(pool, x)
      /\ held' = held \ {x}
      /\ answer' = answer
  BY DEF Put
<1>2. /\ Sound(Item, pool, held, Spare) /\ pool \in Pools(Item)
      /\ held \in SUBSET Item /\ DynamicMarked
      /\ answer \in Item \cup {NULL}
  BY PoolInvSound DEF Sound
<1>3. Sound(Item, UnlinkItem(pool, x), held \ {x}, Spare)
  BY <1>1, <1>2, UnlinkItemSound
<1>4. UnlinkItem(pool, x).is_dynamic_memory = pool.is_dynamic_memory
  BY <1>2 DEF UnlinkItem, Pools
<1>5. pool.is_dynamic_memory[x] <=> x \in DynamicItem
  BY <1>1, <1>2 DEF DynamicMarked
<1>6. CASE x \in DynamicItem
  <2>1. pool' = UnlinkItem(pool, x)
    BY <1>1, <1>5, <1>6 DEF PutMemory
  <2>2. Spare' = Spare
    BY <1>1, <1>6, SizeAssumption DEF Spare, StaticItem, DynamicItem
  <2>3. DynamicMarked'
    BY <1>1, <1>2, <1>4, <2>1, <2>2 DEF DynamicMarked, DynamicItem
  <2>4. Sound(Item, pool', held', Spare')
    BY <1>1, <1>3, <2>1, <2>2
  <2> QED
    BY <1>1, <1>2, <2>3, <2>4, SoundPoolInvNext
<1>7. CASE x \notin DynamicItem
  <2>1. pool' = PushFree(UnlinkItem(pool, x), x)
    BY <1>1, <1>5, <1>7 DEF PutMemory
  <2>2. x \in StaticItem
    BY <1>7, SizeAssumption DEF StaticItem, DynamicItem, Item
  <2>3. Spare' = Spare \cup {x}
    BY <1>1, <1>2, <2>2 DEF Spare
  <2>4. x \in Item \ ((held \ {x}) \cup Spare)
    BY <1>1 DEF Spare
  <2>5. Sound(Item, PushFree(UnlinkItem(pool, x), x),
              held \ {x}, Spare \cup {x})
    BY <1>3, <2>4, PushFreeSound
  <2>6. Sound(Item, pool', held', Spare')
    BY <1>1, <2>1, <2>3, <2>5
  <2>7. pool'.is_dynamic_memory = pool.is_dynamic_memory
    <3> DEFINE un == UnlinkItem(pool, x)
    <3>1. un \in Pools(Item)
      BY <1>3 DEF Sound
    <3> HIDE DEF un
    <3>2. PushFree(un, x).is_dynamic_memory = un.is_dynamic_memory
      BY <3>1 DEF PushFree, Pools
    <3> QED
      BY <1>4, <2>1, <3>2 DEF un
  <2>8. DynamicMarked'
    BY <1>1, <1>2, <1>5, <1>7, <2>3, <2>7 DEF DynamicMarked, DynamicItem
  <2> QED
    BY <1>1, <1>2, <2>6, <2>8, SoundPoolInvNext
<1> QED
  BY <1>1, <1>6, <1>7

LEMMA NextPoolInv == PoolInv /\ [Next]_vars => PoolInv'
<1> SUFFICES ASSUME PoolInv, [Next]_vars PROVE PoolInv'
  OBVIOUS
<1>1. CASE Get
  BY <1>1, GetFree, GetRefused, GetHeap
<1>2. ASSUME NEW x \in Item, Put(x) PROVE PoolInv'
  BY <1>2, PutKeeps
<1>3. CASE UNCHANGED vars
  <2>1. pool' = pool /\ held' = held /\ answer' = answer /\ Spare' = Spare
    BY <1>3 DEF vars, Spare
  <2>2. Sound(Item, pool', held', Spare') /\ DynamicMarked'
    BY <2>1, PoolInvSound DEF DynamicMarked
  <2> QED
    BY <2>1, <2>2, PoolInvSound, SoundPoolInvNext
<1> QED
  BY <1>1, <1>2, <1>3 DEF Next

LEMMA PoolInvariant == Spec => []PoolInv
BY InitPoolInv, NextPoolInv, PTL DEF Spec

-----------------------------------------------------------------------------
(* The pool's pointers always name items of the pool or NULL, and callers  *)
(* only ever get items (memory.c).                                         *)
THEOREM Typing == Spec => []TypeOK
<1>1. PoolInv => TypeOK
  BY DEF PoolInv
<1> QED
  BY <1>1, PoolInvariant, PTL

(***************************************************************************)
(* Whatever the size of the pool and the order of the calls, the list from *)
(* allocateditems carries exactly held items and the list from freeitems   *)
(* exactly spare ones, both doubly linked: get_memory cannot hand out an   *)
(* item that a caller still holds.                                         *)
(***************************************************************************)
THEOREM ListsStayThreaded == Spec => []ListsThreaded
<1>1. PoolInv => ListsThreaded
  BY DEF PoolInv
<1> QED
  BY <1>1, PoolInvariant, PTL

(* put_memory returns every static item to the free list and frees every   *)
(* dynamic one, never the other way round.                                 *)
THEOREM DynamicStaysMarked == Spec => []DynamicMarked
<1>1. PoolInv => DynamicMarked
  BY DEF PoolInv
<1> QED
  BY <1>1, PoolInvariant, PTL

(***************************************************************************)
(* The pool implements SlotAllocator: an item is lent to one caller at a   *)
(* time, get_memory answers NULL only when callers hold every static item  *)
(* and the build has no dynamic allocations, and takes from the heap only  *)
(* when they do.                                                           *)
(***************************************************************************)
THEOREM PoolImplementsAllocator == Spec => ImplementsAllocator
<1>1. Init => Allocator!Init
  BY DEF Init, Allocator!Init
<1>2. PoolInv /\ [Next]_vars => [Allocator!Next]_(Allocator!allocVars)
  <2> SUFFICES ASSUME PoolInv, [Next]_vars
               PROVE  [Allocator!Next]_(Allocator!allocVars)
    OBVIOUS
  <2> USE DEF Allocator!Next, Allocator!Lend
  <2>1. CASE Get /\ HasMemory(pool)
    BY <2>1, GetFree DEF Allocator!GetStatic
  <2>2. CASE Get /\ ~ HasMemory(pool) /\ HeapSize = 0
    <3>1. StaticItem \subseteq held
      BY <2>2, EmptyMeansExhausted DEF Spare
    <3>2. DynamicItem = {}
      BY <2>2, SizeAssumption DEF DynamicItem
    <3> QED
      BY <2>2, <3>1, <3>2, GetRefused DEF Allocator!Refuse
  <2>3. CASE Get /\ ~ HasMemory(pool) /\ HeapSize # 0
    <3>1. StaticItem \subseteq held
      BY <2>3, EmptyMeansExhausted DEF Spare
    <3> QED
      BY <2>3, <3>1, GetHeap DEF Allocator!GetDynamic
  <2>4. ASSUME NEW x \in Item, Put(x)
        PROVE  [Allocator!Next]_(Allocator!allocVars)
    <3>1. x \in held /\ held' = held \ {x} /\ answer' = answer
      BY <2>4 DEF Put
    <3> QED
      BY <3>1 DEF Allocator!Return
  <2>5. CASE UNCHANGED vars
    BY <2>5 DEF vars, Allocator!allocVars
  <2> QED
    BY <2>1, <2>2, <2>3, <2>4, <2>5 DEF Next
<1> QED
  BY <1>1, <1>2, PoolInvariant, PTL
  DEF Spec, ImplementsAllocator, Allocator!Spec

-----------------------------------------------------------------------------
(* The walks of the pool carry the held and the spare items. *)
LEMMA PoolWalks ==
  ASSUME PoolInv, NEW bound \in Nat, Size + HeapSize <= bound
  PROVE  Chains(pool, held, Spare,
                AllocatedItems(pool, bound), FreeItems(pool, bound))
<1>1. IsFiniteSet(Item) /\ Cardinality(Item) = Size + HeapSize
  BY SizeAssumption, FS_Interval, 1 \in Int, Size + HeapSize \in Int DEF Item
<1>2. Sound(Item, pool, held, Spare)
  BY PoolInvSound
<1> QED
  BY <1>1, <1>2, WalksAreChains

(***************************************************************************)
(* No item is lost out of both lists, none is on a list twice, and none is *)
(* on both.                                                                *)
(***************************************************************************)
THEOREM NothingLost == Spec => []NoItemLost
<1>1. PoolInv => NoItemLost
  <2> SUFFICES ASSUME PoolInv PROVE NoItemLost
    OBVIOUS
  <2>1. /\ Size + HeapSize + 1 \in Nat
        /\ Size + HeapSize <= Size + HeapSize + 1
    BY SizeAssumption
  <2>2. Chains(pool, held, Spare, AllocatedItems(pool, Size + HeapSize + 1),
               FreeItems(pool, Size + HeapSize + 1))
    BY <2>1, PoolWalks
  <2> QED
    BY <2>2 DEF Chains, IsChain, Visits, NoItemLost
<1> QED
  BY <1>1, PoolInvariant, PTL

-----------------------------------------------------------------------------
(* The two walks of the pool, as SlotStack has them. *)
Lent     == AllocatedItems(pool, Size + HeapSize)
Unlent == FreeItems(pool, Size + HeapSize)

LEMMA WalksOfPool ==
  PoolInv => /\ Chains(pool, held, Spare, Lent, Unlent)
             /\ NULL \notin held /\ NULL \notin Spare
<1> SUFFICES ASSUME PoolInv
             PROVE  /\ Chains(pool, held, Spare, Lent, Unlent)
                    /\ NULL \notin held /\ NULL \notin Spare
  OBVIOUS
<1>1. Size + HeapSize \in Nat /\ Size + HeapSize <= Size + HeapSize
  BY SizeAssumption
<1> QED
  BY <1>1, PoolWalks, PoolInvSound, NullNotItem DEF Lent, Unlent, Sound

-----------------------------------------------------------------------------
(* A sequence with no repetition is no longer than what it visits. *)
LEMMA VisitsLength ==
  ASSUME NEW S, IsFiniteSet(S), NEW w, Visits(w, S)
  PROVE  Len(w) \in Nat /\ Len(w) <= Cardinality(S)
<1>1. /\ w \in Seq(S) /\ Len(w) \in Nat /\ DOMAIN w = 1..Len(w)
      /\ w \in [1..Len(w) -> S]
  BY DEF Visits
<1>2. w \in Injection(1..Len(w), S)
  BY <1>1 DEF Visits, Injection, IsInjective
<1>3. Cardinality(1..Len(w)) <= Cardinality(S)
  BY <1>2, FS_Injection
<1>4. Cardinality(1..Len(w)) = Len(w)
  BY <1>1, FS_Interval, 1 \in Int, Len(w) \in Int
<1> QED
  BY <1>1, <1>3, <1>4

(* The items of a chain ranked by how many are behind them. *)
LEMMA ChainRanks ==
  ASSUME NEW S, NULL \notin S, NEW next, NEW head, NEW w,
         IsChain(w, next, head, S), NEW n \in Nat, Len(w) <= n
  PROVE  \E rank \in [S -> 0..n] : Ranked(next, S, rank, n)
<1> DEFINE place(i) == CHOOSE k \in DOMAIN w : w[k] = i
           rank == [i \in S |-> Len(w) - place(i)]
<1>1. /\ w \in Seq(S) /\ Len(w) \in Nat /\ DOMAIN w = 1..Len(w)
      /\ {w[j] : j \in DOMAIN w} = S
      /\ \A j, k \in DOMAIN w : w[j] = w[k] => j = k
      /\ \A j \in 1..Len(w) :
           next[w[j]] = IF j < Len(w) THEN w[j + 1] ELSE NULL
  BY DEF IsChain, Visits, Follows
<1>2. ASSUME NEW i \in S
      PROVE  place(i) \in 1..Len(w) /\ w[place(i)] = i
  BY <1>1
<1> HIDE DEF place
<1>3. rank \in [S -> 0..n]
  BY <1>1, <1>2
<1>4. ASSUME NEW i \in S, next[i] # NULL
      PROVE  rank[next[i]] < rank[i]
  <2> DEFINE k == place(i)
  <2>1. k \in 1..Len(w) /\ w[k] = i
    BY <1>2
  <2> HIDE DEF k
  <2>2. k < Len(w) /\ next[i] = w[k + 1] /\ k + 1 \in DOMAIN w
    BY <1>1, <1>4, <2>1
  <2>3. next[i] \in S
    BY <1>1, <2>2
  <2>4. place(next[i]) = k + 1
    BY <1>1, <1>2, <2>2, <2>3
  <2> QED
    BY <1>1, <2>1, <2>2, <2>3, <2>4 DEF k
<1> HIDE DEF rank
<1>5. Ranked(next, S, rank, n)
  BY <1>3, <1>4 DEF Ranked
<1> QED
  BY <1>3, <1>5

(***************************************************************************)
(* Neither list has a cycle, and a walk along one is over after as many    *)
(* steps as the pool has items, for every Size and HeapSize.               *)
(***************************************************************************)
THEOREM WalksEnd == Spec => []RanksExist
<1>1. PoolInv => RanksExist
  <2> SUFFICES ASSUME PoolInv PROVE RanksExist
    OBVIOUS
  <2> DEFINE n == Size + HeapSize
  <2>1. /\ IsFiniteSet(Item) /\ Cardinality(Item) = n /\ n \in Nat
    BY SizeAssumption, FS_Interval, 1 \in Int, Size + HeapSize \in Int
       DEF Item
  <2>2. held \in SUBSET Item /\ Spare \in SUBSET Item
        /\ held \cap Spare = {}
    BY PoolInvSound DEF Sound
  <2>3. /\ IsFiniteSet(held) /\ Cardinality(held) <= n
        /\ IsFiniteSet(Spare) /\ Cardinality(Spare) <= n
    BY <2>1, <2>2, FS_Subset
  <2>4. /\ IsChain(Lent, pool.next, pool.allocateditems, held)
        /\ IsChain(Unlent, pool.next, pool.freeitems, Spare)
        /\ NULL \notin held /\ NULL \notin Spare
    BY WalksOfPool DEF Chains
  <2>5. Len(Lent) <= n /\ Len(Unlent) <= n
    <3>1. \A c \in {Cardinality(held), Cardinality(Spare)} : c \in Nat
      BY <2>3, FS_CardinalityType
    <3>2. /\ Len(Lent) \in Nat /\ Len(Lent) <= Cardinality(held)
          /\ Len(Unlent) \in Nat /\ Len(Unlent) <= Cardinality(Spare)
      BY <2>3, <2>4, VisitsLength DEF IsChain
    <3> QED
      BY <2>1, <2>3, <3>1, <3>2
  <2> HIDE DEF n
  <2>6. PICK r \in [held -> 0..n] : Ranked(pool.next, held, r, n)
    BY <2>1, <2>4, <2>5, ChainRanks
  <2>7. PICK q \in [Spare -> 0..n] : Ranked(pool.next, Spare, q, n)
    BY <2>1, <2>4, <2>5, ChainRanks
  <2> DEFINE rank == [i \in Item |-> IF i \in held THEN r[i]
                                     ELSE IF i \in Spare THEN q[i] ELSE 0]
  <2>8. rank \in [Item -> 0..n] /\ n \in 0..n
    BY <2>1
  <2>9. /\ \A i \in held : pool.next[i] \in held \cup {NULL}
        /\ \A i \in Spare : pool.next[i] \in Spare \cup {NULL}
    BY PoolInvSound DEF Sound, Threaded
  <2>10. Ranked(pool.next, held \cup Spare, rank, n)
    BY <2>2, <2>4, <2>6, <2>7, <2>9 DEF Ranked
  <2> HIDE DEF rank
  <2>11. Acyclic(0..n)
    BY <2>8, <2>10 DEF Acyclic
  <2> QED
    BY <2>11 DEF RanksExist, n
<1> QED
  BY <1>1, PoolInvariant, PTL

(* Only one pair of sequences can be the walks of the pool after a step. *)
LEMMA WalksAfter ==
  ASSUME PoolInv', NEW H, NEW S, NULL \notin H, NULL \notin S,
         NEW v, NEW w, Chains(pool', H, S, v, w)
  PROVE  Lent' = v /\ Unlent' = w
<1>1. (PoolInv => /\ Chains(pool, held, Spare, Lent, Unlent)
                  /\ NULL \notin held /\ NULL \notin Spare)'
  BY WalksOfPool, PTL
<1>2. /\ IsChain(Lent', pool'.next, pool'.allocateditems, held')
      /\ IsChain(Unlent', pool'.next, pool'.freeitems, Spare')
  BY <1>1 DEF Chains
<1>3. /\ IsChain(v, pool'.next, pool'.allocateditems, H)
      /\ IsChain(w, pool'.next, pool'.freeitems, S)
  BY DEF Chains
<1> QED
  BY <1>1, <1>2, <1>3, ChainUnique

(* A get moves the head of the free list to the top of the loans. *)
LEMMA GetFreeStack ==
  ASSUME PoolInv, PoolInv', Get, HasMemory(pool)
  PROVE  Stack!Get
<1> DEFINE x == pool.freeitems
<1>1. /\ Sound(Item, pool, held, Spare) /\ x # NULL
      /\ Chains(pool, held, Spare, Lent, Unlent)
  BY PoolInvSound, WalksOfPool DEF HasMemory
<1>2. pool' = TakeFree(pool)
  BY <1>1 DEF Get, Fresh, GetMemory, HasMemory
<1>3. /\ Unlent # << >> /\ Head(Unlent) = x
      /\ Chains(pool', held \cup {x}, Spare \ {x},
                << x >> \o Lent, Tail(Unlent))
  BY <1>1, <1>2, TakeFreeWalks
<1>4. NULL \notin held \cup {x} /\ NULL \notin Spare \ {x}
  BY <1>1 DEF Sound
<1>5. Lent' = << x >> \o Lent /\ Unlent' = Tail(Unlent)
  BY <1>3, <1>4, WalksAfter
<1> QED
  BY <1>3, <1>5 DEF Stack!Get, Lent, Unlent

(* With nothing on the free list a get lends a fresh item. *)
LEMMA GetHeapStack ==
  ASSUME PoolInv, PoolInv', Get, ~ HasMemory(pool), HeapSize # 0
  PROVE  Stack!GetDynamic
<1>1. PICK x \in DynamicItem \ held :
        LET got == GetMemory(pool, x) IN pool' = got.pool
  BY DEF Get, Fresh
<1>2. x \in Item \ (held \cup Spare) /\ x # NULL
  BY <1>1, SizeAssumption DEF DynamicItem, Item, Spare, StaticItem, NULL
<1>3. pool' = TakeFree(AddDynamicItem(pool, x))
  BY <1>1, <1>2 DEF GetMemory
<1>4. /\ Sound(Item, pool, held, Spare)
      /\ Chains(pool, held, Spare, Lent, Unlent)
  BY PoolInvSound, WalksOfPool
<1>5. Chains(pool', held \cup {x}, Spare, << x >> \o Lent, Unlent)
  BY <1>2, <1>3, <1>4, FreshItemWalks
<1>6. NULL \notin held \cup {x} /\ NULL \notin Spare
  BY <1>2, <1>4 DEF Sound
<1>7. Lent' = << x >> \o Lent /\ Unlent' = Unlent
  BY <1>5, <1>6, WalksAfter
<1>8. Unlent = << >>
  <2>1. /\ Unlent \in Seq(Spare)
        /\ {Unlent[j] : j \in DOMAIN Unlent} = Spare
    BY <1>4 DEF Chains, IsChain, Visits
  <2>2. Spare = {}
    BY EmptyMeansExhausted
  <2> QED
    BY <2>1, <2>2
<1>9. x \notin ToSet(Lent)
  <2>1. {Lent[j] : j \in DOMAIN Lent} = held
    BY <1>4 DEF Chains, IsChain, Visits
  <2> QED
    BY <1>1, <2>1 DEF ToSet
<1> QED
  BY <1>1, <1>7, <1>8, <1>9
  DEF Stack!GetDynamic, Stack!ToSet, ToSet, Lent, Unlent

(* A put takes the item out of the loans, whatever its place there. *)
LEMMA PutStack ==
  ASSUME PoolInv, PoolInv', NEW x \in Item, Put(x)
  PROVE  Stack!Put
<1>1. /\ x \in held
      /\ pool' = PutMemory(pool, x)
      /\ Sound(Item, pool, held, Spare) /\ DynamicMarked
      /\ Chains(pool, held, Spare, Lent, Unlent)
  BY PoolInvSound, WalksOfPool DEF Put
<1>2. PICK k \in DOMAIN Lent : Lent[k] = x
  BY <1>1 DEF Chains, IsChain, Visits
<1> DEFINE un == UnlinkItem(pool, x)
<1>3. Sound(Item, un, held \ {x}, Spare)
  BY <1>1, UnlinkItemSound
<1>4. Chains(un, held \ {x}, Spare, RemoveAt(Lent, k), Unlent)
  BY <1>1, <1>2, UnlinkItemWalks
<1>5. pool.is_dynamic_memory[x] <=> x \in DynamicItem
  BY <1>1 DEF DynamicMarked
<1> HIDE DEF un
<1>6. CASE x \in DynamicItem
  <2>1. pool' = un
    BY <1>1, <1>5, <1>6 DEF PutMemory, un
  <2>2. NULL \notin held \ {x} /\ NULL \notin Spare
    BY <1>3 DEF Sound
  <2>3. Lent' = RemoveAt(Lent, k) /\ Unlent' = Unlent
    BY <1>4, <2>1, <2>2, WalksAfter
  <2> QED
    BY <1>2, <1>6, <2>3
    DEF Stack!Put, Stack!RemoveAt, RemoveAt, Lent, Unlent
<1>7. CASE x \notin DynamicItem
  <2>1. pool' = PushFree(un, x)
    BY <1>1, <1>5, <1>7 DEF PutMemory, un
  <2>2. x \in Item \ ((held \ {x}) \cup Spare)
    BY <1>1 DEF Spare
  <2>3. Chains(pool', held \ {x}, Spare \cup {x},
               RemoveAt(Lent, k), << x >> \o Unlent)
    BY <1>3, <1>4, <2>1, <2>2, PushFreeWalks
  <2>4. NULL \notin held \ {x} /\ NULL \notin Spare \cup {x}
    BY <1>3, NullNotItem DEF Sound
  <2>5. Lent' = RemoveAt(Lent, k) /\ Unlent' = << x >> \o Unlent
    BY <2>3, <2>4, WalksAfter
  <2> QED
    BY <1>2, <1>7, <2>5
    DEF Stack!Put, Stack!RemoveAt, RemoveAt, Lent, Unlent
<1> QED
  BY <1>6, <1>7

LEMMA InitStack == Init => Stack!Init
<1> SUFFICES ASSUME Init PROVE Stack!Init
  OBVIOUS
<1>1. PoolInv
  BY InitPoolInv
<1>2. /\ pool = InitMemory(Size, Item)
      /\ held = {} /\ Spare = 1..Size
      /\ Size \in Nat /\ Size + HeapSize \in Nat /\ Size <= Size + HeapSize
  BY SizeAssumption DEF Init, Spare, StaticItem
<1>3. /\ IsChain(Lent, pool.next, NULL, {})
      /\ IsChain(Unlent, pool.next, Size, 1..Size)
      /\ NULL \notin 1..Size
  BY <1>1, <1>2, WalksOfPool DEF Chains, InitMemory
<1>4. IsChain([k \in 1..Size |-> Size + 1 - k], pool.next, Size, 1..Size)
  BY <1>2, InitMemorySound DEF Item
<1>5. Unlent = [k \in 1..Size |-> Size + 1 - k]
  <2> DEFINE s == [k \in 1..Size |-> Size + 1 - k]
  <2>1. IsChain(s, pool.next, Size, 1..Size)
    BY <1>4
  <2> HIDE DEF s
  <2>2. Unlent = s
    BY <1>3, <2>1, ChainUnique, Zenon
  <2> QED
    BY <2>2 DEF s
<1>6. Lent = << >>
  BY <1>3 DEF IsChain, Visits
<1> QED
  BY <1>5, <1>6 DEF Stack!Init, Lent, Unlent

(***************************************************************************)
(* The two walks are the stacks of SlotStack, whatever the size of the     *)
(* pool: the newest loan comes first, a put leaves the order of the other  *)
(* loans alone, and the item put last is lent next (memory.c).             *)
(***************************************************************************)
THEOREM PoolImplementsStack == Spec => ImplementsStack
<1>1. PoolInv /\ PoolInv' /\ [Next]_vars => [Stack!Next]_(Stack!stackVars)
  <2> SUFFICES ASSUME PoolInv, PoolInv', [Next]_vars
               PROVE  [Stack!Next]_(Stack!stackVars)
    OBVIOUS
  <2>1. CASE Get /\ HasMemory(pool)
    BY <2>1, GetFreeStack DEF Stack!Next
  <2>2. CASE Get /\ ~ HasMemory(pool) /\ HeapSize # 0
    BY <2>2, GetHeapStack DEF Stack!Next
  <2>3. CASE Get /\ ~ HasMemory(pool) /\ HeapSize = 0
    <3>1. pool' = pool
      BY <2>3 DEF Get, Fresh, GetMemory
    <3> QED
      BY <3>1 DEF Stack!stackVars, AllocatedItems, FreeItems
  <2>4. ASSUME NEW x \in Item, Put(x) PROVE Stack!Put
    BY <2>4, PutStack
  <2>5. CASE UNCHANGED vars
    <3>1. pool' = pool
      BY <2>5 DEF vars
    <3> QED
      BY <3>1 DEF Stack!stackVars, AllocatedItems, FreeItems
  <2> QED
    BY <2>1, <2>2, <2>3, <2>4, <2>5 DEF Next, Stack!Next
<1> QED
  BY <1>1, InitStack, PoolInvariant, PTL DEF Spec, ImplementsStack, Stack!Spec
=============================================================================
