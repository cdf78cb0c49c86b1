------------------------------ MODULE MemPool ------------------------------
(***************************************************************************)
(* The static memory pool of memory.c: two intrusive lists, freeitems and  *)
(* allocateditems, threaded through the prev and next pointers of items    *)
(* that live in a static array (or on the heap, for dynamic items).        *)
(*                                                                         *)
(* A pointer to an item is a positive number and NULL is 0.  A pool is a   *)
(* record; the operators below map the pool before a call to the pool      *)
(* after it, pointer write by pointer write, so that they also say what    *)
(* happens when a caller breaks the contract (puts an item twice).  This   *)
(* module holds no state: MemPoolClients drives one pool,                  *)
(* EntityLifecycle drives one pool for each kind of entity.                *)
(***************************************************************************)
EXTENDS Naturals, Sequences

NULL == 0

(***************************************************************************)
(* rmw_uxrce_mempool_t over the items in Item.                             *)
(***************************************************************************)
Pools(Item) ==
  [ allocateditems    : Item \cup {NULL},
    freeitems         : Item \cup {NULL},
    prev              : [Item -> Item \cup {NULL}],
    next              : [Item -> Item \cup {NULL}],
    is_dynamic_memory : [Item -> BOOLEAN] ]

(* `if (ptr) ptr->field = value`. *)
Write(field, ptr, value) ==
  IF ptr = NULL THEN field ELSE [field EXCEPT ![ptr] = value]

HasMemory(pool) == pool.freeitems # NULL

-----------------------------------------------------------------------------
(* UnlinkItem with a mistake: the next item keeps pointing back. *)
UnlinkItemOneWay(pool, item) ==
  [pool EXCEPT
     !.next = Write(@, pool.prev[item], pool.next[item]),
     !.allocateditems = IF @ = item THEN pool.next[item] ELSE @]

(* UnlinkItem with a mistake: a head that is put stays the head. *)
UnlinkItemKeepHead(pool, item) ==
  [pool EXCEPT
     !.next = Write(@, pool.prev[item], pool.next[item]),
     !.prev = Write(@, pool.next[item], pool.prev[item])]

(* UnlinkItem with a mistake: the whole tail is dropped with the item. *)
UnlinkItemDropTail(pool, item) ==
  [pool EXCEPT
     !.next = Write(@, pool.prev[item], NULL),
     !.allocateditems = IF @ = item THEN pool.next[item] ELSE @]

(* put_memory, first part: "Gets item from allocated pool". *)
UnlinkItem(pool, item) ==
  [pool EXCEPT
     !.next = Write(@, pool.prev[item], pool.next[item]),
     !.prev = Write(@, pool.next[item], pool.prev[item]),
     !.allocateditems = IF @ = item THEN pool.next[item] ELSE @]

(* put_memory, last part: "Puts item in free pool". *)
PushFree(pool, item) ==
  [pool EXCEPT
     !.next = [@ EXCEPT ![item] = pool.freeitems],
     !.prev = [Write(@, pool.freeitems, item) EXCEPT ![item] = NULL],
     !.freeitems = item]

(* PutMemory with a mistake: the item stays on the allocated list. *)
PutMemoryLinked(pool, item) ==
  IF pool.is_dynamic_memory[item] THEN pool ELSE PushFree(pool, item)

(* A dynamic item goes back to the heap instead of to the free list. *)
PutMemory(pool, item) ==
  IF pool.is_dynamic_memory[item]
  THEN UnlinkItem(pool, item)
  ELSE PushFree(UnlinkItem(pool, item), item)

-----------------------------------------------------------------------------
(* TakeFree with a mistake: next is read after it was overwritten. *)
TakeFreeNextLate(pool) ==
  LET item == pool.freeitems
      rest == pool.allocateditems
  IN  [pool EXCEPT
         !.freeitems = rest,
         !.next = [@ EXCEPT ![item] = pool.allocateditems],
         !.prev = [Write(@, pool.allocateditems, item) EXCEPT ![item] = NULL],
         !.allocateditems = item]

(* TakeFree with a mistake: freeitems->prev is written without a test. *)
TakeFreeUntested(pool) ==
  LET item == pool.freeitems
      rest == pool.next[item]
      prev == [i \in DOMAIN pool.prev \cup {rest} |->
                 IF i \in {rest, item} THEN NULL ELSE pool.prev[i]]
  IN  [pool EXCEPT
         !.freeitems = rest,
         !.next = [@ EXCEPT ![item] = pool.allocateditems],
         !.prev = Write(prev, pool.allocateditems, item),
         !.allocateditems = item]

(* get_memory with a free item: head of freeitems becomes head of          *)
(* allocateditems.                                                         *)
TakeFree(pool) ==
  LET item == pool.freeitems
      rest == pool.next[item]
  IN  [pool EXCEPT
         !.freeitems = rest,
         !.next = [@ EXCEPT ![item] = pool.allocateditems],
         !.prev = [Write(Write(@, rest, NULL), pool.allocateditems, item)
                     EXCEPT ![item] = NULL],
         !.allocateditems = item]

(* AddDynamicItem with a mistake: the fresh item keeps counting as static. *)
AddDynamicItemUnmarked(pool, fresh) ==
  PutMemory([pool EXCEPT !.prev[fresh] = NULL,
                         !.next[fresh] = NULL,
                         !.is_dynamic_memory[fresh] = FALSE], fresh)

(* get_memory on an empty free list, RMW_UXRCE_ALLOW_DYNAMIC_ALLOCATIONS:  *)
(* the fresh item is put in the free list while it still counts as static. *)
AddDynamicItem(pool, fresh) ==
  [ PutMemory([pool EXCEPT !.prev[fresh] = NULL,
                           !.next[fresh] = NULL,
                           !.is_dynamic_memory[fresh] = FALSE], fresh)
      EXCEPT !.is_dynamic_memory[fresh] = TRUE ]

(***************************************************************************)
(* get_memory: the item it returns (NULL when there is none) and the pool  *)
(* it leaves.  fresh is what rmw_allocate returns, NULL in the build       *)
(* without dynamic allocations.                                            *)
(***************************************************************************)
GetMemory(pool, fresh) ==
  IF HasMemory(pool)
  THEN [item |-> pool.freeitems, pool |-> TakeFree(pool)]
  ELSE IF fresh # NULL
       THEN [item |-> fresh, pool |-> TakeFree(AddDynamicItem(pool, fresh))]
       ELSE [item |-> NULL, pool |-> pool]

-----------------------------------------------------------------------------
(* A pool before its first initialisation (zeroed static storage). *)
EmptyPool(Item) ==
  [ allocateditems    |-> NULL,
    freeitems         |-> NULL,
    prev              |-> [i \in Item |-> NULL],
    next              |-> [i \in Item |-> NULL],
    is_dynamic_memory |-> [i \in Item |-> FALSE] ]

(***************************************************************************)
(* RMW_INIT_MEMORY puts array[0], array[1], ... in turn: item n ends at    *)
(* the head of the free list and item 1 at its end.  Items above n are     *)
(* heap addresses.  MCMemPool compares this form with the loop.            *)
(***************************************************************************)
InitMemory(n, Item) ==
  [ allocateditems    |-> NULL,
    freeitems         |-> n,
    prev              |-> [i \in Item |-> IF i < n THEN i + 1 ELSE NULL],
    next              |-> [i \in Item |-> IF i <= n THEN i - 1 ELSE NULL],
    is_dynamic_memory |-> [i \in Item |-> FALSE] ]

-----------------------------------------------------------------------------
(***************************************************************************)
(* The items `for (item = head; item != NULL; item = item->next)` visits,  *)
(* in order, stopping after bound steps: a list that a broken caller tied  *)
(* into a loop is cut there.                                               *)
(***************************************************************************)
Walk(pool, head, bound) ==
  LET from[k \in 0..bound] ==
        [ptr \in DOMAIN pool.next \cup {NULL} |->
           IF k = 0 \/ ptr = NULL THEN << >>
           ELSE << ptr >> \o from[k - 1][pool.next[ptr]]]
  IN  from[bound][head]

AllocatedItems(pool, bound) == Walk(pool, pool.allocateditems, bound)
FreeItems(pool, bound)      == Walk(pool, pool.freeitems, bound)

-----------------------------------------------------------------------------
(***************************************************************************)
(* The items of S are threaded from head: prev and next are inverse to     *)
(* each other on S, no link leaves S, and only the head has no             *)
(* predecessor.                                                            *)
(***************************************************************************)
Threaded(next, prev, S, head) ==
  /\ head \in S \cup {NULL}
  /\ \A i \in S :
       /\ next[i] \in S \cup {NULL}
       /\ prev[i] \in S \cup {NULL}
       /\ next[i] # NULL => prev[next[i]] = i
       /\ prev[i] # NULL => next[prev[i]] = i
       /\ prev[i] = NULL <=> head = i

(* Ranks that grow from an item of S to its predecessor, up to top. *)
Ranked(next, S, rank, top) ==
  \A i \in S :
    /\ rank[i] <= top
    /\ next[i] # NULL => rank[next[i]] < rank[i]
=============================================================================
