--------------------------- MODULE MemPoolClients ---------------------------
(***************************************************************************)
(* One pool and the callers of get_memory and put_memory.  Both functions  *)
(* hold the pool's recursive mutex from their first to their last access,  *)
(* so each is one step.  The callers here keep the contract the code       *)
(* leaves implicit: put_memory is only called with an item that            *)
(* get_memory returned and that was not put since.  EntityLifecycle shows  *)
(* callers that break it.                                                  *)
(***************************************************************************)
EXTENDS MemPool

CONSTANTS
  Size,       (* number of items of the static array (RMW_UXRCE_MAX_...)   *)
  HeapSize    (* number of items the heap can hold, 0 in a build without   *)
              (* RMW_UXRCE_ALLOW_DYNAMIC_ALLOCATIONS; a bound on the model *)

ASSUME SizeAssumption == Size \in Nat \ {0} /\ HeapSize \in Nat

VARIABLES
  pool,       (* rmw_uxrce_mempool_t                                       *)
  held,       (* the items callers hold                                    *)
  answer      (* what the last get_memory returned                         *)

vars == << pool, held, answer >>

StaticItem  == 1..Size
DynamicItem == (Size + 1)..(Size + HeapSize)
Item        == 1..(Size + HeapSize)

(* An uninitialised pool has nothing to give; the first rmw_init builds it *)
(* before anyone can call get_memory.                                      *)
Init ==
  /\ pool = InitMemory(Size, Item)
  /\ held = {}
  /\ answer = NULL

(* rmw_allocate may answer with any heap address not in use; it is called  *)
(* only when the free list is empty.                                       *)
Fresh ==
  IF HasMemory(pool) \/ HeapSize = 0 THEN {NULL} ELSE DynamicItem \ held

Get ==
  \E fresh \in Fresh :
    LET got == GetMemory(pool, fresh)
    IN  /\ pool' = got.pool
        /\ answer' = got.item
        /\ held' = IF got.item = NULL THEN held ELSE held \cup {got.item}

Put(item) ==
  /\ item \in held
  /\ pool' = PutMemory(pool, item)
  /\ held' = held \ {item}
  /\ answer' = answer

Next == Get \/ \E item \in Item : Put(item)

Spec == Init /\ [][Next]_vars

-----------------------------------------------------------------------------
TypeOK ==
  /\ pool \in Pools(Item)
  /\ held \in SUBSET Item
  /\ answer \in Item \cup {NULL}

(* The static items that no caller holds: those the free list must carry.  *)
Spare == StaticItem \ held

(***************************************************************************)
(* The two lists carry the held and the spare items and never mix: a walk  *)
(* from allocateditems (as callbacks.c, rmw_node.c and types.c do) meets   *)
(* held items only, and get_memory takes a spare one.  put_memory must     *)
(* preserve this for an item at the head, in the middle or at the end.     *)
(***************************************************************************)
ListsThreaded ==
  /\ Threaded(pool.next, pool.prev, held, pool.allocateditems)
  /\ Threaded(pool.next, pool.prev, Spare, pool.freeitems)

(* Dynamic items are marked while they are held, so that put_memory frees  *)
(* them, and no static item ever is, so that put_memory keeps it.          *)
DynamicMarked ==
  \A i \in held \cup Spare : pool.is_dynamic_memory[i] <=> i \in DynamicItem

(***************************************************************************)
(* Neither list has a cycle: its items can be ranked by the numbers of R.  *)
(* This strengthening is what makes "the free list is empty only when      *)
(* nothing is spare" inductive.                                            *)
(***************************************************************************)
Acyclic(R) ==
  \E rank \in [Item -> R] : \E top \in R :
    Ranked(pool.next, held \cup Spare, rank, top)

(* The walk along a list is over after as many steps as there are items:   *)
(* the ranks need no more numbers than that (callbacks.c, types.c and      *)
(* rmw_node.c walk until next is NULL, with no other end).                 *)
RanksExist == Acyclic(0..(Size + HeapSize))

(* Every item of the pool is on one of its two lists, once.  The callers   *)
(* never find the pool exhausted while an item is spare, and never lose    *)
(* an item out of both lists.                                              *)
NoItemLost ==
  LET lent  == AllocatedItems(pool, Size + HeapSize + 1)
      spare == FreeItems(pool, Size + HeapSize + 1)
  IN  /\ {lent[k] : k \in DOMAIN lent} = held
      /\ {spare[k] : k \in DOMAIN spare} = Spare
      /\ \A j, k \in DOMAIN lent : lent[j] = lent[k] => j = k
      /\ \A j, k \in DOMAIN spare : spare[j] = spare[k] => j = k

-----------------------------------------------------------------------------
(* The pool lends, refuses and takes back as SlotAllocator says.           *)
Allocator == INSTANCE SlotAllocator WITH None <- NULL

ImplementsAllocator == Allocator!Spec

(***************************************************************************)
(* The two walks behave as stacks (types.c finds the newest buffer of an   *)
(* owner first): the newest loan comes first, a return keeps the order of  *)
(* the others, and the item returned last is lent next.                    *)
(***************************************************************************)
Stack == INSTANCE SlotStack WITH
  StaticSeq <- [k \in 1..Size |-> Size + 1 - k],
  lent      <- AllocatedItems(pool, Size + HeapSize),
  spare     <- FreeItems(pool, Size + HeapSize)

ImplementsStack == Stack!Spec
=============================================================================
