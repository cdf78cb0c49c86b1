---------------------------- MODULE ElementPool ----------------------------
(***************************************************************************)
(* A pool as the entity code uses it.  get_memory answers an item, and the *)
(* creation functions go on with the element item->data.  To release, the  *)
(* fini functions of types.c put the mem field embedded in the element.    *)
(* For an element of the static array that field is the item itself        *)
(* (RMW_INIT_MEMORY); for an element from the heap it is not: get_memory   *)
(* allocates the list item and the element separately and zeroes the       *)
(* element, its mem included.                                              *)
(***************************************************************************)
EXTENDS MemPool

CONSTANTS
  Size,       (* elements of the static array                              *)
  HeapSize    (* dynamic allocations the model allows                      *)

VARIABLES
  pool,       (* rmw_uxrce_mempool_t                                       *)
  used        (* the elements entities use; NULL once a creation function  *)
              (* went on with a null item->data                            *)

vars == << pool, used >>

(* Elements and list items with the same number belong together; the mem   *)
(* field of the dynamic element e is the item e + HeapSize.                *)
Element  == 1..(Size + HeapSize)
Item     == 1..(Size + 2 * HeapSize)
Mem(e)   == IF e <= Size THEN e ELSE e + HeapSize
DataOf(item) == IF item \in Element THEN item ELSE NULL

Init ==
  /\ pool = InitMemory(Size, Item)
  /\ used = {}

(* Items of earlier allocations are never freed, so each allocation is new. *)
Fresh ==
  {e \in Element : e > Size /\ ~ pool.is_dynamic_memory[e]}

(* get_memory in a creation function; the bound HeapSize stops the model.  *)
Acquire ==
  \E fresh \in IF HasMemory(pool) THEN {NULL} ELSE Fresh :
    LET got == GetMemory(pool, fresh)
    IN  /\ pool' = got.pool
        /\ used' = used \cup {DataOf(got.item)}

(* put_memory(&..._memory, &element->mem) in a fini function. *)
Release(e) ==
  /\ e \in used
  /\ pool' = PutMemory(pool, Mem(e))
  /\ used' = used \ {e}

Next == Acquire \/ \E e \in Element : Release(e)

Spec == Init /\ [][Next]_vars

(***************************************************************************)
(* "Enables increasing static pools with dynamic allocation when needed":  *)
(* whenever get_memory answers an item, the creation function finds an     *)
(* element behind it.                                                      *)
(***************************************************************************)
AnswerHasElement == NULL \notin used
=============================================================================
