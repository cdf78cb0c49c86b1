----------------------------- MODULE MCMemPool -----------------------------
(***************************************************************************)
(* Model checking of MemPoolClients, and of InitMemory against the loop    *)
(* it stands for.                                                          *)
(***************************************************************************)
EXTENDS MemPoolClients, SequencesExt

(* RMW_INIT_MEMORY as written: put_memory on every element, in order. *)
InitLoop(n, S) ==
  FoldLeft(PutMemory, EmptyPool(S), [k \in 1..n |-> k])

(* The closed form of InitMemory is what the loop computes. *)
ASSUME InitMemoryIsLoop ==
  \A n \in 1..6, heap \in 0..2 :
    InitMemory(n, 1..(n + heap)) = InitLoop(n, 1..(n + heap))
=============================================================================
