----------------------------- MODULE PoolLemmas -----------------------------
(***************************************************************************)
(* Lemmas about the pools of MemPool, over any set of items: first about   *)
(* threading functions next and prev only, then about the two lists of a   *)
(* pool and what memory.c does to them, then about walks.                  *)
(***************************************************************************)
EXTENDS MemPool, SequenceLemmas, FiniteSetTheorems

(***************************************************************************)
(* Unlinking x from a threaded list leaves the rest threaded, wherever x   *)
(* stands (UnlinkItem; TakeFree does the same to the head).                *)
(***************************************************************************)
LEMMA UnlinkThreaded ==
  ASSUME NEW I, NULL \notin I,
         NEW S \in SUBSET I, NEW head, NEW x \in S,
         NEW next \in [I -> I \cup {NULL}],
         NEW prev \in [I -> I \cup {NULL}],
         Threaded(next, prev, S, head)
  PROVE  Threaded(Write(next, prev[x], next[x]),
                  Write(prev, next[x], prev[x]),
                  S \ {x},
                  IF head = x THEN next[x] ELSE head)
BY DEF Threaded, Write

(***************************************************************************)
(* Pushing an item x on the head of a threaded list it is not on.          *)
(***************************************************************************)
LEMMA PushThreaded ==
  ASSUME NEW I, NULL \notin I,
         NEW S \in SUBSET I, NEW head, NEW x \in I \ S,
         NEW next \in [I -> I \cup {NULL}],
         NEW prev \in [I -> I \cup {NULL}],
         Threaded(next, prev, S, head)
  PROVE  Threaded([next EXCEPT ![x] = head],
                  [Write(prev, head, x) EXCEPT ![x] = NULL],
                  S \cup {x}, x)
BY DEF Threaded, Write

(***************************************************************************)
(* A list is threaded by what its own items' links say, and by nothing     *)
(* else.                                                                   *)
(***************************************************************************)
LEMMA FrameThreaded ==
  ASSUME NEW S, NEW head, NEW next, NEW prev, NEW next2, NEW prev2,
         \A i \in S : next2[i] = next[i] /\ prev2[i] = prev[i],
         Threaded(next, prev, S, head)
  PROVE  Threaded(next2, prev2, S, head)
BY DEF Threaded

(***************************************************************************)
(* Unlinking keeps a ranking; pushing extends it with a new top.           *)
(***************************************************************************)
LEMMA UnlinkRanked ==
  ASSUME NEW I, NULL \notin I,
         NEW S \in SUBSET I, NEW head, NEW x \in S,
         NEW T \in SUBSET I, S \cap T = {},
         NEW next \in [I -> I \cup {NULL}],
         NEW prev \in [I -> I \cup {NULL}],
         NEW rank \in [I -> Nat], NEW top \in Nat,
         Threaded(next, prev, S, head),
         Ranked(next, S \cup T, rank, top)
  PROVE  Ranked(Write(next, prev[x], next[x]), (S \cup T) \ {x}, rank, top)
BY DEF Threaded, Ranked, Write

LEMMA PushRanked ==
  ASSUME NEW I, NULL \notin I,
         NEW S \in SUBSET I, NEW x \in I \ S, NEW head \in S \cup {NULL},
         NEW next \in [I -> I \cup {NULL}],
         \A i \in S : next[i] \in S \cup {NULL},
         NEW rank \in [I -> Nat], NEW top \in Nat,
         Ranked(next, S, rank, top)
  PROVE  Ranked([next EXCEPT ![x] = head], S \cup {x},
                [rank EXCEPT ![x] = top + 1], top + 1)
BY DEF Ranked

(***************************************************************************)
(* A ranked list without a head has no item: an item without predecessor   *)
(* would be the head, and predecessors cannot rise in rank for ever.       *)
(***************************************************************************)
LEMMA NoHeadNoItem ==
  ASSUME NEW I, NULL \notin I,
         NEW S \in SUBSET I,
         NEW next \in [I -> I \cup {NULL}],
         NEW prev \in [I -> I \cup {NULL}],
         NEW rank \in [I -> Nat], NEW top \in Nat,
         Threaded(next, prev, S, NULL),
         Ranked(next, S, rank, top)
  PROVE  S = {}
<1> SUFFICES ASSUME S # {} PROVE FALSE
  OBVIOUS
<1> DEFINE Gap == {n \in Nat : \E i \in S : n = top - rank[i]}
<1>1. Gap # {}
  <2>1. PICK i \in S : TRUE
    OBVIOUS
  <2>2. top - rank[i] \in Nat
    BY <2>1 DEF Ranked
  <2> QED
    BY <2>1, <2>2
<1>2. PICK n \in Gap : \A m \in Gap : n <= m
  BY <1>1, LeastNumber
<1>3. PICK i \in S : n = top - rank[i]
  BY <1>2
<1>4. prev[i] \in S /\ next[prev[i]] = i
  BY <1>3 DEF Threaded
<1>5. top - rank[prev[i]] \in Gap /\ top - rank[prev[i]] < n
  BY <1>3, <1>4 DEF Ranked
<1> QED
  BY <1>2, <1>5

-----------------------------------------------------------------------------
(***************************************************************************)
(* A pool p whose allocated list carries H and whose free list carries S.  *)
(***************************************************************************)
Sound(I, p, H, S) ==
  /\ NULL \notin I
  /\ p \in Pools(I)
  /\ H \in SUBSET I /\ S \in SUBSET I /\ H \cap S = {}
  /\ Threaded(p.next, p.prev, H, p.allocateditems)
  /\ Threaded(p.next, p.prev, S, p.freeitems)
  /\ \E rank \in [I -> Nat] : \E top \in Nat :
       Ranked(p.next, H \cup S, rank, top)

(* UnlinkItem takes an allocated item off both lists. *)
LEMMA UnlinkItemSound ==
  ASSUME NEW I, NEW p, NEW H, NEW S, Sound(I, p, H, S), NEW x \in H
  PROVE  Sound(I, UnlinkItem(p, x), H \ {x}, S)
<1> DEFINE q == UnlinkItem(p, x)
<1>1. /\ NULL \notin I
      /\ p.next \in [I -> I \cup {NULL}]
      /\ p.prev \in [I -> I \cup {NULL}]
      /\ p.is_dynamic_memory \in [I -> BOOLEAN]
      /\ H \in SUBSET I /\ S \in SUBSET I /\ H \cap S = {}
      /\ Threaded(p.next, p.prev, H, p.allocateditems)
      /\ Threaded(p.next, p.prev, S, p.freeitems)
  BY DEF Sound, Pools
<1>2. /\ q.next = Write(p.next, p.prev[x], p.next[x])
      /\ q.prev = Write(p.prev, p.next[x], p.prev[x])
      /\ q.allocateditems = IF p.allocateditems = x THEN p.next[x]
                                                    ELSE p.allocateditems
      /\ q.freeitems = p.freeitems
  BY DEF UnlinkItem, Sound, Pools
<1>3. q \in Pools(I)
  BY <1>1 DEF UnlinkItem, Pools, Sound, Write
<1>4. Threaded(q.next, q.prev, H \ {x}, q.allocateditems)
  <2>1. Threaded(Write(p.next, p.prev[x], p.next[x]),
                 Write(p.prev, p.next[x], p.prev[x]), H \ {x},
                 IF p.allocateditems = x THEN p.next[x] ELSE p.allocateditems)
    BY <1>1, UnlinkThreaded
  <2> QED
    BY <1>2, <2>1
<1>5. Threaded(q.next, q.prev, S, q.freeitems)
  <2>1. \A i \in S : q.next[i] = p.next[i] /\ q.prev[i] = p.prev[i]
    BY <1>1, <1>2 DEF Threaded, Write
  <2> QED
    BY <1>1, <1>2, <2>1, FrameThreaded
<1>6. \E rank \in [I -> Nat] : \E top \in Nat :
        Ranked(q.next, (H \ {x}) \cup S, rank, top)
  <2>1. PICK rank \in [I -> Nat], top \in Nat :
          Ranked(p.next, H \cup S, rank, top)
    BY DEF Sound
  <2>2. Ranked(q.next, (H \cup S) \ {x}, rank, top)
    <3>1. Ranked(Write(p.next, p.prev[x], p.next[x]), (H \cup S) \ {x},
                 rank, top)
      BY <1>1, <2>1, UnlinkRanked
    <3> QED
      BY <1>2, <3>1
  <2>3. (H \ {x}) \cup S = (H \cup S) \ {x}
    BY <1>1
  <2> QED
    BY <2>2, <2>3
<1> QED
  BY <1>1, <1>3, <1>4, <1>5, <1>6 DEF Sound

(* PushFree threads an item that is on neither list on the free list. *)
LEMMA PushFreeSound ==
  ASSUME NEW I, NEW p, NEW H, NEW S, Sound(I, p, H, S),
         NEW x \in I \ (H \cup S)
  PROVE  Sound(I, PushFree(p, x), H, S \cup {x})
<1> DEFINE q == PushFree(p, x)
<1>1. /\ NULL \notin I
      /\ p.next \in [I -> I \cup {NULL}]
      /\ p.prev \in [I -> I \cup {NULL}]
      /\ p.is_dynamic_memory \in [I -> BOOLEAN]
      /\ H \in SUBSET I /\ S \in SUBSET I /\ H \cap S = {}
      /\ Threaded(p.next, p.prev, H, p.allocateditems)
      /\ Threaded(p.next, p.prev, S, p.freeitems)
  BY DEF Sound, Pools
<1>2. /\ q.next = [p.next EXCEPT ![x] = p.freeitems]
      /\ q.prev = [Write(p.prev, p.freeitems, x) EXCEPT ![x] = NULL]
      /\ q.freeitems = x
      /\ q.allocateditems = p.allocateditems
  BY DEF PushFree, Sound, Pools
<1>3. q \in Pools(I)
  <2>1. Write(p.prev, p.freeitems, x) \in [I -> I \cup {NULL}]
    BY <1>1 DEF Write
  <2> QED
    BY <1>1, <2>1 DEF PushFree, Pools, Sound
<1>4. Threaded(q.next, q.prev, S \cup {x}, q.freeitems)
  <2>1. Threaded([p.next EXCEPT ![x] = p.freeitems],
                 [Write(p.prev, p.freeitems, x) EXCEPT ![x] = NULL],
                 S \cup {x}, x)
    BY <1>1, PushThreaded
  <2> QED
    BY <1>2, <2>1
<1>5. Threaded(q.next, q.prev, H, q.allocateditems)
  <2>1. \A i \in H : q.next[i] = p.next[i] /\ q.prev[i] = p.prev[i]
    BY <1>1, <1>2 DEF Threaded, Write
  <2>2. Threaded(q.next, q.prev, H, p.allocateditems)
    BY <1>1, <2>1, FrameThreaded
  <2> QED
    BY <1>2, <2>2
<1>6. \E rank \in [I -> Nat] : \E top \in Nat :
        Ranked(q.next, H \cup (S \cup {x}), rank, top)
  <2>1. PICK rank \in [I -> Nat], top \in Nat :
          Ranked(p.next, H \cup S, rank, top)
    BY DEF Sound
  <2>2. /\ p.freeitems \in (H \cup S) \cup {NULL}
        /\ \A i \in H \cup S : p.next[i] \in (H \cup S) \cup {NULL}
    BY <1>1 DEF Threaded
  <2>3. Ranked(q.next, (H \cup S) \cup {x},
               [rank EXCEPT ![x] = top + 1], top + 1)
    <3>1. H \cup S \in SUBSET I /\ x \in I \ (H \cup S)
      BY <1>1
    <3>2. Ranked([p.next EXCEPT ![x] = p.freeitems], (H \cup S) \cup {x},
                 [rank EXCEPT ![x] = top + 1], top + 1)
      BY <1>1, <2>1, <2>2, <3>1, PushRanked
    <3> QED
      BY <1>2, <3>2
  <2>4. [rank EXCEPT ![x] = top + 1] \in [I -> Nat] /\ top + 1 \in Nat
    BY <2>1
  <2>5. H \cup (S \cup {x}) = (H \cup S) \cup {x}
    OBVIOUS
  <2> QED
    BY <2>3, <2>4, <2>5
<1> QED
  BY <1>1, <1>3, <1>4, <1>5, <1>6 DEF Sound

(* TakeFree moves the head of the free list to the allocated list. *)
LEMMA TakeFreeSound ==
  ASSUME NEW I, NEW p, NEW H, NEW S, Sound(I, p, H, S), p.freeitems # NULL
  PROVE  /\ p.freeitems \in S
         /\ Sound(I, TakeFree(p), H \cup {p.freeitems}, S \ {p.freeitems})
<1> DEFINE q  == TakeFree(p)
           x  == p.freeitems
           pv == Write(p.prev, p.next[x], NULL)
<1>1. /\ NULL \notin I
      /\ p.next \in [I -> I \cup {NULL}]
      /\ p.prev \in [I -> I \cup {NULL}]
      /\ p.is_dynamic_memory \in [I -> BOOLEAN]
      /\ H \in SUBSET I /\ S \in SUBSET I /\ H \cap S = {}
      /\ Threaded(p.next, p.prev, H, p.allocateditems)
      /\ Threaded(p.next, p.prev, S, p.freeitems)
  BY DEF Sound, Pools
<1>2. x \in S /\ x \in I /\ x \notin H /\ p.prev[x] = NULL
  BY <1>1 DEF Threaded
<1>3. /\ q.next = [p.next EXCEPT ![x] = p.allocateditems]
      /\ q.prev = [Write(pv, p.allocateditems, x) EXCEPT ![x] = NULL]
      /\ q.freeitems = p.next[x]
      /\ q.allocateditems = x
  BY DEF TakeFree, Sound, Pools
<1>4. pv \in [I -> I \cup {NULL}]
  BY <1>1 DEF Write
<1>5. Threaded(p.next, pv, S \ {x}, p.next[x])
  <2>1. Threaded(Write(p.next, p.prev[x], p.next[x]),
                 Write(p.prev, p.next[x], p.prev[x]), S \ {x},
                 IF p.freeitems = x THEN p.next[x] ELSE p.freeitems)
    BY <1>1, <1>2, UnlinkThreaded
  <2> QED
    BY <1>2, <2>1 DEF Write
<1>6. q \in Pools(I)
  <2>1. Write(pv, p.allocateditems, x) \in [I -> I \cup {NULL}]
    BY <1>1, <1>2, <1>4 DEF Write
  <2>2. p.allocateditems \in I \cup {NULL}
    BY <1>1 DEF Threaded
  <2> QED
    BY <1>1, <1>2, <2>1, <2>2 DEF TakeFree, Pools, Sound
<1>7. Threaded(q.next, q.prev, H \cup {x}, q.allocateditems)
  <2>1. Threaded(p.next, pv, H, p.allocateditems)
    <3>1. \A i \in H : pv[i] = p.prev[i]
      BY <1>1, <1>2 DEF Threaded, Write
    <3> QED
      BY <1>1, <3>1, FrameThreaded
  <2>2. Threaded([p.next EXCEPT ![x] = p.allocateditems],
                 [Write(pv, p.allocateditems, x) EXCEPT ![x] = NULL],
                 H \cup {x}, x)
    BY <1>1, <1>2, <1>4, <2>1, PushThreaded
  <2> QED
    BY <1>3, <2>2
<1>8. Threaded(q.next, q.prev, S \ {x}, q.freeitems)
  <2>1. \A i \in S \ {x} : q.next[i] = p.next[i] /\ q.prev[i] = pv[i]
    BY <1>1, <1>2, <1>3, <1>4 DEF Threaded, Write
  <2>2. Threaded(q.next, q.prev, S \ {x}, p.next[x])
    BY <1>5, <2>1, FrameThreaded
  <2> QED
    BY <1>3, <2>2
<1>9. \E rank \in [I -> Nat] : \E top \in Nat :
        Ranked(q.next, (H \cup {x}) \cup (S \ {x}), rank, top)
  <2> DEFINE U == (S \cup H) \ {x}
  <2>1. PICK rank \in [I -> Nat], top \in Nat :
          Ranked(p.next, S \cup H, rank, top)
    <3>1. H \cup S = S \cup H
      OBVIOUS
    <3> QED
      BY <3>1 DEF Sound
  <2>2. Ranked(p.next, U, rank, top)
    <3>1. Ranked(Write(p.next, p.prev[x], p.next[x]), U, rank, top)
      BY <1>1, <1>2, <2>1, UnlinkRanked
    <3> QED
      BY <1>2, <3>1 DEF Write
  <2>3. /\ U \in SUBSET I /\ x \in I \ U
        /\ p.allocateditems \in U \cup {NULL}
        /\ \A i \in U : p.next[i] \in U \cup {NULL}
    <3>1. U \in SUBSET I /\ x \in I \ U
      BY <1>1, <1>2
    <3>2. p.allocateditems \in U \cup {NULL}
      BY <1>1, <1>2 DEF Threaded
    <3>3. ASSUME NEW i \in U PROVE p.next[i] \in U \cup {NULL}
      <4>1. CASE i \in H
        BY <1>1, <1>2, <4>1 DEF Threaded
      <4>2. CASE i \in S \ {x}
        BY <1>5, <4>2 DEF Threaded
      <4> QED
        BY <4>1, <4>2
    <3> QED
      BY <3>1, <3>2, <3>3
  <2>4. Ranked([p.next EXCEPT ![x] = p.allocateditems], U \cup {x},
               [rank EXCEPT ![x] = top + 1], top + 1)
    <3> HIDE DEF U, x
    <3> QED
      BY <1>1, <2>1, <2>2, <2>3, PushRanked
  <2>5. [rank EXCEPT ![x] = top + 1] \in [I -> Nat] /\ top + 1 \in Nat
    <3> HIDE DEF x
    <3> QED
      BY <1>2, <2>1
  <2>6. (H \cup {x}) \cup (S \ {x}) = U \cup {x}
    BY <1>2
  <2>7. Ranked(q.next, (H \cup {x}) \cup (S \ {x}),
               [rank EXCEPT ![x] = top + 1], top + 1)
    BY <1>3, <2>4, <2>6
  <2> HIDE DEF q, x
  <2> QED
    BY <2>5, <2>7
<1> QED
  BY <1>1, <1>2, <1>6, <1>7, <1>8, <1>9 DEF Sound

(* The fields of an item on neither list may change, and so may every      *)
(* is_dynamic_memory mark, without touching either list.                   *)
LEMMA LooseItemSound ==
  ASSUME NEW I, NEW p, NEW H, NEW S, Sound(I, p, H, S), NEW q \in Pools(I),
         q.allocateditems = p.allocateditems, q.freeitems = p.freeitems,
         \A i \in H \cup S : q.next[i] = p.next[i] /\ q.prev[i] = p.prev[i]
  PROVE  Sound(I, q, H, S)
<1>1. /\ NULL \notin I
      /\ H \in SUBSET I /\ S \in SUBSET I /\ H \cap S = {}
      /\ Threaded(p.next, p.prev, H, p.allocateditems)
      /\ Threaded(p.next, p.prev, S, p.freeitems)
  BY DEF Sound
<1>2. Threaded(q.next, q.prev, H, p.allocateditems)
  BY <1>1, FrameThreaded
<1>3. Threaded(q.next, q.prev, S, p.freeitems)
  BY <1>1, FrameThreaded
<1>4. PICK rank \in [I -> Nat], top \in Nat :
        Ranked(p.next, H \cup S, rank, top)
  BY DEF Sound
<1>5. Ranked(q.next, H \cup S, rank, top)
  BY <1>4 DEF Ranked
<1> QED
  BY <1>1, <1>2, <1>3, <1>5 DEF Sound

-----------------------------------------------------------------------------
(* A row of the table by which Walk is defined, from the row before. *)
WalkRow(next, from, k) ==
  [ptr \in DOMAIN next \cup {NULL} |->
     IF k = 0 \/ ptr = NULL THEN << >>
     ELSE << ptr >> \o from[k - 1][next[ptr]]]

IsWalkTable(next, from, bound) ==
  from = [k \in 0..bound |-> WalkRow(next, from, k)]

(* The recursion of Walk has a solution. *)

LEMMA WalkTableExists ==
  ASSUME NEW next, NEW bound \in Nat
  PROVE  \E from : IsWalkTable(next, from, bound)
<1> DEFINE Bad == {n \in Nat : ~ \E f : IsWalkTable(next, f, n)}
<1> SUFFICES ASSUME Bad # {} PROVE FALSE
  OBVIOUS
<1>1. PICK n \in Bad : \A m \in Bad : n <= m
  BY LeastNumber
<1>2. n # 0
  <2> DEFINE f == [k \in 0..0 |-> [ptr \in DOMAIN next \cup {NULL} |-> << >>]]
  <2>1. \A k \in 0..0 : k = 0 /\ WalkRow(next, f, k) = f[k]
    BY DEF WalkRow
  <2>2. IsWalkTable(next, f, 0)
    BY <2>1 DEF IsWalkTable
  <2> QED
    BY <1>1, <2>2
<1>3. PICK g : IsWalkTable(next, g, n - 1)
  BY <1>1, <1>2
<1> DEFINE f == [k \in 0..n |-> IF k = n THEN WalkRow(next, g, n) ELSE g[k]]
<1>4. ASSUME NEW k \in 0..n PROVE f[k] = WalkRow(next, f, k)
  <2>1. k # 0 => k - 1 \in 0..n /\ k - 1 # n /\ f[k - 1] = g[k - 1]
    BY <1>1
  <2>2. WalkRow(next, f, k) = WalkRow(next, g, k)
    BY <2>1 DEF WalkRow
  <2>3. f[k] = WalkRow(next, g, k)
    <3>1. \A j \in 0..(n - 1) : g[j] = WalkRow(next, g, j)
      BY <1>3 DEF IsWalkTable
    <3>2. k # n => k \in 0..(n - 1)
      BY <1>1
    <3> QED
      BY <3>1, <3>2
  <2> QED
    BY <2>2, <2>3
<1>5. IsWalkTable(next, f, n)
  BY <1>4 DEF IsWalkTable
<1> QED
  BY <1>1, <1>5

LEMMA WalkFromTable ==
  ASSUME NEW pool, NEW head, NEW bound \in Nat
  PROVE  \E from : /\ IsWalkTable(pool.next, from, bound)
                   /\ Walk(pool, head, bound) = from[bound][head]
<1> DEFINE from[k \in 0..bound] ==
        [ptr \in DOMAIN pool.next \cup {NULL} |->
           IF k = 0 \/ ptr = NULL THEN << >>
           ELSE << ptr >> \o from[k - 1][pool.next[ptr]]]
<1>1. \E f : f = [k \in 0..bound |-> [ptr \in DOMAIN pool.next \cup {NULL} |->
           IF k = 0 \/ ptr = NULL THEN << >>
           ELSE << ptr >> \o f[k - 1][pool.next[ptr]]]]
  BY WalkTableExists, Zenon DEF IsWalkTable, WalkRow
<1>2. from = [k \in 0..bound |-> [ptr \in DOMAIN pool.next \cup {NULL} |->
           IF k = 0 \/ ptr = NULL THEN << >>
           ELSE << ptr >> \o from[k - 1][pool.next[ptr]]]]
  BY <1>1, Zenon
<1>3. Walk(pool, head, bound) = from[bound][head]
  BY Zenon DEF Walk
<1> HIDE DEF from
<1> QED
  BY <1>2, <1>3, Zenon DEF IsWalkTable, WalkRow

(***************************************************************************)
(* w is the chain of next from head, and its items are those of S, once    *)
(* each.                                                                   *)
(***************************************************************************)
Follows(w, next, head) ==
  /\ head = IF Len(w) = 0 THEN NULL ELSE w[1]
  /\ \A j \in 1..Len(w) : next[w[j]] = IF j < Len(w) THEN w[j + 1] ELSE NULL

IsChain(w, next, head, S) == Visits(w, S) /\ Follows(w, next, head)

LEMMA ChainHead ==
  ASSUME NEW S, NEW x \in S, NEW next, NEW w,
         IsChain(w, next, next[x], S \ {x})
  PROVE  IsChain(<< x >> \o w, next, x, S)
<1> DEFINE v == << x >> \o w
<1>1. w \in Seq(S \ {x}) /\ w \in Seq(S) /\ Len(w) \in Nat
  BY DEF IsChain, Visits
<1>2. /\ v \in Seq(S) /\ Len(v) = Len(w) + 1
      /\ \A j \in 1..Len(v) : v[j] = IF j = 1 THEN x ELSE w[j - 1]
  BY <1>1
<1>3. /\ DOMAIN v = 1..Len(v) /\ DOMAIN w = 1..Len(w)
      /\ \A j \in 1..Len(w) : w[j] \in S \ {x}
  BY <1>1, <1>2
<1>4. Visits(v, S)
  <2>1. (S \ {x}) \cup {x} = S
    OBVIOUS
  <2>2. Visits(v, (S \ {x}) \cup {x})
    BY VisitsCons DEF IsChain
  <2> QED
    BY <2>1, <2>2
<1>5. Follows(v, next, x)
  <2>1. v[1] = x /\ Len(v) # 0
    BY <1>1, <1>2
  <2>2. next[v[1]] = IF 1 < Len(v) THEN v[2] ELSE NULL
    BY <1>1, <1>2, <1>3, <2>1 DEF IsChain, Follows
  <2>3. ASSUME NEW j \in 1..Len(v), j # 1
        PROVE  next[v[j]] = IF j < Len(v) THEN v[j + 1] ELSE NULL
    <3>1. j - 1 \in 1..Len(w) /\ v[j] = w[j - 1]
      BY <1>1, <1>2, <2>3
    <3>2. j < Len(v) => j + 1 \in 1..Len(v) /\ v[j + 1] = w[j]
      BY <1>1, <1>2, <2>3
    <3>3. j < Len(v) <=> j - 1 < Len(w)
      BY <1>1, <1>2
    <3>4. next[w[j - 1]] = IF j - 1 < Len(w) THEN w[j - 1 + 1] ELSE NULL
      BY <3>1 DEF IsChain, Follows
    <3>5. j - 1 + 1 = j
      OBVIOUS
    <3> QED
      BY <3>1, <3>2, <3>3, <3>4, <3>5
  <2> QED
    BY <1>2, <2>1, <2>2, <2>3 DEF Follows
<1> QED
  BY <1>4, <1>5 DEF IsChain

LEMMA TableIsChain ==
  ASSUME NEW I, NULL \notin I, NEW next \in [I -> I \cup {NULL}],
         NEW rank \in [I -> Nat], NEW top \in Nat,
         NEW bound \in Nat, NEW from, IsWalkTable(next, from, bound)
  PROVE  \A k \in 0..bound : \A S \in SUBSET I : \A head \in I \cup {NULL} :
           \A prev \in [I -> I \cup {NULL}] :
             /\ Threaded(next, prev, S, head)
             /\ Ranked(next, S, rank, top)
             /\ IsFiniteSet(S)
             /\ Cardinality(S) <= k
             => IsChain(from[k][head], next, head, S)
<1> DEFINE Good(k) ==
      \A S \in SUBSET I : \A head \in I \cup {NULL} :
        \A prev \in [I -> I \cup {NULL}] :
             /\ Threaded(next, prev, S, head)
             /\ Ranked(next, S, rank, top)
             /\ IsFiniteSet(S)
             /\ Cardinality(S) <= k
             => IsChain(from[k][head], next, head, S)
    Bad == {k \in 0..bound : ~ Good(k)}
<1> SUFFICES ASSUME Bad # {} PROVE FALSE
  OBVIOUS
<1>1. PICK k \in Bad : \A m \in Bad : k <= m
  <2>1. Bad \in SUBSET Nat
    OBVIOUS
  <2> HIDE DEF Bad
  <2> QED
    BY <2>1, LeastNumber
<1>2. PICK S \in SUBSET I, head \in I \cup {NULL},
           prev \in [I -> I \cup {NULL}] :
             /\ Threaded(next, prev, S, head)
             /\ Ranked(next, S, rank, top)
             /\ IsFiniteSet(S)
             /\ Cardinality(S) <= k
             /\ ~ IsChain(from[k][head], next, head, S)
  BY <1>1
<1>3. k \in 0..bound /\ head \in S \cup {NULL} /\ Cardinality(S) \in Nat
  BY <1>1, <1>2, FS_CardinalityType DEF Threaded
<1>4. from[k] = WalkRow(next, from, k)
  BY <1>3 DEF IsWalkTable
<1>5. CASE head = NULL
  <2>1. S = {}
    BY <1>2, <1>5, NoHeadNoItem
  <2>2. from[k][head] = << >>
    BY <1>4, <1>5 DEF WalkRow
  <2> QED
    BY <1>2, <1>5, <2>1, <2>2 DEF IsChain, Visits, Follows
<1>6. CASE head # NULL
  <2>1. head \in S
    BY <1>3, <1>6
  <2>2. IsFiniteSet(S \ {head}) /\ Cardinality(S \ {head}) = Cardinality(S) - 1
    BY <1>2, <2>1, FS_RemoveElement
  <2>3. k # 0 /\ k - 1 \in 0..bound
    <3>1. Cardinality(S) # 0
      BY <1>2, <2>1, FS_EmptySet
    <3> QED
      BY <1>2, <1>3, <3>1
  <2>4. from[k][head] = << head >> \o from[k - 1][next[head]]
    BY <1>2, <1>4, <1>6, <2>1, <2>3 DEF WalkRow
  <2>5. prev[head] = NULL
    BY <1>2, <2>1 DEF Threaded
  <2>6. Threaded(next, Write(prev, next[head], NULL), S \ {head}, next[head])
    <3>1. Threaded(Write(next, prev[head], next[head]),
                   Write(prev, next[head], prev[head]), S \ {head},
                   IF head = head THEN next[head] ELSE head)
      BY <1>2, <2>1, UnlinkThreaded
    <3>2. Write(next, prev[head], next[head]) = next
      BY <2>5 DEF Write
    <3>3. Write(prev, next[head], prev[head]) = Write(prev, next[head], NULL)
      BY <2>5
    <3>4. (IF head = head THEN next[head] ELSE head) = next[head]
      OBVIOUS
    <3> QED
      BY <3>1, <3>2, <3>3, <3>4, Zenon
  <2>7. Write(prev, next[head], NULL) \in [I -> I \cup {NULL}]
    BY DEF Write
  <2>8. Ranked(next, S \ {head}, rank, top)
    BY <1>2 DEF Ranked
  <2>9. Good(k - 1)
    BY <1>1, <2>3
  <2>10. IsChain(from[k - 1][next[head]], next, next[head], S \ {head})
    <3>1. /\ Cardinality(S \ {head}) <= k - 1
          /\ S \ {head} \in SUBSET I
          /\ next[head] \in I \cup {NULL}
      <4>1. Cardinality(S) \in Nat /\ Cardinality(S) <= k /\ k \in Nat
        BY <1>2, <1>3, FS_CardinalityType
      <4>2. Cardinality(S \ {head}) <= k - 1
        BY <2>2, <4>1
      <4>3. S \ {head} \in SUBSET I /\ next[head] \in I \cup {NULL}
        BY <2>1
      <4> QED
        BY <4>2, <4>3
    <3>2. \A h \in I \cup {NULL} : \A pv \in [I -> I \cup {NULL}] :
            Threaded(next, pv, S \ {head}, h)
              => IsChain(from[k - 1][h], next, h, S \ {head})
      BY <2>2, <2>8, <2>9, <3>1
    <3> QED
      BY <2>6, <2>7, <3>1, <3>2
  <2>11. IsChain(from[k][head], next, head, S)
    <3> DEFINE rest == from[k - 1][next[head]]
    <3>1. IsChain(rest, next, next[head], S \ {head})
      BY <2>10
    <3> HIDE DEF rest
    <3>2. IsChain(<< head >> \o rest, next, head, S)
      BY <2>1, <3>1, ChainHead, Zenon
    <3> QED
      BY <2>4, <3>2 DEF rest
  <2> QED
    BY <1>2, <2>11
<1> QED
  BY <1>5, <1>6

LEMMA WalkIsChain ==
  ASSUME NEW I, NULL \notin I, NEW pool \in Pools(I),
         NEW S \in SUBSET I, NEW head, Threaded(pool.next, pool.prev, S, head),
         NEW rank \in [I -> Nat], NEW top \in Nat,
         Ranked(pool.next, S, rank, top),
         IsFiniteSet(S), NEW bound \in Nat, Cardinality(S) <= bound
  PROVE  IsChain(Walk(pool, head, bound), pool.next, head, S)
<1>1. PICK from : /\ IsWalkTable(pool.next, from, bound)
                  /\ Walk(pool, head, bound) = from[bound][head]
  BY WalkFromTable
<1>2. pool.next \in [I -> I \cup {NULL}] /\ pool.prev \in [I -> I \cup {NULL}]
  BY DEF Pools
<1>3. bound \in 0..bound /\ head \in I \cup {NULL}
  BY DEF Threaded
<1>4. \A h \in I \cup {NULL} : \A pv \in [I -> I \cup {NULL}] :
        Threaded(pool.next, pv, S, h)
          => IsChain(from[bound][h], pool.next, h, S)
  BY <1>1, <1>2, <1>3, TableIsChain
<1> QED
  BY <1>1, <1>2, <1>3, <1>4

(***************************************************************************)
(* A chain is determined by its head and next.                             *)
(***************************************************************************)
LEMMA ChainUnique ==
  ASSUME NEW S, NEW T, NULL \notin S, NULL \notin T, NEW next, NEW head,
         NEW v, IsChain(v, next, head, S), NEW w, IsChain(w, next, head, T)
  PROVE  v = w
<1>1. /\ v \in Seq(S) /\ w \in Seq(T)
      /\ \A j \in 1..Len(v) : v[j] # NULL
      /\ \A j \in 1..Len(w) : w[j] # NULL
  BY DEF IsChain, Visits
<1> DEFINE Same(j) == /\ j \in 1..Len(v) <=> j \in 1..Len(w)
                      /\ j \in 1..Len(v) => v[j] = w[j]
           Bad == {j \in Nat \ {0} : ~ Same(j)}
<1>2. Bad = {}
  <2> SUFFICES ASSUME Bad # {} PROVE FALSE
    OBVIOUS
  <2>1. PICK j \in Bad : \A m \in Bad : j <= m
    <3>1. Bad \in SUBSET Nat
      OBVIOUS
    <3> HIDE DEF Bad
    <3> QED
      BY <3>1, LeastNumber
  <2>2. CASE j = 1
    BY <1>1, <2>1, <2>2 DEF IsChain, Follows
  <2>3. CASE j # 1
    <3>1. j - 1 \in Nat \ {0} /\ Same(j - 1)
      BY <2>1, <2>3
    <3>2. CASE j - 1 \in 1..Len(v)
      <4>1. v[j - 1] = w[j - 1] /\ j - 1 \in 1..Len(w)
        BY <3>1, <3>2
      <4>2. next[v[j - 1]] = IF j - 1 < Len(v) THEN v[j] ELSE NULL
        BY <3>1, <3>2 DEF IsChain, Follows
      <4>3. next[w[j - 1]] = IF j - 1 < Len(w) THEN w[j] ELSE NULL
        BY <3>1, <4>1 DEF IsChain, Follows
      <4> QED
        BY <1>1, <2>1, <3>1, <3>2, <4>1, <4>2, <4>3
    <3>3. CASE j - 1 \notin 1..Len(v)
      BY <1>1, <2>1, <3>1, <3>3
    <3> QED
      BY <3>2, <3>3
  <2> QED
    BY <2>2, <2>3
<1>3. Len(v) = Len(w)
  <2>1. Len(v) \in Nat /\ Len(w) \in Nat
    BY <1>1
  <2>2. \A j \in Nat \ {0} : j \in 1..Len(v) <=> j \in 1..Len(w)
    BY <1>2
  <2>3. Len(v) # 0 => Len(v) <= Len(w)
    BY <2>1, <2>2
  <2>4. Len(w) # 0 => Len(w) <= Len(v)
    BY <2>1, <2>2
  <2> QED
    BY <2>1, <2>3, <2>4
<1>4. \A j \in 1..Len(v) : v[j] = w[j]
  BY <1>1, <1>2
<1> QED
  BY <1>1, <1>3, <1>4

(* A chain is not affected by what next says of other items. *)
LEMMA ChainFrame ==
  ASSUME NEW S, NEW w, NEW next, NEW next2, NEW head,
         IsChain(w, next, head, S), \A i \in S : next2[i] = next[i]
  PROVE  IsChain(w, next2, head, S)
<1>1. \A j \in 1..Len(w) : w[j] \in S
  BY DEF IsChain, Visits
<1> QED
  BY <1>1 DEF IsChain, Follows

(***************************************************************************)
(* Unlinking the item at position k of a chain removes that position.      *)
(***************************************************************************)
LEMMA ChainUnlink ==
  ASSUME NEW I, NULL \notin I, NEW S \in SUBSET I, NEW head,
         NEW next \in [I -> I \cup {NULL}],
         NEW prev \in [I -> I \cup {NULL}],
         Threaded(next, prev, S, head),
         NEW w, IsChain(w, next, head, S), NEW k \in DOMAIN w
  PROVE  IsChain(RemoveAt(w, k), Write(next, prev[w[k]], next[w[k]]),
                 IF head = w[k] THEN next[w[k]] ELSE head, S \ {w[k]})
<1> DEFINE v  == RemoveAt(w, k)
           x  == w[k]
           n2 == Write(next, prev[x], next[x])
           h2 == IF head = x THEN next[x] ELSE head
<1>1. /\ w \in Seq(S) /\ Len(w) \in Nat /\ DOMAIN w = 1..Len(w)
      /\ k \in 1..Len(w)
      /\ \A j \in 1..Len(w) : w[j] \in S
      /\ \A i, j \in 1..Len(w) : w[i] = w[j] => i = j
  BY DEF IsChain, Visits
<1>2. /\ v \in Seq(S) /\ Len(v) = Len(w) - 1
      /\ \A j \in 1..(Len(w) - 1) :
           v[j] = IF j < k THEN w[j] ELSE w[j + 1]
  <2> HIDE DEF v
  <2>1. w \in Seq(S) /\ k \in 1..Len(w)
    BY <1>1
  <2> QED
    BY <2>1, RemoveAtProperties DEF v
<1>3. /\ head = IF Len(w) = 0 THEN NULL ELSE w[1]
      /\ \A j \in 1..Len(w) :
           next[w[j]] = IF j < Len(w) THEN w[j + 1] ELSE NULL
  BY DEF IsChain, Follows
<1>4. /\ k = 1 => prev[x] = NULL
      /\ k # 1 => prev[x] = w[k - 1] /\ w[k - 1] \in S
  <2>1. x \in S /\ x # NULL
    BY <1>1
  <2>2. k = 1 => head = x
    BY <1>1, <1>3
  <2>3. k # 1 => k - 1 \in 1..Len(w) /\ next[w[k - 1]] = x
    BY <1>1, <1>3
  <2> QED
    BY <1>1, <2>1, <2>2, <2>3 DEF Threaded
<1>5. \A i \in S : n2[i] = IF k # 1 /\ i = w[k - 1] THEN next[x] ELSE next[i]
  BY <1>1, <1>4 DEF Write
<1> HIDE DEF v, n2
<1>6. Follows(v, n2, h2)
  <2>1. h2 = IF Len(v) = 0 THEN NULL ELSE v[1]
    <3>1. CASE k = 1
      BY <1>1, <1>2, <1>3, <3>1
    <3>2. CASE k # 1
      <4>1. head # x
        BY <1>1, <1>3, <3>2
      <4> QED
        BY <1>1, <1>2, <1>3, <3>2, <4>1
    <3> QED
      BY <3>1, <3>2
  <2>2. ASSUME NEW j \in 1..Len(v)
        PROVE  n2[v[j]] = IF j < Len(v) THEN v[j + 1] ELSE NULL
    <3>1. CASE j < k - 1
      <4>1. v[j] = w[j] /\ v[j + 1] = w[j + 1] /\ j < Len(v)
        <5>1. j \in 1..(Len(w) - 1) /\ j < k /\ j + 1 < k
          BY <1>1, <1>2, <3>1
        <5>2. j + 1 \in 1..(Len(w) - 1) /\ j < Len(v)
          BY <1>1, <1>2, <3>1
        <5> QED
          BY <1>2, <5>1, <5>2
      <4>2. j \in 1..Len(w) /\ k - 1 \in 1..Len(w) /\ w[j] # w[k - 1]
        BY <1>1, <3>1
      <4>3. n2[v[j]] = next[w[j]]
        BY <1>1, <1>5, <4>1, <4>2
      <4>4. next[w[j]] = w[j + 1]
        BY <1>1, <1>3, <3>1, <4>2
      <4> QED
        BY <4>1, <4>3, <4>4
    <3>2. CASE j = k - 1
      <4>1. v[j] = w[k - 1] /\ k # 1 /\ w[k - 1] \in S
        BY <1>1, <1>2, <1>4, <3>2
      <4>2. n2[v[j]] = IF k < Len(w) THEN w[k + 1] ELSE NULL
        BY <1>1, <1>3, <1>5, <4>1
      <4> QED
        BY <1>1, <1>2, <3>2, <4>2
    <3>3. CASE j >= k
      <4>1. v[j] = w[j + 1] /\ j + 1 \in 1..Len(w)
        <5>1. /\ j \in 1..(Len(w) - 1) /\ ~(j < k)
              /\ j + 1 \in 1..Len(w)
          BY <1>1, <1>2, <3>3
        <5> QED
          BY <1>2, <5>1
      <4>2. k # 1 => w[j + 1] # w[k - 1]
        <5>1. k # 1 => k - 1 \in 1..Len(w) /\ k - 1 # j + 1
          BY <1>1, <3>3
        <5> QED
          BY <1>1, <4>1, <5>1
      <4>3. n2[v[j]] = next[w[j + 1]]
        BY <1>1, <1>5, <4>1, <4>2
      <4>4. next[w[j + 1]] = IF j + 1 < Len(w) THEN w[j + 2] ELSE NULL
        BY <1>3, <4>1
      <4>5. j < Len(v) => v[j + 1] = w[j + 2]
        <5> SUFFICES ASSUME j < Len(v) PROVE v[j + 1] = w[j + 2]
          OBVIOUS
        <5>1. j + 1 \in 1..(Len(w) - 1) /\ ~(j + 1 < k)
          BY <1>1, <1>2, <3>3
        <5>2. v[j + 1] = w[(j + 1) + 1]
          BY <1>2, <5>1
        <5> QED
          BY <5>1, <5>2
      <4> QED
        BY <1>1, <1>2, <4>3, <4>4, <4>5
    <3> QED
      BY <1>1, <3>1, <3>2, <3>3
  <2> QED
    BY <2>1, <2>2 DEF Follows
<1>7. Visits(v, S \ {x})
  BY VisitsRemoveAt DEF IsChain, v
<1> QED
  BY <1>6, <1>7 DEF IsChain, v, n2

-----------------------------------------------------------------------------
(***************************************************************************)
(* RMW_INIT_MEMORY: n items on the free list, the last one in front; the   *)
(* items above n are on neither list.                                      *)
(***************************************************************************)
LEMMA InitMemorySound ==
  ASSUME NEW n \in Nat, NEW m \in Nat, n <= m
  PROVE  /\ Sound(1..m, InitMemory(n, 1..m), {}, 1..n)
         /\ IsChain([k \in 1..n |-> n + 1 - k], InitMemory(n, 1..m).next,
                    n, 1..n)
<1> DEFINE I == 1..m
           p == InitMemory(n, I)
           w == [k \in 1..n |-> n + 1 - k]
<1>1. /\ p.allocateditems = NULL
      /\ p.freeitems = n
      /\ p.prev = [i \in I |-> IF i < n THEN i + 1 ELSE NULL]
      /\ p.next = [i \in I |-> IF i <= n THEN i - 1 ELSE NULL]
      /\ p.is_dynamic_memory = [i \in I |-> FALSE]
  BY DEF InitMemory
<1>2. NULL \notin I
  BY DEF NULL
<1>3. p \in Pools(I)
  <2>1. /\ [i \in I |-> IF i < n THEN i + 1 ELSE NULL] \in [I -> I \cup {NULL}]
        /\ [i \in I |-> IF i <= n THEN i - 1 ELSE NULL]
             \in [I -> I \cup {NULL}]
        /\ n \in I \cup {NULL}
    BY DEF NULL
  <2> HIDE DEF I
  <2> QED
    BY <2>1 DEF InitMemory, Pools
<1>4. \A i \in 1..n : /\ p.next[i] = i - 1
                      /\ p.prev[i] = IF i < n THEN i + 1 ELSE 0
  BY <1>1 DEF NULL
<1> HIDE DEF p, w
<1>5. Threaded(p.next, p.prev, 1..n, n)
  <2>1. ASSUME NEW i \in 1..n
        PROVE  /\ p.next[i] \in (1..n) \cup {NULL}
               /\ p.prev[i] \in (1..n) \cup {NULL}
               /\ p.next[i] # NULL => p.prev[p.next[i]] = i
               /\ p.prev[i] # NULL => p.next[p.prev[i]] = i
               /\ p.prev[i] = NULL <=> n = i
    <3> DEFINE a == p.next[i]
               b == p.prev[i]
    <3>1. a = i - 1 /\ b = IF i < n THEN i + 1 ELSE 0
      BY <1>4
    <3>2. a # 0 => p.prev[a] = i
      BY <1>4, <3>1
    <3>3. b # 0 => p.next[b] = i
      BY <1>4, <3>1
    <3> HIDE DEF a, b
    <3>4. /\ a \in (1..n) \cup {0}
          /\ b \in (1..n) \cup {0}
          /\ b = 0 <=> n = i
      BY <3>1
    <3> QED
      BY <3>2, <3>3, <3>4 DEF a, b, NULL
  <2>2. n \in (1..n) \cup {NULL}
    BY DEF NULL
  <2> QED
    BY <2>1, <2>2 DEF Threaded
<1>6. Threaded(p.next, p.prev, {}, p.allocateditems)
  BY <1>1 DEF Threaded
<1>7. \E rank \in [I -> Nat] : \E top \in Nat :
        Ranked(p.next, {} \cup (1..n), rank, top)
  <2>1. Ranked(p.next, 1..n, [i \in I |-> i], n)
    BY <1>4 DEF Ranked, NULL
  <2>2. [i \in I |-> i] \in [I -> Nat]
    OBVIOUS
  <2> QED
    BY <2>1, <2>2
<1>8. Sound(I, p, {}, 1..n)
  <2>1. 1..n \in SUBSET I
    OBVIOUS
  <2> QED
    BY <1>1, <1>2, <1>3, <1>5, <1>6, <1>7, <2>1 DEF Sound
<1>9. IsChain(w, p.next, n, 1..n)
  <2>1. /\ w \in Seq(1..n) /\ Len(w) = n /\ DOMAIN w = 1..n
        /\ \A k \in 1..n : w[k] = n + 1 - k
    BY DEF w
  <2>5. Visits(w, 1..n)
    BY DescendingVisits DEF w
  <2>6. Follows(w, p.next, n)
    <3>1. n = IF Len(w) = 0 THEN NULL ELSE w[1]
      BY <2>1 DEF NULL
    <3>2. ASSUME NEW k \in 1..Len(w)
          PROVE  p.next[w[k]] = IF k < Len(w) THEN w[k + 1] ELSE NULL
      <4>1. k \in 1..n /\ n + 1 - k \in 1..n /\ w[k] = n + 1 - k
        BY <2>1
      <4>2. p.next[w[k]] = n - k
        <5>1. p.next[n + 1 - k] = n + 1 - k - 1
          BY <1>4, <4>1
        <5> QED
          BY <4>1, <5>1
      <4>3. k < n => k + 1 \in 1..n /\ w[k + 1] = n - k
        <5>1. k < n => k + 1 \in 1..n /\ n + 1 - (k + 1) = n - k
          BY <4>1
        <5> QED
          BY <2>1, <5>1
      <4>4. ~ (k < n) => n - k = 0
        BY <4>1
      <4> QED
        BY <2>1, <4>2, <4>3, <4>4 DEF NULL
    <3> QED
      BY <3>1, <3>2 DEF Follows
  <2> QED
    BY <2>5, <2>6 DEF IsChain
<1> QED
  BY <1>8, <1>9 DEF p, w

-----------------------------------------------------------------------------
(***************************************************************************)
(* The walks of a pool, and what the pieces of memory.c do to them.        *)
(***************************************************************************)
Chains(p, H, S, lent, spare) ==
  /\ IsChain(lent, p.next, p.allocateditems, H)
  /\ IsChain(spare, p.next, p.freeitems, S)

LEMMA WalksAreChains ==
  ASSUME NEW I, IsFiniteSet(I), NEW p, NEW H, NEW S, Sound(I, p, H, S),
         NEW bound \in Nat, Cardinality(I) <= bound
  PROVE  Chains(p, H, S, AllocatedItems(p, bound), FreeItems(p, bound))
<1>1. /\ NULL \notin I /\ p \in Pools(I)
      /\ H \in SUBSET I /\ S \in SUBSET I
      /\ Threaded(p.next, p.prev, H, p.allocateditems)
      /\ Threaded(p.next, p.prev, S, p.freeitems)
  BY DEF Sound
<1>2. PICK rank \in [I -> Nat], top \in Nat :
        Ranked(p.next, H \cup S, rank, top)
  BY DEF Sound
<1>3. Ranked(p.next, H, rank, top) /\ Ranked(p.next, S, rank, top)
  BY <1>2 DEF Ranked
<1>4. /\ IsFiniteSet(H) /\ Cardinality(H) <= bound
      /\ IsFiniteSet(S) /\ Cardinality(S) <= bound
  <2>1. Cardinality(I) \in Nat
    BY FS_CardinalityType
  <2>2. ASSUME NEW T \in SUBSET I
        PROVE  IsFiniteSet(T) /\ Cardinality(T) <= bound
    <3>1. IsFiniteSet(T) /\ Cardinality(T) <= Cardinality(I)
      BY FS_Subset
    <3>2. Cardinality(T) \in Nat
      BY <3>1, FS_CardinalityType
    <3> QED
      BY <2>1, <3>1, <3>2
  <2> QED
    BY <1>1, <2>2
<1>5. IsChain(AllocatedItems(p, bound), p.next, p.allocateditems, H)
  <2>1. IsChain(Walk(p, p.allocateditems, bound), p.next, p.allocateditems, H)
    BY <1>1, <1>2, <1>3, <1>4, WalkIsChain
  <2> QED
    BY <2>1 DEF AllocatedItems
<1>6. IsChain(FreeItems(p, bound), p.next, p.freeitems, S)
  <2>1. IsChain(Walk(p, p.freeitems, bound), p.next, p.freeitems, S)
    BY <1>1, <1>2, <1>3, <1>4, WalkIsChain
  <2> QED
    BY <2>1 DEF FreeItems
<1> QED
  BY <1>5, <1>6 DEF Chains

LEMMA UnlinkItemWalks ==
  ASSUME NEW I, NEW p, NEW H, NEW S, Sound(I, p, H, S),
         NEW lent, NEW spare, Chains(p, H, S, lent, spare),
         NEW k \in DOMAIN lent
  PROVE  Chains(UnlinkItem(p, lent[k]), H \ {lent[k]}, S,
                RemoveAt(lent, k), spare)
<1> DEFINE x == lent[k]
           q == UnlinkItem(p, x)
<1>1. /\ NULL \notin I
      /\ p.next \in [I -> I \cup {NULL}]
      /\ p.prev \in [I -> I \cup {NULL}]
      /\ H \in SUBSET I /\ S \in SUBSET I /\ H \cap S = {}
      /\ Threaded(p.next, p.prev, H, p.allocateditems)
  BY DEF Sound, Pools
<1>2. /\ q.next = Write(p.next, p.prev[x], p.next[x])
      /\ q.allocateditems = IF p.allocateditems = x THEN p.next[x]
                                                    ELSE p.allocateditems
      /\ q.freeitems = p.freeitems
  BY DEF UnlinkItem, Sound, Pools
<1>3. x \in H
  BY DEF Chains, IsChain, Visits
<1>4. IsChain(lent, p.next, p.allocateditems, H)
  BY DEF Chains
<1>5. IsChain(RemoveAt(lent, k), q.next, q.allocateditems, H \ {x})
  <2>1. IsChain(RemoveAt(lent, k), Write(p.next, p.prev[x], p.next[x]),
                IF p.allocateditems = x THEN p.next[x] ELSE p.allocateditems,
                H \ {x})
    BY <1>1, <1>4, ChainUnlink
  <2> QED
    BY <1>2, <2>1
<1>6. \A i \in S : q.next[i] = p.next[i]
  BY <1>1, <1>2, <1>3 DEF Threaded, Write
<1>7. IsChain(spare, q.next, q.freeitems, S)
  BY <1>2, <1>6, ChainFrame DEF Chains
<1> QED
  BY <1>5, <1>7 DEF Chains

LEMMA PushFreeWalks ==
  ASSUME NEW I, NEW p, NEW H, NEW S, Sound(I, p, H, S),
         NEW lent, NEW spare, Chains(p, H, S, lent, spare),
         NEW x \in I \ (H \cup S)
  PROVE  Chains(PushFree(p, x), H, S \cup {x}, lent, << x >> \o spare)
<1> DEFINE q == PushFree(p, x)
<1>1. /\ q.next = [p.next EXCEPT ![x] = p.freeitems]
      /\ q.freeitems = x
      /\ q.allocateditems = p.allocateditems
      /\ p.next \in [I -> I \cup {NULL}]
  BY DEF PushFree, Sound, Pools
<1>2. H \in SUBSET I /\ S \in SUBSET I
  BY DEF Sound
<1>3. q.next[x] = p.freeitems /\ \A i \in H \cup S : q.next[i] = p.next[i]
  BY <1>1, <1>2
<1> HIDE DEF q
<1>4. IsChain(lent, q.next, q.allocateditems, H)
  <2>1. IsChain(lent, p.next, p.allocateditems, H)
    BY DEF Chains
  <2>2. \A i \in H : q.next[i] = p.next[i]
    BY <1>3
  <2>3. IsChain(lent, q.next, p.allocateditems, H)
    BY <2>1, <2>2, ChainFrame, Zenon
  <2> QED
    BY <1>1, <2>3
<1>5. IsChain(spare, q.next, q.next[x], (S \cup {x}) \ {x})
  <2>1. IsChain(spare, q.next, p.freeitems, S)
    BY <1>3, ChainFrame DEF Chains
  <2>2. (S \cup {x}) \ {x} = S
    OBVIOUS
  <2> QED
    BY <1>3, <2>1, <2>2
<1>6. IsChain(<< x >> \o spare, q.next, x, S \cup {x})
  <2>1. x \in S \cup {x}
    OBVIOUS
  <2> QED
    BY <1>5, <2>1, ChainHead, Zenon
<1> QED
  BY <1>1, <1>4, <1>6 DEF Chains, q

LEMMA TakeFreeWalks ==
  ASSUME NEW I, NEW p, NEW H, NEW S, Sound(I, p, H, S), p.freeitems # NULL,
         NEW lent, NEW spare, Chains(p, H, S, lent, spare)
  PROVE  /\ spare # << >> /\ Head(spare) = p.freeitems
         /\ Chains(TakeFree(p), H \cup {p.freeitems}, S \ {p.freeitems},
                   << p.freeitems >> \o lent, Tail(spare))
<1> DEFINE q == TakeFree(p)
           x == p.freeitems
<1>1. /\ q.next = [p.next EXCEPT ![x] = p.allocateditems]
      /\ q.freeitems = p.next[x]
      /\ q.allocateditems = x
      /\ p.next \in [I -> I \cup {NULL}]
      /\ p.prev \in [I -> I \cup {NULL}]
  BY DEF TakeFree, Sound, Pools
<1>2. /\ NULL \notin I /\ H \in SUBSET I /\ S \in SUBSET I /\ H \cap S = {}
      /\ Threaded(p.next, p.prev, S, p.freeitems)
      /\ x \in S /\ x \notin H /\ p.prev[x] = NULL
  BY DEF Sound, Threaded
<1>3. /\ q.next[x] = p.allocateditems
      /\ \A i \in H \cup (S \ {x}) : q.next[i] = p.next[i]
  BY <1>1, <1>2
<1>4. IsChain(lent, p.next, p.allocateditems, H)
  BY DEF Chains
<1>5. /\ IsChain(spare, p.next, x, S)
      /\ spare \in Seq(S) /\ Len(spare) \in Nat /\ Len(spare) # 0
      /\ x = spare[1] /\ 1 \in DOMAIN spare
  BY <1>2 DEF Chains, IsChain, Visits, Follows
<1>6. spare # << >> /\ Head(spare) = x
  BY <1>5
<1>7. Tail(spare) = RemoveAt(spare, 1)
  BY <1>5, <1>6, TailRemoves
<1>8. IsChain(Tail(spare), p.next, p.next[x], S \ {x})
  <2>1. IsChain(RemoveAt(spare, 1), Write(p.next, p.prev[x], p.next[x]),
                IF x = x THEN p.next[x] ELSE x, S \ {x})
    <3> HIDE DEF x
    <3>1. IsChain(RemoveAt(spare, 1),
                  Write(p.next, p.prev[spare[1]], p.next[spare[1]]),
                  IF x = spare[1] THEN p.next[spare[1]] ELSE x,
                  S \ {spare[1]})
      BY <1>1, <1>2, <1>5, ChainUnlink DEF x
    <3> QED
      BY <1>5, <3>1
  <2> QED
    BY <1>2, <1>7, <2>1 DEF Write
<1> HIDE DEF q
<1>9. IsChain(Tail(spare), q.next, q.freeitems, S \ {x})
  <2>1. \A i \in S \ {x} : q.next[i] = p.next[i]
    BY <1>3
  <2> HIDE DEF x
  <2>2. IsChain(Tail(spare), q.next, p.next[x], S \ {x})
    BY <1>8, <2>1, ChainFrame, Zenon
  <2> QED
    BY <1>1, <2>2
<1>10. IsChain(<< x >> \o lent, q.next, x, H \cup {x})
  <2>1. IsChain(lent, q.next, q.next[x], H)
    BY <1>3, <1>4, ChainFrame
  <2>2. (H \cup {x}) \ {x} = H /\ x \in H \cup {x}
    BY <1>2
  <2> HIDE DEF x
  <2>3. IsChain(lent, q.next, q.next[x], (H \cup {x}) \ {x})
    BY <2>1, <2>2
  <2> QED
    BY <2>2, <2>3, ChainHead, Zenon
<1> QED
  BY <1>1, <1>6, <1>9, <1>10 DEF Chains, q

-----------------------------------------------------------------------------
(* The chains of a pool when only a loose item's fields change. *)
LEMMA LooseItemWalks ==
  ASSUME NEW p, NEW H, NEW S, NEW q,
         q.allocateditems = p.allocateditems, q.freeitems = p.freeitems,
         \A i \in H \cup S : q.next[i] = p.next[i],
         NEW lent, NEW spare, Chains(p, H, S, lent, spare)
  PROVE  Chains(q, H, S, lent, spare)
<1>1. IsChain(lent, q.next, p.allocateditems, H)
  <2>1. IsChain(lent, p.next, p.allocateditems, H)
    BY DEF Chains
  <2>2. \A i \in H : q.next[i] = p.next[i]
    OBVIOUS
  <2> QED
    BY <2>1, <2>2, ChainFrame, Zenon
<1>2. IsChain(spare, q.next, p.freeitems, S)
  <2>1. IsChain(spare, p.next, p.freeitems, S)
    BY DEF Chains
  <2>2. \A i \in S : q.next[i] = p.next[i]
    OBVIOUS
  <2> QED
    BY <2>1, <2>2, ChainFrame, Zenon
<1> QED
  BY <1>1, <1>2 DEF Chains

(* The loose item x of p is marked and on the free list of q. *)
DynamicAdded(I, p, H, S, x, q) ==
  /\ Sound(I, q, H, S \cup {x})
  /\ q.freeitems = x
  /\ q.is_dynamic_memory = [p.is_dynamic_memory EXCEPT ![x] = TRUE]
  /\ \A lent, spare :
       Chains(p, H, S, lent, spare)
         => Chains(q, H, S \cup {x}, lent, << x >> \o spare)

LEMMA AddDynamicItemSound ==
  ASSUME NEW I, NEW p, NEW H, NEW S, Sound(I, p, H, S),
         NEW x \in I \ (H \cup S)
  PROVE  DynamicAdded(I, p, H, S, x, AddDynamicItem(p, x))
<1> DEFINE loose == [p EXCEPT !.prev[x] = NULL, !.next[x] = NULL,
                              !.is_dynamic_memory[x] = FALSE]
           pushed == PushFree(loose, x)
           added == AddDynamicItem(p, x)
<1>1. /\ p \in Pools(I)
      /\ H \in SUBSET I /\ S \in SUBSET I
      /\ p.allocateditems \in H \cup {NULL}
      /\ x # NULL
  BY DEF Sound, Threaded
<1>2. /\ loose \in Pools(I)
      /\ loose.allocateditems = p.allocateditems
      /\ loose.freeitems = p.freeitems
      /\ loose.next = [p.next EXCEPT ![x] = NULL]
      /\ loose.prev = [p.prev EXCEPT ![x] = NULL]
      /\ loose.is_dynamic_memory = [p.is_dynamic_memory EXCEPT ![x] = FALSE]
  BY <1>1 DEF Pools
<1>3. \A i \in H \cup S :
        loose.next[i] = p.next[i] /\ loose.prev[i] = p.prev[i]
  BY <1>1, <1>2 DEF Pools
<1>4. /\ loose.prev[x] = NULL /\ loose.next[x] = NULL
      /\ loose.allocateditems # x
      /\ loose.is_dynamic_memory[x] = FALSE
  BY <1>1, <1>2 DEF Pools
<1> HIDE DEF loose
<1>5. Sound(I, loose, H, S)
  BY <1>2, <1>3, LooseItemSound
<1>6. PutMemory(loose, x) = pushed
  <2>1. UnlinkItem(loose, x) = loose
    BY <1>2, <1>4 DEF UnlinkItem, Write, Pools
  <2> QED
    BY <1>4, <2>1 DEF PutMemory
<1>7. Sound(I, pushed, H, S \cup {x})
  BY <1>5, PushFreeSound
<1>8. /\ pushed \in Pools(I)
      /\ pushed.freeitems = x
      /\ pushed.is_dynamic_memory = loose.is_dynamic_memory
  BY <1>2, <1>7 DEF Sound, PushFree, Pools
<1>9. added = [pushed EXCEPT !.is_dynamic_memory[x] = TRUE]
  BY <1>6 DEF AddDynamicItem, loose
<1> HIDE DEF pushed, added
<1>10. /\ added \in Pools(I)
       /\ added.allocateditems = pushed.allocateditems
       /\ added.freeitems = pushed.freeitems
       /\ added.next = pushed.next /\ added.prev = pushed.prev
       /\ added.is_dynamic_memory
            = [pushed.is_dynamic_memory EXCEPT ![x] = TRUE]
  BY <1>8, <1>9 DEF Pools
<1>11. Sound(I, added, H, S \cup {x})
  BY <1>7, <1>10, LooseItemSound
<1>12. added.is_dynamic_memory = [p.is_dynamic_memory EXCEPT ![x] = TRUE]
  BY <1>1, <1>2, <1>8, <1>10 DEF Pools
<1>13. ASSUME NEW lent, NEW spare, Chains(p, H, S, lent, spare)
       PROVE  Chains(added, H, S \cup {x}, lent, << x >> \o spare)
  <2>1. Chains(loose, H, S, lent, spare)
    <3>1. \A i \in H \cup S : loose.next[i] = p.next[i]
      BY <1>3
    <3> QED
      BY <1>2, <1>13, <3>1, LooseItemWalks
  <2>2. Chains(pushed, H, S \cup {x}, lent, << x >> \o spare)
    BY <1>5, <2>1, PushFreeWalks DEF pushed
  <2> QED
    BY <1>10, <2>2, LooseItemWalks
<1> QED
  BY <1>8, <1>10, <1>11, <1>12, <1>13 DEF added, DynamicAdded

(* get_memory on an empty free list lends the fresh item, and marks it. *)
LEMMA FreshItemTaken ==
  ASSUME NEW I, NEW p, NEW H, NEW S, Sound(I, p, H, S),
         NEW x \in I \ (H \cup S)
  PROVE  Sound(I, TakeFree(AddDynamicItem(p, x)), H \cup {x}, S)
<1> DEFINE added == AddDynamicItem(p, x)
<1>0. DynamicAdded(I, p, H, S, x, added)
  BY AddDynamicItemSound
<1> HIDE DEF added
<1>1. Sound(I, added, H, S \cup {x}) /\ added.freeitems = x
  BY <1>0 DEF DynamicAdded
<1>2. x # NULL /\ x \notin S
  BY DEF Sound
<1>3. (S \cup {x}) \ {x} = S
  BY <1>2
<1>4. Sound(I, TakeFree(added), H \cup {x}, (S \cup {x}) \ {x})
  BY <1>1, <1>2, TakeFreeSound
<1> QED
  BY <1>3, <1>4 DEF added

LEMMA FreshItemMarked ==
  ASSUME NEW I, NEW p, NEW H, NEW S, Sound(I, p, H, S),
         NEW x \in I \ (H \cup S)
  PROVE  TakeFree(AddDynamicItem(p, x)).is_dynamic_memory
           = [p.is_dynamic_memory EXCEPT ![x] = TRUE]
<1> DEFINE added == AddDynamicItem(p, x)
<1>0. DynamicAdded(I, p, H, S, x, added)
  BY AddDynamicItemSound
<1> HIDE DEF added
<1>1. /\ Sound(I, added, H, S \cup {x})
      /\ added.is_dynamic_memory = [p.is_dynamic_memory EXCEPT ![x] = TRUE]
  BY <1>0 DEF DynamicAdded
<1>2. TakeFree(added).is_dynamic_memory = added.is_dynamic_memory
  BY <1>1 DEF TakeFree, Sound, Pools
<1> QED
  BY <1>1, <1>2 DEF added

LEMMA FreshItemWalks ==
  ASSUME NEW I, NEW p, NEW H, NEW S, Sound(I, p, H, S),
         NEW x \in I \ (H \cup S),
         NEW lent, NEW spare, Chains(p, H, S, lent, spare)
  PROVE  Chains(TakeFree(AddDynamicItem(p, x)), H \cup {x}, S,
                << x >> \o lent, spare)
<1> DEFINE added == AddDynamicItem(p, x)
<1>0. DynamicAdded(I, p, H, S, x, added)
  BY AddDynamicItemSound
<1> HIDE DEF added
<1>1. /\ Sound(I, added, H, S \cup {x})
      /\ added.freeitems = x
      /\ Chains(added, H, S \cup {x}, lent, << x >> \o spare)
  BY <1>0 DEF DynamicAdded
<1>2. x # NULL /\ x \notin S
  BY DEF Sound
<1>3. (S \cup {x}) \ {x} = S
  BY <1>2
<1>4. Chains(TakeFree(added), H \cup {x}, (S \cup {x}) \ {x},
             << x >> \o lent, Tail(<< x >> \o spare))
  BY <1>1, <1>2, TakeFreeWalks
<1>5. Tail(<< x >> \o spare) = spare
  <2>1. spare \in Seq(S)
    BY DEF Chains, IsChain, Visits
  <2> QED
    BY <2>1
<1> QED
  BY <1>3, <1>4, <1>5 DEF added
=============================================================================
