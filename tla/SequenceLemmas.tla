--------------------------- MODULE SequenceLemmas ---------------------------
(***************************************************************************)
(* Lemmas about numbers and sequences that the other proofs cite.          *)
(***************************************************************************)
EXTENDS SequencesExt, SequenceTheorems, WellFoundedInduction, TLAPS

(***************************************************************************)
(* A set of natural numbers has a least element: what an induction over    *)
(* the numbers rests on, stated without an operator as a parameter.        *)
(***************************************************************************)
LEMMA LeastNumber ==
  ASSUME NEW T \in SUBSET Nat, T # {}
  PROVE  \E n \in T : \A m \in T : n <= m
<1>1. PICK n \in T : \A m \in T : ~ (<<m, n>> \in OpToRel(<, Nat))
  BY NatLessThanWellFounded, WFMin
<1>2. \A m \in T : ~ (m < n)
  BY <1>1 DEF OpToRel
<1> QED
  BY <1>2

-----------------------------------------------------------------------------
(* A sequence over a set is one over a larger set. *)
LEMMA SeqOfMore ==
  ASSUME NEW S, NEW s \in Seq(S), NEW x
  PROVE  s \in Seq(S \cup {x})
OBVIOUS

(* A sequence with one more element in front. *)
LEMMA ConsProperties ==
  ASSUME NEW S, NEW s \in Seq(S), NEW x \in S
  PROVE  /\ << x >> \o s \in Seq(S)
         /\ Len(<< x >> \o s) = Len(s) + 1
         /\ (<< x >> \o s)[1] = x
         /\ \A j \in 1..Len(<< x >> \o s) :
              j # 1 => j - 1 \in 1..Len(s) /\ (<< x >> \o s)[j] = s[j - 1]
         /\ \A j \in 1..Len(s) :
              j + 1 \in 1..Len(<< x >> \o s) /\ (<< x >> \o s)[j + 1] = s[j]
<1> DEFINE v == << x >> \o s
<1>1. /\ v \in Seq(S) /\ Len(v) = Len(s) + 1 /\ Len(s) \in Nat
      /\ \A j \in 1..Len(v) : v[j] = IF j = 1 THEN x ELSE s[j - 1]
  OBVIOUS
<1> HIDE DEF v
<1>2. v[1] = x
  BY <1>1
<1>3. \A j \in 1..Len(v) : j # 1 => j - 1 \in 1..Len(s) /\ v[j] = s[j - 1]
  BY <1>1
<1>4. \A j \in 1..Len(s) : j + 1 \in 1..Len(v) /\ v[j + 1] = s[j]
  BY <1>1
<1> QED
  BY <1>1, <1>2, <1>3, <1>4 DEF v

(* The elements of a sequence with one more. *)
LEMMA ConsElements ==
  ASSUME NEW S, NEW s \in Seq(S), NEW x \in S
  PROVE  \A j \in DOMAIN (<< x >> \o s) :
           \/ (<< x >> \o s)[j] = x
           \/ \E i \in DOMAIN s : (<< x >> \o s)[j] = s[i]
<1> DEFINE v == << x >> \o s
<1>1. /\ v \in Seq(S) /\ v[1] = x
      /\ \A j \in 1..Len(v) : j # 1 => j - 1 \in 1..Len(s) /\ v[j] = s[j - 1]
  <2> QED
    BY ConsProperties
<1> HIDE DEF v
<1>2. DOMAIN v = 1..Len(v) /\ DOMAIN s = 1..Len(s)
  BY <1>1
<1>3. \A j \in DOMAIN v : v[j] = x \/ \E i \in DOMAIN s : v[j] = s[i]
  BY <1>1, <1>2
<1> QED
  BY <1>3 DEF v

-----------------------------------------------------------------------------
(* Removing one element of a sequence. *)
LEMMA RemoveAtProperties ==
  ASSUME NEW S, NEW s \in Seq(S), NEW i \in 1..Len(s)
  PROVE  /\ RemoveAt(s, i) \in Seq(S)
         /\ Len(RemoveAt(s, i)) = Len(s) - 1
         /\ \A j \in 1..(Len(s) - 1) :
              RemoveAt(s, i)[j] = IF j < i THEN s[j] ELSE s[j + 1]
<1> DEFINE before == SubSeq(s, 1, i - 1)
           after  == SubSeq(s, i + 1, Len(s))
<1>1. \A j \in 1..Len(s) : s[j] \in S
  OBVIOUS
<1>2. /\ before \in Seq(S) /\ Len(before) = i - 1
      /\ \A j \in 1..(i - 1) : before[j] = s[j]
  <2>1. \A j \in 1..(i - 1) : s[j] \in S
    BY <1>1
  <2> HIDE DEF before
  <2> QED
    BY <2>1, SubSeqProperties, 1 \in Int, i - 1 \in Int DEF before
<1>3. /\ after \in Seq(S) /\ Len(after) = Len(s) - i
      /\ \A j \in 1..(Len(s) - i) : after[j] = s[j + i]
  <2>1. \A j \in (i + 1)..Len(s) : s[j] \in S
    BY <1>1
  <2>2. /\ after \in Seq(S)
        /\ Len(after) = IF i + 1 <= Len(s) THEN Len(s) - (i + 1) + 1 ELSE 0
        /\ \A j \in 1..(Len(s) - (i + 1) + 1) : after[j] = s[i + 1 + j - 1]
    BY <2>1, SubSeqProperties, i + 1 \in Int, Len(s) \in Int
  <2> QED
    BY <2>2
<1> HIDE DEF before, after
<1>4. /\ before \o after \in Seq(S)
      /\ Len(before \o after) = Len(before) + Len(after)
      /\ \A j \in 1..(Len(before) + Len(after)) :
           (before \o after)[j] = IF j <= Len(before) THEN before[j]
                                  ELSE after[j - Len(before)]
  BY <1>2, <1>3, ConcatProperties
<1>5. RemoveAt(s, i) = before \o after
  BY DEF RemoveAt, before, after
<1>6. ASSUME NEW j \in 1..(Len(s) - 1)
      PROVE  (before \o after)[j] = IF j < i THEN s[j] ELSE s[j + 1]
  BY <1>2, <1>3, <1>4
<1> QED
  BY <1>2, <1>3, <1>4, <1>5, <1>6

(* The elements of a sequence with one less. *)
LEMMA RemoveAtElements ==
  ASSUME NEW S, NEW s \in Seq(S), NEW i \in 1..Len(s)
  PROVE  \A j \in DOMAIN RemoveAt(s, i) :
           \E k \in DOMAIN s : RemoveAt(s, i)[j] = s[k]
<1> DEFINE v == RemoveAt(s, i)
<1>1. /\ v \in Seq(S) /\ Len(v) = Len(s) - 1
      /\ \A j \in 1..(Len(s) - 1) : v[j] = IF j < i THEN s[j] ELSE s[j + 1]
  <2> QED
    BY RemoveAtProperties
<1> HIDE DEF v
<1>2. /\ DOMAIN v = 1..(Len(s) - 1) /\ DOMAIN s = 1..Len(s)
      /\ Len(s) \in Nat
  BY <1>1
<1>3. ASSUME NEW j \in DOMAIN v PROVE \E k \in DOMAIN s : v[j] = s[k]
  <2>1. j \in DOMAIN s /\ j + 1 \in DOMAIN s
    BY <1>2
  <2>2. v[j] = s[j] \/ v[j] = s[j + 1]
    BY <1>1, <1>2
  <2> QED
    BY <2>1, <2>2
<1> QED
  BY <1>3 DEF v

(* The least number of a set. *)
LEMMA MinProperties ==
  ASSUME NEW T \in SUBSET Nat, T # {}
  PROVE  /\ Min(T) \in T
         /\ \A m \in T : Min(T) <= m
<1>1. \E n \in T : \A m \in T : n <= m
  BY LeastNumber
<1> QED
  BY <1>1, Zenon DEF Min

-----------------------------------------------------------------------------
(* The elements of the sequence w are those of S, once each. *)
Visits(w, S) ==
  /\ w \in Seq(S)
  /\ {w[j] : j \in DOMAIN w} = S
  /\ \A j, k \in DOMAIN w : w[j] = w[k] => j = k

LEMMA VisitsCons ==
  ASSUME NEW S, NEW w, Visits(w, S), NEW x, x \notin S
  PROVE  Visits(<< x >> \o w, S \cup {x})
<1> DEFINE v == << x >> \o w
<1>1. w \in Seq(S) /\ w \in Seq(S \cup {x}) /\ Len(w) \in Nat
  BY DEF Visits
<1>2. /\ v \in Seq(S \cup {x}) /\ Len(v) = Len(w) + 1
      /\ \A j \in 1..Len(v) : v[j] = IF j = 1 THEN x ELSE w[j - 1]
  BY <1>1
<1>3. /\ DOMAIN v = 1..Len(v) /\ DOMAIN w = 1..Len(w)
      /\ \A j \in 1..Len(w) : w[j] \in S /\ w[j] # x
  BY <1>1, <1>2
<1>4. ASSUME NEW y \in S \cup {x} PROVE \E j \in DOMAIN v : v[j] = y
  <2>1. CASE y = x
    BY <1>1, <1>2, <1>3, <2>1
  <2>2. CASE y # x
    <3>1. PICK j \in DOMAIN w : w[j] = y
      BY <2>2 DEF Visits
    <3>2. j + 1 \in DOMAIN v /\ v[j + 1] = y
      BY <1>1, <1>2, <1>3, <3>1
    <3> QED
      BY <3>2
  <2> QED
    BY <2>1, <2>2
<1>5. ASSUME NEW j \in DOMAIN v, NEW k \in DOMAIN v, v[j] = v[k]
      PROVE  j = k
  <2>1. j = 1 <=> k = 1
    BY <1>1, <1>2, <1>3, <1>5
  <2>2. j # 1 /\ k # 1 => j - 1 = k - 1
    <3>1. j # 1 => j - 1 \in DOMAIN w /\ v[j] = w[j - 1]
      BY <1>1, <1>2, <1>3
    <3>2. k # 1 => k - 1 \in DOMAIN w /\ v[k] = w[k - 1]
      BY <1>1, <1>2, <1>3
    <3> QED
      BY <1>5, <3>1, <3>2 DEF Visits
  <2> QED
    BY <1>3, <2>1, <2>2
<1>6. \A j \in DOMAIN v : v[j] \in S \cup {x}
  BY <1>2, <1>3
<1> HIDE DEF v
<1>7. {v[j] : j \in DOMAIN v} = S \cup {x}
  BY <1>4, <1>6
<1>8. Visits(v, S \cup {x})
  BY <1>2, <1>5, <1>7 DEF Visits
<1> QED
  BY <1>8 DEF v

LEMMA VisitsRemoveAt ==
  ASSUME NEW S, NEW w, Visits(w, S), NEW k \in DOMAIN w
  PROVE  Visits(RemoveAt(w, k), S \ {w[k]})
<1> DEFINE v == RemoveAt(w, k)
           x == w[k]
<1>1. /\ w \in Seq(S) /\ Len(w) \in Nat /\ DOMAIN w = 1..Len(w)
      /\ k \in 1..Len(w)
      /\ \A j \in 1..Len(w) : w[j] \in S
      /\ \A i, j \in 1..Len(w) : w[i] = w[j] => i = j
  BY DEF Visits
<1>2. /\ v \in Seq(S) /\ Len(v) = Len(w) - 1
      /\ \A j \in 1..(Len(w) - 1) :
           v[j] = IF j < k THEN w[j] ELSE w[j + 1]
  <2> HIDE DEF v
  <2>1. w \in Seq(S) /\ k \in 1..Len(w)
    BY <1>1
  <2> QED
    BY <2>1, RemoveAtProperties DEF v
<1> HIDE DEF v
<1>3. ASSUME NEW j \in 1..Len(v)
      PROVE  \E i \in 1..Len(w) : v[j] = w[i] /\ i # k
  <2>1. CASE j < k
    BY <1>1, <1>2, <2>1
  <2>2. CASE j >= k
    <3>1. j + 1 \in 1..Len(w) /\ v[j] = w[j + 1] /\ j + 1 # k
      BY <1>1, <1>2, <2>2
    <3> QED
      BY <3>1
  <2> QED
    BY <1>1, <2>1, <2>2
<1>4. \A j \in 1..Len(v) : v[j] \in S \ {x}
  BY <1>1, <1>3
<1>5. ASSUME NEW y \in S \ {x} PROVE \E j \in 1..Len(v) : v[j] = y
  <2>1. PICK i \in 1..Len(w) : w[i] = y /\ i # k
    BY <1>1 DEF Visits
  <2>2. CASE i < k
    <3>1. i \in 1..Len(v) /\ v[i] = y
      BY <1>1, <1>2, <2>1, <2>2
    <3> QED
      BY <3>1
  <2>3. CASE i > k
    <3>1. i - 1 \in 1..Len(v) /\ v[i - 1] = y
      BY <1>1, <1>2, <2>1, <2>3
    <3> QED
      BY <3>1
  <2> QED
    BY <1>1, <2>1, <2>2, <2>3
<1>6. ASSUME NEW i \in 1..Len(v), NEW j \in 1..Len(v), v[i] = v[j]
      PROVE  i = j
  <2> DEFINE At(l) == IF l < k THEN l ELSE l + 1
  <2>1. \A l \in 1..Len(v) : At(l) \in 1..Len(w) /\ v[l] = w[At(l)]
    BY <1>1, <1>2
  <2>2. At(i) = At(j)
    BY <1>1, <1>6, <2>1
  <2> QED
    BY <1>1, <1>2, <2>2
<1>7. v \in Seq(S \ {x}) /\ DOMAIN v = 1..Len(v)
  BY <1>2, <1>4
<1>8. {v[j] : j \in DOMAIN v} = S \ {x}
  <2>1. \A j \in DOMAIN v : v[j] \in S \ {x}
    BY <1>4, <1>7
  <2>2. \A y \in S \ {x} : \E j \in DOMAIN v : v[j] = y
    BY <1>5, <1>7
  <2> HIDE DEF x
  <2> QED
    BY <2>1, <2>2
<1>9. Visits(v, S \ {x})
  BY <1>6, <1>7, <1>8 DEF Visits
<1> QED
  BY <1>9 DEF v

LEMMA TailRemoves ==
  ASSUME NEW S, NEW w \in Seq(S), w # << >>
  PROVE  /\ 1 \in DOMAIN w /\ Head(w) = w[1] /\ w[1] \in S
         /\ Tail(w) = RemoveAt(w, 1)
<1>1. Len(w) \in Nat /\ Len(w) # 0 /\ 1 \in 1..Len(w)
  OBVIOUS
<1>2. /\ RemoveAt(w, 1) \in Seq(S)
      /\ Len(RemoveAt(w, 1)) = Len(w) - 1
      /\ \A j \in 1..(Len(w) - 1) :
           RemoveAt(w, 1)[j] = IF j < 1 THEN w[j] ELSE w[j + 1]
  BY <1>1, RemoveAtProperties
<1>3. /\ Tail(w) \in Seq(S) /\ Len(Tail(w)) = Len(w) - 1
      /\ \A j \in 1..(Len(w) - 1) : Tail(w)[j] = w[j + 1]
  BY <1>1
<1>4. \A j \in 1..(Len(w) - 1) : RemoveAt(w, 1)[j] = Tail(w)[j]
  BY <1>2, <1>3
<1> QED
  BY <1>1, <1>2, <1>3, <1>4

LEMMA VisitsTail ==
  ASSUME NEW S, NEW w, Visits(w, S), w # << >>
  PROVE  Head(w) \in S /\ Visits(Tail(w), S \ {Head(w)})
<1>1. /\ 1 \in DOMAIN w /\ Head(w) = w[1] /\ w[1] \in S
      /\ Tail(w) = RemoveAt(w, 1)
  BY TailRemoves DEF Visits
<1>2. Visits(RemoveAt(w, 1), S \ {w[1]})
  BY <1>1, VisitsRemoveAt
<1> QED
  BY <1>1, <1>2

LEMMA DescendingVisits ==
  ASSUME NEW n \in Nat
  PROVE  Visits([k \in 1..n |-> n + 1 - k], 1..n)
<1> DEFINE w == [k \in 1..n |-> n + 1 - k]
<1>1. /\ w \in Seq(1..n) /\ Len(w) = n /\ DOMAIN w = 1..n
      /\ \A k \in 1..n : w[k] = n + 1 - k
  <2>1. \A k \in 1..n : n + 1 - k \in 1..n
    OBVIOUS
  <2> QED
    BY <2>1
<1> HIDE DEF w
<1>2. ASSUME NEW i \in 1..n PROVE \E k \in DOMAIN w : w[k] = i
  <2>1. n + 1 - i \in DOMAIN w /\ w[n + 1 - i] = i
    BY <1>1
  <2> QED
    BY <2>1
<1>3. {w[k] : k \in DOMAIN w} = 1..n
  <2>1. ASSUME NEW k \in DOMAIN w PROVE w[k] \in 1..n
    <3>1. k \in 1..n /\ DOMAIN w = 1..n
      BY <1>1
    <3>2. n + 1 - k \in 1..n
      BY <3>1
    <3> QED
      BY <1>1, <3>1, <3>2
  <2> QED
    BY <1>2, <2>1
<1>4. \A j, k \in DOMAIN w : w[j] = w[k] => j = k
  BY <1>1
<1>5. Visits(w, 1..n)
  BY <1>1, <1>3, <1>4 DEF Visits
<1> QED
  BY <1>5 DEF w
=============================================================================
