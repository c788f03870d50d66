-------------------------- MODULE FusionPoolsProofs -------------------------
(***************************************************************************)
(* Proofs about FusionPools, for any clients, tiers, tags and limits.       *)
(***************************************************************************)
EXTENDS FusionPools, FiniteSetTheorems, SequenceTheorems, TLAPS

-----------------------------------------------------------------------------
(* Sets and queues.                                                        *)

\* Induction over the naturals, for a set.
LEMMA SetInduction ==
    ASSUME NEW X, 0 \in X, \A n \in Nat : n \in X => n + 1 \in X
    PROVE  Nat \subseteq X
<1> SUFFICES ASSUME NEW k \in Nat, k \notin X PROVE FALSE
  OBVIOUS
<1> DEFINE R == StrictSubsetOrdering(Nat)
           F == FiniteSubsetsOf(Nat)
           T == {0..n : n \in {m \in Nat : m \notin X}}
<1>1. IsWellFoundedOn(R, F)
  BY FS_StrictSubsetOrderingWellFounded
<1>2. T \subseteq F /\ T # {}
  <2>1. \A n \in Nat : 0..n \in F
    BY FS_Interval DEF FiniteSubsetsOf
  <2>2. QED
    BY <2>1
<1> HIDE DEF R, F, T
<1>3. PICK x \in T : \A y \in T : ~(<<y, x>> \in R)
  BY <1>1, <1>2, WFMin
<1>4. PICK n \in Nat : n \notin X /\ x = 0..n
  BY <1>3 DEF T
<1>5. n # 0 /\ n - 1 \in Nat /\ n - 1 \notin X
  BY <1>4
<1>6. 0..(n - 1) \in T
  BY <1>5 DEF T
<1>7. <<0..(n - 1), x>> \in R
  BY <1>4, <1>5 DEF R, StrictSubsetOrdering
<1>8. QED
  BY <1>3, <1>6, <1>7

\* One more client with its tags.
LEMMA TagsAdded ==
    ASSUME NEW S, IsFiniteSet(S), NEW c, c \notin S, NEW g
    PROVE  /\ Cardinality(WithTag(S, g)) \in Nat
           /\ Cardinality(WithTag(S \cup {c}, g)) =
                 IF g \in TagsOf[c] THEN Cardinality(WithTag(S, g)) + 1 ELSE Cardinality(WithTag(S, g))
<1>1. IsFiniteSet(WithTag(S, g)) /\ c \notin WithTag(S, g)
  BY FS_Subset DEF WithTag
<1>2. CASE g \in TagsOf[c]
  <2>1. WithTag(S \cup {c}, g) = WithTag(S, g) \cup {c}
    BY <1>2 DEF WithTag
  <2>2. Cardinality(WithTag(S, g) \cup {c}) = Cardinality(WithTag(S, g)) + 1
    BY <1>1, FS_AddElement
  <2>3. QED
    BY <1>1, <1>2, <2>1, <2>2, FS_CardinalityType
<1>3. CASE g \notin TagsOf[c]
  <2>1. WithTag(S \cup {c}, g) = WithTag(S, g)
    BY <1>3 DEF WithTag
  <2>2. QED
    BY <1>1, <1>3, <2>1, FS_CardinalityType
<1>4. QED
  BY <1>2, <1>3

\* One client less.
LEMMA TagsRemoved ==
    ASSUME NEW S, IsFiniteSet(S), NEW c \in S, NEW g
    PROVE  /\ Cardinality(WithTag(S \ {c}, g)) \in Nat
           /\ Cardinality(WithTag(S \ {c}, g)) =
                 IF g \in TagsOf[c] THEN Cardinality(WithTag(S, g)) - 1 ELSE Cardinality(WithTag(S, g))
<1> DEFINE T == S \ {c}
<1>1. IsFiniteSet(T) /\ c \notin T /\ S = T \cup {c}
  BY FS_Subset
<1> HIDE DEF T
<1>2. /\ Cardinality(WithTag(T, g)) \in Nat
      /\ Cardinality(WithTag(T \cup {c}, g)) =
            IF g \in TagsOf[c] THEN Cardinality(WithTag(T, g)) + 1 ELSE Cardinality(WithTag(T, g))
  BY <1>1, TagsAdded
<1>3. QED
  BY <1>1, <1>2 DEF T

\* queue.remove, for a queue in which nobody stands twice.
LEMMA RemoveFirstFacts ==
    ASSUME NEW q \in Seq(Client), \A i, j \in DOMAIN q : q[i] = q[j] => i = j, NEW k \in DOMAIN q
    PROVE  LET r == RemoveFirst(q, q[k])
           IN  /\ r \in Seq(Client) /\ Len(r) = Len(q) - 1
               /\ \A i \in 1..(Len(q) - 1) : r[i] = IF i < k THEN q[i] ELSE q[i + 1]
<1>1. Len(q) \in Nat /\ DOMAIN q = 1..Len(q) /\ k \in 1..Len(q)
  BY LenProperties
<1> DEFINE I == {i \in 1..Len(q) : q[i] = q[k]}
           a == SubSeq(q, 1, k - 1)
           b == SubSeq(q, k + 1, Len(q))
<1>2. I = {k}
  BY <1>1
<1>3. Min(I) = k
  BY <1>1, <1>2 DEF Min
<1>4. RemoveFirst(q, q[k]) = RemoveAt(q, k)
  <2>1. SelectInSeq(q, LAMBDA v : v = q[k]) = IF I # {} THEN Min(I) ELSE 0
    BY DEF SelectInSeq
  <2>2. SelectInSeq(q, LAMBDA v : v = q[k]) = k
    BY <1>2, <1>3, <2>1
  <2>3. \E i \in 1..Len(q) : q[i] = q[k]
    BY <1>1
  <2>4. RemoveFirst(q, q[k]) = RemoveAt(q, SelectInSeq(q, LAMBDA v : v = q[k]))
    BY <2>3 DEF RemoveFirst
  <2>5. QED
    BY <2>2, <2>4
<1>5. RemoveAt(q, k) = a \o b
  BY DEF RemoveAt
<1>6. \A i \in 1..Len(q) : q[i] \in Client
  BY ElementOfSeq
<1>7. a \in Seq(Client) /\ Len(a) = k - 1 /\ \A i \in 1..(k - 1) : a[i] = q[i]
  <2>1. \A i \in 1..(k - 1) : q[i] \in Client
    BY <1>1, <1>6
  <2>2. QED
    BY <1>1, <2>1, SubSeqProperties
<1>8. b \in Seq(Client) /\ Len(b) = Len(q) - k /\ \A i \in 1..(Len(q) - k) : b[i] = q[k + i]
  <2>1. \A i \in (k + 1)..Len(q) : q[i] \in Client
    BY <1>1, <1>6
  <2>2. QED
    BY <1>1, <2>1, SubSeqProperties
<1> HIDE DEF a, b
<1>9. a \o b \in Seq(Client) /\ Len(a \o b) = Len(q) - 1
  <2>1. a \o b \in Seq(Client) /\ Len(a \o b) = Len(a) + Len(b)
    BY <1>7, <1>8, ConcatProperties
  <2>2. Len(a) + Len(b) = Len(q) - 1
    BY <1>1, <1>7, <1>8
  <2>3. QED
    BY <2>1, <2>2
<1>10. \A i \in 1..(Len(q) - 1) : (a \o b)[i] = IF i < k THEN q[i] ELSE q[i + 1]
  <2> SUFFICES ASSUME NEW i \in 1..(Len(q) - 1) PROVE (a \o b)[i] = IF i < k THEN q[i] ELSE q[i + 1]
    OBVIOUS
  <2>1. (a \o b)[i] = IF i <= Len(a) THEN a[i] ELSE b[i - Len(a)]
    BY <1>1, <1>7, <1>8, ConcatProperties
  <2>2. CASE i < k
    BY <1>1, <1>7, <2>1, <2>2
  <2>3. CASE ~(i < k)
    <3>1. i - (k - 1) \in 1..(Len(q) - k) /\ k + (i - (k - 1)) = i + 1
      BY <1>1, <2>3
    <3>2. QED
      BY <1>1, <1>7, <1>8, <2>1, <2>3, <3>1, SMTT(60)
  <2>4. QED
    BY <2>2, <2>3
<1>11. QED
  BY <1>4, <1>5, <1>9, <1>10

\* Nobody else leaves the queue, and nobody stands in it twice.
LEMMA Dequeued ==
    ASSUME NEW q \in Seq(Client), \A i, j \in DOMAIN q : q[i] = q[j] => i = j, NEW c \in ToSet(q)
    PROVE  LET r == RemoveFirst(q, c)
           IN  /\ r \in Seq(Client) /\ ToSet(r) = ToSet(q) \ {c}
               /\ \A i, j \in DOMAIN r : r[i] = r[j] => i = j
<1> DEFINE r == RemoveFirst(q, c)
<1>1. PICK k \in DOMAIN q : c = q[k]
  BY DEF ToSet
<1>2. /\ r \in Seq(Client) /\ Len(r) = Len(q) - 1
      /\ \A i \in 1..(Len(q) - 1) : r[i] = IF i < k THEN q[i] ELSE q[i + 1]
  BY <1>1, RemoveFirstFacts
<1>3. Len(q) \in Nat /\ DOMAIN q = 1..Len(q) /\ DOMAIN r = 1..(Len(q) - 1)
  BY <1>2, LenProperties
<1> HIDE DEF r
<1>4. \A i, j \in DOMAIN r : r[i] = r[j] => i = j
  BY <1>1, <1>2, <1>3, SMTT(60)
<1>5. \A i \in DOMAIN r : r[i] \in ToSet(q) \ {c}
  BY <1>1, <1>2, <1>3 DEF ToSet
<1>6. ASSUME NEW d \in ToSet(q) \ {c} PROVE d \in ToSet(r)
  <2>1. PICK m \in DOMAIN q : d = q[m]
    BY DEF ToSet
  <2>2. CASE m < k
    <3>1. m \in DOMAIN r /\ r[m] = d
      BY <1>1, <1>2, <1>3, <2>1, <2>2
    <3>2. QED
      BY <3>1 DEF ToSet
  <2>3. CASE m > k
    <3>1. m - 1 \in DOMAIN r /\ r[m - 1] = d
      BY <1>1, <1>2, <1>3, <2>1, <2>3
    <3>2. QED
      BY <3>1 DEF ToSet
  <2>4. m # k
    BY <1>1, <1>6, <2>1
  <2>5. QED
    BY <1>1, <1>3, <2>1, <2>2, <2>3, <2>4
<1>7. ToSet(r) = ToSet(q) \ {c}
  BY <1>5, <1>6 DEF ToSet
<1>8. QED
  BY <1>2, <1>4, <1>7 DEF r

\* One more at the end of the queue.
LEMMA Queued ==
    ASSUME NEW q \in Seq(Client), \A i, j \in DOMAIN q : q[i] = q[j] => i = j, NEW c \in Client \ ToSet(q)
    PROVE  LET r == Append(q, c)
           IN  /\ r \in Seq(Client) /\ ToSet(r) = ToSet(q) \cup {c}
               /\ \A i, j \in DOMAIN r : r[i] = r[j] => i = j
<1> DEFINE r == Append(q, c)
<1>1. /\ r \in Seq(Client) /\ Len(r) = Len(q) + 1
      /\ \A i \in 1..Len(q) : r[i] = q[i]
      /\ r[Len(q) + 1] = c
  BY AppendProperties
<1>2. Len(q) \in Nat /\ DOMAIN q = 1..Len(q) /\ DOMAIN r = 1..(Len(q) + 1)
  BY <1>1, LenProperties
<1> HIDE DEF r
<1>3. \A i \in DOMAIN r : i \in DOMAIN q \/ i = Len(q) + 1
  BY <1>2
<1>4. \A i \in DOMAIN q : r[i] = q[i] /\ r[i] \in ToSet(q) /\ i \in DOMAIN r /\ Len(q) + 1 \in DOMAIN r
  BY <1>1, <1>2 DEF ToSet
<1>5. \A i, j \in DOMAIN r : r[i] = r[j] => i = j
  BY <1>1, <1>3, <1>4
<1>6. ToSet(r) = ToSet(q) \cup {c}
  <2>1. Len(q) + 1 \in DOMAIN r
    BY <1>2
  <2>2. QED
    BY <1>1, <1>3, <1>4, <2>1 DEF ToSet
<1>7. QED
  BY <1>1, <1>5, <1>6 DEF r

-----------------------------------------------------------------------------
(* One pool.                                                               *)

\* The fields of a pool and what PoolInv says of them.
LEMMA PoolFacts ==
    ASSUME NEW w, PoolInv(w)
    PROVE  /\ w \in Pool /\ w.pool \subseteq Client /\ w.queue \in Seq(Client) /\ ToSet(w.queue) \subseteq Client
           /\ w.fill \in NotFilled..start_time_max /\ w.in_pool \in [Tag -> Nat] /\ w.all \in [Tag -> 0..tag_max]
           /\ IsFiniteSet(Waiting(w)) /\ IsFiniteSet(w.pool) /\ Cardinality(w.pool) \in Nat
           /\ w.pool \cap ToSet(w.queue) = {} /\ w.pool \subseteq Waiting(w) /\ ToSet(w.queue) \subseteq Waiting(w)
           /\ \A i, j \in DOMAIN w.queue : w.queue[i] = w.queue[j] => i = j
           /\ w.fill # NotFilled => Cardinality(w.pool) >= min_clients
<1>1. /\ w \in Pool /\ w.pool \subseteq Client /\ w.queue \in Seq(Client)
      /\ w.fill \in NotFilled..start_time_max /\ w.in_pool \in [Tag -> Nat] /\ w.all \in [Tag -> 0..tag_max]
  BY DEF PoolInv, Pool
<1>2. ToSet(w.queue) \subseteq Client
  BY <1>1, ElementOfSeq, LenProperties DEF ToSet
<1>3. w.pool \subseteq Waiting(w) /\ ToSet(w.queue) \subseteq Waiting(w)
  BY DEF Waiting
<1>4. IsFiniteSet(Waiting(w))
  BY DEF PoolInv
<1>5. IsFiniteSet(w.pool) /\ Cardinality(w.pool) \in Nat
  BY <1>3, <1>4, FS_Subset, FS_CardinalityType
<1>6. QED
  BY <1>1, <1>2, <1>3, <1>4, <1>5 DEF PoolInv

\* The limits of a pool.
LEMMA Limits ==
    /\ NotFilled = -1 /\ tag_max \in Nat /\ min_clients \in Nat \ {0} /\ start_time_max \in Nat
    /\ 0 \in NotFilled..start_time_max /\ NotFilled \in NotFilled..start_time_max
    /\ \A g \in Tag : maxsimul[g] \in Nat
    /\ \A c \in Client : TagsOf[c] \subseteq Tag
  BY PoolsAssumption DEF NotFilled

\* A client that is not blocked comes into the pool.
LEMMA AddPool ==
    ASSUME NEW w, PoolInv(w), NEW c \in Client \ w.pool, ~Blocked(w, c)
    PROVE  LET v == add_pool(w, c)
           IN  /\ v \in Pool /\ v.pool = w.pool \cup {c} /\ v.queue = w.queue /\ v.all = w.all
               /\ \A g \in Tag : /\ v.in_pool[g] = Cardinality(WithTag(v.pool, g)) /\ v.in_pool[g] <= maxsimul[g]
                                 /\ v.in_pool[g] >= w.in_pool[g]
               /\ v.fill # NotFilled => Cardinality(v.pool) >= min_clients
               /\ w.fill # NotFilled => v.fill # NotFilled
<1> DEFINE v == add_pool(w, c)
<1>1. /\ w \in Pool /\ w.pool \subseteq Client /\ w.fill \in NotFilled..start_time_max
      /\ w.in_pool \in [Tag -> Nat] /\ IsFiniteSet(w.pool) /\ Cardinality(w.pool) \in Nat
      /\ w.fill # NotFilled => Cardinality(w.pool) >= min_clients
  BY PoolFacts
<1>2. /\ v.pool = w.pool \cup {c} /\ v.queue = w.queue /\ v.all = w.all
      /\ v.in_pool = count(w.in_pool, c, 1)
      /\ v.fill = IF filled(Cardinality(w.pool) + 1) THEN 0 ELSE w.fill
      /\ v = [w EXCEPT !.pool = v.pool, !.in_pool = v.in_pool, !.fill = v.fill]
  BY <1>1 DEF add_pool, Pool
<1> HIDE DEF v
<1>3. \A g \in Tag : (IF g \in TagsOf[c] THEN w.in_pool[g] + 1 ELSE w.in_pool[g]) \in Nat
  BY <1>1
<1>4. /\ v.in_pool \in [Tag -> Nat]
      /\ \A g \in Tag : v.in_pool[g] = IF g \in TagsOf[c] THEN w.in_pool[g] + 1 ELSE w.in_pool[g]
  BY <1>2, <1>3, Zenon DEF count
<1>5. v.fill \in NotFilled..start_time_max /\ (w.fill # NotFilled => v.fill # NotFilled)
  BY <1>1, <1>2, Limits
<1>6. v \in Pool
  BY <1>1, <1>2, <1>4, <1>5 DEF Pool
<1>7. Cardinality(w.pool \cup {c}) = Cardinality(w.pool) + 1
  BY <1>1, FS_AddElement
<1>8. v.fill # NotFilled => Cardinality(v.pool) >= min_clients
  BY <1>1, <1>2, <1>7, Limits DEF filled
<1>9. ASSUME NEW g \in Tag
      PROVE  /\ v.in_pool[g] = Cardinality(WithTag(v.pool, g)) /\ v.in_pool[g] <= maxsimul[g]
             /\ v.in_pool[g] >= w.in_pool[g]
  <2>1. w.in_pool[g] = Cardinality(WithTag(w.pool, g)) /\ w.in_pool[g] <= maxsimul[g] /\ w.in_pool[g] \in Nat
    BY <1>1 DEF PoolInv
  <2>2. Cardinality(WithTag(w.pool \cup {c}, g)) =
           IF g \in TagsOf[c] THEN Cardinality(WithTag(w.pool, g)) + 1 ELSE Cardinality(WithTag(w.pool, g))
    BY <1>1, TagsAdded
  <2>3. g \in TagsOf[c] => w.in_pool[g] < maxsimul[g]
    BY <2>1, Limits DEF Blocked
  <2>4. v.in_pool[g] = Cardinality(WithTag(v.pool, g))
    BY <1>2, <1>4, <2>1, <2>2
  <2>5. v.in_pool[g] <= maxsimul[g] /\ v.in_pool[g] >= w.in_pool[g]
    BY <1>4, <2>1, <2>3, Limits
  <2>6. QED
    BY <2>4, <2>5
<1>10. QED
  BY <1>2, <1>5, <1>6, <1>8, <1>9 DEF v

\* More clients with a tag in the pool leave no fewer clients blocked.
LEMMA BlockedStays ==
    ASSUME NEW w, NEW v, PoolInv(w), PoolInv(v), NEW c \in Client, Blocked(w, c),
           \A g \in Tag : v.in_pool[g] >= w.in_pool[g]
    PROVE  Blocked(v, c)
<1>1. w.in_pool \in [Tag -> Nat] /\ v.in_pool \in [Tag -> Nat]
  BY PoolFacts
<1>2. PICK g \in TagsOf[c] : w.in_pool[g] >= maxsimul[g]
  BY DEF Blocked
<1>3. g \in Tag /\ maxsimul[g] \in Nat
  BY <1>2, Limits
<1>4. v.in_pool[g] >= maxsimul[g]
  BY <1>1, <1>2, <1>3
<1>5. QED
  BY <1>2, <1>4 DEF Blocked

\* A client of the queue moves up if it can.
LEMMA MoveOne ==
    ASSUME NEW w, PoolInv(w), NEW c \in ToSet(w.queue)
    PROVE  LET v == move_one(w, c)
           IN  /\ PoolInv(v) /\ Waiting(v) = Waiting(w)
               /\ ToSet(v.queue) = IF Blocked(w, c) THEN ToSet(w.queue) ELSE ToSet(w.queue) \ {c}
               /\ \A g \in Tag : v.in_pool[g] >= w.in_pool[g]
               /\ w.fill # NotFilled => v.fill # NotFilled
<1>1. CASE Blocked(w, c)
  <2>1. move_one(w, c) = w
    BY <1>1 DEF move_one
  <2>2. \A g \in Tag : w.in_pool[g] >= w.in_pool[g]
    BY PoolFacts
  <2>3. QED
    BY <1>1, <2>1, <2>2
<1>2. CASE ~Blocked(w, c)
  <2> DEFINE u == add_pool(w, c)
             v == [u EXCEPT !.queue = RemoveFirst(w.queue, c)]
  <2>1. /\ w.queue \in Seq(Client) /\ ToSet(w.queue) \subseteq Client /\ w.pool \cap ToSet(w.queue) = {}
        /\ IsFiniteSet(Waiting(w)) /\ \A i, j \in DOMAIN w.queue : w.queue[i] = w.queue[j] => i = j
    BY PoolFacts
  <2>2. c \in Client \ w.pool
    BY <2>1
  <2>3. /\ u \in Pool /\ u.pool = w.pool \cup {c} /\ u.queue = w.queue /\ u.all = w.all
        /\ \A g \in Tag : /\ u.in_pool[g] = Cardinality(WithTag(u.pool, g)) /\ u.in_pool[g] <= maxsimul[g]
                          /\ u.in_pool[g] >= w.in_pool[g]
        /\ u.fill # NotFilled => Cardinality(u.pool) >= min_clients
        /\ w.fill # NotFilled => u.fill # NotFilled
    BY <1>2, <2>2, AddPool
  <2>4. move_one(w, c) = v
    BY <1>2, <2>3 DEF move_one
  <2> HIDE DEF u
  <2>5. /\ RemoveFirst(w.queue, c) \in Seq(Client) /\ ToSet(RemoveFirst(w.queue, c)) = ToSet(w.queue) \ {c}
        /\ \A i, j \in DOMAIN RemoveFirst(w.queue, c) :
              RemoveFirst(w.queue, c)[i] = RemoveFirst(w.queue, c)[j] => i = j
    BY <2>1, Dequeued
  <2>6. /\ v.pool = u.pool /\ v.queue = RemoveFirst(w.queue, c) /\ v.all = u.all /\ v.in_pool = u.in_pool
        /\ v.fill = u.fill /\ v \in Pool
    BY <2>3, <2>5 DEF Pool
  <2> HIDE DEF v
  <2>7. Waiting(v) = Waiting(w)
    BY <2>3, <2>5, <2>6 DEF Waiting
  <2>8. v.pool \cap ToSet(v.queue) = {}
    BY <2>1, <2>3, <2>5, <2>6
  <2>9. \A g \in Tag : v.all[g] = Cardinality(WithTag(Waiting(v), g))
    BY <2>3, <2>6, <2>7 DEF PoolInv
  <2>10. PoolInv(v)
    BY <2>1, <2>3, <2>5, <2>6, <2>7, <2>8, <2>9 DEF PoolInv
  <2>11. QED
    BY <1>2, <2>3, <2>4, <2>5, <2>6, <2>7, <2>10
<1>3. QED
  BY <1>1, <1>2

\* A client leaves the pool, the queue, or neither.
LEMMA RemoveOne ==
    ASSUME NEW w, PoolInv(w), NEW c \in Client
    PROVE  PoolInv(remove(w, c)) /\ Waiting(remove(w, c)) \subseteq Waiting(w)
<1>1. /\ w \in Pool /\ w.pool \subseteq Client /\ w.queue \in Seq(Client) /\ ToSet(w.queue) \subseteq Client
      /\ w.fill \in NotFilled..start_time_max /\ w.in_pool \in [Tag -> Nat] /\ w.all \in [Tag -> 0..tag_max]
      /\ IsFiniteSet(Waiting(w)) /\ IsFiniteSet(w.pool) /\ Cardinality(w.pool) \in Nat
      /\ w.pool \cap ToSet(w.queue) = {} /\ w.pool \subseteq Waiting(w) /\ ToSet(w.queue) \subseteq Waiting(w)
      /\ \A i, j \in DOMAIN w.queue : w.queue[i] = w.queue[j] => i = j
      /\ w.fill # NotFilled => Cardinality(w.pool) >= min_clients
  BY PoolFacts
<1>2. \A g \in Tag : /\ w.in_pool[g] = Cardinality(WithTag(w.pool, g)) /\ w.in_pool[g] <= maxsimul[g]
                     /\ w.all[g] = Cardinality(WithTag(Waiting(w), g))
                     /\ w.in_pool[g] \in Nat /\ w.all[g] \in 0..tag_max
  BY <1>1 DEF PoolInv
<1>3. ASSUME c \in Waiting(w)
      PROVE  /\ count(w.all, c, -1) \in [Tag -> 0..tag_max]
             /\ \A g \in Tag : count(w.all, c, -1)[g] = Cardinality(WithTag(Waiting(w) \ {c}, g))
  <2> DEFINE f(g) == IF g \in TagsOf[c] THEN w.all[g] + (-1) ELSE w.all[g]
  <2>1. ASSUME NEW g \in Tag PROVE f(g) \in 0..tag_max /\ f(g) = Cardinality(WithTag(Waiting(w) \ {c}, g))
    <3>1. /\ Cardinality(WithTag(Waiting(w) \ {c}, g)) \in Nat
          /\ Cardinality(WithTag(Waiting(w) \ {c}, g)) =
                IF g \in TagsOf[c] THEN Cardinality(WithTag(Waiting(w), g)) - 1 ELSE Cardinality(WithTag(Waiting(w), g))
      BY <1>1, <1>3, TagsRemoved
    <3>2. QED
      BY <1>2, <3>1, Limits
  <2>2. \A g \in Tag : (IF g \in TagsOf[c] THEN w.all[g] + (-1) ELSE w.all[g]) \in 0..tag_max
    BY <2>1
  <2>3. /\ count(w.all, c, -1) \in [Tag -> 0..tag_max]
        /\ \A g \in Tag : count(w.all, c, -1)[g] = IF g \in TagsOf[c] THEN w.all[g] + (-1) ELSE w.all[g]
    BY <2>2, Zenon DEF count
  <2>4. QED
    BY <2>1, <2>3
<1>4. CASE c \in w.pool
  <2> DEFINE v == remove(w, c)
             t == IF Cardinality(w.pool) - 1 < min_clients THEN NotFilled ELSE w.fill
  <2>1. /\ v.pool = w.pool \ {c} /\ v.queue = w.queue /\ v.all = count(w.all, c, -1)
        /\ v.in_pool = released(w, c) /\ v.fill = t
        /\ v = [w EXCEPT !.pool = v.pool, !.in_pool = v.in_pool, !.all = v.all, !.fill = v.fill]
    BY <1>1, <1>4 DEF remove, Pool
  <2> HIDE DEF v
  <2>2. c \in Waiting(w) /\ Waiting(v) = Waiting(w) \ {c}
    BY <1>1, <1>4, <2>1 DEF Waiting
  <2>3. v.all \in [Tag -> 0..tag_max] /\ \A g \in Tag : v.all[g] = Cardinality(WithTag(Waiting(v), g))
    BY <1>3, <2>1, <2>2
  <2> DEFINE f(g) == IF g \in TagsOf[c] THEN w.in_pool[g] + (-1) ELSE w.in_pool[g]
  <2>4. ASSUME NEW g \in Tag PROVE f(g) \in Nat /\ f(g) = Cardinality(WithTag(v.pool, g)) /\ f(g) <= maxsimul[g]
    <3>1. /\ Cardinality(WithTag(w.pool \ {c}, g)) \in Nat
          /\ Cardinality(WithTag(w.pool \ {c}, g)) =
                IF g \in TagsOf[c] THEN Cardinality(WithTag(w.pool, g)) - 1 ELSE Cardinality(WithTag(w.pool, g))
      BY <1>1, <1>4, TagsRemoved
    <3>2. QED
      BY <1>2, <2>1, <3>1, Limits
  <2>5. \A g \in Tag : (IF g \in TagsOf[c] THEN w.in_pool[g] + (-1) ELSE w.in_pool[g]) \in Nat
    BY <2>4
  <2>6. /\ v.in_pool \in [Tag -> Nat]
        /\ \A g \in Tag : v.in_pool[g] = IF g \in TagsOf[c] THEN w.in_pool[g] + (-1) ELSE w.in_pool[g]
    <3>1. v.in_pool = count(w.in_pool, c, -1)
      BY <2>1 DEF released
    <3>2. QED
      BY <2>5, <3>1, Zenon DEF count
  <2>7. \A g \in Tag : v.in_pool[g] = Cardinality(WithTag(v.pool, g)) /\ v.in_pool[g] <= maxsimul[g]
    BY <2>4, <2>6
  <2>8. v.fill \in NotFilled..start_time_max /\ (v.fill # NotFilled => Cardinality(v.pool) >= min_clients)
    <3>1. Cardinality(w.pool \ {c}) = Cardinality(w.pool) - 1
      BY <1>1, <1>4, FS_RemoveElement
    <3>2. QED
      BY <1>1, <2>1, <3>1, Limits
  <2>9. v \in Pool
    BY <1>1, <2>1, <2>3, <2>6, <2>8 DEF Pool
  <2>10. IsFiniteSet(Waiting(v))
    BY <1>1, <2>2, FS_RemoveElement
  <2>11. v.pool \cap ToSet(v.queue) = {}
    BY <1>1, <2>1
  <2>12. PoolInv(v)
    BY <1>1, <2>1, <2>3, <2>7, <2>8, <2>9, <2>10, <2>11 DEF PoolInv
  <2>13. QED
    BY <2>2, <2>12 DEF v
<1>5. CASE c \notin w.pool /\ c \in ToSet(w.queue)
  <2> DEFINE v == remove(w, c)
             r == RemoveFirst(w.queue, c)
  <2>1. /\ v.pool = w.pool /\ v.queue = r /\ v.all = count(w.all, c, -1)
        /\ v.in_pool = w.in_pool /\ v.fill = w.fill
        /\ v = [w EXCEPT !.queue = v.queue, !.all = v.all]
    BY <1>1, <1>5 DEF remove, Pool
  <2> HIDE DEF v
  <2>2. /\ r \in Seq(Client) /\ ToSet(r) = ToSet(w.queue) \ {c}
        /\ \A i, j \in DOMAIN r : r[i] = r[j] => i = j
    BY <1>1, <1>5, Dequeued
  <2> HIDE DEF r
  <2>3. c \in Waiting(w) /\ Waiting(v) = Waiting(w) \ {c}
    BY <1>1, <1>5, <2>1, <2>2 DEF Waiting
  <2>4. v.all \in [Tag -> 0..tag_max] /\ \A g \in Tag : v.all[g] = Cardinality(WithTag(Waiting(v), g))
    BY <1>3, <2>1, <2>3
  <2>5. v \in Pool
    BY <1>1, <2>1, <2>2, <2>4 DEF Pool
  <2>6. IsFiniteSet(Waiting(v))
    BY <1>1, <2>3, FS_RemoveElement
  <2>7. v.pool \cap ToSet(v.queue) = {}
    BY <1>1, <2>1, <2>2
  <2>8. PoolInv(v)
    BY <1>1, <1>2, <2>1, <2>2, <2>4, <2>5, <2>6, <2>7 DEF PoolInv
  <2>9. QED
    BY <2>3, <2>8 DEF v
<1>6. CASE c \notin w.pool /\ c \notin ToSet(w.queue)
  BY <1>6 DEF remove
<1>7. QED
  BY <1>4, <1>5, <1>6

\* A new client comes into the pool or the queue.
LEMMA AddOne ==
    ASSUME NEW w, PoolInv(w), NEW c \in Client \ Waiting(w), check_add(w, c)
    PROVE  LET v == add(w, c)
           IN  /\ PoolInv(v) /\ Waiting(v) = Waiting(w) \cup {c}
               /\ \A d \in ToSet(v.queue) : d \in ToSet(w.queue) \/ Blocked(v, d)
               /\ \A g \in Tag : v.in_pool[g] >= w.in_pool[g]
               /\ w.fill # NotFilled => v.fill # NotFilled
<1>1. /\ w \in Pool /\ w.pool \subseteq Client /\ w.queue \in Seq(Client) /\ ToSet(w.queue) \subseteq Client
      /\ w.fill \in NotFilled..start_time_max /\ w.in_pool \in [Tag -> Nat] /\ w.all \in [Tag -> 0..tag_max]
      /\ IsFiniteSet(Waiting(w)) /\ w.pool \cap ToSet(w.queue) = {}
      /\ \A i, j \in DOMAIN w.queue : w.queue[i] = w.queue[j] => i = j
      /\ w.fill # NotFilled => Cardinality(w.pool) >= min_clients
  BY PoolFacts
<1>2. \A g \in Tag : /\ w.in_pool[g] = Cardinality(WithTag(w.pool, g)) /\ w.in_pool[g] <= maxsimul[g]
                     /\ w.all[g] = Cardinality(WithTag(Waiting(w), g))
                     /\ w.in_pool[g] \in Nat /\ w.all[g] \in 0..tag_max
  BY <1>1 DEF PoolInv
<1> DEFINE a == count(w.all, c, 1)
           u == [w EXCEPT !.all = a]
<1>3. /\ a \in [Tag -> 0..tag_max]
      /\ \A g \in Tag : a[g] = Cardinality(WithTag(Waiting(w) \cup {c}, g))
  <2> DEFINE f(g) == IF g \in TagsOf[c] THEN w.all[g] + 1 ELSE w.all[g]
  <2>1. ASSUME NEW g \in Tag PROVE f(g) \in 0..tag_max /\ f(g) = Cardinality(WithTag(Waiting(w) \cup {c}, g))
    <3>1. Cardinality(WithTag(Waiting(w) \cup {c}, g)) =
             IF g \in TagsOf[c] THEN Cardinality(WithTag(Waiting(w), g)) + 1 ELSE Cardinality(WithTag(Waiting(w), g))
      BY <1>1, TagsAdded
    <3>2. g \in TagsOf[c] => w.all[g] < tag_max
      BY DEF check_add
    <3>3. QED
      BY <1>2, <3>1, <3>2, Limits
  <2>2. \A g \in Tag : (IF g \in TagsOf[c] THEN w.all[g] + 1 ELSE w.all[g]) \in 0..tag_max
    BY <2>1
  <2>3. /\ count(w.all, c, 1) \in [Tag -> 0..tag_max]
        /\ \A g \in Tag : count(w.all, c, 1)[g] = IF g \in TagsOf[c] THEN w.all[g] + 1 ELSE w.all[g]
    BY <2>2, Zenon DEF count
  <2>4. QED
    BY <2>1, <2>3
<1> HIDE DEF a
<1>4. /\ u.pool = w.pool /\ u.queue = w.queue /\ u.fill = w.fill /\ u.in_pool = w.in_pool /\ u.all = a
      /\ u \in Pool
  BY <1>1, <1>3 DEF Pool
<1>5. add(w, c) = IF Blocked(w, c) THEN [u EXCEPT !.queue = Append(u.queue, c)] ELSE add_pool(u, c)
  BY DEF add, a
<1> HIDE DEF u
<1>6. c \notin w.pool /\ c \notin ToSet(w.queue) /\ c \in Client
  BY DEF Waiting
<1>7. IsFiniteSet(Waiting(w) \cup {c})
  BY <1>1, FS_AddElement
<1>8. CASE Blocked(w, c)
  <2> DEFINE v == [u EXCEPT !.queue = Append(u.queue, c)]
             r == Append(w.queue, c)
  <2>1. /\ r \in Seq(Client) /\ ToSet(r) = ToSet(w.queue) \cup {c}
        /\ \A i, j \in DOMAIN r : r[i] = r[j] => i = j
    BY <1>1, <1>6, Queued
  <2>2. /\ v.pool = w.pool /\ v.queue = r /\ v.fill = w.fill /\ v.in_pool = w.in_pool /\ v.all = a
        /\ v \in Pool
    BY <1>4, <2>1 DEF Pool
  <2>3. add(w, c) = v
    BY <1>5, <1>8
  <2> HIDE DEF v, r
  <2>4. Waiting(v) = Waiting(w) \cup {c}
    BY <2>1, <2>2 DEF Waiting
  <2>5. v.pool \cap ToSet(v.queue) = {}
    BY <1>1, <1>6, <2>1, <2>2
  <2>6. \A g \in Tag : v.all[g] = Cardinality(WithTag(Waiting(v), g))
    BY <1>3, <2>2, <2>4
  <2>7. PoolInv(v)
    BY <1>1, <1>2, <1>7, <2>1, <2>2, <2>4, <2>5, <2>6 DEF PoolInv
  <2>8. Blocked(v, c)
    BY <1>8, <2>2 DEF Blocked
  <2>9. \A g \in Tag : v.in_pool[g] >= w.in_pool[g]
    BY <1>2, <2>2
  <2>10. QED
    BY <2>1, <2>2, <2>3, <2>4, <2>7, <2>8, <2>9
<1>9. CASE ~Blocked(w, c)
  <2> DEFINE v == add_pool(u, c)
             o == add_pool(w, c)
  <2>1. /\ o \in Pool /\ o.pool = w.pool \cup {c} /\ o.queue = w.queue /\ o.all = w.all
        /\ \A g \in Tag : /\ o.in_pool[g] = Cardinality(WithTag(o.pool, g)) /\ o.in_pool[g] <= maxsimul[g]
                          /\ o.in_pool[g] >= w.in_pool[g]
        /\ o.fill # NotFilled => Cardinality(o.pool) >= min_clients
        /\ w.fill # NotFilled => o.fill # NotFilled
    BY <1>6, <1>9, AddPool
  <2>2. v.pool = o.pool /\ v.queue = o.queue /\ v.in_pool = o.in_pool /\ v.fill = o.fill /\ v.all = a
    BY <1>1, <1>4 DEF add_pool, Pool
  <2>3. v = [o EXCEPT !.all = a]
    BY <1>1, <1>4 DEF add_pool, Pool, u
  <2>4. add(w, c) = v
    BY <1>5, <1>9
  <2> HIDE DEF v, o
  <2>5. v \in Pool
    BY <1>3, <2>1, <2>3 DEF Pool
  <2>6. Waiting(v) = Waiting(w) \cup {c}
    BY <2>1, <2>2 DEF Waiting
  <2>7. v.pool \cap ToSet(v.queue) = {}
    BY <1>1, <1>6, <2>1, <2>2
  <2>8. \A g \in Tag : v.all[g] = Cardinality(WithTag(Waiting(v), g))
    BY <1>3, <2>2, <2>6
  <2>9. PoolInv(v)
    BY <1>1, <1>7, <2>1, <2>2, <2>5, <2>6, <2>7, <2>8, ZenonT(60) DEF PoolInv
  <2>10. QED
    BY <2>1, <2>2, <2>4, <2>6, <2>9
<1>10. QED
  BY <1>8, <1>9

-----------------------------------------------------------------------------
(* The loops over clients.                                                 *)

\* A loop of n rounds in which round m, F[m], takes a value of G[m - 1] to one of G[m].
Rounds(n, G, F, w) == w \in G[0] /\ \A m \in 1..n : \A v \in G[m - 1] : F[m][v] \in G[m]

\* Its values, from w on.
Runs(n, G, F, w) ==
    {g \in [0..n -> UNION {G[m] : m \in 0..n}] :
        g[0] = w /\ (\A m \in 0..n : g[m] \in G[m]) /\ \A m \in 1..n : g[m] = F[m][g[m - 1]]}

\* Such a loop has values.
LEMMA LoopRuns ==
    ASSUME NEW n \in Nat, NEW G, NEW F, NEW w, Rounds(n, G, F, w)
    PROVE  Runs(n, G, F, w) # {}
<1> DEFINE U == UNION {G[m] : m \in 0..n}
           Run(k) == {g \in [0..k -> U] : /\ g[0] = w
                                          /\ \A m \in 0..k : g[m] \in G[m]
                                          /\ \A m \in 1..k : g[m] = F[m][g[m - 1]]}
           X == {k \in Nat : k <= n => Run(k) # {}}
<1> USE DEF Rounds
<1>1. 0 \in X
  <2> DEFINE g == [m \in 0..0 |-> w]
  <2>1. g \in Run(0)
    OBVIOUS
  <2>2. QED
    BY <2>1
<1>2. ASSUME NEW k \in Nat, k \in X PROVE k + 1 \in X
  <2> SUFFICES ASSUME k + 1 <= n PROVE Run(k + 1) # {}
    OBVIOUS
  <2>1. PICK g \in Run(k) : TRUE
    BY <1>2
  <2> DEFINE x == F[k + 1][g[k]]
             q == [m \in 0..(k + 1) |-> IF m = k + 1 THEN x ELSE g[m]]
  <2>2. x \in G[k + 1]
    <3>1. k + 1 \in 1..n /\ (k + 1) - 1 = k /\ k \in 0..k
      OBVIOUS
    <3>2. g[k] \in G[k]
      BY <2>1, <3>1
    <3>3. QED
      BY <3>1, <3>2
  <2>3. x \in U
    BY <2>2
  <2>4. \A m \in 0..(k + 1) : m = k + 1 \/ m \in 0..k
    OBVIOUS
  <2>5. \A m \in 0..k : g[m] \in U /\ g[m] \in G[m]
    BY <2>1
  <2> HIDE DEF U, x
  <2>6. q \in [0..(k + 1) -> U]
    BY <2>3, <2>4, <2>5
  <2>7. q[0] = w /\ \A m \in 0..(k + 1) : q[m] \in G[m]
    BY <2>1, <2>2, <2>4, <2>5
  <2>8. \A m \in 1..(k + 1) : q[m] = F[m][q[m - 1]]
    <3> SUFFICES ASSUME NEW m \in 1..(k + 1) PROVE q[m] = F[m][q[m - 1]]
      OBVIOUS
    <3>1. CASE m = k + 1
      <4>1. m - 1 = k /\ k \in 0..(k + 1) /\ k # k + 1 /\ k + 1 \in 0..(k + 1)
        BY <3>1
      <4>2. q[m - 1] = g[k] /\ q[m] = x
        BY <3>1, <4>1
      <4>3. QED
        BY <3>1, <4>2 DEF x
    <3>2. CASE m # k + 1
      <4>1. m \in 1..k /\ m \in 0..(k + 1) /\ m - 1 \in 0..(k + 1) /\ m - 1 # k + 1
        BY <3>2
      <4>2. q[m] = g[m] /\ q[m - 1] = g[m - 1]
        BY <3>2, <4>1
      <4>3. QED
        BY <2>1, <4>1, <4>2
    <3>3. QED
      BY <3>1, <3>2
  <2>9. QED
    BY <2>6, <2>7, <2>8
<1>3. n \in X
  <2> HIDE DEF X
  <2>1. Nat \subseteq X
    BY <1>1, <1>2, SetInduction
  <2>2. QED
    BY <2>1
<1>4. PICK g \in Run(n) : TRUE
  BY <1>3
<1>5. QED
  BY <1>4 DEF Runs

\* Two loops that do the same in every round.
LEMMA LoopsAgree ==
    ASSUME NEW n \in Nat, NEW f, NEW g, f[0] = g[0], \A m \in 1..n : f[m - 1] = g[m - 1] => f[m] = g[m]
    PROVE  f[n] = g[n]
<1> DEFINE X == {k \in Nat : k <= n => f[k] = g[k]}
<1>1. 0 \in X
  OBVIOUS
<1>2. ASSUME NEW k \in Nat, k \in X PROVE k + 1 \in X
  <2> SUFFICES ASSUME k + 1 <= n PROVE f[k + 1] = g[k + 1]
    OBVIOUS
  <2>1. k + 1 \in 1..n /\ (k + 1) - 1 = k /\ f[k] = g[k]
    BY <1>2
  <2>2. QED
    BY <2>1
<1>3. n \in X
  <2> HIDE DEF X
  <2>1. Nat \subseteq X
    BY <1>1, <1>2, SetInduction
  <2>2. QED
    BY <2>1
<1>4. QED
  BY <1>3

\* The clients of a list leave.
LEMMA RemovedKeeps ==
    ASSUME NEW w, PoolInv(w), NEW cs \in Seq(Client)
    PROVE  PoolInv(removed(w, cs)) /\ Waiting(removed(w, cs)) \subseteq Waiting(w)
<1> DEFINE n == Len(cs)
           K == {v \in Pool : PoolInv(v) /\ Waiting(v) \subseteq Waiting(w)}
           G == [m \in 0..n |-> K]
           F == [m \in 1..n |-> [v \in Pool |-> remove(v, cs[m])]]
<1>1. n \in Nat /\ \A m \in 1..n : cs[m] \in Client
  BY LenProperties, ElementOfSeq
<1> HIDE DEF n
<1>2. w \in K
  BY PoolFacts
<1>3. ASSUME NEW m \in 1..n, NEW v \in K PROVE v \in Pool /\ remove(v, cs[m]) \in K
  <2>1. PoolInv(remove(v, cs[m])) /\ Waiting(remove(v, cs[m])) \subseteq Waiting(v)
    BY <1>1, RemoveOne
  <2>2. remove(v, cs[m]) \in Pool
    BY <2>1, PoolFacts
  <2>3. QED
    BY <2>1, <2>2
<1> HIDE DEF K
<1>4. Rounds(n, G, F, w)
  <2>1. \A m \in 1..n : m \in 0..n /\ m - 1 \in 0..n
    BY <1>1
  <2>2. 0 \in 0..n
    BY <1>1
  <2>3. QED
    BY <1>2, <1>3, <2>1, <2>2 DEF Rounds
<1>5. PICK g \in Runs(n, G, F, w) : TRUE
  <2> HIDE DEF G, F
  <2>1. QED
    BY <1>1, <1>4, LoopRuns
<1>6. g[0] = w /\ \A m \in 0..n : g[m] \in K
  BY <1>5 DEF Runs
<1>7. \A m \in 1..n : g[m] = remove(g[m - 1], cs[m])
  <2>1. \A m \in 1..n : m - 1 \in 0..n
    BY <1>1
  <2>2. QED
    BY <1>3, <1>5, <1>6, <2>1 DEF Runs
<1> DEFINE upto[m \in 0..n] == IF m = 0 THEN w ELSE remove(upto[m - 1], cs[m])
<1>8. g = [m \in 0..n |-> IF m = 0 THEN w ELSE remove(g[m - 1], cs[m])]
  <2>1. \A m \in 0..n : m = 0 \/ m \in 1..n
    BY <1>1
  <2>2. QED
    BY <1>5, <1>6, <1>7, <2>1 DEF Runs
<1>9. upto = [m \in 0..n |-> IF m = 0 THEN w ELSE remove(upto[m - 1], cs[m])]
  BY <1>8, Zenon DEF upto
<1>10. removed(w, cs) = upto[n]
  BY DEF removed, n
<1> HIDE DEF upto
<1>11. upto[0] = g[0] /\ \A m \in 1..n : upto[m - 1] = g[m - 1] => upto[m] = g[m]
  <2>1. 0 \in 0..n /\ \A m \in 1..n : m # 0 /\ m \in 0..n
    BY <1>1
  <2>2. upto[0] = w /\ \A m \in 1..n : upto[m] = remove(upto[m - 1], cs[m])
    BY <1>9, <2>1
  <2>3. QED
    BY <1>6, <1>7, <2>2
<1>12. upto[n] = g[n]
  BY <1>1, <1>11, LoopsAgree
<1>13. g[n] \in K
  BY <1>1, <1>6
<1>14. QED
  BY <1>10, <1>12, <1>13 DEF K

\* The queue moves up: whoever is left in it is blocked.
LEMMA MovedKeeps ==
    ASSUME NEW w, PoolInv(w)
    PROVE  LET v == try_move_from_queue(w)
           IN  /\ PoolInv(v) /\ Waiting(v) = Waiting(w) /\ \A c \in ToSet(v.queue) : Blocked(v, c)
               /\ w.fill # NotFilled => v.fill # NotFilled
<1> DEFINE q == w.queue
           n == Len(q)
           K(m) == {v \in Pool : /\ PoolInv(v) /\ Waiting(v) = Waiting(w) /\ ToSet(v.queue) \subseteq ToSet(q)
                                 /\ \A i \in 1..n : i > m => q[i] \in ToSet(v.queue)
                                 /\ \A i \in 1..m : q[i] \in ToSet(v.queue) => Blocked(v, q[i])
                                 /\ w.fill # NotFilled => v.fill # NotFilled}
           G == [m \in 0..n |-> K(m)]
           F == [m \in 1..n |-> [v \in Pool |-> move_one(v, q[m])]]
<1>1. /\ n \in Nat /\ w \in Pool /\ \A i \in 1..n : q[i] \in ToSet(q) /\ q[i] \in Client
      /\ \A i, j \in 1..n : q[i] = q[j] => i = j
      /\ \A c \in ToSet(q) : \E i \in 1..n : c = q[i]
  <2>1. q \in Seq(Client) /\ \A i, j \in DOMAIN q : q[i] = q[j] => i = j
    BY PoolFacts
  <2>2. n \in Nat /\ DOMAIN q = 1..n /\ \A i \in 1..n : q[i] \in Client
    BY <2>1, LenProperties, ElementOfSeq
  <2>3. w \in Pool
    BY PoolFacts
  <2>4. QED
    BY <2>1, <2>2, <2>3 DEF ToSet
<1> HIDE DEF n, q
<1>2. w \in K(0)
  <2>1. 1..0 = {}
    OBVIOUS
  <2>2. QED
    BY <1>1, <2>1 DEF q
<1>3. ASSUME NEW m \in 1..n, NEW v \in K(m - 1) PROVE v \in Pool /\ move_one(v, q[m]) \in K(m)
  <2> DEFINE u == move_one(v, q[m])
  <2>1. /\ m - 1 \in Int /\ m > m - 1 /\ m \in Int
        /\ \A i \in 1..n : i > m => i > m - 1 /\ i # m
        /\ \A i \in 1..m : i = m \/ i \in 1..(m - 1)
        /\ \A i \in 1..m : i \in 1..n
    BY <1>1
  <2>2. PoolInv(v) /\ q[m] \in ToSet(v.queue)
    BY <2>1
  <2>3. /\ PoolInv(u) /\ Waiting(u) = Waiting(v)
        /\ ToSet(u.queue) = IF Blocked(v, q[m]) THEN ToSet(v.queue) ELSE ToSet(v.queue) \ {q[m]}
        /\ \A g \in Tag : u.in_pool[g] >= v.in_pool[g]
        /\ v.fill # NotFilled => u.fill # NotFilled
    BY <2>2, MoveOne
  <2>4. u \in Pool
    BY <2>3, PoolFacts
  <2> HIDE DEF u
  <2>5. \A i \in 1..n : Blocked(v, q[i]) => Blocked(u, q[i])
    BY <1>1, <2>2, <2>3, BlockedStays
  <2>6. \A i \in 1..n : i > m => q[i] \in ToSet(u.queue)
    BY <1>1, <2>1, <2>3
  <2>7. \A i \in 1..m : q[i] \in ToSet(u.queue) => Blocked(u, q[i])
    <3> SUFFICES ASSUME NEW i \in 1..m, q[i] \in ToSet(u.queue) PROVE Blocked(u, q[i])
      OBVIOUS
    <3>1. CASE i = m
      BY <2>1, <2>3, <2>5, <3>1
    <3>2. CASE i \in 1..(m - 1)
      BY <2>1, <2>3, <2>5, <3>2
    <3>3. QED
      BY <2>1, <3>1, <3>2
  <2>8. Waiting(u) = Waiting(w) /\ ToSet(u.queue) \subseteq ToSet(q) /\ (w.fill # NotFilled => u.fill # NotFilled)
    BY <2>3
  <2>9. u \in K(m)
    BY <2>3, <2>4, <2>6, <2>7, <2>8
  <2>10. QED
    BY <2>9 DEF u
<1> HIDE DEF K
<1>4. Rounds(n, G, F, w)
  <2>1. \A m \in 1..n : m \in 0..n /\ m - 1 \in 0..n
    BY <1>1
  <2>2. 0 \in 0..n
    BY <1>1
  <2>3. QED
    BY <1>2, <1>3, <2>1, <2>2 DEF Rounds
<1>5. PICK g \in Runs(n, G, F, w) : TRUE
  <2> HIDE DEF G, F
  <2>1. QED
    BY <1>1, <1>4, LoopRuns
<1>6. g[0] = w /\ \A m \in 0..n : g[m] \in K(m)
  BY <1>5 DEF Runs
<1>7. \A m \in 1..n : g[m] = move_one(g[m - 1], q[m])
  <2>1. \A m \in 1..n : m - 1 \in 0..n
    BY <1>1
  <2>2. QED
    BY <1>3, <1>5, <1>6, <2>1 DEF Runs
<1> DEFINE upto[m \in 0..n] == IF m = 0 THEN w ELSE move_one(upto[m - 1], q[m])
<1>8. g = [m \in 0..n |-> IF m = 0 THEN w ELSE move_one(g[m - 1], q[m])]
  <2>1. \A m \in 0..n : m = 0 \/ m \in 1..n
    BY <1>1
  <2>2. QED
    BY <1>5, <1>6, <1>7, <2>1 DEF Runs
<1>9. upto = [m \in 0..n |-> IF m = 0 THEN w ELSE move_one(upto[m - 1], q[m])]
  BY <1>8, Zenon DEF upto
<1>10. try_move_from_queue(w) = upto[n]
  BY DEF try_move_from_queue, n, q
<1> HIDE DEF upto
<1>11. upto[0] = g[0] /\ \A m \in 1..n : upto[m - 1] = g[m - 1] => upto[m] = g[m]
  <2>1. 0 \in 0..n /\ \A m \in 1..n : m # 0 /\ m \in 0..n
    BY <1>1
  <2>2. upto[0] = w /\ \A m \in 1..n : upto[m] = move_one(upto[m - 1], q[m])
    BY <1>9, <2>1
  <2>3. QED
    BY <1>6, <1>7, <2>2
<1>12. upto[n] = g[n]
  BY <1>1, <1>11, LoopsAgree
<1>13. g[n] \in K(n)
  BY <1>1, <1>6
<1>14. \A c \in ToSet(g[n].queue) : Blocked(g[n], c)
  <2>1. ToSet(g[n].queue) \subseteq ToSet(q) /\ \A i \in 1..n : q[i] \in ToSet(g[n].queue) => Blocked(g[n], q[i])
    BY <1>13 DEF K
  <2>2. QED
    BY <1>1, <2>1
<1>15. QED
  BY <1>10, <1>12, <1>13, <1>14 DEF K

\* All clients of a set, as a list.
LEMMA SetAsList ==
    ASSUME NEW S \in SUBSET Client, IsFiniteSet(S)
    PROVE  SetToSeq(S) \in Seq(Client)
<1>1. Cardinality(S) \in Nat /\ ExistsBijection(1..Cardinality(S), S)
  BY FS_CardinalityType
<1>2. \E f \in [1..Cardinality(S) -> S] : IsInjective(f)
  BY <1>1 DEF ExistsBijection, Bijection, Injection
<1>3. SetToSeq(S) \in [1..Cardinality(S) -> S]
  BY <1>2, Zenon DEF SetToSeq
<1>4. \A f \in [1..Cardinality(S) -> S] : f \in Seq(Client)
  BY <1>1
<1>5. QED
  BY <1>3, <1>4

\* A pool between two steps of the server: nobody waits in vain.
Settled(w) == PoolInv(w) /\ \A c \in ToSet(w.queue) : Blocked(w, c)

\* Clients leave, and the queue moves up.
LEMMA WithoutKeeps ==
    ASSUME NEW w, PoolInv(w), NEW cs \in Seq(Client)
    PROVE  Settled(without(w, cs)) /\ Waiting(without(w, cs)) \subseteq Waiting(w)
<1> DEFINE u == removed(w, cs)
<1>1. PoolInv(u) /\ Waiting(u) \subseteq Waiting(w)
  BY RemovedKeeps
<1> HIDE DEF u
<1>2. /\ PoolInv(try_move_from_queue(u)) /\ Waiting(try_move_from_queue(u)) = Waiting(u)
      /\ \A c \in ToSet(try_move_from_queue(u).queue) : Blocked(try_move_from_queue(u), c)
  BY <1>1, MovedKeeps
<1>3. without(w, cs) = try_move_from_queue(u)
  BY DEF without, u
<1>4. QED
  BY <1>1, <1>2, <1>3 DEF Settled

-----------------------------------------------------------------------------
(* The server.                                                             *)

\* The variables of the server other than its pools.
ServerType ==
    /\ tier_best \in Tier \cup {NoTier} /\ best_wait \in Nat
    /\ last_fuse \in 0..start_time_spacing
    /\ lock \in Client \cup {Nobody} /\ todo \subseteq Tier
    /\ tiers \in [Client -> SUBSET Tier]
    /\ state \in [Client -> {"new", "joining", "waiting", "refused", "returned"}]
    /\ start_ev \subseteq Client

\* The favoured tier is marked as filled.
BestIsMarked == tier_best # NoTier => waiting_pools[tier_best].fill # NotFilled

\* The client that holds the lock fits in the pools it has to join.
LockFits ==
    lock # Nobody => /\ state[lock] = "joining"
                     /\ \A t \in todo : /\ lock \notin Waiting(waiting_pools[t])
                                       /\ check_add(waiting_pools[t], lock)

\* Who waits has asked for it.
NoneIsNew == \A t \in Tier : \A c \in Waiting(waiting_pools[t]) : state[c] # "new"

\* The parts of the invariant.
LEMMA Parts ==
    ASSUME PoolsInv
    PROVE  /\ waiting_pools \in [Tier -> Pool] /\ \A t \in Tier : Settled(waiting_pools[t])
           /\ ServerType /\ BestIsMarked /\ LockFits /\ NoneIsNew
<1>1. /\ TypeOK /\ QueueIsBlocked /\ (\A t \in Tier : PoolInv(waiting_pools[t]))
      /\ BestIsMarked /\ LockFits /\ NoneIsNew
  BY DEF PoolsInv, BestIsMarked, LockFits, NoneIsNew
<1>2. waiting_pools \in [Tier -> Pool] /\ ServerType
  BY <1>1 DEF TypeOK, ServerType
<1>3. \A t \in Tier : Settled(waiting_pools[t])
  BY <1>1 DEF QueueIsBlocked, Settled
<1>4. QED
  BY <1>1, <1>2, <1>3

\* The parts make the invariant.
LEMMA Whole ==
    ASSUME waiting_pools \in [Tier -> Pool], \A t \in Tier : Settled(waiting_pools[t]),
           ServerType, BestIsMarked, LockFits, NoneIsNew
    PROVE  PoolsInv
<1>1. \A t \in Tier : PoolInv(waiting_pools[t])
  BY DEF Settled
<1>2. QueueIsBlocked
  BY DEF Settled, QueueIsBlocked
<1>3. \A t \in Tier : /\ waiting_pools[t].pool \cap ToSet(waiting_pools[t].queue) = {}
                      /\ \A g \in Tag : waiting_pools[t].in_pool[g] <= maxsimul[g]
  BY <1>1 DEF PoolInv
<1>4. TypeOK
  BY <1>3 DEF TypeOK, ServerType
<1>5. QED
  BY <1>1, <1>2, <1>4 DEF PoolsInv, BestIsMarked, LockFits, NoneIsNew

\* The same, after a step.
LEMMA WholeNext ==
    ASSUME waiting_pools' \in [Tier -> Pool], \A t \in Tier : Settled(waiting_pools'[t]),
           ServerType', BestIsMarked', LockFits', NoneIsNew'
    PROVE  PoolsInv'
<1>1. \A t \in Tier : PoolInv(waiting_pools'[t])
  BY DEF Settled
<1>2. QueueIsBlocked'
  BY DEF Settled, QueueIsBlocked
<1>3. \A t \in Tier : /\ waiting_pools'[t].pool \cap ToSet(waiting_pools'[t].queue) = {}
                      /\ \A g \in Tag : waiting_pools'[t].in_pool[g] <= maxsimul[g]
  BY <1>1 DEF PoolInv
<1>4. TypeOK'
  BY <1>3 DEF TypeOK, ServerType
<1>5. QED
  BY <1>1, <1>2, <1>4 DEF PoolsInv, BestIsMarked, LockFits, NoneIsNew

\* reset_timer favours a tier that is marked as filled, or none.
LEMMA ResetTimer ==
    ASSUME NEW pools \in [Tier -> Pool], NEW last \in Nat, reset_timer(pools, last)
    PROVE  /\ tier_best' \in Tier \cup {NoTier} /\ best_wait' \in Nat
           /\ tier_best' # NoTier => pools[tier_best'].fill # NotFilled
<1>1. CASE Favoured(pools) = {}
  BY <1>1 DEF reset_timer
<1>2. CASE Favoured(pools) # {}
  <2>1. PICK t \in Favoured(pools) :
           /\ tier_best' = t
           /\ best_wait' = Larger(0, Larger(start_time_min - pools[t].fill, start_time_spacing - last))
    BY <1>2 DEF reset_timer
  <2>2. t \in Tier /\ pools[t].fill # NotFilled
    BY DEF Favoured
  <2>3. pools[t].fill \in Int
    <3>1. pools[t] \in Pool
      BY <2>2
    <3>2. pools[t].fill \in NotFilled..start_time_max
      BY <3>1 DEF Pool
    <3>3. QED
      BY <3>2, Limits
  <2>4. start_time_min - pools[t].fill \in Int /\ start_time_spacing - last \in Int
    <3>1. start_time_min \in Int /\ start_time_spacing \in Int
      BY PoolsAssumption
    <3>2. QED
      BY <2>3, <3>1
  <2>5. \A a, b \in Int : Larger(0, Larger(a, b)) \in Nat
    BY DEF Larger
  <2>6. best_wait' \in Nat
    BY <2>1, <2>4, <2>5, Zenon
  <2>7. QED
    BY <2>1, <2>2, <2>6
<1>3. QED
  BY <1>1, <1>2

\* A fusion starts: its clients leave all pools, and the favoured tier is
\* chosen anew.
LEMMA StartFuse ==
    ASSUME NEW pools \in [Tier -> Pool], \A u \in Tier : PoolInv(pools[u]), NEW t \in Tier,
           start_ev \subseteq Client, start_fuse(t, pools)
    PROVE  /\ waiting_pools' \in [Tier -> Pool]
           /\ \A u \in Tier : Settled(waiting_pools'[u]) /\ Waiting(waiting_pools'[u]) \subseteq Waiting(pools[u])
           /\ tier_best' \in Tier \cup {NoTier} /\ best_wait' \in Nat /\ BestIsMarked'
           /\ last_fuse' = 0 /\ start_ev' \subseteq Client
<1> DEFINE chosen == SetToSeq(pools[t].pool)
           rest == [u \in Tier |-> without(pools[u], chosen)]
<1>1. waiting_pools' = rest /\ last_fuse' = 0 /\ reset_timer(rest, 0) /\ start_ev' = start_ev \cup pools[t].pool
  BY DEF start_fuse
<1>2. pools[t].pool \in SUBSET Client /\ IsFiniteSet(pools[t].pool)
  BY PoolFacts
<1>3. chosen \in Seq(Client)
  BY <1>2, SetAsList
<1> HIDE DEF chosen
<1>4. \A u \in Tier : Settled(rest[u]) /\ Waiting(rest[u]) \subseteq Waiting(pools[u])
  BY <1>3, WithoutKeeps
<1>5. \A u \in Tier : rest[u] \in Pool
  BY <1>4, PoolFacts DEF Settled
<1>6. rest \in [Tier -> Pool]
  BY <1>5
<1> HIDE DEF rest
<1>7. /\ tier_best' \in Tier \cup {NoTier} /\ best_wait' \in Nat
      /\ tier_best' # NoTier => rest[tier_best'].fill # NotFilled
  BY <1>1, <1>6, ResetTimer
<1>8. QED
  BY <1>1, <1>2, <1>4, <1>6, <1>7 DEF BestIsMarked

\* A fusion that starts while nobody holds the lock keeps the invariant.
LEMMA StartKeeps ==
    ASSUME PoolsInv, NEW pools \in [Tier -> Pool], \A u \in Tier : PoolInv(pools[u]), NEW t \in Tier,
           start_fuse(t, pools), lock' = Nobody, todo' \subseteq Tier, tiers' = tiers,
           state' \in [Client -> {"new", "joining", "waiting", "refused", "returned"}],
           \A u \in Tier : \A d \in Waiting(pools[u]) : state'[d] # "new"
    PROVE  PoolsInv'
<1>1. ServerType
  BY Parts
<1>2. /\ waiting_pools' \in [Tier -> Pool]
      /\ \A u \in Tier : Settled(waiting_pools'[u]) /\ Waiting(waiting_pools'[u]) \subseteq Waiting(pools[u])
      /\ tier_best' \in Tier \cup {NoTier} /\ best_wait' \in Nat /\ BestIsMarked'
      /\ last_fuse' = 0 /\ start_ev' \subseteq Client
  BY <1>1, StartFuse DEF ServerType
<1>3. ServerType'
  BY <1>1, <1>2, PoolsAssumption DEF ServerType
<1>4. LockFits'
  BY DEF LockFits
<1>5. NoneIsNew'
  BY <1>2 DEF NoneIsNew
<1>6. QED
  BY <1>2, <1>3, <1>4, <1>5, WholeNext

-----------------------------------------------------------------------------
(* The invariant.                                                          *)

\* The invariant holds at the start: all pools are empty.
LEMMA InitPools == Init => PoolsInv
<1> SUFFICES ASSUME Init PROVE PoolsInv
  OBVIOUS
<1> DEFINE w == EmptyPool
<1>1. \A t \in Tier : waiting_pools[t] = w
  BY DEF Init
<1>2. w.pool = {} /\ w.queue = <<>> /\ w.fill = NotFilled /\ w.in_pool = [g \in Tag |-> 0] /\ w.all = [g \in Tag |-> 0]
  BY DEF EmptyPool
<1>3. w \in Pool
  <2> DEFINE z == [g \in Tag |-> 0]
             e == <<>>
  <2>1. z \in [Tag -> Nat] /\ z \in [Tag -> 0..tag_max]
    BY Limits
  <2>2. e \in Seq(Client)
    OBVIOUS
  <2>3. w = [pool |-> {}, queue |-> e, fill |-> NotFilled, in_pool |-> z, all |-> z]
    BY DEF EmptyPool
  <2> HIDE DEF z, e, w
  <2>4. QED
    BY <2>1, <2>2, <2>3, Limits DEF Pool
<1> HIDE DEF w
<1>4. ToSet(w.queue) = {} /\ Waiting(w) = {}
  BY <1>2 DEF ToSet, Waiting
<1>5. \A g \in Tag : /\ Cardinality(WithTag(w.pool, g)) = 0 /\ Cardinality(WithTag(Waiting(w), g)) = 0
                     /\ w.in_pool[g] = 0 /\ w.all[g] = 0 /\ w.in_pool[g] <= maxsimul[g]
  <2>1. \A g \in Tag : WithTag(w.pool, g) = {} /\ WithTag(Waiting(w), g) = {}
    BY <1>2, <1>4 DEF WithTag
  <2>2. Cardinality(w.pool) = 0 /\ Cardinality({}) = 0
    BY <1>2, FS_EmptySet
  <2>3. \A g \in Tag : w.in_pool[g] = 0 /\ w.all[g] = 0 /\ 0 <= maxsimul[g]
    BY <1>2, Limits
  <2>4. QED
    BY <2>1, <2>2, <2>3
<1>6. IsFiniteSet(Waiting(w)) /\ \A i, j \in DOMAIN w.queue : w.queue[i] = w.queue[j] => i = j
  BY <1>2, <1>4, FS_EmptySet
<1>7. Settled(w)
  BY <1>2, <1>3, <1>4, <1>5, <1>6 DEF Settled, PoolInv
<1>8. waiting_pools \in [Tier -> Pool]
  BY <1>1, <1>3 DEF Init
<1>9. ServerType
  BY PoolsAssumption DEF Init, ServerType
<1>10. BestIsMarked /\ LockFits
  BY DEF Init, BestIsMarked, LockFits
<1>11. NoneIsNew
  BY <1>1, <1>4 DEF NoneIsNew
<1>12. QED
  BY <1>1, <1>7, <1>8, <1>9, <1>10, <1>11, Whole

\* A client that takes the lock is in no pool yet and fits in those it chose.
LEMMA JoinKeeps ==
    ASSUME PoolsInv, NEW c \in Client, NEW ts \in TierSets, Join(c, ts)
    PROVE  PoolsInv'
<1>1. /\ waiting_pools \in [Tier -> Pool] /\ \A t \in Tier : Settled(waiting_pools[t])
      /\ ServerType /\ BestIsMarked /\ LockFits /\ NoneIsNew
  BY Parts
<1>2. /\ lock = Nobody /\ state[c] = "new" /\ tiers' = [tiers EXCEPT ![c] = ts]
      /\ waiting_pools' = waiting_pools /\ tier_best' = tier_best /\ best_wait' = best_wait
      /\ last_fuse' = last_fuse /\ start_ev' = start_ev
  BY DEF Join
<1>3. \/ /\ \A t \in ts : check_add(waiting_pools[t], c)
         /\ lock' = c /\ todo' = ts /\ state' = [state EXCEPT ![c] = "joining"]
      \/ lock' = Nobody /\ todo' = todo /\ state' = [state EXCEPT ![c] = "refused"]
  BY DEF Join
<1>4. ts \subseteq Tier
  BY PoolsAssumption
<1>5. /\ state' \in [Client -> {"new", "joining", "waiting", "refused", "returned"}]
      /\ \A d \in Client : state'[d] = state[d] \/ (d = c /\ state'[d] # "new")
  BY <1>1, <1>3 DEF ServerType
<1>6. ServerType'
  BY <1>1, <1>2, <1>3, <1>4, <1>5 DEF ServerType
<1>7. BestIsMarked'
  BY <1>1, <1>2 DEF BestIsMarked
<1>8. NoneIsNew'
  <2>1. \A t \in Tier : Waiting(waiting_pools[t]) \subseteq Client
    BY <1>1, PoolFacts DEF Settled, Waiting
  <2>2. QED
    BY <1>1, <1>2, <1>5, <2>1 DEF NoneIsNew
<1>9. \A t \in Tier : c \notin Waiting(waiting_pools[t])
  BY <1>1, <1>2 DEF NoneIsNew
<1>10. LockFits'
  <2>1. CASE lock' = Nobody
    BY <2>1 DEF LockFits
  <2>2. CASE lock' # Nobody
    <3>1. /\ \A t \in ts : check_add(waiting_pools[t], c)
          /\ lock' = c /\ todo' = ts /\ state' = [state EXCEPT ![c] = "joining"]
      BY <1>3, <2>2
    <3>2. state'[c] = "joining"
      BY <1>1, <3>1 DEF ServerType
    <3>3. QED
      BY <1>2, <1>4, <1>9, <3>1, <3>2 DEF LockFits
  <2>3. QED
    BY <2>1, <2>2
<1>11. QED
  BY <1>1, <1>2, <1>6, <1>7, <1>8, <1>10, WholeNext

\* The client is added to one pool, and may start it.
LEMMA AddToKeeps ==
    ASSUME PoolsInv, NEW c \in Client, NEW t \in Tier, AddTo(c, t)
    PROVE  PoolsInv'
<1> DEFINE w == waiting_pools[t]
           v == add(w, c)
           pools == [waiting_pools EXCEPT ![t] = v]
<1>1. /\ waiting_pools \in [Tier -> Pool] /\ \A u \in Tier : Settled(waiting_pools[u])
      /\ ServerType /\ BestIsMarked /\ LockFits /\ NoneIsNew
  BY Parts
<1>2. lock = c /\ t \in todo /\ tiers' = tiers
  BY DEF AddTo
<1>3. \/ /\ start_fuse(t, pools)
         /\ lock' = Nobody /\ todo' = {} /\ state' = [state EXCEPT ![c] = "returned"]
      \/ /\ waiting_pools' = pools
         /\ todo' = todo \ {t} /\ lock' = IF todo' = {} THEN Nobody ELSE c
         /\ tier_best' = tier_best /\ best_wait' = best_wait /\ last_fuse' = last_fuse
         /\ state' = state /\ start_ev' = start_ev
  BY DEF AddTo
<1>4. c # Nobody
  BY PoolsAssumption
<1>5. /\ state[c] = "joining"
      /\ \A u \in todo : c \notin Waiting(waiting_pools[u]) /\ check_add(waiting_pools[u], c)
  BY <1>1, <1>2, <1>4 DEF LockFits
<1>6. PoolInv(w) /\ \A d \in ToSet(w.queue) : Blocked(w, d)
  BY <1>1 DEF Settled
<1>7. c \in Client \ Waiting(w) /\ check_add(w, c)
  BY <1>2, <1>5
<1> HIDE DEF w
<1>8. /\ PoolInv(v) /\ Waiting(v) = Waiting(w) \cup {c}
      /\ \A d \in ToSet(v.queue) : d \in ToSet(w.queue) \/ Blocked(v, d)
      /\ \A g \in Tag : v.in_pool[g] >= w.in_pool[g]
      /\ w.fill # NotFilled => v.fill # NotFilled
  BY <1>6, <1>7, AddOne
<1> HIDE DEF v
<1>9. v \in Pool /\ ToSet(w.queue) \subseteq Client
  BY <1>6, <1>8, PoolFacts
<1>10. Settled(v)
  <2>1. \A d \in ToSet(w.queue) : Blocked(v, d)
    BY <1>6, <1>8, <1>9, BlockedStays
  <2>2. QED
    BY <1>8, <2>1 DEF Settled
<1>11. pools \in [Tier -> Pool] /\ pools[t] = v /\ \A u \in Tier \ {t} : pools[u] = waiting_pools[u]
  BY <1>1, <1>9
<1> HIDE DEF pools
<1>12. \A u \in Tier : Settled(pools[u])
  BY <1>1, <1>10, <1>11
<1>13. \A u \in Tier : \A d \in Waiting(pools[u]) : d \in Client /\ state[d] # "new"
  <2> SUFFICES ASSUME NEW u \in Tier, NEW d \in Waiting(pools[u]) PROVE d \in Client /\ state[d] # "new"
    OBVIOUS
  <2>1. Waiting(pools[u]) \subseteq Client
    BY <1>12, PoolFacts DEF Settled, Waiting
  <2>2. d = c \/ d \in Waiting(waiting_pools[u])
    BY <1>8, <1>11 DEF w
  <2>3. QED
    BY <1>1, <1>5, <2>1, <2>2 DEF NoneIsNew
<1>14. CASE /\ start_fuse(t, pools)
            /\ lock' = Nobody /\ todo' = {} /\ state' = [state EXCEPT ![c] = "returned"]
  <2>1. /\ state' \in [Client -> {"new", "joining", "waiting", "refused", "returned"}]
        /\ \A d \in Client : state'[d] = state[d] \/ state'[d] = "returned"
    BY <1>1, <1>14 DEF ServerType
  <2>2. \A u \in Tier : \A d \in Waiting(pools[u]) : state'[d] # "new"
    BY <1>13, <2>1
  <2>3. \A u \in Tier : PoolInv(pools[u])
    BY <1>12 DEF Settled
  <2>4. QED
    BY <1>2, <1>11, <1>14, <2>1, <2>2, <2>3, StartKeeps
<1>15. CASE /\ waiting_pools' = pools
            /\ todo' = todo \ {t} /\ lock' = IF todo' = {} THEN Nobody ELSE c
            /\ tier_best' = tier_best /\ best_wait' = best_wait /\ last_fuse' = last_fuse
            /\ state' = state /\ start_ev' = start_ev
  <2>1. ServerType'
    BY <1>1, <1>2, <1>15 DEF ServerType
  <2>2. BestIsMarked'
    <3>1. tier_best # NoTier => tier_best \in Tier /\ waiting_pools[tier_best].fill # NotFilled
      BY <1>1 DEF ServerType, BestIsMarked
    <3>2. tier_best # NoTier => pools[tier_best].fill # NotFilled
      BY <1>8, <1>11, <3>1 DEF w
    <3>3. QED
      BY <1>15, <3>2 DEF BestIsMarked
  <2>3. \A u \in todo \ {t} : pools[u] = waiting_pools[u]
    BY <1>1, <1>11 DEF ServerType
  <2>4. LockFits'
    BY <1>5, <1>15, <2>3 DEF LockFits
  <2>5. NoneIsNew'
    BY <1>13, <1>15 DEF NoneIsNew
  <2>6. QED
    BY <1>11, <1>12, <1>15, <2>1, <2>2, <2>4, <2>5, WholeNext
<1>16. QED
  BY <1>3, <1>14, <1>15

\* The favoured tier is chosen among the filled ones.
LEMMA JoinedKeeps ==
    ASSUME PoolsInv, NEW c \in Client, Joined(c)
    PROVE  PoolsInv'
<1>1. /\ waiting_pools \in [Tier -> Pool] /\ \A t \in Tier : Settled(waiting_pools[t])
      /\ ServerType /\ NoneIsNew
  BY Parts
<1>2. /\ lock = Nobody /\ state' = [state EXCEPT ![c] = "waiting"] /\ reset_timer(waiting_pools, last_fuse)
      /\ waiting_pools' = waiting_pools /\ last_fuse' = last_fuse /\ lock' = lock /\ todo' = todo
      /\ tiers' = tiers /\ start_ev' = start_ev
  BY DEF Joined
<1>3. last_fuse \in Nat
  BY <1>1, PoolsAssumption DEF ServerType
<1>4. /\ tier_best' \in Tier \cup {NoTier} /\ best_wait' \in Nat
      /\ tier_best' # NoTier => waiting_pools[tier_best'].fill # NotFilled
  BY <1>1, <1>2, <1>3, ResetTimer
<1>5. /\ state' \in [Client -> {"new", "joining", "waiting", "refused", "returned"}]
      /\ \A d \in Client : state'[d] = state[d] \/ state'[d] = "waiting"
  BY <1>1, <1>2 DEF ServerType
<1>6. ServerType'
  BY <1>1, <1>2, <1>4, <1>5 DEF ServerType
<1>7. BestIsMarked' /\ LockFits'
  BY <1>2, <1>4 DEF BestIsMarked, LockFits
<1>8. NoneIsNew'
  <2>1. \A t \in Tier : Waiting(waiting_pools[t]) \subseteq Client
    BY <1>1, PoolFacts DEF Settled, Waiting
  <2>2. QED
    BY <1>1, <1>2, <1>5, <2>1 DEF NoneIsNew
<1>9. QED
  BY <1>1, <1>2, <1>6, <1>7, <1>8, WholeNext

\* A waiting client sees its fusion started, or starts a due one.
LEMMA PollKeeps ==
    ASSUME PoolsInv, NEW c \in Client, Poll(c)
    PROVE  PoolsInv'
<1>1. /\ waiting_pools \in [Tier -> Pool] /\ \A t \in Tier : Settled(waiting_pools[t])
      /\ ServerType /\ BestIsMarked /\ NoneIsNew
  BY Parts
<1>2. /\ lock = Nobody /\ state' = [state EXCEPT ![c] = "returned"]
      /\ lock' = lock /\ todo' = todo /\ tiers' = tiers
  BY DEF Poll
<1>3. /\ state' \in [Client -> {"new", "joining", "waiting", "refused", "returned"}]
      /\ \A d \in Client : state'[d] = state[d] \/ state'[d] = "returned"
  BY <1>1, <1>2 DEF ServerType
<1>4. \A t \in Tier : PoolInv(waiting_pools[t])
  BY <1>1 DEF Settled
<1>5. \A t \in Tier : \A d \in Waiting(waiting_pools[t]) : state'[d] # "new"
  <2>1. \A t \in Tier : Waiting(waiting_pools[t]) \subseteq Client
    BY <1>4, PoolFacts DEF Waiting
  <2>2. QED
    BY <1>1, <1>3, <2>1 DEF NoneIsNew
<1>6. CASE c \in start_ev
  <2>1. /\ waiting_pools' = waiting_pools /\ tier_best' = tier_best /\ best_wait' = best_wait
        /\ last_fuse' = last_fuse /\ start_ev' = start_ev
    BY <1>6 DEF Poll
  <2>2. ServerType'
    BY <1>1, <1>2, <1>3, <2>1 DEF ServerType
  <2>3. BestIsMarked' /\ LockFits' /\ NoneIsNew'
    BY <1>1, <1>2, <1>5, <2>1 DEF BestIsMarked, LockFits, NoneIsNew
  <2>4. QED
    BY <1>1, <2>1, <2>2, <2>3, WholeNext
<1>7. CASE c \notin start_ev
  <2>1. PICK t \in tiers[c] : start_fuse(t, waiting_pools)
    BY <1>7 DEF Poll
  <2>2. t \in Tier /\ todo' \subseteq Tier /\ lock' = Nobody
    BY <1>1, <1>2 DEF ServerType
  <2>3. QED
    BY <1>1, <1>2, <1>3, <1>4, <1>5, <2>1, <2>2, StartKeeps
<1>8. QED
  BY <1>6, <1>7

\* A fusion is started from the daemon.
LEMMA FuseKeeps ==
    ASSUME PoolsInv, NEW t \in Tier, Fuse(t)
    PROVE  PoolsInv'
<1>1. /\ waiting_pools \in [Tier -> Pool] /\ \A u \in Tier : Settled(waiting_pools[u])
      /\ ServerType /\ NoneIsNew
  BY Parts
<1>2. /\ start_fuse(t, waiting_pools) /\ lock' = Nobody /\ todo' = todo /\ tiers' = tiers /\ state' = state
  BY DEF Fuse
<1>3. \A u \in Tier : PoolInv(waiting_pools[u])
  BY <1>1 DEF Settled
<1>4. todo' \subseteq Tier /\ state' \in [Client -> {"new", "joining", "waiting", "refused", "returned"}]
  BY <1>1, <1>2 DEF ServerType
<1>5. \A u \in Tier : \A d \in Waiting(waiting_pools[u]) : state'[d] # "new"
  BY <1>1, <1>2 DEF NoneIsNew
<1>6. QED
  BY <1>1, <1>2, <1>3, <1>4, <1>5, StartKeeps

\* A client leaves its pools, and the queues move up.
LEMMA LeavePoolsKeeps ==
    ASSUME PoolsInv, NEW c \in Client, LeavePools(c)
    PROVE  PoolsInv'
<1> DEFINE Left(w) == IF c \in w.pool \cup ToSet(w.queue) THEN without(w, <<c>>) ELSE w
           pools == [t \in Tier |-> IF t \in tiers[c] THEN Left(waiting_pools[t]) ELSE waiting_pools[t]]
<1>1. /\ waiting_pools \in [Tier -> Pool] /\ \A t \in Tier : Settled(waiting_pools[t])
      /\ ServerType /\ BestIsMarked /\ NoneIsNew
  BY Parts
<1>2. /\ lock = Nobody /\ state' = [state EXCEPT ![c] = "returned"] /\ waiting_pools' = pools
      /\ last_fuse' = last_fuse /\ lock' = lock /\ todo' = todo /\ tiers' = tiers /\ start_ev' = start_ev
  BY DEF LeavePools
<1>3. \/ left_best(c) /\ reset_timer(pools, last_fuse)
      \/ ~left_best(c) /\ tier_best' = tier_best /\ best_wait' = best_wait
  BY DEF LeavePools
<1>4. \A t \in Tier : Settled(pools[t]) /\ Waiting(pools[t]) \subseteq Waiting(waiting_pools[t])
  <2>1. <<c>> \in Seq(Client)
    OBVIOUS
  <2>2. ASSUME NEW t \in Tier
        PROVE  Settled(without(waiting_pools[t], <<c>>)) /\
               Waiting(without(waiting_pools[t], <<c>>)) \subseteq Waiting(waiting_pools[t])
    BY <1>1, <2>1, WithoutKeeps DEF Settled
  <2>3. QED
    BY <1>1, <2>2
<1>5. \A t \in Tier : t \notin tiers[c] => pools[t] = waiting_pools[t]
  OBVIOUS
<1>6. pools \in [Tier -> Pool]
  <2>1. \A t \in Tier : pools[t] \in Pool
    BY <1>4, PoolFacts DEF Settled
  <2>2. QED
    BY <2>1
<1> HIDE DEF pools
<1>7. /\ tier_best' \in Tier \cup {NoTier} /\ best_wait' \in Nat
      /\ tier_best' # NoTier => pools[tier_best'].fill # NotFilled
  <2>1. CASE reset_timer(pools, last_fuse)
    <3>1. last_fuse \in Nat
      BY <1>1, PoolsAssumption DEF ServerType
    <3>2. QED
      BY <1>6, <2>1, <3>1, ResetTimer
  <2>2. CASE ~left_best(c) /\ tier_best' = tier_best /\ best_wait' = best_wait
    <3>1. tier_best \notin tiers[c]
      BY <2>2 DEF left_best
    <3>2. tier_best \in Tier \cup {NoTier} /\ best_wait \in Nat /\
          (tier_best # NoTier => waiting_pools[tier_best].fill # NotFilled)
      BY <1>1 DEF ServerType, BestIsMarked
    <3>3. QED
      BY <1>5, <2>2, <3>1, <3>2
  <2>3. QED
    BY <1>3, <2>1, <2>2
<1>8. /\ state' \in [Client -> {"new", "joining", "waiting", "refused", "returned"}]
      /\ \A d \in Client : state'[d] = state[d] \/ state'[d] = "returned"
  BY <1>1, <1>2 DEF ServerType
<1>9. ServerType'
  BY <1>1, <1>2, <1>7, <1>8 DEF ServerType
<1>10. BestIsMarked' /\ LockFits'
  BY <1>2, <1>7 DEF BestIsMarked, LockFits
<1>11. NoneIsNew'
  <2>1. \A t \in Tier : Waiting(waiting_pools[t]) \subseteq Client
    BY <1>1, PoolFacts DEF Settled, Waiting
  <2>2. QED
    BY <1>1, <1>2, <1>4, <1>8, <2>1 DEF NoneIsNew
<1>12. QED
  BY <1>2, <1>4, <1>6, <1>9, <1>10, <1>11, WholeNext

\* Marks of filled pools grow older and stay marks.
LEMMA TickKeeps ==
    ASSUME PoolsInv, Tick
    PROVE  PoolsInv'
<1> DEFINE age(x) == IF x \in {NotFilled, start_time_max} THEN x ELSE x + 1
           aged(w) == [w EXCEPT !.fill = age(w.fill)]
<1>1. /\ waiting_pools \in [Tier -> Pool] /\ \A t \in Tier : Settled(waiting_pools[t])
      /\ ServerType /\ BestIsMarked /\ NoneIsNew
  BY Parts
<1>2. /\ lock = Nobody /\ waiting_pools' = [t \in Tier |-> aged(waiting_pools[t])]
      /\ last_fuse' = IF last_fuse < start_time_spacing THEN last_fuse + 1 ELSE last_fuse
      /\ best_wait' = Larger(0, best_wait - 1)
      /\ tier_best' = tier_best /\ lock' = lock /\ todo' = todo /\ tiers' = tiers /\ state' = state
      /\ start_ev' = start_ev
  BY DEF Tick
<1>3. \A x \in NotFilled..start_time_max :
         age(x) \in NotFilled..start_time_max /\ (age(x) = NotFilled <=> x = NotFilled)
  BY Limits
<1> HIDE DEF age
<1>4. ASSUME NEW t \in Tier
      PROVE  /\ aged(waiting_pools[t]) \in Pool /\ Settled(aged(waiting_pools[t]))
             /\ Waiting(aged(waiting_pools[t])) = Waiting(waiting_pools[t])
             /\ waiting_pools[t].fill # NotFilled => aged(waiting_pools[t]).fill # NotFilled
  <2> DEFINE w == waiting_pools[t]
             v == aged(w)
  <2>1. w \in Pool /\ PoolInv(w) /\ (\A c \in ToSet(w.queue) : Blocked(w, c)) /\ w.fill \in NotFilled..start_time_max
    BY <1>1, PoolFacts DEF Settled
  <2> HIDE DEF w
  <2>2. /\ v \in Pool /\ v.pool = w.pool /\ v.queue = w.queue /\ v.in_pool = w.in_pool /\ v.all = w.all
        /\ v.fill = age(w.fill)
    BY <1>3, <2>1 DEF Pool
  <2> HIDE DEF v
  <2>3. Waiting(v) = Waiting(w) /\ (v.fill = NotFilled <=> w.fill = NotFilled)
    BY <1>3, <2>1, <2>2 DEF Waiting
  <2>4. PoolInv(v)
    BY <2>1, <2>2, <2>3 DEF PoolInv
  <2>5. \A c \in ToSet(v.queue) : Blocked(v, c)
    BY <2>1, <2>2 DEF Blocked
  <2>6. QED
    BY <2>2, <2>3, <2>4, <2>5 DEF Settled, v, w
<1> HIDE DEF aged
<1>5. waiting_pools' \in [Tier -> Pool] /\ \A t \in Tier : Settled(waiting_pools'[t])
  BY <1>2, <1>4
<1>6. last_fuse' \in 0..start_time_spacing /\ best_wait' \in Nat
  <2>1. last_fuse \in 0..start_time_spacing /\ best_wait \in Nat /\ start_time_spacing \in Nat
    BY <1>1, PoolsAssumption DEF ServerType
  <2>2. QED
    BY <1>2, <2>1 DEF Larger
<1>7. ServerType'
  BY <1>1, <1>2, <1>6 DEF ServerType
<1>8. BestIsMarked'
  BY <1>1, <1>2, <1>4 DEF ServerType, BestIsMarked
<1>9. LockFits'
  BY <1>2 DEF LockFits
<1>10. NoneIsNew'
  BY <1>1, <1>2, <1>4 DEF NoneIsNew
<1>11. QED
  BY <1>5, <1>7, <1>8, <1>9, <1>10, WholeNext

\* Every step keeps the invariant.
LEMMA PoolsStep == PoolsInv /\ [Next]_vars => PoolsInv'
<1> SUFFICES ASSUME PoolsInv, [Next]_vars PROVE PoolsInv'
  OBVIOUS
<1>1. ASSUME NEW c \in Client, NEW ts \in TierSets, Join(c, ts) PROVE PoolsInv'
  BY <1>1, JoinKeeps
<1>2. ASSUME NEW c \in Client, NEW t \in Tier, AddTo(c, t) PROVE PoolsInv'
  BY <1>2, AddToKeeps
<1>3. ASSUME NEW c \in Client, Joined(c) PROVE PoolsInv'
  BY <1>3, JoinedKeeps
<1>4. ASSUME NEW c \in Client, Poll(c) PROVE PoolsInv'
  BY <1>4, PollKeeps
<1>5. ASSUME NEW c \in Client, LeavePools(c) PROVE PoolsInv'
  BY <1>5, LeavePoolsKeeps
<1>6. ASSUME NEW t \in Tier, Fuse(t) PROVE PoolsInv'
  BY <1>6, FuseKeeps
<1>7. CASE Tick
  BY <1>7, TickKeeps
<1>8. CASE UNCHANGED vars
  <2>1. /\ waiting_pools \in [Tier -> Pool] /\ \A t \in Tier : Settled(waiting_pools[t])
        /\ ServerType /\ BestIsMarked /\ LockFits /\ NoneIsNew
    BY Parts
  <2>2. /\ waiting_pools' = waiting_pools /\ tier_best' = tier_best /\ best_wait' = best_wait
        /\ last_fuse' = last_fuse /\ lock' = lock /\ todo' = todo /\ tiers' = tiers /\ state' = state
        /\ start_ev' = start_ev
    BY <1>8 DEF vars
  <2>3. ServerType' /\ BestIsMarked' /\ LockFits' /\ NoneIsNew'
    BY <2>1, <2>2 DEF ServerType, BestIsMarked, LockFits, NoneIsNew
  <2>4. QED
    BY <2>1, <2>2, <2>3, WholeNext
<1>9. QED
  BY <1>1, <1>2, <1>3, <1>4, <1>5, <1>6, <1>7, <1>8 DEF Next

\* The invariant the pools rest on (WaitingPool and FusionServer,
\* server.py), for any number of clients, tiers and tags.
THEOREM PoolsAlways == Spec => []PoolsInv
<1>1. Init => PoolsInv
  BY InitPools
<1>2. PoolsInv /\ [Next]_vars => PoolsInv'
  BY PoolsStep
<1>3. QED
  BY <1>1, <1>2, PTL DEF Spec

\* Every variable of the server keeps to its values; nobody is in a pool and
\* in its queue, and no tag is used more often than it may (add, remove and
\* try_move_from_queue).
THEOREM PoolsTyped == Spec => []TypeOK
<1>1. PoolsInv => TypeOK
  BY DEF PoolsInv
<1>2. QED
  BY <1>1, PoolsAlways, PTL

\* The counters of the tags are exact in every pool, whoever comes and goes.
THEOREM TagsExact == Spec => []TagsAreExact
<1>1. PoolsInv => TagsAreExact
  BY DEF PoolsInv, PoolInv, TagsAreExact
<1>2. QED
  BY <1>1, PoolsAlways, PTL

\* Whoever is left in a queue is blocked by the clients in its pool
\* (try_move_from_queue runs after every removal).
THEOREM QueueBlocked == Spec => []QueueIsBlocked
<1>1. PoolsInv => QueueIsBlocked
  BY DEF PoolsInv
<1>2. QED
  BY <1>1, PoolsAlways, PTL

\* The favoured tier has min_clients clients at every moment (reset_timer).
THEOREM FavouredFilled == Spec => []FavouredIsFilled
<1>1. PoolsInv => FavouredIsFilled
  <2> SUFFICES ASSUME PoolsInv, tier_best # NoTier
               PROVE  Cardinality(waiting_pools[tier_best].pool) >= min_clients
    BY DEF FavouredIsFilled
  <2>1. tier_best \in Tier /\ waiting_pools[tier_best].fill # NotFilled
    BY Parts DEF ServerType, BestIsMarked
  <2>2. PoolInv(waiting_pools[tier_best])
    BY <2>1, Parts DEF Settled
  <2>3. QED
    BY <2>1, <2>2 DEF PoolInv
<1>2. QED
  BY <1>1, PoolsAlways, PTL
=============================================================================
