----------------------- MODULE HiveMetadataCache_proofs -----------------------
(***************************************************************************)
(* Proofs about HiveMetadataCache, for any requests, keys, capacity, TTL    *)
(* and bounds.                                                              *)
(***************************************************************************)
EXTENDS HiveMetadataCache, FiniteSetTheorems, WellFoundedInduction, TLAPS

-----------------------------------------------------------------------------
(* What popitem leaves.  R orders the keys S of a dictionary.               *)

StrictOrder(S, R) ==
  /\ \A x \in S : <<x, x>> \notin R
  /\ \A x, y, z \in S : <<x, y>> \in R /\ <<y, z>> \in R => <<x, z>> \in R
  /\ \A x, y \in S : x = y \/ <<x, y>> \in R \/ <<y, x>> \in R

Later(S, R, x) == {y \in S : <<x, y>> \in R}
Earlier(S, R, x) == {y \in S : <<y, x>> \in R}

\* The least of a set of numbers; induction over numbers without a predicate.
LEMMA Least ==
  ASSUME NEW T \in SUBSET Nat, T # {}
  PROVE  \E n \in T : \A m \in T : n <= m
<1> DEFINE R == {p \in Nat \X Nat : p[1] < p[2]}
<1>1. IsWellFoundedOn(R, Nat)
  BY NatLessThanWellFounded DEF OpToRel
<1>2. ASSUME NEW m \in Nat, NEW n \in Nat, <<m, n>> \notin R PROVE n <= m
  BY <1>2
<1> HIDE DEF R
<1>3. PICK n \in T : \A m \in T : <<m, n>> \notin R
  BY <1>1, WFMin
<1>4. \A m \in T : n <= m
  BY <1>2, <1>3
<1>5. QED
  BY <1>4

\* A dictionary that is not empty has a first key.
LEMMA FirstKey ==
  ASSUME NEW S, IsFiniteSet(S), S # {}, NEW R, StrictOrder(S, R)
  PROVE  \E x \in S : Later(S, R, x) = S \ {x}
<1> DEFINE T == {Cardinality(Earlier(S, R, x)) : x \in S}
<1>1. \A x \in S : IsFiniteSet(Earlier(S, R, x)) /\ Cardinality(Earlier(S, R, x)) \in Nat
  BY FS_Subset, FS_CardinalityType DEF Earlier
<1>2. T \in SUBSET Nat /\ T # {}
  BY <1>1
<1>3. PICK x \in S : \A y \in S : Cardinality(Earlier(S, R, x)) <= Cardinality(Earlier(S, R, y))
  <2>1. PICK n \in T : \A m \in T : n <= m
    BY <1>2, Least
  <2>2. QED
    BY <2>1
<1>4. ASSUME NEW y \in S, <<y, x>> \in R PROVE FALSE
  <2>1. Earlier(S, R, y) \subseteq Earlier(S, R, x)
    BY <1>4 DEF StrictOrder, Earlier
  <2>2. y \in Earlier(S, R, x) /\ y \notin Earlier(S, R, y)
    BY <1>4 DEF StrictOrder, Earlier
  <2>3. Cardinality(Earlier(S, R, y)) <= Cardinality(Earlier(S, R, x))
    BY <1>1, <2>1, FS_Subset
  <2>4. Cardinality(Earlier(S, R, y)) = Cardinality(Earlier(S, R, x))
    BY <1>1, <1>3, <2>3
  <2>5. Earlier(S, R, y) = Earlier(S, R, x)
    BY <1>1, <2>1, <2>4, FS_Subset
  <2>6. QED
    BY <2>2, <2>5
<1>5. QED
  BY <1>4 DEF StrictOrder, Later

\* The keys S are one more than fit at most: a key that is not kept is
\* the first, all others are kept, and there are as many as fit.
LEMMA KeptAre ==
  ASSUME NEW S, IsFiniteSet(S), NEW R, StrictOrder(S, R), Cardinality(S) <= Capacity + 1
  PROVE  /\ Kept(S, R) \subseteq S
         /\ IsFiniteSet(Kept(S, R)) /\ Cardinality(Kept(S, R)) <= Capacity
         /\ \A x \in S \ Kept(S, R) :
              Cardinality(Kept(S, R)) = Capacity /\ \A y \in S \ {x} : <<x, y>> \in R
<1> DEFINE K == Kept(S, R)
<1>0. Capacity \in Nat \ {0} /\ Cardinality(S) \in Nat
  BY CacheAssumption, FS_CardinalityType
<1>1. K = {x \in S : Cardinality(Later(S, R, x)) < Capacity}
  BY DEF Kept, Later
<1> HIDE DEF K
<1>2. ASSUME NEW x \in S
      PROVE  /\ Later(S, R, x) \subseteq S \ {x}
             /\ IsFiniteSet(S \ {x}) /\ Cardinality(S \ {x}) = Cardinality(S) - 1
             /\ IsFiniteSet(Later(S, R, x)) /\ Cardinality(Later(S, R, x)) \in Nat
             /\ Cardinality(Later(S, R, x)) <= Cardinality(S) - 1
  <2>1. Later(S, R, x) \subseteq S \ {x}
    BY DEF Later, StrictOrder
  <2>2. IsFiniteSet(S \ {x}) /\ Cardinality(S \ {x}) = Cardinality(S) - 1
    BY FS_RemoveElement
  <2>3. QED
    BY <2>1, <2>2, FS_Subset, FS_CardinalityType
<1>3. ASSUME NEW x \in S \ K
      PROVE  Cardinality(S) = Capacity + 1 /\ Later(S, R, x) = S \ {x}
  <2>1. x \in S
    OBVIOUS
  <2>2. ~(Cardinality(Later(S, R, x)) < Capacity)
    BY <1>1, <2>1, Zenon
  <2>3. /\ Later(S, R, x) \subseteq S \ {x} /\ IsFiniteSet(S \ {x})
        /\ Cardinality(S \ {x}) = Cardinality(S) - 1
        /\ Cardinality(Later(S, R, x)) \in Nat
        /\ Cardinality(Later(S, R, x)) <= Cardinality(S) - 1
    BY <1>2, <2>1, Zenon
  <2>4. Cardinality(S) = Capacity + 1 /\ Cardinality(Later(S, R, x)) = Cardinality(S \ {x})
    BY <1>0, <2>2, <2>3
  <2>5. QED
    BY <2>3, <2>4, FS_Subset
<1>4. ASSUME NEW x \in S \ K
      PROVE  K = S \ {x}
  <2>1. ASSUME NEW y \in S \ {x} PROVE y \in K
    <3>1. x \notin Later(S, R, y)
      BY <1>3 DEF Later, StrictOrder
    <3>2. Later(S, R, y) \subseteq (S \ {x}) \ {y}
      BY <1>2, <3>1
    <3>3. /\ IsFiniteSet(S \ {x}) /\ Cardinality(S \ {x}) = Capacity
          /\ Cardinality(Later(S, R, y)) \in Nat
      <4>1. x \in S /\ y \in S
        OBVIOUS
      <4>2. Cardinality(S) = Capacity + 1
        BY <1>3
      <4>3. IsFiniteSet(S \ {x}) /\ Cardinality(S \ {x}) = Cardinality(S) - 1
        BY <1>2, <4>1
      <4>4. Cardinality(Later(S, R, y)) \in Nat
        BY <1>2, <4>1
      <4>5. Cardinality(S \ {x}) = Capacity
        BY <1>0, <4>2, <4>3
      <4>6. QED
        BY <4>3, <4>4, <4>5
    <3>4. /\ IsFiniteSet((S \ {x}) \ {y})
          /\ Cardinality((S \ {x}) \ {y}) = Cardinality(S \ {x}) - 1
      BY <3>3, FS_RemoveElement
    <3>5. Cardinality(Later(S, R, y)) <= Cardinality((S \ {x}) \ {y})
      BY <3>2, <3>4, FS_Subset
    <3>6. Cardinality(Later(S, R, y)) < Capacity
      BY <1>0, <3>3, <3>4, <3>5
    <3>7. QED
      BY <1>1, <3>6
  <2>2. QED
    BY <1>1, <2>1
<1>5. ASSUME NEW x \in S \ K
      PROVE  Cardinality(K) = Capacity
  <2>1. x \in S
    OBVIOUS
  <2>2. K = S \ {x} /\ Cardinality(S) = Capacity + 1
    BY <1>3, <1>4
  <2>3. Cardinality(S \ {x}) = Cardinality(S) - 1
    BY <1>2, <2>1
  <2>4. QED
    BY <1>0, <2>2, <2>3
<1>6. Cardinality(K) <= Capacity
  <2>1. CASE \E x \in S : x \notin K
    BY <1>0, <1>5, <2>1
  <2>2. CASE K = S /\ Cardinality(S) <= Capacity
    BY <2>2
  <2>3. CASE K = S /\ Cardinality(S) = Capacity + 1
    <3>1. S # {}
      BY <1>0, <2>3, FS_EmptySet
    <3>2. PICK x \in S : Later(S, R, x) = S \ {x}
      BY <3>1, FirstKey
    <3>3. Cardinality(Later(S, R, x)) = Capacity
      BY <1>0, <1>2, <2>3, <3>2
    <3>4. QED
      BY <1>0, <1>1, <2>3, <3>3
  <2>4. QED
    BY <1>0, <1>1, <2>1, <2>2, <2>3
<1>7. \A x \in S \ K : Cardinality(K) = Capacity /\ \A y \in S \ {x} : <<x, y>> \in R
  BY <1>3, <1>5 DEF Later
<1>8. K \subseteq S /\ IsFiniteSet(K)
  BY <1>1, FS_Subset
<1>9. QED
  BY <1>6, <1>7, <1>8 DEF K

-----------------------------------------------------------------------------
(* The inductive invariant. *)

\* What is stored under a key is what was put last, and when.
EntriesInv ==
  \A k \in DOMAIN entries :
    /\ TTL > 0 /\ lastPut[k] # None
    /\ entries[k].value = lastPut[k].value
    /\ entries[k].expiresAt = lastPut[k].at + TTL

\* The dictionary is ordered by the last use of its keys.
OrderInv ==
  /\ IsFiniteSet(DOMAIN entries) /\ Cardinality(DOMAIN entries) <= Capacity
  /\ StrictOrder(DOMAIN entries, order)
  /\ \A j, k \in Keys :
       <<j, k>> \in order <=> j \in DOMAIN entries /\ k \in DOMAIN entries /\ <<j, k>> \in recency

\* What a request knows of its key.
CallInv ==
  \A c \in Calls :
    /\ pc[c] \in {"loading", "described", "loaded"}
         => key[c] \in Keys /\ floor[c] <= upstream[key[c]]
    /\ pc[c] = "described" => key[c] \in WithDDL
    /\ pc[c] \in {"described", "loaded"} => ReadSince(key[c], floor[c], value[c])
    /\ pc[c] # "answered" => reply[c] = None

IInv == TypeOK /\ EntriesInv /\ OrderInv /\ CallInv

LEMMA SubOrder ==
  ASSUME NEW S, NEW R, StrictOrder(S, R), NEW K \in SUBSET S
  PROVE  StrictOrder(K, R \cap (K \X K))
  BY DEF StrictOrder

\* What comes before what when a key was moved to the end.
LEMMA MovedPairs ==
  ASSUME NEW S, NEW R \in SUBSET (S \X S), NEW k \in S, NEW x \in S, NEW y \in S
  PROVE  <<x, y>> \in ToEnd(R, S, k) <=> x # k /\ (y = k \/ <<x, y>> \in R)
  BY DEF ToEnd

LEMMA MovedOrder ==
  ASSUME NEW S, NEW R \in SUBSET (S \X S), NEW k \in S, StrictOrder(S \ {k}, R)
  PROVE  StrictOrder(S, ToEnd(R, S, k))
<1> DEFINE M == ToEnd(R, S, k)
<1>1. \A x, y \in S : <<x, y>> \in M <=> x # k /\ (y = k \/ <<x, y>> \in R)
  BY MovedPairs
<1> HIDE DEF M
<1>2. QED
  BY <1>1 DEF StrictOrder, M

-----------------------------------------------------------------------------
(* The operations of the dictionary.                                        *)

DictInv == TypeOK /\ EntriesInv /\ OrderInv

LEMMA OrderWithin ==
  ASSUME DictInv
  PROVE  /\ DOMAIN entries \subseteq Keys
         /\ order \in SUBSET ((DOMAIN entries) \X (DOMAIN entries))
         /\ recency \in SUBSET (Keys \X Keys)
<1>1. /\ DOMAIN entries \subseteq Keys /\ order \in SUBSET (Keys \X Keys)
      /\ recency \in SUBSET (Keys \X Keys)
  BY Zenon DEF DictInv, TypeOK
<1>2. \A j, k \in Keys : <<j, k>> \in order => j \in DOMAIN entries /\ k \in DOMAIN entries
  BY Zenon DEF DictInv, OrderInv
<1>3. order \in SUBSET ((DOMAIN entries) \X (DOMAIN entries))
  <2>1. ASSUME NEW p \in order PROVE p \in (DOMAIN entries) \X (DOMAIN entries)
    <3>1. PICK j \in Keys, k \in Keys : p = <<j, k>>
      BY <1>1
    <3>2. <<j, k>> \in order
      BY <3>1, Zenon
    <3>3. j \in DOMAIN entries /\ k \in DOMAIN entries
      BY <1>2, <3>1, <3>2, Zenon
    <3>4. QED
      BY <3>1, <3>3
  <2>2. QED
    BY <2>1
<1>4. QED
  BY <1>1, <1>3

\* del of any keys.
LEMMA Removing ==
  ASSUME DictInv, NEW keys \in SUBSET DOMAIN entries, Only(keys), UNCHANGED recency
  PROVE  /\ DOMAIN entries' = keys /\ \A j \in keys : entries'[j] = entries[j]
         /\ order' \in SUBSET (Keys \X Keys)
         /\ OrderInv'
<1>1. DOMAIN entries' = keys /\ \A j \in keys : entries'[j] = entries[j]
  BY DEF Only
<1>2. IsFiniteSet(keys) /\ Cardinality(keys) <= Capacity
  <2>1. /\ IsFiniteSet(DOMAIN entries) /\ Cardinality(DOMAIN entries) <= Capacity
    BY DEF DictInv, OrderInv
  <2>2. /\ IsFiniteSet(keys) /\ Cardinality(keys) <= Cardinality(DOMAIN entries)
        /\ Cardinality(keys) \in Nat /\ Cardinality(DOMAIN entries) \in Nat
    BY <2>1, FS_Subset, FS_CardinalityType
  <2>3. QED
    BY <2>1, <2>2, CacheAssumption
<1>3. order' = order \cap (keys \X keys) /\ recency' = recency
  BY DEF Only
<1>4. StrictOrder(keys, order')
  BY <1>3, SubOrder DEF DictInv, OrderInv
<1>5. \A j, k \in Keys :
        <<j, k>> \in order' <=> j \in keys /\ k \in keys /\ <<j, k>> \in recency'
  BY <1>3 DEF DictInv, OrderInv
<1>6. order' \in SUBSET (Keys \X Keys)
  BY <1>3, OrderWithin
<1>7. QED
  BY <1>1, <1>2, <1>4, <1>5, <1>6 DEF OrderInv

\* A hit.
LEMMA Moving ==
  ASSUME DictInv, NEW k \in Keys, Hit(k), Get(k), Used(k)
  PROVE  /\ entries' = entries
         /\ order' \in SUBSET (Keys \X Keys) /\ recency' \in SUBSET (Keys \X Keys)
         /\ OrderInv'
<1> DEFINE D == DOMAIN entries
<1>1. k \in D /\ entries' = entries /\ order' = ToEnd(order, D, k)
      /\ recency' = ToEnd(recency, Keys, k)
  BY DEF Hit, Cached, Get, Used
<1>2. D \subseteq Keys /\ order \in SUBSET (D \X D) /\ recency \in SUBSET (Keys \X Keys)
  BY OrderWithin, Zenon
<1>3. order' \in SUBSET (D \X D) /\ recency' \in SUBSET (Keys \X Keys)
  BY <1>1, <1>2 DEF ToEnd
<1>4. \A x, y \in D : <<x, y>> \in order' <=> x # k /\ (y = k \/ <<x, y>> \in order)
  BY <1>1, <1>2, MovedPairs
<1>5. \A x, y \in Keys : <<x, y>> \in recency' <=> x # k /\ (y = k \/ <<x, y>> \in recency)
  BY <1>1, <1>2, MovedPairs
<1>6. StrictOrder(D, order')
  <2>1. StrictOrder(D \ {k}, order)
    BY DEF DictInv, OrderInv, StrictOrder
  <2>2. QED
    BY <1>1, <1>2, <2>1, MovedOrder
<1>7. \A x, y \in Keys :
        <<x, y>> \in order <=> x \in D /\ y \in D /\ <<x, y>> \in recency
  BY DEF DictInv, OrderInv
<1>8. \A x, y \in Keys :
        <<x, y>> \in order' <=> x \in D /\ y \in D /\ <<x, y>> \in recency'
  BY <1>2, <1>3, <1>4, <1>5, <1>7
<1>9. IsFiniteSet(D) /\ Cardinality(D) <= Capacity
  BY DEF DictInv, OrderInv
<1>10. QED
  BY <1>1, <1>2, <1>3, <1>6, <1>8, <1>9 DEF OrderInv

\* A put.  Fresh keys and the one that is put are ordered before the eviction.
Fresh == {j \in DOMAIN entries : Live(entries[j])}
Moved(k) == ToEnd(order \cap (Fresh \X Fresh), Fresh \cup {k}, k)

LEMMA BeforeEviction ==
  ASSUME DictInv, NEW k \in Keys
  PROVE  /\ IsFiniteSet(Fresh \cup {k}) /\ Cardinality(Fresh \cup {k}) <= Capacity + 1
         /\ k \in Fresh => Cardinality(Fresh \cup {k}) <= Capacity
         /\ \A x, y \in Fresh \cup {k} :
              <<x, y>> \in Moved(k) <=> x # k /\ (y = k \/ <<x, y>> \in order)
         /\ StrictOrder(Fresh \cup {k}, Moved(k))
<1> DEFINE S == Fresh \cup {k}
           R == order \cap (Fresh \X Fresh)
<1>1. IsFiniteSet(S) /\ Cardinality(S) <= Capacity + 1 /\ (k \in Fresh => Cardinality(S) <= Capacity)
  <2>1. /\ IsFiniteSet(DOMAIN entries) /\ Cardinality(DOMAIN entries) <= Capacity
        /\ Capacity \in Nat
    BY CacheAssumption DEF DictInv, OrderInv
  <2>2. /\ IsFiniteSet(Fresh) /\ Cardinality(Fresh) <= Cardinality(DOMAIN entries)
        /\ Cardinality(Fresh) \in Nat /\ Cardinality(DOMAIN entries) \in Nat
    BY <2>1, FS_Subset, FS_CardinalityType DEF Fresh
  <2>3. /\ IsFiniteSet(S)
        /\ Cardinality(S) = IF k \in Fresh THEN Cardinality(Fresh) ELSE Cardinality(Fresh) + 1
    BY <2>2, FS_AddElement
  <2>4. QED
    BY <2>1, <2>2, <2>3
<1>2. R \in SUBSET (S \X S) /\ k \in S
  OBVIOUS
<1>3. \A x, y \in S : <<x, y>> \in Moved(k) <=> x # k /\ (y = k \/ <<x, y>> \in R)
  <2>1. Moved(k) = ToEnd(R, S, k)
    BY DEF Moved
  <2> HIDE DEF R, S
  <2>2. ASSUME NEW x \in S, NEW y \in S
        PROVE  <<x, y>> \in ToEnd(R, S, k) <=> x # k /\ (y = k \/ <<x, y>> \in R)
    BY <1>2, MovedPairs
  <2>3. QED
    BY <2>1, <2>2
<1>4. StrictOrder(S \ {k}, R)
  <2>1. StrictOrder(Fresh, R)
    BY SubOrder DEF Fresh, DictInv, OrderInv
  <2>2. QED
    BY <2>1 DEF StrictOrder
<1>5. StrictOrder(S, Moved(k))
  BY <1>2, <1>4, MovedOrder DEF Moved
<1>6. \A x, y \in S : x # k /\ y # k => (<<x, y>> \in R <=> <<x, y>> \in order)
  OBVIOUS
<1>7. QED
  BY <1>1, <1>3, <1>5, <1>6

LEMMA Putting ==
  ASSUME DictInv, NEW k \in Keys, NEW v, Put(k, v), Used(k)
  PROVE  /\ DOMAIN entries' \subseteq DOMAIN entries \cup {k}
         /\ \A j \in DOMAIN entries' :
              entries'[j] = IF j = k THEN [value |-> v, expiresAt |-> Expiry] ELSE entries[j]
         /\ order' \in SUBSET (Keys \X Keys) /\ recency' \in SUBSET (Keys \X Keys)
         /\ OrderInv'
         /\ \A j \in DOMAIN entries \ DOMAIN entries' :
              Live(entries[j]) =>
                /\ Cardinality(DOMAIN entries') = Capacity
                /\ \A i \in DOMAIN entries \ {j} : Live(entries[i]) => <<j, i>> \in recency
<1> DEFINE D == DOMAIN entries
           S == Fresh \cup {k}
           M == Moved(k)
           K == Kept(S, M)
<1>1. /\ entries' = [j \in K |-> IF j = k THEN [value |-> v, expiresAt |-> Expiry]
                                 ELSE entries[j]]
      /\ order' = M \cap (K \X K) /\ recency' = ToEnd(recency, Keys, k)
  BY Zenon DEF Put, Used, Fresh, Moved
<1>2. /\ IsFiniteSet(S) /\ Cardinality(S) <= Capacity + 1
      /\ k \in Fresh => Cardinality(S) <= Capacity
      /\ \A x, y \in S : <<x, y>> \in M <=> x # k /\ (y = k \/ <<x, y>> \in order)
      /\ StrictOrder(S, M)
  BY BeforeEviction
<1>3. /\ D \subseteq Keys /\ Fresh \subseteq D /\ S \subseteq Keys
      /\ recency \in SUBSET (Keys \X Keys)
  BY OrderWithin DEF Fresh
<1> HIDE DEF M
<1>4. /\ K \subseteq S /\ IsFiniteSet(K) /\ Cardinality(K) <= Capacity
      /\ \A x \in S \ K : Cardinality(K) = Capacity /\ \A y \in S \ {x} : <<x, y>> \in M
  BY <1>2, KeptAre
<1> HIDE DEF K
<1>5. DOMAIN entries' = K
  BY <1>1
<1>6. \A j \in DOMAIN entries' :
        entries'[j] = IF j = k THEN [value |-> v, expiresAt |-> Expiry] ELSE entries[j]
  BY <1>1
<1>7. \A x, y \in Keys : <<x, y>> \in recency' <=> x # k /\ (y = k \/ <<x, y>> \in recency)
  BY <1>1, <1>3, MovedPairs
<1>8. recency' \in SUBSET (Keys \X Keys) /\ order' \in SUBSET (Keys \X Keys)
  BY <1>1, <1>3, <1>4 DEF ToEnd
<1>9. \A x, y \in Keys : <<x, y>> \in order <=> x \in D /\ y \in D /\ <<x, y>> \in recency
  BY DEF DictInv, OrderInv
<1>10. \A x, y \in Keys : <<x, y>> \in order' <=> x \in K /\ y \in K /\ <<x, y>> \in recency'
  <2>1. \A x, y \in Keys : <<x, y>> \in order' <=> x \in K /\ y \in K /\ <<x, y>> \in M
    BY <1>1
  <2>2. \A x, y \in K : <<x, y>> \in M <=> x # k /\ (y = k \/ <<x, y>> \in order)
    BY <1>2, <1>4
  <2>3. \A x, y \in K : x # k /\ y # k => (<<x, y>> \in order <=> <<x, y>> \in recency)
    BY <1>3, <1>4, <1>9
  <2>4. QED
    BY <1>3, <1>4, <1>7, <2>1, <2>2, <2>3
<1>11. StrictOrder(K, order')
  BY <1>1, <1>2, <1>4, SubOrder
<1>12. OrderInv'
  BY <1>4, <1>5, <1>10, <1>11 DEF OrderInv
<1>13. ASSUME NEW j \in D \ K, Live(entries[j])
       PROVE  /\ Cardinality(K) = Capacity
              /\ \A i \in D \ {j} : Live(entries[i]) => <<j, i>> \in recency
  <2>1. j \in S \ K
    BY <1>13 DEF Fresh
  <2>2. Cardinality(K) = Capacity /\ \A y \in S \ {j} : <<j, y>> \in M
    BY <1>4, <2>1
  <2>3. k \notin Fresh
    <3>1. SUFFICES ASSUME k \in Fresh PROVE FALSE
      OBVIOUS
    <3>2. Cardinality(S) <= Capacity /\ Cardinality(S) \in Nat /\ IsFiniteSet(S \ {j})
      BY <1>2, <3>1, FS_RemoveElement, FS_CardinalityType
    <3>3. Cardinality(S \ {j}) = Cardinality(S) - 1
      BY <1>2, <2>1, FS_RemoveElement
    <3>4. Cardinality(K) <= Cardinality(S \ {j})
      BY <1>4, <2>1, <3>2, FS_Subset
    <3>5. QED
      BY <2>2, <3>2, <3>3, <3>4, CacheAssumption
  <2>4. ASSUME NEW i \in D \ {j}, Live(entries[i]) PROVE <<j, i>> \in recency
    <3>1. i \in Fresh /\ i # k
      BY <2>3, <2>4 DEF Fresh
    <3>2. <<j, i>> \in order
      BY <1>2, <2>1, <2>2, <3>1
    <3>3. QED
      BY <1>3, <1>9, <3>2
  <2>5. QED
    BY <2>2, <2>4
<1>14. QED
  BY <1>3, <1>4, <1>5, <1>6, <1>8, <1>12, <1>13

-----------------------------------------------------------------------------
(* The steps. *)

\* What EvictsLeastRecent says of the keys that are gone after a step.
Evicted ==
  \A k \in DOMAIN entries \ DOMAIN entries' :
    Live(entries[k]) =>
      /\ Cardinality(DOMAIN entries') = Capacity
      /\ \A j \in DOMAIN entries \ {k} : Live(entries[j]) => <<k, j>> \in recency

\* The parts of TypeOK: the dictionary with its history, and the calls.
DictTypes ==
  /\ DOMAIN entries \subseteq Keys
  /\ entries \in [DOMAIN entries -> [value : Versions, expiresAt : 0..(MaxTime + TTL)]]
  /\ order \in SUBSET (Keys \X Keys)
  /\ lastPut \in [Keys -> {None} \cup [kind : {"put"}, value : Versions, at : 0..MaxTime]]
  /\ recency \in SUBSET (Keys \X Keys)

CallTypes ==
  /\ now \in 0..MaxTime
  /\ upstream \in [Keys -> 0..MaxVersion]
  /\ pc \in [Calls -> {"idle", "loading", "described", "loaded", "answered"}]
  /\ key \in [Calls -> Keys \cup {NoKey}]
  /\ value \in [Calls -> Versions]
  /\ reply \in [Calls -> {None, [kind |-> "error"]}
                       \cup [kind : {"result"}, value : Versions, cached : BOOLEAN]]
  /\ floor \in [Calls -> 0..MaxVersion]

LEMMA TypesSplit ==
  TypeOK <=> DictTypes /\ CallTypes
  BY Zenon DEF TypeOK, DictTypes, CallTypes

LEMMA DictStays ==
  ASSUME IInv, UNCHANGED <<entries, order, recency, lastPut>>
  PROVE  DictTypes' /\ EntriesInv' /\ OrderInv' /\ Evicted
<1>1. DictTypes
  BY TypesSplit DEF IInv
<1>2. DictTypes'
  BY <1>1, Zenon DEF DictTypes
<1>3. EntriesInv'
  BY Zenon DEF EntriesInv, IInv
<1>4. OrderInv'
  BY Zenon DEF OrderInv, IInv, StrictOrder
<1>5. Evicted
  BY DEF Evicted
<1>6. QED
  BY <1>2, <1>3, <1>4, <1>5

LEMMA UnreadIs == Unread \in Versions
  BY CacheAssumption DEF Unread, Versions

LEMMA QuietSteps ==
  ASSUME IInv,
         \/ \E c \in Calls : Read(c) \/ ReadDDL(c) \/ LoadFails(c) \/ Delivered(c)
         \/ \E k \in Keys : Altered(k)
         \/ Tick
         \/ UNCHANGED vars
  PROVE  IInv' /\ Evicted
<1>1. UNCHANGED <<entries, order, recency, lastPut>>
  BY Zenon DEF Read, ReadDDL, LoadFails, Delivered, Altered, Tick, vars, historyVars, cacheVars
<1>2. DictTypes' /\ EntriesInv' /\ OrderInv' /\ Evicted
  BY <1>1, DictStays
<1>3. CallTypes /\ CallInv
  BY TypesSplit DEF IInv
<1>4. CallTypes' /\ CallInv'
  <2> USE <1>3 DEF CallTypes, CallInv, cacheVars, historyVars
  <2>1. ASSUME NEW c \in Calls, Read(c) PROVE CallTypes' /\ CallInv'
    <3> DEFINE v == upstream[key[c]]
    <3>1. /\ key[c] \in Keys /\ v \in 0..MaxVersion /\ floor[c] \in 0..v
          /\ <<v, v>> \in Versions
      BY <2>1, CacheAssumption DEF Read, Versions
    <3>2. ReadSince(key[c], floor[c], <<v, v>>)
      BY <3>1, CacheAssumption DEF ReadSince
    <3>3. /\ value' \in [Calls -> Versions]
          /\ pc' \in [Calls -> {"idle", "loading", "described", "loaded", "answered"}]
      BY <2>1, <3>1 DEF Read
    <3>4. CallTypes'
      BY <2>1, <3>3, Zenon DEF Read
    <3>5. CallInv'
      BY <2>1, <3>1, <3>2 DEF Read, ReadSince
    <3>6. QED
      BY <3>4, <3>5
  <2>8. ASSUME NEW c \in Calls, ReadDDL(c) PROVE CallTypes' /\ CallInv'
    <3> DEFINE v == upstream[key[c]]
               w == value[c][1]
    <3>1. /\ key[c] \in WithDDL /\ key[c] \in Keys
          /\ v \in 0..MaxVersion /\ w \in 0..MaxVersion /\ w \in floor[c]..v
      BY <2>8, CacheAssumption DEF ReadDDL, Versions, ReadSince
    <3>2. <<w, v>> \in Versions /\ value' = [value EXCEPT ![c] = <<w, v>>]
      BY <2>8, <3>1 DEF ReadDDL, Versions
    <3>3. ReadSince(key[c], floor[c], <<w, v>>)
      BY <3>1, CacheAssumption DEF ReadSince
    <3>4. /\ value' \in [Calls -> Versions]
          /\ pc' \in [Calls -> {"idle", "loading", "described", "loaded", "answered"}]
      BY <2>8, <3>2 DEF ReadDDL
    <3>5. CallTypes'
      BY <2>8, <3>4, Zenon DEF ReadDDL
    <3> HIDE DEF v, w
    <3>6. CallInv'
      BY <2>8, <3>1, <3>2, <3>3 DEF ReadDDL, ReadSince
    <3>7. QED
      BY <3>5, <3>6
  <2>2. ASSUME NEW c \in Calls, LoadFails(c) PROVE CallTypes' /\ CallInv'
    <3>1. /\ pc' \in [Calls -> {"idle", "loading", "described", "loaded", "answered"}]
          /\ value' \in [Calls -> Versions]
      BY <2>2, UnreadIs DEF LoadFails
    <3>2. reply' \in [Calls -> {None, [kind |-> "error"]}
                       \cup [kind : {"result"}, value : Versions, cached : BOOLEAN]]
      BY <2>2 DEF LoadFails
    <3>3. CallInv'
      BY <2>2 DEF LoadFails, ReadSince
    <3>4. QED
      BY <2>2, <3>1, <3>2, <3>3, Zenon DEF LoadFails
  <2>3. ASSUME NEW c \in Calls, Delivered(c) PROVE CallTypes' /\ CallInv'
    BY <2>3, CacheAssumption DEF Delivered, NoKey, ReadSince
  <2>4. ASSUME NEW k \in Keys, Altered(k) PROVE CallTypes' /\ CallInv'
    <3>1. CallTypes'
      BY <2>4, CacheAssumption DEF Altered
    <3>2. \A j \in Keys : upstream[j] \in Nat /\ upstream'[j] \in Nat /\ upstream[j] <= upstream'[j]
      BY <2>4, CacheAssumption DEF Altered
    <3>3. ASSUME NEW j \in Keys, NEW low \in 0..MaxVersion, NEW v \in Versions, ReadSince(j, low, v)
          PROVE  /\ v[1] \in low..upstream'[j] /\ v[2] \in v[1]..upstream'[j]
                 /\ j \notin WithDDL => v[1] = v[2]
      BY <3>2, <3>3, CacheAssumption DEF ReadSince, Versions
    <3>4. UNCHANGED <<pc, key, value, reply, floor>>
      BY <2>4 DEF Altered
    <3>5. CallInv'
      <4> SUFFICES ASSUME NEW c \in Calls
                   PROVE  /\ pc[c] \in {"loading", "described", "loaded"}
                               => key[c] \in Keys /\ floor[c] <= upstream'[key[c]]
                          /\ pc[c] \in {"described", "loaded"}
                               => /\ value[c][1] \in floor[c]..upstream'[key[c]]
                                  /\ value[c][2] \in value[c][1]..upstream'[key[c]]
                                  /\ key[c] \notin WithDDL => value[c][1] = value[c][2]
        BY <3>4 DEF ReadSince
      <4>1. floor[c] \in 0..MaxVersion /\ value[c] \in Versions
        OBVIOUS
      <4>2. pc[c] \in {"loading", "described", "loaded"}
              => key[c] \in Keys /\ floor[c] <= upstream'[key[c]]
        BY <3>2, <4>1, CacheAssumption
      <4>3. pc[c] \in {"described", "loaded"} => ReadSince(key[c], floor[c], value[c])
        OBVIOUS
      <4>4. QED
        BY <3>3, <4>1, <4>2, <4>3
    <3>6. QED
      BY <3>1, <3>5
  <2>5. ASSUME Tick PROVE CallTypes' /\ CallInv'
    BY <2>5, CacheAssumption DEF Tick, ReadSince
  <2>6. ASSUME UNCHANGED vars PROVE CallTypes' /\ CallInv'
    BY <2>6 DEF vars, ReadSince
  <2>7. QED
    BY <2>1, <2>2, <2>3, <2>4, <2>5, <2>6, <2>8
<1>5. TypeOK'
  BY <1>2, <1>4, TypesSplit, PTL
<1>6. QED
  BY <1>2, <1>4, <1>5 DEF IInv

LEMMA DictOf ==
  ASSUME IInv
  PROVE  DictInv /\ DictTypes /\ CallTypes
  BY TypesSplit DEF IInv, DictInv

\* A request leaves a dictionary whose entries are as they were.
LEMMA RequestDict ==
  ASSUME IInv, NEW c \in Calls, NEW k \in Keys, Request(c, k)
  PROVE  DictTypes' /\ EntriesInv' /\ OrderInv' /\ Evicted
<1>1. DictInv /\ DictTypes
  BY DictOf
<1>2. UNCHANGED lastPut
  BY DEF Request
<1>3. CASE TTL > 0 /\ Hit(k)
  <2>1. Get(k) /\ Used(k)
    BY <1>3, Zenon DEF Request
  <2>2. /\ entries' = entries /\ OrderInv'
        /\ order' \in SUBSET (Keys \X Keys) /\ recency' \in SUBSET (Keys \X Keys)
    BY <1>1, <1>3, <2>1, Moving
  <2>3. EntriesInv' /\ Evicted
    BY <1>2, <2>2 DEF EntriesInv, IInv, Evicted
  <2>4. DictTypes'
    BY <1>1, <1>2, <2>2 DEF DictTypes
  <2>5. QED
    BY <2>2, <2>3, <2>4
<1>4. CASE TTL > 0 /\ ~Hit(k)
  <2> DEFINE keys == DOMAIN entries \ {k}
  <2>1. Only(keys) /\ UNCHANGED recency
    BY <1>4, Zenon DEF Request, Get
  <2>2. /\ DOMAIN entries' = keys /\ \A j \in keys : entries'[j] = entries[j]
        /\ order' \in SUBSET (Keys \X Keys) /\ OrderInv'
    BY <1>1, <2>1, Removing
  <2>3. EntriesInv'
    BY <1>2, <2>2 DEF EntriesInv, IInv
  <2>4. Evicted
    BY <1>4, <2>2 DEF Evicted, Hit, Cached
  <2>5. DictTypes'
    <3>1. entries' = [j \in keys |-> entries[j]]
      BY <2>1 DEF Only
    <3>2. entries' \in [keys -> [value : Versions, expiresAt : 0..(MaxTime + TTL)]]
      BY <1>1, <3>1, Zenon DEF DictTypes
    <3>3. QED
      BY <1>1, <1>2, <2>1, <2>2, <3>2, Zenon DEF DictTypes
  <2>6. QED
    BY <2>2, <2>3, <2>4, <2>5
<1>5. CASE ~(TTL > 0)
  BY <1>2, <1>5, DictStays, Zenon DEF Request, cacheVars
<1>6. QED
  BY <1>3, <1>4, <1>5

LEMMA RequestCalls ==
  ASSUME IInv, NEW c \in Calls, NEW k \in Keys, Request(c, k)
  PROVE  CallTypes' /\ CallInv'
<1>1. CallTypes /\ DictTypes /\ CallInv
  BY DictOf DEF IInv
<1>2. CASE TTL > 0 /\ Hit(k)
  <2>1. entries[k].value \in Versions
    BY <1>1, <1>2 DEF DictTypes, Hit, Cached
  <2>2. Result(entries[k].value, TRUE) \in [kind : {"result"}, value : Versions, cached : BOOLEAN]
    BY <2>1 DEF Result
  <2>3. /\ reply' = [reply EXCEPT ![c] = Result(entries[k].value, TRUE)]
        /\ pc' = [pc EXCEPT ![c] = "answered"]
        /\ key' = [key EXCEPT ![c] = k] /\ floor' = [floor EXCEPT ![c] = upstream[k]]
        /\ UNCHANGED <<now, upstream, value>>
    BY <1>2, Zenon DEF Request
  <2>4. CallTypes'
    BY <1>1, <2>2, <2>3 DEF CallTypes
  <2>5. CallInv'
    BY <1>1, <2>3 DEF CallTypes, CallInv, ReadSince
  <2>6. QED
    BY <2>4, <2>5
<1>3. CASE ~(TTL > 0 /\ Hit(k))
  <2>1. /\ pc[c] = "idle" /\ pc' = [pc EXCEPT ![c] = "loading"]
        /\ key' = [key EXCEPT ![c] = k] /\ floor' = [floor EXCEPT ![c] = upstream[k]]
        /\ UNCHANGED <<now, upstream, value, reply>>
    BY <1>3, Zenon DEF Request
  <2>2. CallTypes'
    BY <1>1, <2>1 DEF CallTypes
  <2>3. CallInv'
    BY <1>1, <2>1 DEF CallTypes, CallInv, ReadSince
  <2>4. QED
    BY <2>2, <2>3
<1>4. QED
  BY <1>2, <1>3

\* A result that was loaded is stored, and is what was put last from then on.
LEMMA StoreDict ==
  ASSUME IInv, NEW c \in Calls, Store(c)
  PROVE  DictTypes' /\ EntriesInv' /\ OrderInv' /\ Evicted
<1> DEFINE k == key[c]
           put == [kind |-> "put", value |-> value[c], at |-> now]
<1>1. DictInv /\ DictTypes
  BY DictOf
<1>2. /\ k \in Keys /\ value[c] \in Versions /\ now \in 0..MaxTime
      /\ MaxTime \in Nat /\ TTL \in Nat
  BY DictOf, CacheAssumption DEF IInv, CallInv, CallTypes, Store
<1>3. CASE TTL > 0
  <2>1. Put(k, value[c]) /\ Used(k) /\ lastPut' = [lastPut EXCEPT ![k] = put]
    BY <1>3, Zenon DEF Store
  <2> HIDE DEF k
  <2>2. /\ DOMAIN entries' \subseteq DOMAIN entries \cup {k}
        /\ \A j \in DOMAIN entries' :
             entries'[j] = IF j = k THEN [value |-> value[c], expiresAt |-> Expiry]
                           ELSE entries[j]
        /\ order' \in SUBSET (Keys \X Keys) /\ recency' \in SUBSET (Keys \X Keys)
        /\ OrderInv'
        /\ Evicted
    BY <1>1, <1>2, <2>1, Putting, Zenon DEF Evicted
  <2>3. Expiry \in 0..(MaxTime + TTL) /\ Expiry = now + TTL
    BY <1>2 DEF Expiry
  <2>4. EntriesInv'
    <3>1. ASSUME NEW j \in DOMAIN entries'
          PROVE  /\ TTL > 0 /\ lastPut'[j] # None
                 /\ entries'[j].value = lastPut'[j].value
                 /\ entries'[j].expiresAt = lastPut'[j].at + TTL
      <4>1. CASE j = k
        <5>1. lastPut'[j] = put
          BY <1>1, <1>2, <2>1, <4>1 DEF DictTypes
        <5>2. put # None
          BY DEF None
        <5>3. QED
          BY <1>3, <2>2, <2>3, <4>1, <5>1, <5>2
      <4>2. CASE j # k
        <5>1. j \in DOMAIN entries /\ entries'[j] = entries[j] /\ lastPut'[j] = lastPut[j]
          BY <1>1, <2>1, <2>2, <4>2 DEF DictTypes
        <5>2. QED
          BY <1>3, <5>1 DEF IInv, EntriesInv
      <4>3. QED
        BY <4>1, <4>2
    <3>2. QED
      BY <3>1 DEF EntriesInv
  <2>5. DictTypes'
    <3>1. put \in [kind : {"put"}, value : Versions, at : 0..MaxTime]
      BY <1>2
    <3>2. lastPut' \in [Keys -> {None} \cup [kind : {"put"}, value : Versions, at : 0..MaxTime]]
      BY <1>1, <2>1, <3>1, Zenon DEF DictTypes
    <3>3. \A j \in DOMAIN entries' :
            entries'[j] \in [value : Versions, expiresAt : 0..(MaxTime + TTL)]
      BY <1>1, <1>2, <2>2, <2>3 DEF DictTypes
    <3>4. entries' = [j \in DOMAIN entries' |-> entries'[j]]
      BY <2>1 DEF Put
    <3>5. entries' \in [DOMAIN entries' -> [value : Versions, expiresAt : 0..(MaxTime + TTL)]]
      BY <3>3, <3>4
    <3>6. DOMAIN entries' \subseteq Keys
      BY <1>1, <1>2, <2>2 DEF DictTypes
    <3>7. QED
      BY <2>2, <3>2, <3>5, <3>6, Zenon DEF DictTypes
  <2>6. QED
    BY <2>2, <2>4, <2>5
<1>4. CASE ~(TTL > 0)
  BY <1>4, DictStays, Zenon DEF Store, cacheVars
<1>5. QED
  BY <1>3, <1>4

LEMMA StoreCalls ==
  ASSUME IInv, NEW c \in Calls, Store(c)
  PROVE  CallTypes' /\ CallInv'
<1>1. CallTypes /\ CallInv
  BY DictOf DEF IInv
<1>2. /\ reply' = [reply EXCEPT ![c] = Result(value[c], FALSE)]
      /\ pc' = [pc EXCEPT ![c] = "answered"] /\ value' = [value EXCEPT ![c] = Unread]
      /\ UNCHANGED <<now, upstream, key, floor>>
  BY Zenon DEF Store, Loaded
<1>3. Result(value[c], FALSE) \in [kind : {"result"}, value : Versions, cached : BOOLEAN]
  BY <1>1 DEF CallTypes, Result
<1>4. CallTypes'
  <2>1. reply' \in [Calls -> {None, [kind |-> "error"]}
                       \cup [kind : {"result"}, value : Versions, cached : BOOLEAN]]
    BY <1>1, <1>2, <1>3, Zenon DEF CallTypes
  <2>2. pc' \in [Calls -> {"idle", "loading", "described", "loaded", "answered"}]
    BY <1>1, <1>2 DEF CallTypes
  <2>3. value' \in [Calls -> Versions]
    BY <1>1, <1>2, UnreadIs DEF CallTypes
  <2>4. QED
    BY <1>1, <1>2, <2>1, <2>2, <2>3, Zenon DEF CallTypes
<1>5. CallInv'
  BY <1>1, <1>2 DEF CallTypes, CallInv, ReadSince
<1>6. QED
  BY <1>4, <1>5

-----------------------------------------------------------------------------

LEMMA Initially == Init => IInv
<1> SUFFICES ASSUME Init PROVE IInv
  OBVIOUS
<1>1. DOMAIN entries = {} /\ entries = [k \in {} |-> 0]
  BY DEF Init
<1>2. DictTypes /\ CallTypes
  BY <1>1, CacheAssumption, UnreadIs DEF Init, DictTypes, CallTypes, NoKey
<1>3. OrderInv
  BY <1>1, FS_EmptySet, CacheAssumption DEF Init, OrderInv, StrictOrder
<1>4. EntriesInv /\ CallInv
  BY <1>1 DEF Init, EntriesInv, CallInv
<1>5. QED
  BY <1>2, <1>3, <1>4, TypesSplit DEF IInv

LEMMA Steps ==
  ASSUME IInv, [Next]_vars
  PROVE  IInv' /\ Evicted
<1>1. ASSUME NEW c \in Calls, NEW k \in Keys, Request(c, k) PROVE IInv' /\ Evicted
  <2>1. TypeOK'
    BY <1>1, RequestDict, RequestCalls, TypesSplit, PTL
  <2>2. QED
    BY <1>1, <2>1, RequestDict, RequestCalls DEF IInv
<1>2. ASSUME NEW c \in Calls, Store(c) PROVE IInv' /\ Evicted
  <2>1. TypeOK'
    BY <1>2, StoreDict, StoreCalls, TypesSplit, PTL
  <2>2. QED
    BY <1>2, <2>1, StoreDict, StoreCalls DEF IInv
<1>3. QED
  BY <1>1, <1>2, QuietSteps, Zenon DEF Next

LEMMA Invariance == Spec => []IInv
  BY Initially, Steps, PTL DEF Spec

\* The variables of the cache and of its requests keep their types.
THEOREM TypeCorrect == Spec => []TypeOK
  BY Invariance, PTL DEF IInv

-----------------------------------------------------------------------------
(* What the answers say. *)

HitTold ==
  \A c \in Calls :
    pc[c] = "idle" /\ pc'[c] = "answered" =>
      LET put == lastPut[key'[c]]
      IN put # None /\ reply'[c] = Result(put.value, TRUE) /\ now < put.at + TTL

MissTold ==
  \A c \in Calls :
    pc[c] = "loaded" /\ reply'[c].kind = "result" =>
      ~reply'[c].cached /\ ReadSince(key[c], floor[c], reply'[c].value)

\* Only a request answers a call that was idle, and only from the dictionary.
LEMMA HitsTold ==
  ASSUME IInv, Next
  PROVE  HitTold
<1> SUFFICES ASSUME NEW c \in Calls, pc[c] = "idle", pc'[c] = "answered"
             PROVE  /\ lastPut[key'[c]] # None
                    /\ reply'[c] = Result(lastPut[key'[c]].value, TRUE)
                    /\ now < lastPut[key'[c]].at + TTL
  BY DEF HitTold
<1>1. CallTypes
  BY DictOf
<1>2. PICK k \in Keys : Request(c, k)
  <2>1. ASSUME NEW d \in Calls, NEW k \in Keys, Request(d, k) PROVE d = c
    BY <1>1, <2>1 DEF Request, CallTypes
  <2>2. ASSUME NEW d \in Calls, Read(d) \/ ReadDDL(d) \/ Store(d) \/ LoadFails(d) \/ Delivered(d)
        PROVE  FALSE
    BY <1>1, <2>2 DEF Read, ReadDDL, Store, LoadFails, Delivered, CallTypes
  <2>3. ASSUME NEW k \in Keys, Altered(k) PROVE FALSE
    BY <2>3 DEF Altered
  <2>4. ~Tick
    BY DEF Tick
  <2>5. QED
    BY <2>1, <2>2, <2>3, <2>4, Zenon DEF Next
<1>3. TTL > 0 /\ Hit(k)
  BY <1>1, <1>2 DEF Request, CallTypes
<1>4. key'[c] = k /\ reply'[c] = Result(entries[k].value, TRUE)
  BY <1>1, <1>2, <1>3 DEF Request, CallTypes
<1>5. /\ lastPut[k] # None /\ entries[k].value = lastPut[k].value
      /\ entries[k].expiresAt = lastPut[k].at + TTL
  BY <1>3 DEF IInv, EntriesInv, Hit, Cached
<1>6. now < lastPut[k].at + TTL
  BY <1>3, <1>5 DEF Hit, Live
<1>7. QED
  BY <1>4, <1>5, <1>6

\* Only Store answers a call that has loaded, and with what it loaded.
LEMMA MissesTold ==
  ASSUME IInv, [Next]_vars
  PROVE  MissTold
<1> SUFFICES ASSUME NEW c \in Calls, pc[c] = "loaded", reply'[c].kind = "result"
             PROVE  ~reply'[c].cached /\ ReadSince(key[c], floor[c], reply'[c].value)
  BY DEF MissTold
<1>1. CallTypes /\ reply[c] = None /\ ReadSince(key[c], floor[c], value[c])
  BY DictOf DEF IInv, CallInv
<1>2. Store(c)
  <2>1. reply'[c] # None
    BY DEF None
  <2>2. ASSUME NEW d \in Calls, NEW k \in Keys, Request(d, k) PROVE FALSE
    <3>1. d # c
      BY <2>2 DEF Request
    <3>2. reply'[c] = reply[c]
      BY <1>1, <2>2, <3>1 DEF Request, CallTypes
    <3>3. QED
      BY <1>1, <2>1, <3>2
  <2>3. ASSUME NEW d \in Calls, Read(d) \/ ReadDDL(d) PROVE FALSE
    BY <1>1, <2>1, <2>3, Zenon DEF Read, ReadDDL
  <2>4. ASSUME NEW d \in Calls, Delivered(d) PROVE FALSE
    BY <1>1, <2>1, <2>4 DEF Delivered, CallTypes
  <2>5. ASSUME NEW d \in Calls, LoadFails(d) PROVE FALSE
    <3>1. reply' = [reply EXCEPT ![d] = [kind |-> "error"]]
      BY <2>5 DEF LoadFails
    <3>2. reply'[c] = reply[c] \/ reply'[c] = [kind |-> "error"]
      BY <1>1, <3>1 DEF CallTypes
    <3>3. QED
      BY <1>1, <2>1, <3>2
  <2>6. ASSUME NEW d \in Calls, Store(d) PROVE d = c
    <3>1. reply' = [reply EXCEPT ![d] = Result(Loaded(d), FALSE)]
      BY <2>6 DEF Store
    <3>2. QED
      BY <1>1, <2>1, <3>1 DEF CallTypes
  <2>7. ASSUME NEW k \in Keys, Altered(k) \/ Tick \/ UNCHANGED vars PROVE FALSE
    BY <1>1, <2>1, <2>7, Zenon DEF Altered, Tick, vars
  <2>8. Tick \/ UNCHANGED vars => FALSE
    BY <1>1, <2>1, Zenon DEF Tick, vars
  <2>9. QED
    BY <2>2, <2>3, <2>4, <2>5, <2>6, <2>7, <2>8, Zenon DEF Next
<1>3. reply'[c] = [kind |-> "result", value |-> value[c], cached |-> FALSE]
  BY <1>1, <1>2 DEF Store, Result, Loaded, CallTypes
<1>4. QED
  BY <1>1, <1>3

\* For any requests that load side by side, any keys, capacity and TTL: an
\* answer marked cached is what was put last under its key, less than TTL ago,
\* and one that is not was current at some moment of its request, the columns
\* and the DDL of a schema each for themselves (get_or_load, _get, _put,
\* get_table_schema).
THEOREM AnswersTrue == Spec => AnswersHonest
<1>1. ASSUME IInv, [Next]_vars PROVE [HitTold]_vars /\ [MissTold]_vars
  BY <1>1, HitsTold, MissesTold
<1>2. Spec => [][HitTold]_vars /\ [][MissTold]_vars
  BY <1>1, Invariance, PTL DEF Spec
<1>3. QED
  BY <1>2 DEF AnswersHonest, HitIsLastPut, MissIsFresh, HitTold, MissTold

\* Evicted and the bound: what a step must be for EvictsLeastRecent.
BoundedLRU ==
  /\ Cardinality(DOMAIN entries') <= Capacity
  /\ \A k \in DOMAIN entries \ DOMAIN entries' :
       Live(entries[k]) =>
         /\ Cardinality(DOMAIN entries') = Capacity
         /\ \A j \in DOMAIN entries \ {k} : Live(entries[j]) => <<k, j>> \in recency

\* The cache never holds more than MAX_CACHE_ENTRIES, and a live entry leaves
\* it only when it is full and every other live entry was used more recently,
\* whatever expired, was hit or stored again before (_put).
THEOREM EvictionRight == Spec => EvictsLeastRecent
<1>1. ASSUME IInv, [Next]_vars PROVE [BoundedLRU]_vars
  BY <1>1, Steps DEF IInv, OrderInv, BoundedLRU, Evicted
<1>2. Spec => [][BoundedLRU]_vars
  BY <1>1, Invariance, PTL DEF Spec
<1>3. QED
  BY <1>2 DEF EvictsLeastRecent, BoundedLRU
=============================================================================
