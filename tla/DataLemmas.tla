----------------------------- MODULE DataLemmas -----------------------------
(***************************************************************************)
(* What the other proofs need of numbers, sequences, sums and filters.  A  *)
(* sum over a finite set is defined by the community modules as a recursive *)
(* function on the subsets of it, a filter of a sequence (Orders) as one   *)
(* on the number of items: the lemmas show that there is one, and how it   *)
(* changes by an element.  The inductions are over a set of numbers that   *)
(* holds 0 and the successor of each of its elements.                      *)
(***************************************************************************)
EXTENDS Integers, Sequences, Functions, FiniteSets, Orders,
        FiniteSetTheorems, WellFoundedInduction, TLAPS

\* A set of numbers that is not empty has a least one.
LEMMA Least ==
  ASSUME NEW T \in SUBSET Nat, T # {}
  PROVE  \E n \in T : \A m \in T : n <= m
<1> DEFINE R == {p \in Nat \X Nat : p[1] < p[2]}
<1>1. IsWellFoundedOn(R, Nat)
  BY NatLessThanWellFounded DEF OpToRel
<1>2. ASSUME NEW m \in Nat, NEW n \in Nat, <<m, n>> \notin R PROVE n <= m
  BY <1>2
<1> HIDE DEF R
<1>3. PICK n \in T : \A m \in T : <<m, n>> \notin R
  BY <1>1, WFMin
<1>4. \A m \in T : n <= m
  BY <1>2, <1>3
<1>5. QED
  BY <1>4

\* Induction: a set that holds 0 and with each number the next holds them all.
LEMMA AllNumbers ==
  ASSUME NEW G, 0 \in G, \A n \in Nat : n \in G => n + 1 \in G
  PROVE  \A n \in Nat : n \in G
<1> SUFFICES ASSUME NEW n \in Nat, n \notin G PROVE FALSE
  OBVIOUS
<1> DEFINE bad == {k \in Nat : k \notin G}
<1>1. PICK least \in bad : \A k \in bad : least <= k
  <2>1. bad \in SUBSET Nat /\ bad # {}
    OBVIOUS
  <2>2. QED
    BY <2>1, Least
<1>2. least # 0 /\ least - 1 \in Nat /\ least = (least - 1) + 1
  OBVIOUS
<1>3. least - 1 \in G
  BY <1>1, <1>2
<1>4. QED
  BY <1>2, <1>3

\* The same for sequences, which grow at their end.
LEMMA AllSequences ==
  ASSUME NEW S, NEW G, <<>> \in G, \A s \in Seq(S), x \in S : s \in G => Append(s, x) \in G
  PROVE  \A s \in Seq(S) : s \in G
<1> DEFINE N == {n \in Nat : \A s \in Seq(S) : Len(s) = n => s \in G}
<1>1. 0 \in N
  OBVIOUS
<1>2. ASSUME NEW n \in Nat, n \in N PROVE n + 1 \in N
  <2> SUFFICES ASSUME NEW s \in Seq(S), Len(s) = n + 1 PROVE s \in G
    OBVIOUS
  <2> DEFINE t == SubSeq(s, 1, n)
             x == s[n + 1]
  <2>1. x \in S /\ t \in Seq(S) /\ Len(t) = n /\ s = Append(t, x)
    OBVIOUS
  <2>2. t \in G
    BY <1>2, <2>1
  <2> HIDE DEF t, x
  <2>3. QED
    BY <2>1, <2>2
<1> HIDE DEF N
<1>3. \A n \in Nat : n \in N
  BY <1>1, <1>2, AllNumbers
<1>4. \A s \in Seq(S) : Len(s) \in Nat
  OBVIOUS
<1>5. QED
  BY <1>3, <1>4 DEF N

-----------------------------------------------------------------------------
(* Parts of sequences. *)

\* Sequences of the same items are the same.
LEMMA SameItems ==
  ASSUME NEW S, NEW s \in Seq(S), NEW t \in Seq(S), Len(s) = Len(t),
         \A i \in 1..Len(s) : s[i] = t[i]
  PROVE  s = t
<1>1. s = [i \in 1..Len(s) |-> s[i]] /\ t = [i \in 1..Len(t) |-> t[i]]
  OBVIOUS
<1> DEFINE n == Len(s)
<1>2. s = [i \in 1..n |-> s[i]] /\ t = [i \in 1..n |-> t[i]]
  BY <1>1
<1>3. \A i \in 1..n : s[i] = t[i]
  OBVIOUS
<1> HIDE DEF n
<1>4. QED
  BY <1>2, <1>3

\* A sequence and an item more.
LEMMA AppendItems ==
  ASSUME NEW S, NEW s \in Seq(S), NEW x \in S
  PROVE  /\ Append(s, x) \in Seq(S) /\ Len(Append(s, x)) = Len(s) + 1 /\ Len(s) \in Nat
         /\ \A i \in 1..Len(s) : Append(s, x)[i] = s[i]
         /\ Append(s, x)[Len(s) + 1] = x
<1>1. Append(s, x) \in Seq(S) /\ Len(Append(s, x)) = Len(s) + 1 /\ Len(s) \in Nat
  OBVIOUS
<1>2. \A i \in 1..Len(s) : Append(s, x)[i] = s[i]
  OBVIOUS
<1>3. Append(s, x)[Len(s) + 1] = x
  OBVIOUS
<1>4. QED
  BY <1>1, <1>2, <1>3

\* The items of two sequences in one.
LEMMA JoinedItems ==
  ASSUME NEW S, NEW s \in Seq(S), NEW t \in Seq(S)
  PROVE  /\ s \o t \in Seq(S) /\ Len(s \o t) = Len(s) + Len(t)
         /\ \A i \in 1..Len(s) : (s \o t)[i] = s[i]
         /\ \A i \in 1..Len(t) : (s \o t)[Len(s) + i] = t[i]
<1>1. s \o t \in Seq(S) /\ Len(s \o t) = Len(s) + Len(t)
  OBVIOUS
<1>2. \A i \in 1..Len(s) : (s \o t)[i] = s[i]
  OBVIOUS
<1>3. \A i \in 1..Len(t) : (s \o t)[Len(s) + i] = t[i]
  OBVIOUS
<1>4. QED
  BY <1>1, <1>2, <1>3

\* A part of a sequence.
LEMMA PartItems ==
  ASSUME NEW S, NEW s \in Seq(S), NEW m \in 1..(Len(s) + 1), NEW n \in 0..Len(s)
  PROVE  /\ SubSeq(s, m, n) \in Seq(S)
         /\ Len(SubSeq(s, m, n)) = IF m > n THEN 0 ELSE n - m + 1
         /\ \A i \in 1..Len(SubSeq(s, m, n)) : SubSeq(s, m, n)[i] = s[m + i - 1]
<1> DEFINE l == IF m > n THEN 0 ELSE n - m + 1
<1>1. SubSeq(s, m, n) = [i \in 1..l |-> s[m + i - 1]]
  <2>1. SubSeq(s, m, n) = [i \in 1..(1 + n - m) |-> s[i + m - 1]]
    OBVIOUS
  <2>2. 1..(1 + n - m) = 1..l
    OBVIOUS
  <2>3. \A i \in 1..l : i + m - 1 = m + i - 1
    OBVIOUS
  <2> HIDE DEF l
  <2>4. QED
    BY <2>1, <2>2, <2>3
<1>2. l \in Nat /\ \A i \in 1..l : m + i - 1 \in 1..Len(s)
  OBVIOUS
<1>3. \A i \in 1..l : s[m + i - 1] \in S
  BY <1>2
<1> HIDE DEF l
<1>4. [i \in 1..l |-> s[m + i - 1]] \in [1..l -> S]
  BY <1>3
<1> DEFINE p == SubSeq(s, m, n)
<1>5. p \in Seq(S) /\ Len(p) = l
  BY <1>1, <1>2, <1>4
<1>6. \A i \in 1..l : p[i] = s[m + i - 1]
  BY <1>1
<1>7. QED
  BY <1>5, <1>6 DEF l

\* The first items and those after them.
LEMMA PartsJoin ==
  ASSUME NEW S, NEW s \in Seq(S), NEW m \in Nat, NEW n \in Nat, m <= n, n <= Len(s)
  PROVE  SubSeq(s, 1, n) = SubSeq(s, 1, m) \o SubSeq(s, m + 1, n)
<1> DEFINE a == SubSeq(s, 1, m)
           b == SubSeq(s, m + 1, n)
           c == SubSeq(s, 1, n)
<1>1. /\ 1 \in 1..(Len(s) + 1) /\ m + 1 \in 1..(Len(s) + 1) /\ m \in 0..Len(s) /\ n \in 0..Len(s)
      /\ Len(s) \in Nat
  OBVIOUS
<1>2. a \in Seq(S) /\ Len(a) = m /\ \A i \in 1..m : a[i] = s[i]
  <2>1. /\ a \in Seq(S) /\ Len(a) = IF 1 > m THEN 0 ELSE m - 1 + 1
        /\ \A i \in 1..Len(a) : a[i] = s[1 + i - 1]
    BY <1>1, PartItems
  <2> HIDE DEF a
  <2>2. QED
    BY <2>1
<1>3. c \in Seq(S) /\ Len(c) = n /\ \A i \in 1..n : c[i] = s[i]
  <2>1. /\ c \in Seq(S) /\ Len(c) = IF 1 > n THEN 0 ELSE n - 1 + 1
        /\ \A i \in 1..Len(c) : c[i] = s[1 + i - 1]
    BY <1>1, PartItems
  <2> HIDE DEF c
  <2>2. QED
    BY <2>1
<1>4. b \in Seq(S) /\ Len(b) = n - m /\ \A i \in 1..(n - m) : b[i] = s[m + i]
  <2>1. /\ b \in Seq(S) /\ Len(b) = IF m + 1 > n THEN 0 ELSE n - (m + 1) + 1
        /\ \A i \in 1..Len(b) : b[i] = s[m + 1 + i - 1]
    BY <1>1, PartItems
  <2> HIDE DEF b
  <2>2. QED
    BY <2>1
<1> HIDE DEF a, b, c
<1>5. /\ a \o b \in Seq(S) /\ Len(a \o b) = m + (n - m)
      /\ \A i \in 1..m : (a \o b)[i] = a[i]
      /\ \A i \in 1..(n - m) : (a \o b)[m + i] = b[i]
  <2>1. /\ a \o b \in Seq(S) /\ Len(a \o b) = Len(a) + Len(b)
        /\ \A i \in 1..Len(a) : (a \o b)[i] = a[i]
        /\ \A i \in 1..Len(b) : (a \o b)[Len(a) + i] = b[i]
    <3>1. a \in Seq(S) /\ b \in Seq(S)
      BY <1>2, <1>4
    <3>2. a \o b \in Seq(S) /\ Len(a \o b) = Len(a) + Len(b)
      BY <3>1, JoinedItems
    <3>3. \A i \in 1..Len(a) : (a \o b)[i] = a[i]
      BY <3>1, JoinedItems
    <3>4. \A i \in 1..Len(b) : (a \o b)[Len(a) + i] = b[i]
      BY <3>1, JoinedItems
    <3>5. QED
      BY <3>2, <3>3, <3>4
  <2>2. Len(a) = m /\ Len(b) = n - m
    BY <1>2, <1>4
  <2> DEFINE both == a \o b
  <2> HIDE DEF both
  <2>3. QED
    BY <2>1, <2>2
<1>6. \A i \in 1..n : c[i] = (a \o b)[i]
  <2> SUFFICES ASSUME NEW i \in 1..n PROVE c[i] = (a \o b)[i]
    OBVIOUS
  <2>1. CASE i <= m
    BY <1>2, <1>3, <1>5, <2>1
  <2>2. CASE ~(i <= m)
    <3>1. i - m \in 1..(n - m) /\ m + (i - m) = i
      BY <2>2
    <3>2. (a \o b)[m + (i - m)] = s[m + (i - m)]
      BY <1>4, <1>5, <3>1
    <3>3. QED
      BY <1>3, <3>1, <3>2
  <2>3. QED
    BY <2>1, <2>2
<1>7. Len(a \o b) = n
  BY <1>5
<1>8. c = a \o b
  BY <1>3, <1>5, <1>6, <1>7, SameItems
<1>9. QED
  BY <1>8 DEF a, b, c

\* No item is there twice.
Distinct(s) == \A i, j \in 1..Len(s) : s[i] = s[j] => i = j

\* As many different items as there are items.
LEMMA DistinctCount ==
  ASSUME NEW S, NEW s \in Seq(S), Distinct(s)
  PROVE  IsFiniteSet({s[i] : i \in 1..Len(s)}) /\ Cardinality({s[i] : i \in 1..Len(s)}) = Len(s)
<1> DEFINE n == Len(s)
           T == {s[i] : i \in 1..n}
           f == [i \in 1..n |-> s[i]]
<1>1. n \in Nat
  OBVIOUS
<1>2. IsFiniteSet(1..n) /\ Cardinality(1..n) = n
  <2>1. IsFiniteSet(1..n) /\ Cardinality(1..n) = IF 1 > n THEN 0 ELSE n - 1 + 1
    BY <1>1, FS_Interval
  <2> HIDE DEF n
  <2>2. QED
    BY <1>1, <2>1
<1>3. f \in Bijection(1..n, T)
  <2>1. f \in [1..n -> T]
    OBVIOUS
  <2>2. \A i, j \in 1..n : f[i] = f[j] => i = j
    BY DEF Distinct
  <2>3. \A t \in T : \E i \in 1..n : f[i] = t
    OBVIOUS
  <2> HIDE DEF f, T, n
  <2>4. f \in Injection(1..n, T)
    BY <2>1, <2>2 DEF Injection, IsInjective
  <2>5. f \in Surjection(1..n, T)
    BY <2>1, <2>3 DEF Surjection
  <2>6. QED
    BY <2>4, <2>5 DEF Bijection
<1> HIDE DEF f, T, n
<1>4. ExistsBijection(1..n, T)
  BY <1>3 DEF ExistsBijection
<1>5. IsFiniteSet(T) /\ Cardinality(T) = Cardinality(1..n)
  BY <1>2, <1>4, FS_Bijection
<1>6. QED
  BY <1>2, <1>5 DEF T, n

-----------------------------------------------------------------------------
(* The recursive function behind a sum. *)

\* The element a sum takes first.
Taken(s) == CHOOSE x \in s : TRUE

\* iter sums fun over every set of D.
SumsOf(iter, fun, D) ==
  iter = [s \in D |-> IF s = {} THEN 0 ELSE fun[Taken(s)] + iter[s \ {Taken(s)}]]

SumsOfParts(iter, fun, S) == SumsOf(iter, fun, SUBSET S)

LEMMA TakenIn == ASSUME NEW s, s # {} PROVE Taken(s) \in s
  BY DEF Taken

\* The subsets of up to n elements.
UpTo(S, n) == {s \in SUBSET S : Cardinality(s) <= n}

LEMMA FewerLeft ==
  ASSUME NEW S, IsFiniteSet(S), NEW s \in SUBSET S, NEW x \in s, NEW n \in Nat,
         Cardinality(s) <= n + 1
  PROVE  s \ {x} \in UpTo(S, n)
<1>1. IsFiniteSet(s)
  BY FS_Subset
<1>2. Cardinality(s \ {x}) = Cardinality(s) - 1 /\ Cardinality(s) \in Nat
  BY <1>1, FS_RemoveElement, FS_CardinalityType
<1>3. Cardinality(s \ {x}) <= n
  BY <1>2
<1>4. QED
  BY <1>3 DEF UpTo

LEMMA OnlyEmpty ==
  ASSUME NEW S, IsFiniteSet(S)
  PROVE  \A s \in UpTo(S, 0) : s = {}
<1> SUFFICES ASSUME NEW s \in UpTo(S, 0) PROVE s = {}
  OBVIOUS
<1>1. IsFiniteSet(s) /\ Cardinality(s) <= 0
  BY FS_Subset DEF UpTo
<1>2. Cardinality(s) = 0
  BY <1>1, FS_CardinalityType
<1>3. QED
  BY <1>1, <1>2, FS_EmptySet

\* There is one for the sets of up to n elements, for every n.
LEMMA SumsUpTo ==
  ASSUME NEW S, IsFiniteSet(S), NEW fun
  PROVE  \A n \in Nat : \E iter : SumsOf(iter, fun, UpTo(S, n))
<1> DEFINE G == {n \in Nat : \E iter : SumsOf(iter, fun, UpTo(S, n))}
<1>1. 0 \in G
  <2> DEFINE iter == [s \in UpTo(S, 0) |-> 0]
  <2>1. \A s \in UpTo(S, 0) : s = {}
    BY OnlyEmpty
  <2>2. SumsOf(iter, fun, UpTo(S, 0))
    BY <2>1 DEF SumsOf
  <2>3. QED
    BY <2>2
<1>2. ASSUME NEW n \in Nat, n \in G PROVE n + 1 \in G
  <2>1. PICK old : SumsOf(old, fun, UpTo(S, n))
    BY <1>2
  <2> DEFINE new == [s \in UpTo(S, n + 1) |->
                       IF s = {} THEN 0 ELSE fun[Taken(s)] + old[s \ {Taken(s)}]]
  <2>2. ASSUME NEW s \in UpTo(S, n) PROVE new[s] = old[s]
    <3>1. s \in UpTo(S, n + 1)
      <4>1. Cardinality(s) \in Nat /\ Cardinality(s) <= n /\ s \in SUBSET S
        BY FS_Subset, FS_CardinalityType DEF UpTo
      <4>2. QED
        BY <4>1 DEF UpTo
    <3>2. new[s] = IF s = {} THEN 0 ELSE fun[Taken(s)] + old[s \ {Taken(s)}]
      BY <3>1
    <3>3. QED
      BY <2>1, <3>2 DEF SumsOf
  <2>3. ASSUME NEW s \in UpTo(S, n + 1), s # {}
        PROVE  new[s \ {Taken(s)}] = old[s \ {Taken(s)}]
    <3>1. s \in SUBSET S /\ Cardinality(s) <= n + 1
      BY DEF UpTo
    <3>2. s \ {Taken(s)} \in UpTo(S, n)
      BY <2>3, <3>1, TakenIn, FewerLeft
    <3> HIDE DEF new
    <3>3. QED
      BY <2>2, <3>2
  <2>4. new = [s \in UpTo(S, n + 1) |->
                 IF s = {} THEN 0 ELSE fun[Taken(s)] + new[s \ {Taken(s)}]]
    <3> DEFINE twice(s) == IF s = {} THEN 0 ELSE fun[Taken(s)] + new[s \ {Taken(s)}]
    <3>1. ASSUME NEW s \in UpTo(S, n + 1)
          PROVE  twice(s) = IF s = {} THEN 0 ELSE fun[Taken(s)] + old[s \ {Taken(s)}]
      <4>1. CASE s = {}
        BY <4>1
      <4>2. CASE s # {}
        <5>1. new[s \ {Taken(s)}] = old[s \ {Taken(s)}]
          BY <2>3, <4>2
        <5> HIDE DEF new
        <5>2. QED
          BY <4>2, <5>1
      <4>3. QED
        BY <4>1, <4>2
    <3> HIDE DEF twice
    <3>2. new = [s \in UpTo(S, n + 1) |-> twice(s)]
      BY <3>1
    <3>3. QED
      BY <3>2 DEF twice
  <2> HIDE DEF new
  <2>5. SumsOf(new, fun, UpTo(S, n + 1))
    BY <2>4 DEF SumsOf
  <2>6. QED
    BY <2>5
<1> HIDE DEF G
<1>3. \A n \in Nat : n \in G
  BY <1>1, <1>2, AllNumbers
<1>4. QED
  BY <1>3 DEF G

LEMMA SumsExist ==
  ASSUME NEW S, IsFiniteSet(S), NEW fun
  PROVE  \E iter : SumsOfParts(iter, fun, S)
<1>1. Cardinality(S) \in Nat
  BY FS_CardinalityType
<1>2. \A s \in SUBSET S : Cardinality(s) <= Cardinality(S)
  BY FS_Subset
<1>3. UpTo(S, Cardinality(S)) = SUBSET S
  BY <1>2 DEF UpTo
<1>4. \E iter : SumsOf(iter, fun, UpTo(S, Cardinality(S)))
  BY <1>1, SumsUpTo
<1>5. QED
  BY <1>3, <1>4 DEF SumsOfParts

\* Two of them agree where both have a value.
LEMMA SumsAgree ==
  ASSUME NEW S, IsFiniteSet(S), NEW T, T \subseteq S, NEW fun, NEW f, SumsOfParts(f, fun, S),
         NEW g, SumsOfParts(g, fun, T)
  PROVE  \A s \in SUBSET T : f[s] = g[s]
<1> DEFINE G == {n \in Nat : \A s \in UpTo(T, n) : f[s] = g[s]}
<1>1. IsFiniteSet(T)
  BY FS_Subset
<1>2. ASSUME NEW s \in SUBSET T
      PROVE  /\ f[s] = IF s = {} THEN 0 ELSE fun[Taken(s)] + f[s \ {Taken(s)}]
             /\ g[s] = IF s = {} THEN 0 ELSE fun[Taken(s)] + g[s \ {Taken(s)}]
  <2>1. s \in SUBSET S
    OBVIOUS
  <2>2. f[s] = IF s = {} THEN 0 ELSE fun[Taken(s)] + f[s \ {Taken(s)}]
    BY <2>1 DEF SumsOfParts, SumsOf
  <2>3. g[s] = IF s = {} THEN 0 ELSE fun[Taken(s)] + g[s \ {Taken(s)}]
    BY DEF SumsOfParts, SumsOf
  <2>4. QED
    BY <2>2, <2>3
<1>3. 0 \in G
  <2> SUFFICES ASSUME NEW s \in UpTo(T, 0) PROVE f[s] = g[s]
    OBVIOUS
  <2>1. s = {} /\ s \in SUBSET T
    BY <1>1, OnlyEmpty
  <2>2. QED
    BY <1>2, <2>1
<1>4. ASSUME NEW n \in Nat, n \in G PROVE n + 1 \in G
  <2> SUFFICES ASSUME NEW s \in UpTo(T, n + 1) PROVE f[s] = g[s]
    OBVIOUS
  <2>1. s \in SUBSET T /\ Cardinality(s) <= n + 1
    BY DEF UpTo
  <2>2. CASE s = {}
    BY <1>2, <2>1, <2>2
  <2>3. CASE s # {}
    <3>1. s \ {Taken(s)} \in UpTo(T, n)
      BY <1>1, <2>1, <2>3, TakenIn, FewerLeft
    <3>2. f[s \ {Taken(s)}] = g[s \ {Taken(s)}]
      BY <1>4, <3>1
    <3>3. QED
      BY <1>2, <2>1, <2>3, <3>2
  <2>4. QED
    BY <2>2, <2>3
<1> HIDE DEF G
<1>5. \A n \in Nat : n \in G
  BY <1>3, <1>4, AllNumbers
<1>6. ASSUME NEW s \in SUBSET T PROVE f[s] = g[s]
  <2>1. Cardinality(s) \in Nat /\ s \in UpTo(T, Cardinality(s))
    BY <1>1, FS_Subset, FS_CardinalityType DEF UpTo
  <2>2. QED
    BY <1>5, <2>1 DEF G
<1>7. QED
  BY <1>6

-----------------------------------------------------------------------------
(* Sums. *)

LEMMA SumIsOne ==
  ASSUME NEW S, IsFiniteSet(S), NEW fun
  PROVE  \E iter : SumsOfParts(iter, fun, S) /\ SumFunctionOnSet(fun, S) = iter[S]
<1> DEFINE iter == CHOOSE f : SumsOfParts(f, fun, S)
<1>1. SumsOfParts(iter, fun, S)
  BY SumsExist
<1>2. SumFunctionOnSet(fun, S) = iter[S]
  BY DEF SumsOfParts, SumsOf, Taken, SumFunctionOnSet, FoldFunctionOnSet, MapThenFoldSet
<1>3. QED
  BY <1>1, <1>2

\* What such a function says of a smaller set is its sum.
LEMMA SumOfPart ==
  ASSUME NEW S, IsFiniteSet(S), NEW T \in SUBSET S, NEW fun, NEW f, SumsOfParts(f, fun, S)
  PROVE  SumFunctionOnSet(fun, T) = f[T]
<1>1. IsFiniteSet(T)
  BY FS_Subset
<1>2. PICK g : SumsOfParts(g, fun, T) /\ SumFunctionOnSet(fun, T) = g[T]
  BY <1>1, SumIsOne
<1>3. SumsOfParts(g, fun, T)
  BY <1>2
<1>4. \A s \in SUBSET T : f[s] = g[s]
  BY <1>3, SumsAgree
<1>5. T \in SUBSET T
  OBVIOUS
<1>6. f[T] = g[T]
  BY <1>4, <1>5
<1>7. QED
  BY <1>2, <1>6

\* The empty sum is 0, and of another one an element is taken out.
LEMMA SumEmpty == ASSUME NEW fun PROVE SumFunctionOnSet(fun, {}) = 0
<1>1. IsFiniteSet({})
  BY FS_EmptySet
<1>2. PICK iter : SumsOfParts(iter, fun, {}) /\ SumFunctionOnSet(fun, {}) = iter[{}]
  BY <1>1, SumIsOne
<1>3. iter[{}] = 0
  BY <1>2 DEF SumsOfParts, SumsOf
<1>4. QED
  BY <1>2, <1>3

LEMMA SumStep ==
  ASSUME NEW S, IsFiniteSet(S), S # {}, NEW fun
  PROVE  SumFunctionOnSet(fun, S)
           = fun[Taken(S)] + SumFunctionOnSet(fun, S \ {Taken(S)})
<1>1. PICK f : SumsOfParts(f, fun, S) /\ SumFunctionOnSet(fun, S) = f[S]
  BY SumIsOne
<1>2. SumFunctionOnSet(fun, S \ {Taken(S)}) = f[S \ {Taken(S)}]
  <2>1. S \ {Taken(S)} \in SUBSET S
    OBVIOUS
  <2>2. SumsOfParts(f, fun, S)
    BY <1>1
  <2>3. QED
    BY <2>1, <2>2, SumOfPart
<1>3. f[S] = fun[Taken(S)] + f[S \ {Taken(S)}]
  BY <1>1 DEF SumsOfParts, SumsOf
<1>4. QED
  BY <1>1, <1>2, <1>3

LEMMA SumType ==
  ASSUME NEW S, IsFiniteSet(S), NEW fun, \A x \in S : fun[x] \in Nat
  PROVE  SumFunctionOnSet(fun, S) \in Nat
<1> DEFINE G == {n \in Nat : \A s \in UpTo(S, n) : SumFunctionOnSet(fun, s) \in Nat}
<1>1. 0 \in G
  <2> SUFFICES ASSUME NEW s \in UpTo(S, 0) PROVE SumFunctionOnSet(fun, s) \in Nat
    OBVIOUS
  <2>1. s = {}
    BY OnlyEmpty
  <2>2. QED
    BY <2>1, SumEmpty
<1>2. ASSUME NEW n \in Nat, n \in G PROVE n + 1 \in G
  <2> SUFFICES ASSUME NEW s \in UpTo(S, n + 1) PROVE SumFunctionOnSet(fun, s) \in Nat
    OBVIOUS
  <2>1. s \in SUBSET S /\ Cardinality(s) <= n + 1 /\ IsFiniteSet(s)
    BY FS_Subset DEF UpTo
  <2>2. CASE s = {}
    BY <2>2, SumEmpty
  <2>3. CASE s # {}
    <3>1. Taken(s) \in s
      BY <2>3, TakenIn
    <3>2. s \ {Taken(s)} \in UpTo(S, n)
      BY <2>1, <3>1, FewerLeft
    <3>3. SumFunctionOnSet(fun, s \ {Taken(s)}) \in Nat
      BY <1>2, <3>2
    <3>4. SumFunctionOnSet(fun, s) = fun[Taken(s)] + SumFunctionOnSet(fun, s \ {Taken(s)})
      BY <2>1, <2>3, SumStep
    <3>5. fun[Taken(s)] \in Nat
      BY <2>1, <3>1
    <3>6. QED
      BY <3>3, <3>4, <3>5
  <2>4. QED
    BY <2>2, <2>3
<1> HIDE DEF G
<1>3. \A n \in Nat : n \in G
  BY <1>1, <1>2, AllNumbers
<1>4. Cardinality(S) \in Nat /\ S \in UpTo(S, Cardinality(S))
  BY FS_CardinalityType DEF UpTo
<1>5. QED
  BY <1>3, <1>4 DEF G

\* Functions with the same values have the same sum.
LEMMA SumSame ==
  ASSUME NEW S, IsFiniteSet(S), NEW fun, NEW gun, \A x \in S : fun[x] = gun[x]
  PROVE  SumFunctionOnSet(fun, S) = SumFunctionOnSet(gun, S)
<1> DEFINE G == {n \in Nat : \A s \in UpTo(S, n) :
                               SumFunctionOnSet(fun, s) = SumFunctionOnSet(gun, s)}
<1>1. 0 \in G
  <2> SUFFICES ASSUME NEW s \in UpTo(S, 0)
               PROVE  SumFunctionOnSet(fun, s) = SumFunctionOnSet(gun, s)
    OBVIOUS
  <2>1. s = {}
    BY OnlyEmpty
  <2>2. QED
    BY <2>1, SumEmpty
<1>2. ASSUME NEW n \in Nat, n \in G PROVE n + 1 \in G
  <2> SUFFICES ASSUME NEW s \in UpTo(S, n + 1)
               PROVE  SumFunctionOnSet(fun, s) = SumFunctionOnSet(gun, s)
    OBVIOUS
  <2>1. s \in SUBSET S /\ Cardinality(s) <= n + 1 /\ IsFiniteSet(s)
    BY FS_Subset DEF UpTo
  <2>2. CASE s = {}
    BY <2>2, SumEmpty
  <2>3. CASE s # {}
    <3>1. Taken(s) \in s
      BY <2>3, TakenIn
    <3>2. s \ {Taken(s)} \in UpTo(S, n)
      BY <2>1, <3>1, FewerLeft
    <3>3. SumFunctionOnSet(fun, s \ {Taken(s)}) = SumFunctionOnSet(gun, s \ {Taken(s)})
      BY <1>2, <3>2
    <3>4. SumFunctionOnSet(fun, s) = fun[Taken(s)] + SumFunctionOnSet(fun, s \ {Taken(s)})
      BY <2>1, <2>3, SumStep
    <3>5. SumFunctionOnSet(gun, s) = gun[Taken(s)] + SumFunctionOnSet(gun, s \ {Taken(s)})
      BY <2>1, <2>3, SumStep
    <3>6. fun[Taken(s)] = gun[Taken(s)]
      BY <2>1, <3>1
    <3>7. QED
      BY <3>3, <3>4, <3>5, <3>6
  <2>4. QED
    BY <2>2, <2>3
<1> HIDE DEF G
<1>3. \A n \in Nat : n \in G
  BY <1>1, <1>2, AllNumbers
<1>4. Cardinality(S) \in Nat /\ S \in UpTo(S, Cardinality(S))
  BY FS_CardinalityType DEF UpTo
<1>5. QED
  BY <1>3, <1>4 DEF G

\* Any element can be taken out first.
LEMMA SumWithout ==
  ASSUME NEW S, IsFiniteSet(S), NEW fun, \A x \in S : fun[x] \in Nat
  PROVE  \A x \in S : SumFunctionOnSet(fun, S) = fun[x] + SumFunctionOnSet(fun, S \ {x})
<1> DEFINE G == {n \in Nat : \A s \in UpTo(S, n) : \A x \in s :
                   SumFunctionOnSet(fun, s) = fun[x] + SumFunctionOnSet(fun, s \ {x})}
<1>1. 0 \in G
  <2>1. \A s \in UpTo(S, 0) : s = {}
    BY OnlyEmpty
  <2>2. QED
    BY <2>1
<1>2. ASSUME NEW n \in Nat, n \in G PROVE n + 1 \in G
  <2> SUFFICES ASSUME NEW s \in UpTo(S, n + 1), NEW x \in s
               PROVE  SumFunctionOnSet(fun, s) = fun[x] + SumFunctionOnSet(fun, s \ {x})
    OBVIOUS
  <2>1. s \in SUBSET S /\ Cardinality(s) <= n + 1 /\ IsFiniteSet(s)
    BY FS_Subset DEF UpTo
  <2> DEFINE y == Taken(s)
  <2>2. y \in s
    BY TakenIn
  <2>3. SumFunctionOnSet(fun, s) = fun[y] + SumFunctionOnSet(fun, s \ {y})
    BY <2>1, SumStep
  <2> HIDE DEF y
  <2>4. CASE x = y
    BY <2>3, <2>4
  <2>5. CASE x # y
    <3>1. s \ {y} \in UpTo(S, n) /\ s \ {x} \in UpTo(S, n)
      BY <2>1, <2>2, FewerLeft
    <3>2. SumFunctionOnSet(fun, s \ {y}) = fun[x] + SumFunctionOnSet(fun, (s \ {y}) \ {x})
      <4>1. x \in s \ {y}
        BY <2>5
      <4>2. QED
        BY <1>2, <3>1, <4>1
    <3>3. SumFunctionOnSet(fun, s \ {x}) = fun[y] + SumFunctionOnSet(fun, (s \ {x}) \ {y})
      <4>1. y \in s \ {x}
        BY <2>2, <2>5
      <4>2. QED
        BY <1>2, <3>1, <4>1
    <3>4. (s \ {x}) \ {y} = (s \ {y}) \ {x}
      OBVIOUS
    <3>5. fun[x] \in Nat /\ fun[y] \in Nat
      BY <2>1, <2>2
    <3>6. SumFunctionOnSet(fun, (s \ {y}) \ {x}) \in Nat
      <4>1. IsFiniteSet((s \ {y}) \ {x}) /\ \A z \in (s \ {y}) \ {x} : fun[z] \in Nat
        BY <2>1, FS_Subset
      <4>2. QED
        BY <4>1, SumType
    <3> DEFINE all == SumFunctionOnSet(fun, s)
               noX == SumFunctionOnSet(fun, s \ {x})
               noY == SumFunctionOnSet(fun, s \ {y})
               neither == SumFunctionOnSet(fun, (s \ {y}) \ {x})
    <3>7. all = fun[y] + noY /\ noY = fun[x] + neither /\ noX = fun[y] + neither
      BY <2>3, <3>2, <3>3, <3>4
    <3>8. neither \in Nat
      BY <3>6
    <3> HIDE DEF all, noX, noY, neither
    <3>9. all = fun[x] + noX
      BY <3>5, <3>7, <3>8
    <3>10. QED
      BY <3>9 DEF all, noX
  <2>6. QED
    BY <2>4, <2>5
<1> HIDE DEF G
<1>3. \A n \in Nat : n \in G
  BY <1>1, <1>2, AllNumbers
<1>4. Cardinality(S) \in Nat /\ S \in UpTo(S, Cardinality(S))
  BY FS_CardinalityType DEF UpTo
<1>5. QED
  BY <1>3, <1>4 DEF G

\* One element more.
LEMMA SumWith ==
  ASSUME NEW S, IsFiniteSet(S), NEW x, x \notin S, NEW fun, \A z \in S \union {x} : fun[z] \in Nat
  PROVE  SumFunctionOnSet(fun, S \union {x}) = fun[x] + SumFunctionOnSet(fun, S)
<1>1. IsFiniteSet(S \union {x})
  BY FS_AddElement
<1>2. SumFunctionOnSet(fun, S \union {x}) = fun[x] + SumFunctionOnSet(fun, (S \union {x}) \ {x})
  BY <1>1, SumWithout
<1>3. (S \union {x}) \ {x} = S
  OBVIOUS
<1>4. QED
  BY <1>2, <1>3

-----------------------------------------------------------------------------
(* The recursive function behind a filter. *)

PicksOf(f, items, wanted, n) ==
  f = [i \in 0..n |-> IF i = 0 THEN <<>>
                      ELSE IF items[i] \in wanted THEN Append(f[i - 1], items[i])
                      ELSE f[i - 1]]

\* There is one, for any number of items.
LEMMA PicksExist ==
  ASSUME NEW items, NEW wanted
  PROVE  \A n \in Nat : \E f : PicksOf(f, items, wanted, n)
<1> DEFINE G == {n \in Nat : \E f : PicksOf(f, items, wanted, n)}
           After(f, i) == IF items[i] \in wanted THEN Append(f[i - 1], items[i]) ELSE f[i - 1]
<1>1. 0 \in G
  <2> DEFINE f == [i \in 0..0 |-> <<>>]
  <2>1. PicksOf(f, items, wanted, 0)
    BY DEF PicksOf
  <2>2. QED
    BY <2>1
<1>2. ASSUME NEW n \in Nat, n \in G PROVE n + 1 \in G
  <2>1. PICK old : PicksOf(old, items, wanted, n)
    BY <1>2
  <2>2. \A i \in 0..n : old[i] = IF i = 0 THEN <<>> ELSE After(old, i)
    BY <2>1 DEF PicksOf
  <2> DEFINE new == [i \in 0..(n + 1) |-> IF i = n + 1 THEN After(old, i) ELSE old[i]]
  <2> HIDE DEF After
  <2>3. \A i \in 0..n : i \in 0..(n + 1) /\ i # n + 1
    OBVIOUS
  <2>4. \A i \in 0..n : new[i] = old[i]
    BY <2>3
  <2>5. \A i \in 1..(n + 1) : After(new, i) = After(old, i)
    <3> SUFFICES ASSUME NEW i \in 1..(n + 1) PROVE After(new, i) = After(old, i)
      OBVIOUS
    <3>1. i - 1 \in 0..n
      OBVIOUS
    <3>2. new[i - 1] = old[i - 1]
      BY <2>4, <3>1
    <3> HIDE DEF new
    <3>3. QED
      BY <3>2 DEF After
  <2>6. ASSUME NEW i \in 0..(n + 1) PROVE new[i] = IF i = 0 THEN <<>> ELSE After(new, i)
    <3>1. CASE i = 0
      BY <2>2, <2>4, <3>1
    <3>2. CASE i = n + 1
      BY <2>5, <3>2
    <3>3. CASE i \in 1..n
      BY <2>2, <2>4, <2>5, <3>3
    <3>4. QED
      BY <3>1, <3>2, <3>3
  <2>7. new = [i \in 0..(n + 1) |-> new[i]]
    OBVIOUS
  <2> HIDE DEF new
  <2>8. new = [i \in 0..(n + 1) |-> IF i = 0 THEN <<>> ELSE After(new, i)]
    BY <2>6, <2>7
  <2>9. PicksOf(new, items, wanted, n + 1)
    BY <2>8 DEF PicksOf, After
  <2>10. QED
    BY <2>9
<1> HIDE DEF G
<1>3. \A n \in Nat : n \in G
  BY <1>1, <1>2, AllNumbers
<1>4. QED
  BY <1>3 DEF G

\* Two of them agree as long as the items do.
LEMMA PicksAgree ==
  ASSUME NEW n \in Nat, NEW m \in Nat, NEW f, NEW g, NEW items, NEW others, NEW wanted,
         PicksOf(f, items, wanted, n), PicksOf(g, others, wanted, m),
         NEW l \in Nat, l <= n, l <= m, \A i \in 1..l : items[i] = others[i]
  PROVE  f[l] = g[l]
<1> DEFINE G == {k \in Nat : k <= l => f[k] = g[k]}
<1>1. 0 \in G
  <2>1. f[0] = <<>>
    BY DEF PicksOf
  <2>2. g[0] = <<>>
    BY DEF PicksOf
  <2>3. QED
    BY <2>1, <2>2
<1>2. ASSUME NEW k \in Nat, k \in G PROVE k + 1 \in G
  <2> SUFFICES ASSUME k + 1 <= l PROVE f[k + 1] = g[k + 1]
    OBVIOUS
  <2>1. f[k] = g[k] /\ k + 1 \in 0..n /\ k + 1 \in 0..m /\ k + 1 # 0 /\ (k + 1) - 1 = k
    BY <1>2
  <2>2. items[k + 1] = others[k + 1]
    OBVIOUS
  <2>3. f[k + 1] = IF items[k + 1] \in wanted THEN Append(f[k], items[k + 1]) ELSE f[k]
    BY <2>1 DEF PicksOf
  <2>4. g[k + 1] = IF others[k + 1] \in wanted THEN Append(g[k], others[k + 1]) ELSE g[k]
    BY <2>1 DEF PicksOf
  <2>5. QED
    BY <2>1, <2>2, <2>3, <2>4
<1> HIDE DEF G
<1>3. \A k \in Nat : k \in G
  BY <1>1, <1>2, AllNumbers
<1>4. QED
  BY <1>3 DEF G

LEMMA PickedIs ==
  ASSUME NEW items, Len(items) \in Nat, NEW wanted
  PROVE  \E f : PicksOf(f, items, wanted, Len(items)) /\ Picked(items, wanted) = f[Len(items)]
<1> DEFINE f == CHOOSE h : PicksOf(h, items, wanted, Len(items))
<1>1. PicksOf(f, items, wanted, Len(items))
  BY PicksExist
<1>2. Picked(items, wanted) = f[Len(items)]
  BY DEF PicksOf, Picked
<1>3. QED
  BY <1>1, <1>2

-----------------------------------------------------------------------------
(* What a filter returns. *)

\* Of nothing it is nothing, and an item more is kept if it is wanted.
LEMMA PickedEmpty == ASSUME NEW wanted PROVE Picked(<<>>, wanted) = <<>>
<1>1. Len(<<>>) = 0
  OBVIOUS
<1>2. PICK f : PicksOf(f, <<>>, wanted, 0) /\ Picked(<<>>, wanted) = f[0]
  BY <1>1, PickedIs
<1>3. f[0] = <<>>
  BY <1>2 DEF PicksOf
<1>4. QED
  BY <1>2, <1>3

LEMMA PickedStep ==
  ASSUME NEW S, NEW items \in Seq(S), NEW x \in S, NEW wanted
  PROVE  Picked(Append(items, x), wanted)
           = IF x \in wanted THEN Append(Picked(items, wanted), x) ELSE Picked(items, wanted)
<1> DEFINE n == Len(items)
           more == Append(items, x)
<1>1. n \in Nat /\ Len(more) = n + 1 /\ more[n + 1] = x /\ \A i \in 1..n : more[i] = items[i]
  OBVIOUS
<1>2. PICK f : PicksOf(f, items, wanted, n) /\ Picked(items, wanted) = f[n]
  BY <1>1, PickedIs
<1> HIDE DEF more, n
<1>3. PICK g : PicksOf(g, more, wanted, n + 1) /\ Picked(more, wanted) = g[n + 1]
  <2>1. Len(more) \in Nat
    BY <1>1
  <2>2. \E g : PicksOf(g, more, wanted, Len(more)) /\ Picked(more, wanted) = g[Len(more)]
    BY <2>1, PickedIs
  <2>3. QED
    BY <1>1, <2>2
<1>4. g[n] = f[n]
  <2>1. n + 1 \in Nat /\ n <= n + 1 /\ n <= n
    BY <1>1
  <2>2. \A i \in 1..n : more[i] = items[i]
    BY <1>1
  <2>3. PicksOf(f, items, wanted, n) /\ PicksOf(g, more, wanted, n + 1)
    BY <1>2, <1>3
  <2>4. QED
    BY <1>1, <2>1, <2>2, <2>3, PicksAgree
<1>5. g[n + 1] = IF x \in wanted THEN Append(g[n], x) ELSE g[n]
  <2>1. n + 1 \in 0..(n + 1) /\ n + 1 # 0 /\ (n + 1) - 1 = n
    BY <1>1
  <2>2. g[n + 1] = IF more[n + 1] \in wanted THEN Append(g[n], more[n + 1]) ELSE g[n]
    BY <1>3, <2>1 DEF PicksOf
  <2>3. QED
    BY <1>1, <2>2
<1>6. QED
  BY <1>2, <1>3, <1>4, <1>5 DEF more

\* Nothing but wanted items is kept, and no more than there are.
LEMMA PickedType ==
  ASSUME NEW S, NEW items \in Seq(S), NEW wanted
  PROVE  Picked(items, wanted) \in Seq(S \intersect wanted) /\ Len(Picked(items, wanted)) <= Len(items)
<1> DEFINE T == S \intersect wanted
           G == {s \in Seq(S) : Picked(s, wanted) \in Seq(T) /\ Len(Picked(s, wanted)) <= Len(s)}
<1>1. <<>> \in G
  <2>1. <<>> \in Seq(S) /\ <<>> \in Seq(T) /\ Len(<<>>) = 0
    OBVIOUS
  <2>2. Picked(<<>>, wanted) = <<>>
    BY PickedEmpty
  <2> HIDE DEF T
  <2>3. Picked(<<>>, wanted) \in Seq(T) /\ Len(Picked(<<>>, wanted)) <= Len(<<>>)
    <3>1. Picked(<<>>, wanted) \in Seq(T)
      BY <2>1, <2>2, Zenon
    <3>2. 0 <= 0
      OBVIOUS
    <3>3. Len(Picked(<<>>, wanted)) <= Len(<<>>)
      BY <2>1, <2>2, <3>2, Zenon
    <3>4. QED
      BY <3>1, <3>3
  <2>4. QED
    BY <2>1, <2>3, Zenon
<1>2. ASSUME NEW s \in Seq(S), NEW x \in S, s \in G PROVE Append(s, x) \in G
  <2> DEFINE p == Picked(s, wanted)
             q == Picked(Append(s, x), wanted)
  <2>1. p \in Seq(T) /\ Len(p) <= Len(s)
    BY <1>2
  <2>2. q = IF x \in wanted THEN Append(p, x) ELSE p
    BY PickedStep
  <2>3. x \in wanted => x \in T
    OBVIOUS
  <2>4. Append(s, x) \in Seq(S) /\ Len(Append(s, x)) = Len(s) + 1 /\ Len(s) \in Nat
    OBVIOUS
  <2> HIDE DEF p, q, T
  <2>5. q \in Seq(T) /\ Len(q) <= Len(s) + 1
    BY <2>1, <2>2, <2>3, <2>4
  <2>6. QED
    BY <2>4, <2>5 DEF q
<1> HIDE DEF G
<1>3. \A s \in Seq(S) : s \in G
  BY <1>1, <1>2, AllSequences
<1>4. QED
  BY <1>3 DEF G

\* Two parts are filtered one by one.
LEMMA PickedParts ==
  ASSUME NEW S, NEW a \in Seq(S), NEW b \in Seq(S), NEW wanted
  PROVE  Picked(a \o b, wanted) = Picked(a, wanted) \o Picked(b, wanted)
<1> DEFINE P(s) == Picked(s, wanted)
           G == {s \in Seq(S) : P(a \o s) = P(a) \o P(s)}
<1> HIDE DEF P
<1>0. \A s \in Seq(S) : P(s) \in Seq(S)
  <2> SUFFICES ASSUME NEW s \in Seq(S) PROVE P(s) \in Seq(S)
    OBVIOUS
  <2>1. P(s) \in Seq(S \intersect wanted)
    BY PickedType DEF P
  <2>2. QED
    BY <2>1
<1>1. <<>> \in G
  <2>1. P(<<>>) = <<>>
    BY PickedEmpty DEF P
  <2>2. <<>> \in Seq(S) /\ a \o <<>> = a
    OBVIOUS
  <2>3. P(a) \o <<>> = P(a)
    <3>1. P(a) \in Seq(S)
      BY <1>0
    <3>2. QED
      BY <3>1
  <2>4. QED
    BY <2>1, <2>2, <2>3
<1>2. ASSUME NEW s \in Seq(S), NEW x \in S, s \in G PROVE Append(s, x) \in G
  <2>1. a \o Append(s, x) = Append(a \o s, x) /\ a \o s \in Seq(S) /\ Append(s, x) \in Seq(S)
    OBVIOUS
  <2>2. P(Append(a \o s, x)) = IF x \in wanted THEN Append(P(a \o s), x) ELSE P(a \o s)
    BY <2>1, PickedStep DEF P
  <2>3. P(Append(s, x)) = IF x \in wanted THEN Append(P(s), x) ELSE P(s)
    BY PickedStep DEF P
  <2>4. P(a \o s) = P(a) \o P(s)
    BY <1>2
  <2>5. P(a) \o Append(P(s), x) = Append(P(a) \o P(s), x)
    <3>1. P(a) \in Seq(S) /\ P(s) \in Seq(S)
      BY <1>0
    <3>2. QED
      BY <3>1
  <2>6. P(a \o Append(s, x)) = P(a) \o P(Append(s, x))
    BY <2>1, <2>2, <2>3, <2>4, <2>5
  <2>7. QED
    BY <2>1, <2>6
<1> HIDE DEF G
<1>3. \A s \in Seq(S) : s \in G
  BY <1>1, <1>2, AllSequences
<1>4. QED
  BY <1>3 DEF G, P

\* What matters of the wanted items is which of the items they are.
LEMMA PickedSame ==
  ASSUME NEW S, NEW items \in Seq(S), NEW V, NEW W, \A x \in S : x \in V <=> x \in W
  PROVE  Picked(items, V) = Picked(items, W)
<1> DEFINE G == {s \in Seq(S) : Picked(s, V) = Picked(s, W)}
<1>1. <<>> \in G
  BY PickedEmpty
<1>2. ASSUME NEW s \in Seq(S), NEW x \in S, s \in G PROVE Append(s, x) \in G
  <2>1. Picked(Append(s, x), V) = IF x \in V THEN Append(Picked(s, V), x) ELSE Picked(s, V)
    BY PickedStep
  <2>2. Picked(Append(s, x), W) = IF x \in W THEN Append(Picked(s, W), x) ELSE Picked(s, W)
    BY PickedStep
  <2>3. Picked(s, V) = Picked(s, W) /\ (x \in V <=> x \in W)
    BY <1>2
  <2>4. Append(s, x) \in Seq(S)
    OBVIOUS
  <2>5. QED
    BY <2>1, <2>2, <2>3, <2>4
<1> HIDE DEF G
<1>3. \A s \in Seq(S) : s \in G
  BY <1>1, <1>2, AllSequences
<1>4. QED
  BY <1>3 DEF G

\* Every wanted item is kept.
LEMMA PickedAll ==
  ASSUME NEW S, NEW items \in Seq(S), NEW wanted
  PROVE  \A i \in 1..Len(items) :
           items[i] \in wanted =>
             \E j \in 1..Len(Picked(items, wanted)) : Picked(items, wanted)[j] = items[i]
<1> DEFINE P(s) == Picked(s, wanted)
           G == {s \in Seq(S) : \A i \in 1..Len(s) :
                   s[i] \in wanted => \E j \in 1..Len(P(s)) : P(s)[j] = s[i]}
<1> HIDE DEF P
<1>0. \A s \in Seq(S) : P(s) \in Seq(S)
  <2> SUFFICES ASSUME NEW s \in Seq(S) PROVE P(s) \in Seq(S)
    OBVIOUS
  <2>1. P(s) \in Seq(S \intersect wanted)
    BY PickedType DEF P
  <2>2. QED
    BY <2>1
<1>1. <<>> \in G
  OBVIOUS
<1>2. ASSUME NEW s \in Seq(S), NEW x \in S, s \in G PROVE Append(s, x) \in G
  <2> DEFINE t == Append(s, x)
  <2>1. P(t) = IF x \in wanted THEN Append(P(s), x) ELSE P(s)
    BY PickedStep DEF P
  <2>2. /\ t \in Seq(S) /\ Len(t) = Len(s) + 1 /\ Len(s) \in Nat
        /\ \A i \in 1..Len(s) : t[i] = s[i]
        /\ t[Len(s) + 1] = x
    BY AppendItems
  <2>3. P(s) \in Seq(S)
    BY <1>0
  <2>4. /\ Len(Append(P(s), x)) = Len(P(s)) + 1 /\ Len(P(s)) \in Nat
        /\ \A i \in 1..Len(P(s)) : Append(P(s), x)[i] = P(s)[i]
        /\ Append(P(s), x)[Len(P(s)) + 1] = x
    BY <2>3, AppendItems
  <2> HIDE DEF t
  <2>5. ASSUME NEW i \in 1..Len(t), t[i] \in wanted
        PROVE  \E j \in 1..Len(P(t)) : P(t)[j] = t[i]
    <3>1. CASE i = Len(s) + 1
      <4>1. x \in wanted /\ t[i] = x
        BY <2>2, <2>5, <3>1
      <4>2. P(t) = Append(P(s), x) /\ Len(P(s)) + 1 \in 1..Len(P(t))
        BY <2>1, <2>4, <4>1
      <4>3. QED
        BY <2>4, <4>1, <4>2
    <3>2. CASE i # Len(s) + 1
      <4>1. i \in 1..Len(s) /\ t[i] = s[i]
        BY <2>2, <3>2
      <4>2. PICK j \in 1..Len(P(s)) : P(s)[j] = t[i]
        BY <1>2, <2>5, <4>1
      <4>3. j \in 1..Len(P(t)) /\ P(t)[j] = P(s)[j]
        BY <2>1, <2>4
      <4>4. QED
        BY <4>2, <4>3
    <3>3. QED
      BY <3>1, <3>2
  <2>6. t \in G
    BY <2>2, <2>5
  <2>7. QED
    BY <2>6 DEF t
<1> HIDE DEF G
<1>3. \A s \in Seq(S) : s \in G
  BY <1>1, <1>2, AllSequences
<1>4. QED
  BY <1>3 DEF G, P

\* Of distinct items none is kept twice.
LEMMA PickedDistinct ==
  ASSUME NEW S, NEW items \in Seq(S), Distinct(items), NEW wanted
  PROVE  Distinct(Picked(items, wanted))
<1> DEFINE P(s) == Picked(s, wanted)
           R(s) == {s[i] : i \in 1..Len(s)}
           G == {s \in Seq(S) : /\ P(s) \in Seq(R(s))
                                /\ Distinct(s) => Distinct(P(s))}
<1>1. <<>> \in G
  <2>1. P(<<>>) = <<>>
    BY PickedEmpty
  <2>2. Distinct(<<>>)
    BY DEF Distinct
  <2>3. <<>> \in Seq(S) /\ <<>> \in Seq(R(<<>>))
    OBVIOUS
  <2> HIDE DEF P, R
  <2>4. QED
    BY <2>1, <2>2, <2>3
<1> HIDE DEF P
<1>2. ASSUME NEW s \in Seq(S), NEW x \in S, s \in G PROVE Append(s, x) \in G
  <2> DEFINE t == Append(s, x)
             p == P(s)
  <2>1. P(t) = IF x \in wanted THEN Append(p, x) ELSE p
    BY PickedStep DEF P
  <2>2. /\ t \in Seq(S) /\ Len(t) = Len(s) + 1 /\ Len(s) \in Nat
        /\ \A i \in 1..Len(s) : t[i] = s[i]
        /\ t[Len(s) + 1] = x
    BY AppendItems
  <2>3. p \in Seq(R(s)) /\ (Distinct(s) => Distinct(p))
    BY <1>2
  <2> HIDE DEF t, p
  <2>4. \A y \in R(s) : y \in R(t)
    BY <2>2
  <2>5. x \in R(t)
    BY <2>2
  <2>6. P(t) \in Seq(R(t))
    <3> HIDE DEF R
    <3>1. p \in Seq(R(t))
      BY <2>3, <2>4
    <3>2. Append(p, x) \in Seq(R(t))
      BY <2>5, <3>1
    <3>3. QED
      BY <2>1, <3>1, <3>2
  <2>7. ASSUME Distinct(t) PROVE Distinct(P(t))
    <3>1. Distinct(s)
      <4>1. \A i \in 1..Len(s) : i \in 1..Len(t)
        BY <2>2
      <4>2. QED
        BY <2>2, <2>7, <4>1 DEF Distinct
    <3>2. Distinct(p)
      BY <2>3, <3>1
    <3>3. x \notin R(s)
      <4> SUFFICES ASSUME NEW i \in 1..Len(s), s[i] = x PROVE FALSE
        OBVIOUS
      <4>1. t[i] = t[Len(s) + 1] /\ i \in 1..Len(t) /\ Len(s) + 1 \in 1..Len(t)
        BY <2>2
      <4>2. i = Len(s) + 1
        BY <2>7, <4>1 DEF Distinct
      <4>3. QED
        BY <2>2, <4>2
    <3> HIDE DEF R
    <3>4. \A i \in 1..Len(p) : p[i] # x
      <4>1. \A i \in 1..Len(p) : p[i] \in R(s)
        BY <2>3
      <4>2. QED
        BY <3>3, <4>1
    <3>5. Distinct(Append(p, x))
      <4> DEFINE q == Append(p, x)
                 U == R(s) \union {x}
      <4>1. p \in Seq(U) /\ x \in U
        BY <2>3
      <4>2. /\ Len(q) = Len(p) + 1 /\ Len(p) \in Nat
            /\ \A i \in 1..Len(p) : q[i] = p[i]
            /\ q[Len(p) + 1] = x
        <5> HIDE DEF U
        <5>1. QED
          BY <4>1, AppendItems
      <4> HIDE DEF q
      <4>3. ASSUME NEW i \in 1..Len(q), NEW j \in 1..Len(q), q[i] = q[j] PROVE i = j
        <5>1. i \in 1..Len(p) \/ i = Len(p) + 1
          BY <4>2
        <5>2. j \in 1..Len(p) \/ j = Len(p) + 1
          BY <4>2
        <5>3. QED
          BY <3>2, <3>4, <4>2, <4>3, <5>1, <5>2 DEF Distinct
      <4>4. Distinct(q)
        BY <4>3 DEF Distinct
      <4>5. QED
        BY <4>4 DEF q
    <3>6. QED
      BY <2>1, <3>2, <3>5
  <2>8. t \in G
    BY <2>2, <2>6, <2>7
  <2>9. QED
    BY <2>8 DEF t
<1> HIDE DEF G
<1>3. \A s \in Seq(S) : s \in G
  BY <1>1, <1>2, AllSequences
<1>4. QED
  BY <1>3 DEF G, P
=============================================================================
