---------------------- MODULE MCEventLogReaders_proofs ----------------------
(***************************************************************************)
(* What the readers of Spark's logs tell a caller is true, for every value *)
(* of the constants: the pages of an event log and its summary             *)
(* (SnapshotRead), the route to an executor's log and the text it gives    *)
(* (RouteKept), the slowest tasks and their percentiles (TasksRanked,      *)
(* NearestRank), the evidence of failures (WorstShown) and the attempts of *)
(* stages with their totals (StagesKept). Each part has an inductive       *)
(* invariant of its own: ReaderInv, RouteInv, TaskInv, OverviewInv and     *)
(* StageInv say what is kept of what was read so far.                      *)
(***************************************************************************)
EXTENDS MCEventLogReaders, DataLemmas, FiniteSetTheorems, TLAPS

(***************************************************************************)
(* The inductive invariant of the reader.                                  *)
(***************************************************************************)

\* The kinds a reader lets through.
Good == {"logStart", "appStart", "hit", "miss", "appEnd"}

Files == [lines : Seq(Reader!Kinds), stamp : 0..MaxEdits]
Selections == [sha : Seq(Reader!Kinds), size : Nat, count : Nat, end : BOOLEAN]
Pages == [matched : Nat, eligible : Nat, lines : Seq(Nat)]
Readings == [phase : {"reading"}, selected : Selections, replaced : Seq(Files),
             stamp : 0..MaxEdits, read : Seq(Good), page : Pages]

ReaderTypes ==
  /\ log \in Files
  /\ manifest \in Selections /\ manifest = Reader!Described(manifest.sha)
  /\ edits \in 0..MaxEdits
  /\ \/ scan = Reader!NoScan
     \/ scan \in [phase : {"manifest"}, selected : Selections]
     \/ scan \in Readings
  /\ scan.phase # "idle" => scan.selected = Reader!Described(scan.selected.sha)
  /\ scan.phase = "reading" => Len(scan.read) <= scan.selected.count
  /\ walk \in [status : Reader!Statuses, sha : Seq(Reader!Kinds), after : Nat,
               shown : Seq(Nat), matched : SUBSET Nat]

\* A read is under way for the call that waits, and a query has the snapshot
\* it was told.
BusyInv ==
  /\ scan.phase # "idle" <=> walk.status \in {"inspecting", "querying"}
  /\ scan.phase = "reading" /\ walk.status = "querying" => scan.selected.sha = walk.sha

Among(number, numbers) == \E i \in DOMAIN numbers : numbers[i] = number

\* The lines are hits of the read, from its first on, and none is left out.
HeadOf(numbers, hits) ==
  /\ Reader!InOrder(numbers)
  /\ \A i \in DOMAIN numbers : numbers[i] \in hits
  /\ \A h \in hits, i \in DOMAIN numbers : h < numbers[i] => Among(h, numbers)

\* The matches after a line.
Beyond(lines, after) == {h \in Reader!Hits(lines) : h > after}

\* A page holds the first matches of what was read, as many as it may, and
\* has counted the rest.
PageRight(page, read, after) ==
  /\ page.matched = Cardinality(Reader!Hits(read))
  /\ HeadOf(page.lines, Beyond(read, after))
  /\ page.eligible >= Len(page.lines) /\ Len(page.lines) <= PageLimit
  /\ page.eligible > Len(page.lines) => Len(page.lines) = PageLimit
  /\ page.eligible = Len(page.lines) =>
       \A h \in Beyond(read, after) : Among(h, page.lines)

PageInv == scan.phase = "reading" => PageRight(scan.page, scan.read, walk.after)

\* What was shown, and where the next page starts.
WalkInv ==
  /\ HeadOf(walk.shown, Reader!Hits(walk.sha))
  /\ walk.matched \subseteq {Cardinality(Reader!Hits(walk.sha))}
  /\ walk.status \in {"new", "inspecting"} =>
       walk.after = 0 /\ walk.shown = <<>> /\ walk.matched = {}
  /\ walk.status \in {"inspected", "querying"} /\ walk.after = 0 => walk.shown = <<>>
  /\ walk.status = "paused" => walk.after # 0
  /\ walk.status \in {"inspected", "querying", "paused"} /\ walk.after # 0 =>
       /\ walk.shown # <<>> /\ walk.after = walk.shown[Len(walk.shown)]
  /\ walk.status \in {"inspected", "querying", "paused"} => Len(walk.shown) % PageLimit = 0
  /\ walk.status = "done" => \A h \in Reader!Hits(walk.sha) : Among(h, walk.shown)

\* Before anything is changed, everything is about the one log published.
UntouchedInv ==
  edits = 0 =>
    /\ log.lines \in PublishedLogs /\ log.stamp = 0
    /\ manifest = Reader!Described(log.lines)
    /\ scan.phase # "idle" => scan.selected = manifest
    /\ scan.phase = "reading" =>
         /\ scan.replaced = <<>> /\ scan.stamp = 0
         /\ scan.read = SubSeq(log.lines, 1, Len(scan.read))
    /\ walk.status \in {"inspected", "querying", "paused"} => walk.sha = log.lines
    /\ walk.status # "UNEXPECTED_RESPONSE"

HeaderInv == Reader!InspectedHasHeader

RInv == ReaderTypes /\ BusyInv /\ PageInv /\ WalkInv /\ UntouchedInv /\ HeaderInv

ReaderInv == part = "reader" => RInv

-----------------------------------------------------------------------------
(* Lines, their bytes and their hits. *)

\* The reader counts as its instance does.
LEMMA SameCount ==
  \A S : Reader!Cardinality(S) = Cardinality(S)
  BY DEF Reader!Cardinality, Reader!IsFiniteSet, Cardinality, IsFiniteSet

\* The hits of lines are finitely many of their numbers.
LEMMA HitsFinite ==
  ASSUME NEW lines \in Seq(Reader!Kinds)
  PROVE  /\ Reader!Hits(lines) \subseteq 1..Len(lines)
         /\ IsFiniteSet(Reader!Hits(lines)) /\ Cardinality(Reader!Hits(lines)) \in Nat
<1>1. Reader!Hits(lines) \subseteq 1..Len(lines)
  BY DEF Reader!Hits
<1>2. IsFiniteSet(1..Len(lines))
  BY FS_Interval
<1>3. QED
  BY <1>1, <1>2, FS_Subset, FS_CardinalityType

\* A line more is a hit more or none, and comes after all others.
LEMMA HitsGrow ==
  ASSUME NEW lines \in Seq(Reader!Kinds), NEW kind \in Reader!Kinds
  PROVE  /\ Reader!Hits(Append(lines, kind)) =
              IF kind = "hit" THEN Reader!Hits(lines) \union {Len(lines) + 1}
              ELSE Reader!Hits(lines)
         /\ Cardinality(Reader!Hits(Append(lines, kind))) =
              Cardinality(Reader!Hits(lines)) + (IF kind = "hit" THEN 1 ELSE 0)
<1> DEFINE more == Append(lines, kind)
<1>1. /\ DOMAIN more = 1..(Len(lines) + 1) /\ more[Len(lines) + 1] = kind
      /\ \A i \in 1..Len(lines) : more[i] = lines[i]
  OBVIOUS
<1>2. Reader!Hits(more) = IF kind = "hit" THEN Reader!Hits(lines) \union {Len(lines) + 1}
                          ELSE Reader!Hits(lines)
  BY <1>1 DEF Reader!Hits
<1>3. Len(lines) + 1 \notin Reader!Hits(lines)
  BY DEF Reader!Hits
<1>4. CASE kind = "hit"
  BY <1>2, <1>3, <1>4, HitsFinite, FS_AddElement
<1>5. CASE kind # "hit"
  BY <1>2, <1>5, HitsFinite
<1>6. QED
  BY <1>2, <1>4, <1>5

\* The bytes of lines are a number.
LEMMA BytesType ==
  ASSUME NEW lines \in Seq(Reader!Kinds)
  PROVE  Reader!Bytes(lines) \in Nat
<1>1. IsFiniteSet(1..Len(lines)) /\ {i \in DOMAIN lines : lines[i] = "miss"} \subseteq 1..Len(lines)
  BY FS_Interval
<1>2. Cardinality({i \in DOMAIN lines : lines[i] = "miss"}) \in Nat
  BY <1>1, FS_Subset, FS_CardinalityType
<1>3. QED
  BY <1>2, SameCount DEF Reader!Bytes

\* A longer head of lines has more bytes.
LEMMA BytesGrow ==
  ASSUME NEW lines \in Seq(Reader!Kinds), NEW j \in 0..Len(lines), NEW k \in 0..Len(lines), j < k
  PROVE  /\ Reader!Bytes(SubSeq(lines, 1, j)) \in Nat
         /\ Reader!Bytes(SubSeq(lines, 1, k)) \in Nat
         /\ Reader!Bytes(SubSeq(lines, 1, j)) < Reader!Bytes(SubSeq(lines, 1, k))
<1> DEFINE wide(n) == {i \in 1..n : lines[i] = "miss"}
<1>1. \A n \in 0..Len(lines) :
        /\ Len(SubSeq(lines, 1, n)) = n
        /\ {i \in DOMAIN SubSeq(lines, 1, n) : SubSeq(lines, 1, n)[i] = "miss"} = wide(n)
  OBVIOUS
<1>2. \A n \in 0..Len(lines) : IsFiniteSet(wide(n)) /\ Cardinality(wide(n)) \in Nat
  <2> TAKE n \in 0..Len(lines)
  <2>1. IsFiniteSet(1..n) /\ wide(n) \subseteq 1..n
    BY FS_Interval
  <2>2. QED
    BY <2>1, FS_Subset, FS_CardinalityType
<1>3. wide(j) \subseteq wide(k)
  OBVIOUS
<1>4. Cardinality(wide(j)) <= Cardinality(wide(k))
  BY <1>2, <1>3, FS_Subset
<1>5. \A n \in 0..Len(lines) :
        Reader!Bytes(SubSeq(lines, 1, n)) = n + Cardinality(wide(n))
  BY <1>1, SameCount DEF Reader!Bytes
<1> HIDE DEF wide
<1>6. QED
  BY <1>2, <1>4, <1>5

\* Whoever has read a head of the lines finds the next line, or the end.
LEMMA NextLine ==
  ASSUME NEW lines \in Seq(Reader!Kinds), NEW k \in 0..Len(lines)
  PROVE  Reader!LineAt(lines, Reader!Bytes(SubSeq(lines, 1, k))) =
           IF k = Len(lines) THEN "eof" ELSE lines[k + 1]
<1> DEFINE offset == Reader!Bytes(SubSeq(lines, 1, k))
           starts == {i \in DOMAIN lines : Reader!Bytes(SubSeq(lines, 1, i - 1)) = offset}
<1>1. SubSeq(lines, 1, Len(lines)) = lines
  OBVIOUS
<1>2. CASE k = Len(lines)
  <2>1. Reader!Bytes(lines) = offset
    BY <1>1, <1>2
  <2>2. offset >= Reader!Bytes(lines)
    BY <2>1, BytesType
  <2>3. QED
    BY <1>2, <2>2 DEF Reader!LineAt
<1>3. CASE k < Len(lines)
  <2>1. ~(offset >= Reader!Bytes(lines))
    <3>1. Len(lines) \in 0..Len(lines)
      OBVIOUS
    <3>2. offset < Reader!Bytes(lines)
      BY <1>1, <1>3, <3>1, BytesGrow
    <3>3. offset \in Nat /\ Reader!Bytes(lines) \in Nat
      BY <1>1, <1>3, <3>1, BytesGrow
    <3>4. QED
      BY <3>2, <3>3
  <2>2. \A i \in DOMAIN lines : i - 1 \in 0..Len(lines)
    OBVIOUS
  <2>3. \A i \in DOMAIN lines : i - 1 # k =>
          Reader!Bytes(SubSeq(lines, 1, i - 1)) # offset
    <3> SUFFICES ASSUME NEW i \in DOMAIN lines, i - 1 # k
                 PROVE  Reader!Bytes(SubSeq(lines, 1, i - 1)) # offset
      OBVIOUS
    <3>1. CASE i - 1 < k
      BY <2>2, <3>1, BytesGrow
    <3>2. CASE i - 1 > k
      BY <2>2, <3>2, BytesGrow
    <3>3. QED
      BY <2>2, <3>1, <3>2
  <2>4. k + 1 \in DOMAIN lines /\ (k + 1) - 1 = k
    BY <1>3
  <2>5. starts = {k + 1}
    BY <2>3, <2>4
  <2>6. QED
    BY <1>3, <2>1, <2>5 DEF Reader!LineAt
<1>4. QED
  BY <1>2, <1>3

\* A reading is a line of the file, or a broken one, or its end.
LEMMA ReadingKind ==
  ASSUME NEW lines \in Seq(Reader!Kinds), NEW offset
  PROVE  Reader!LineAt(lines, offset) \in Reader!Kinds \union {"eof"}
<1> DEFINE starts == {i \in DOMAIN lines : Reader!Bytes(SubSeq(lines, 1, i - 1)) = offset}
<1>1. starts # {} => (CHOOSE i \in starts : TRUE) \in DOMAIN lines
  OBVIOUS
<1>2. QED
  BY <1>1 DEF Reader!LineAt, Reader!Kinds

\* What is described has a size and a count.
LEMMA DescribedType ==
  ASSUME NEW lines \in Seq(Reader!Kinds)
  PROVE  /\ Reader!Described(lines) \in Selections
         /\ Reader!Described(lines) = Reader!Described(Reader!Described(lines).sha)
         /\ Reader!Described(lines).sha = lines
         /\ Reader!Described(lines).count = Len(lines)
         /\ Reader!Described(lines).size = Reader!Bytes(lines)
  BY BytesType DEF Reader!Described, Selections, Reader!Has

-----------------------------------------------------------------------------
(* Numbers in order. *)

\* The numbers of two sequences put together.
LEMMA Joined ==
  ASSUME NEW a \in Seq(Nat), NEW b \in Seq(Nat)
  PROVE  /\ Len(a \o b) = Len(a) + Len(b) /\ Len(a) \in Nat /\ Len(b) \in Nat
         /\ b # <<>> => (a \o b)[Len(a) + Len(b)] = b[Len(b)]
  OBVIOUS

\* A page more on a head of the hits is a longer head of them.
LEMMA HeadGrows ==
  ASSUME NEW shown \in Seq(Nat), NEW lines \in Seq(Nat), NEW hits \in SUBSET Nat,
         NEW after \in Nat, HeadOf(shown, hits),
         \A i \in DOMAIN shown : shown[i] <= after,
         \A h \in hits : h <= after => Among(h, shown),
         HeadOf(lines, {h \in hits : h > after})
  PROVE  /\ HeadOf(shown \o lines, hits)
         /\ \A h \in hits : Among(h, shown) \/ Among(h, lines) => Among(h, shown \o lines)
<1> DEFINE both == shown \o lines
           n == Len(shown)
<1>1. /\ both \in Seq(Nat) /\ DOMAIN both = 1..(n + Len(lines))
      /\ \A i \in 1..n : both[i] = shown[i]
      /\ \A i \in 1..Len(lines) : both[n + i] = lines[i]
      /\ n \in Nat /\ Len(lines) \in Nat
  OBVIOUS
<1>2. \A i \in DOMAIN both : i \in DOMAIN shown \/ (i - n \in DOMAIN lines /\ both[i] = lines[i - n])
  <2> TAKE i \in DOMAIN both
  <2>1. CASE i <= n
    BY <1>1, <2>1
  <2>2. CASE i > n
    <3>1. i - n \in 1..Len(lines) /\ n + (i - n) = i
      BY <1>1, <2>2
    <3>2. QED
      BY <1>1, <3>1
  <2>3. QED
    BY <1>1, <2>1, <2>2
<1>3. \A h : Among(h, shown) => Among(h, both)
  BY <1>1 DEF Among
<1>4. \A h : Among(h, lines) => Among(h, both)
  <2> SUFFICES ASSUME NEW h, NEW i \in DOMAIN lines, lines[i] = h
               PROVE  \E m \in DOMAIN both : both[m] = h
    BY DEF Among
  <2>1. n + i \in DOMAIN both /\ both[n + i] = h
    BY <1>1
  <2>2. QED
    BY <2>1
<1>5. \A i \in DOMAIN lines : lines[i] \in hits /\ lines[i] > after
  BY DEF HeadOf
<1>6. \A i \in DOMAIN both : both[i] \in hits
  BY <1>1, <1>2, <1>5 DEF HeadOf
<1>7. Reader!InOrder(both)
  <2> SUFFICES ASSUME NEW i \in DOMAIN both, NEW j \in DOMAIN both, i < j
               PROVE  both[i] < both[j]
    BY DEF Reader!InOrder
  <2>1. CASE j <= n
    BY <1>1, <2>1 DEF HeadOf, Reader!InOrder
  <2>2. CASE i > n
    <3>1. i - n \in DOMAIN lines /\ j - n \in DOMAIN lines /\ i - n < j - n
      BY <1>1, <1>2, <2>2
    <3>2. both[i] = lines[i - n] /\ both[j] = lines[j - n]
      BY <1>1, <1>2, <2>2
    <3>3. QED
      BY <3>1, <3>2 DEF HeadOf, Reader!InOrder
  <2>3. CASE i <= n /\ j > n
    <3>1. both[i] = shown[i] /\ i \in DOMAIN shown /\ j - n \in DOMAIN lines /\ both[j] = lines[j - n]
      BY <1>1, <1>2, <2>3
    <3>2. QED
      BY <1>5, <3>1
  <2>4. QED
    BY <1>1, <2>1, <2>2, <2>3
<1>8. \A h \in hits, i \in DOMAIN both : h < both[i] => Among(h, both)
  <2> SUFFICES ASSUME NEW h \in hits, NEW i \in DOMAIN both, h < both[i], h > after
               PROVE  Among(h, both)
    BY <1>3
  <2>1. CASE i \in DOMAIN shown
    BY <1>1, <2>1
  <2>2. CASE i - n \in DOMAIN lines /\ both[i] = lines[i - n]
    BY <1>4, <2>2 DEF HeadOf
  <2>3. QED
    BY <1>2, <2>1, <2>2
<1>9. QED
  BY <1>3, <1>4, <1>6, <1>7, <1>8 DEF HeadOf

-----------------------------------------------------------------------------
(* The page of a read. *)

\* Nothing is on the page of a read of nothing.
LEMMA FirstPage ==
  ASSUME NEW after \in Nat
  PROVE  Reader!NoPage \in Pages /\ PageRight(Reader!NoPage, <<>>, after)
<1>1. Reader!Hits(<<>>) = {}
  BY DEF Reader!Hits
<1>2. Cardinality({}) = 0
  BY FS_EmptySet
<1>3. PageLimit \in Nat
  BY ReaderAssumption
<1>4. Beyond(<<>>, after) = {}
  BY <1>1 DEF Beyond
<1>5. HeadOf(<<>>, {})
  BY DEF HeadOf, Reader!InOrder
<1> DEFINE page == Reader!NoPage
<1>6. page \in Pages /\ page.matched = 0 /\ page.eligible = 0 /\ page.lines = <<>> /\ Len(page.lines) = 0
  BY DEF Reader!NoPage, Pages
<1> HIDE DEF page
<1>7. /\ page.matched = Cardinality(Reader!Hits(<<>>))
      /\ HeadOf(page.lines, Beyond(<<>>, after))
      /\ \A h \in Beyond(<<>>, after) : Among(h, page.lines)
  BY <1>1, <1>2, <1>4, <1>5, <1>6
<1>8. page.eligible = 0 /\ Len(page.lines) = 0 /\ 0 <= PageLimit
  BY <1>3, <1>6
<1>9. PageRight(page, <<>>, after)
  BY <1>7, <1>8 DEF PageRight
<1>10. QED
  BY <1>6, <1>9 DEF page

\* A number above all others is put behind them.
LEMMA HeadLonger ==
  ASSUME NEW numbers \in Seq(Nat), NEW hits \in SUBSET Nat, NEW n \in Nat,
         \A h \in hits : h < n, HeadOf(numbers, hits), \A h \in hits : Among(h, numbers)
  PROVE  /\ HeadOf(Append(numbers, n), hits \union {n})
         /\ \A h \in hits \union {n} : Among(h, Append(numbers, n))
<1> DEFINE more == Append(numbers, n)
<1>1. /\ DOMAIN more = 1..(Len(numbers) + 1) /\ more[Len(numbers) + 1] = n
      /\ \A i \in DOMAIN numbers : i \in DOMAIN more /\ more[i] = numbers[i]
      /\ DOMAIN numbers = 1..Len(numbers) /\ Len(numbers) \in Nat
  OBVIOUS
<1>2. \A h \in hits \union {n} : Among(h, more)
  <2>1. Among(n, more)
    BY <1>1 DEF Among
  <2>2. \A h \in hits : Among(h, more)
    BY <1>1 DEF Among
  <2>3. QED
    BY <2>1, <2>2
<1>3. \A i \in DOMAIN more : more[i] \in hits \union {n}
  BY <1>1 DEF HeadOf
<1>4. Reader!InOrder(more)
  <2> SUFFICES ASSUME NEW i \in DOMAIN more, NEW j \in DOMAIN more, i < j
               PROVE  more[i] < more[j]
    BY DEF Reader!InOrder
  <2>1. i \in DOMAIN numbers /\ more[i] = numbers[i] /\ numbers[i] \in hits
    BY <1>1 DEF HeadOf
  <2>2. CASE j \in DOMAIN numbers
    BY <1>1, <2>1, <2>2 DEF HeadOf, Reader!InOrder
  <2>3. CASE j = Len(numbers) + 1
    BY <1>1, <2>1, <2>3
  <2>4. QED
    BY <1>1, <2>2, <2>3
<1>5. QED
  BY <1>2, <1>3, <1>4 DEF HeadOf

\* A visit keeps the page right.
LEMMA VisitedRight ==
  ASSUME NEW read \in Seq(Reader!Kinds), NEW kind \in Reader!Kinds, NEW after \in Nat,
         NEW page \in Pages, PageRight(page, read, after)
  PROVE  /\ Reader!Visited(page, Len(read) + 1, kind, after) \in Pages
         /\ PageRight(Reader!Visited(page, Len(read) + 1, kind, after),
                      Append(read, kind), after)
<1> DEFINE n == Len(read) + 1
           more == Append(read, kind)
           next == Reader!Visited(page, n, kind, after)
<1> HIDE DEF more
<1>1. /\ page.matched \in Nat /\ page.eligible \in Nat /\ page.lines \in Seq(Nat)
      /\ n \in Nat /\ PageLimit \in Nat /\ Len(page.lines) \in Nat
  BY ReaderAssumption DEF Pages
<1>2. /\ Reader!Hits(more) = IF kind = "hit" THEN Reader!Hits(read) \union {n} ELSE Reader!Hits(read)
      /\ Cardinality(Reader!Hits(more)) =
           Cardinality(Reader!Hits(read)) + (IF kind = "hit" THEN 1 ELSE 0)
  BY HitsGrow DEF more
<1>3. Reader!Hits(read) \subseteq 1..Len(read)
  BY HitsFinite
<1>4. CASE kind # "hit"
  BY <1>2, <1>4 DEF Reader!Visited, PageRight, Beyond, more
<1>5. CASE kind = "hit" /\ n <= after
  <2>1. next = [page EXCEPT !.matched = @ + 1]
    BY <1>5 DEF Reader!Visited
  <2>2. Beyond(more, after) = Beyond(read, after)
    BY <1>1, <1>2, <1>5 DEF Beyond
  <2>3. next \in Pages /\ next.matched = page.matched + 1
        /\ next.lines = page.lines /\ next.eligible = page.eligible
    BY <1>1, <2>1 DEF Pages
  <2>4. QED
    BY <1>2, <1>5, <2>2, <2>3 DEF PageRight, more
<1>8. kind = "hit" /\ n > after =>
        /\ next \in Pages
        /\ next.matched = page.matched + 1 /\ next.eligible = page.eligible + 1
        /\ next.lines = IF Len(page.lines) >= PageLimit THEN page.lines ELSE Append(page.lines, n)
  <2> SUFFICES ASSUME kind = "hit", n > after
               PROVE  /\ next \in Pages
                      /\ next.matched = page.matched + 1 /\ next.eligible = page.eligible + 1
                      /\ next.lines = IF Len(page.lines) >= PageLimit THEN page.lines
                                      ELSE Append(page.lines, n)
    OBVIOUS
  <2> DEFINE counted == [page EXCEPT !.matched = @ + 1]
             shown == IF Len(page.lines) >= PageLimit THEN page.lines ELSE Append(page.lines, n)
  <2>1. next = [counted EXCEPT !.eligible = counted.eligible + 1,
                               !.lines = IF Len(counted.lines) >= PageLimit THEN counted.lines
                                         ELSE Append(counted.lines, n)]
    BY <1>1 DEF Reader!Visited
  <2>2. counted.eligible = page.eligible /\ counted.lines = page.lines
    BY DEF Pages
  <2>3. shown \in Seq(Nat) /\ page.matched + 1 \in Nat /\ page.eligible + 1 \in Nat
    BY <1>1
  <2>4. next = [counted EXCEPT !.eligible = page.eligible + 1, !.lines = shown]
    BY <2>1, <2>2
  <2> HIDE DEF shown, next
  <2>5. /\ next \in Pages /\ next.matched = page.matched + 1
        /\ next.eligible = page.eligible + 1 /\ next.lines = shown
    <3>1. next = [[page EXCEPT !.matched = page.matched + 1]
                    EXCEPT !.eligible = page.eligible + 1, !.lines = shown]
      BY <2>4
    <3> DEFINE m == page.matched + 1
               e == page.eligible + 1
    <3>2. m \in Nat /\ e \in Nat
      BY <2>3
    <3> HIDE DEF m, e
    <3>3. next = [[page EXCEPT !.matched = m] EXCEPT !.eligible = e, !.lines = shown]
      BY <3>1 DEF m, e
    <3>4. next \in Pages /\ next.matched = m /\ next.eligible = e /\ next.lines = shown
      BY <2>3, <3>2, <3>3 DEF Pages
    <3>5. QED
      BY <3>4 DEF m, e
  <2>6. QED
    BY <2>5 DEF shown
<1>6. CASE kind = "hit" /\ n > after
  <2>1. Beyond(more, after) = Beyond(read, after) \union {n}
    BY <1>1, <1>2, <1>6 DEF Beyond
  <2>2. \A h \in Beyond(read, after) : h < n
    BY <1>3 DEF Beyond
  <2>3. Beyond(read, after) \subseteq Nat
    BY <1>3 DEF Beyond
  <2>4. CASE Len(page.lines) < PageLimit
    <3>1. /\ next \in Pages /\ next.eligible = page.eligible + 1
          /\ next.lines = Append(page.lines, n) /\ next.matched = page.matched + 1
      <4>1. /\ next \in Pages /\ next.matched = page.matched + 1 /\ next.eligible = page.eligible + 1
            /\ next.lines = IF Len(page.lines) >= PageLimit THEN page.lines ELSE Append(page.lines, n)
        BY <1>6, <1>8
      <4>2. ~(Len(page.lines) >= PageLimit)
        BY <1>1, <2>4
      <4>3. QED
        BY <4>1, <4>2
    <3>2. /\ next \in Pages /\ Len(next.lines) = Len(page.lines) + 1
          /\ next.eligible = page.eligible + 1 /\ next.lines = Append(page.lines, n)
          /\ next.matched = page.matched + 1
      BY <1>1, <3>1
    <3>3. page.eligible = Len(page.lines)
      BY <1>1, <2>4 DEF PageRight
    <3>4. HeadOf(next.lines, Beyond(more, after)) /\ \A h \in Beyond(more, after) : Among(h, next.lines)
      <4>1. HeadOf(page.lines, Beyond(read, after)) /\ \A h \in Beyond(read, after) : Among(h, page.lines)
        BY <3>3 DEF PageRight
      <4>2. QED
        <5>1. HeadOf(Append(page.lines, n), Beyond(read, after) \union {n})
              /\ \A h \in Beyond(read, after) \union {n} : Among(h, Append(page.lines, n))
          BY <1>1, <2>2, <2>3, <4>1, HeadLonger
        <5>2. QED
          BY <2>1, <3>2, <5>1
    <3>5. Len(next.lines) <= PageLimit /\ next.eligible = Len(next.lines)
      BY <1>1, <2>4, <3>2, <3>3
    <3>6. next.matched = Cardinality(Reader!Hits(more))
      BY <1>2, <1>6, <3>2 DEF PageRight
    <3>7. next.eligible \in Nat
      BY <3>2 DEF Pages
    <3> HIDE DEF next
    <3>8. PageRight(next, more, after)
      BY <3>4, <3>5, <3>6, <3>7 DEF PageRight
    <3>9. QED
      BY <3>2, <3>8 DEF next, more
  <2>5. CASE ~(Len(page.lines) < PageLimit)
    <3>2. /\ next \in Pages /\ next.eligible = page.eligible + 1 /\ next.lines = page.lines
          /\ next.matched = page.matched + 1
      BY <1>1, <1>6, <1>8, <2>5
    <3>3. Len(page.lines) = PageLimit /\ page.eligible >= Len(page.lines)
      BY <1>1, <2>5 DEF PageRight
    <3>4. \A i \in DOMAIN page.lines : page.lines[i] \in Beyond(read, after)
      BY DEF PageRight, HeadOf
    <3>5. \A i \in DOMAIN page.lines : ~(n < page.lines[i])
      BY <1>1, <2>2, <2>3, <3>4
    <3>6. HeadOf(page.lines, Beyond(more, after))
      BY <2>1, <3>4, <3>5 DEF PageRight, HeadOf
    <3>7. next.matched = Cardinality(Reader!Hits(more))
      BY <1>2, <1>6, <3>2 DEF PageRight
    <3>8. next.eligible > Len(next.lines) /\ next.eligible # Len(next.lines)
      BY <1>1, <3>2, <3>3
    <3>9. Len(next.lines) = PageLimit /\ next.eligible >= Len(next.lines) /\ Len(next.lines) <= PageLimit
      BY <1>1, <3>2, <3>3
    <3> HIDE DEF next
    <3>10. PageRight(next, more, after)
      BY <3>2, <3>6, <3>7, <3>8, <3>9 DEF PageRight
    <3>11. QED
      BY <3>2, <3>10 DEF next, more
  <2>6. QED
    BY <2>4, <2>5
<1>7. QED
  BY <1>1, <1>4, <1>5, <1>6

-----------------------------------------------------------------------------
(* The invariant holds from the start. *)

\* What was published can be read, and has its header.
LEMMA PublishedReadable ==
  ASSUME NEW lines \in PublishedLogs
  PROVE  /\ lines \in Seq(Good) /\ lines \in Seq(Reader!Kinds)
         /\ Reader!Has(lines, "logStart") /\ Reader!Has(lines, "appStart")
<1>1. lines \in Seq(Good) /\ "logStart" \in ToSet(lines) /\ "appStart" \in ToSet(lines)
  BY ReaderAssumption DEF Good
<1>2. QED
  BY <1>1 DEF Good, Reader!Kinds, Reader!Has, ToSet

LEMMA InitRight ==
  ASSUME Reader!Init
  PROVE  RInv
<1>1. PICK lines \in PublishedLogs :
        /\ manifest = Reader!Described(lines)
        /\ log = [lines |-> lines, stamp |-> 0] /\ edits = 0 /\ scan = Reader!NoScan
        /\ walk = [status |-> "new", sha |-> <<>>, after |-> 0, shown |-> <<>>, matched |-> {}]
  BY DEF Reader!Init
<1>2. lines \in Seq(Reader!Kinds) /\ MaxEdits \in Nat
  BY PublishedReadable, ReaderAssumption
<1>3. scan.phase = "idle"
  BY <1>1 DEF Reader!NoScan
<1>4. ReaderTypes
  <2>1. log \in Files /\ edits \in 0..MaxEdits
    BY <1>1, <1>2 DEF Files
  <2>2. manifest \in Selections /\ manifest = Reader!Described(manifest.sha)
    BY <1>1, <1>2, DescribedType
  <2>3. walk \in [status : Reader!Statuses, sha : Seq(Reader!Kinds), after : Nat,
                  shown : Seq(Nat), matched : SUBSET Nat]
    BY <1>1 DEF Reader!Statuses
  <2>4. QED
    BY <1>1, <1>3, <2>1, <2>2, <2>3 DEF ReaderTypes
<1>5. Reader!Hits(walk.sha) = {} /\ walk.shown = <<>> /\ walk.matched = {} /\ walk.status = "new"
      /\ walk.after = 0
  BY <1>1 DEF Reader!Hits
<1>6. WalkInv
  BY <1>5 DEF WalkInv, HeadOf, Reader!InOrder
<1>7. BusyInv /\ PageInv /\ HeaderInv
  BY <1>3, <1>5 DEF BusyInv, PageInv, HeaderInv, Reader!InspectedHasHeader
<1>8. UntouchedInv
  BY <1>1, <1>3, <1>5 DEF UntouchedInv
<1>9. QED
  BY <1>4, <1>6, <1>7, <1>8 DEF RInv

-----------------------------------------------------------------------------
(* The directory changes. *)

\* What a change makes of lines are lines.
LEMMA EditsType ==
  ASSUME NEW lines \in Seq(Reader!Kinds), NEW changed \in Reader!Edits(lines)
  PROVE  changed \in Seq(Reader!Kinds)
<1>1. CASE changed \in {[lines EXCEPT ![i] = kind] : i \in DOMAIN lines, kind \in Reader!Kinds}
  BY <1>1
<1>2. CASE changed \in {Append(lines, kind) : kind \in Reader!Kinds}
  BY <1>2
<1>3. CASE lines # <<>> /\ changed = SubSeq(lines, 1, Len(lines) - 1)
  <2>1. Len(lines) - 1 \in 0..Len(lines)
    BY <1>3
  <2>2. QED
    BY <1>3, <2>1
<1>4. QED
  BY <1>1, <1>2, <1>3 DEF Reader!Edits, Reader!Front

LEMMA DirectorySteps ==
  ASSUME RInv, Reader!EditLog \/ Reader!ReplaceLog \/ Reader!RewriteManifest
  PROVE  RInv'
<1> USE DEF RInv
<1>1. /\ edits \in Nat /\ edits + 1 \in 0..MaxEdits /\ edits' = edits + 1 /\ edits' # 0
      /\ walk' = walk /\ MaxEdits \in Nat
  BY ReaderAssumption DEF ReaderTypes, Reader!EditLog, Reader!ReplaceLog, Reader!RewriteManifest
<1>2. log.lines \in Seq(Reader!Kinds) /\ log.stamp \in 0..MaxEdits
  BY DEF ReaderTypes, Files
<1>3. log' \in Files
  <2>1. CASE Reader!EditLog
    <3>1. PICK lines \in Reader!Edits(log.lines), stamp \in {log.stamp, edits + 1} :
            log' = [lines |-> lines, stamp |-> stamp]
      BY <2>1 DEF Reader!EditLog
    <3>2. lines \in Seq(Reader!Kinds) /\ stamp \in 0..MaxEdits
      BY <1>1, <1>2, EditsType
    <3>3. QED
      BY <3>1, <3>2 DEF Files
  <2>2. CASE Reader!ReplaceLog
    <3>1. PICK lines \in PublishedLogs : log' = [lines |-> lines, stamp |-> edits + 1]
      BY <2>2 DEF Reader!ReplaceLog
    <3>2. QED
      BY <1>1, <3>1, PublishedReadable DEF Files
  <2>3. CASE Reader!RewriteManifest
    BY <2>3 DEF Reader!RewriteManifest, ReaderTypes
  <2>4. QED
    BY <2>1, <2>2, <2>3
<1>4. manifest' \in Selections /\ manifest' = Reader!Described(manifest'.sha)
  <2>1. CASE Reader!RewriteManifest
    BY <1>2, <2>1, DescribedType DEF Reader!RewriteManifest
  <2>2. CASE Reader!EditLog \/ Reader!ReplaceLog
    BY <2>2 DEF Reader!EditLog, Reader!ReplaceLog, ReaderTypes
  <2>3. QED
    BY <2>1, <2>2
<1>5. \/ scan' = scan
      \/ /\ scan \in Readings /\ scan' \in Readings
         /\ scan'.selected = scan.selected /\ scan'.read = scan.read /\ scan'.page = scan.page
  <2>1. CASE Reader!ReplaceLog /\ scan.phase = "reading"
    <3>1. scan \in Readings
      BY <2>1 DEF ReaderTypes, Reader!NoScan
    <3>2. <<log>> \in Seq(Files)
      BY DEF ReaderTypes
    <3>3. scan' = IF scan.replaced = Reader!NoFile THEN [scan EXCEPT !.replaced = <<log>>] ELSE scan
      BY <2>1 DEF Reader!ReplaceLog
    <3>4. QED
      BY <3>1, <3>2, <3>3 DEF Readings
  <2>2. CASE ~(Reader!ReplaceLog /\ scan.phase = "reading")
    BY <2>2 DEF Reader!EditLog, Reader!ReplaceLog, Reader!RewriteManifest
  <2>3. QED
    BY <2>1, <2>2
<1>6. ReaderTypes'
  BY <1>1, <1>3, <1>4, <1>5 DEF ReaderTypes, Readings
<1>7. /\ scan'.phase = scan.phase
      /\ scan.phase = "reading" => /\ scan'.selected = scan.selected
                                   /\ scan'.read = scan.read /\ scan'.page = scan.page
  BY <1>5 DEF Readings
<1>8. BusyInv' /\ PageInv'
  BY <1>1, <1>7 DEF BusyInv, PageInv
<1>9. WalkInv' /\ HeaderInv'
  BY <1>1 DEF WalkInv, HeaderInv, Reader!InspectedHasHeader
<1>10. UntouchedInv'
  BY <1>1 DEF UntouchedInv
<1>11. QED
  BY <1>6, <1>8, <1>9, <1>10

-----------------------------------------------------------------------------
(* A read. *)

\* A read that fails leaves what was shown, and shows nothing more.
LEMMA FailsStep ==
  ASSUME RInv, NEW category \in {"UNEXPECTED_RESPONSE", "TIMEOUT"}, Reader!Fails(category),
         category = "UNEXPECTED_RESPONSE" => edits # 0
  PROVE  RInv'
<1> USE DEF RInv
<1>1. /\ scan' = Reader!NoScan /\ scan'.phase = "idle" /\ manifest' = manifest /\ log' = log
      /\ edits' = edits /\ walk' = [walk EXCEPT !.status = category]
  BY DEF Reader!Fails, Reader!NoScan
<1>2. /\ walk'.status = category /\ walk'.sha = walk.sha /\ walk'.after = walk.after
      /\ walk'.shown = walk.shown /\ walk'.matched = walk.matched
  BY <1>1 DEF ReaderTypes
<1>3. ReaderTypes'
  BY <1>1 DEF ReaderTypes, Reader!Statuses
<1>4. BusyInv' /\ PageInv' /\ HeaderInv'
  BY <1>1, <1>2 DEF BusyInv, PageInv, HeaderInv, Reader!InspectedHasHeader
<1>5. WalkInv'
  BY <1>2 DEF WalkInv
<1>6. UntouchedInv'
  BY <1>1, <1>2 DEF UntouchedInv
<1>7. QED
  BY <1>3, <1>4, <1>5, <1>6

LEMMA AskStep ==
  ASSUME RInv, Reader!Inspect \/ Reader!Query
  PROVE  RInv'
<1> USE DEF RInv
<1> DEFINE status == IF Reader!Inspect THEN "inspecting" ELSE "querying"
<1>1. /\ \/ walk.status = "new" /\ status = "inspecting"
         \/ walk.status \in {"inspected", "paused"} /\ status = "querying"
      /\ scan.phase = "idle" /\ walk' = [walk EXCEPT !.status = status]
      /\ scan' = [phase |-> "manifest", selected |-> manifest]
      /\ manifest' = manifest /\ log' = log /\ edits' = edits
  BY DEF Reader!Inspect, Reader!Query, Reader!Ask
<1> HIDE DEF status
<1>2. /\ walk'.status = status /\ walk'.sha = walk.sha /\ walk'.after = walk.after
      /\ walk'.shown = walk.shown /\ walk'.matched = walk.matched
      /\ scan'.phase = "manifest" /\ scan'.selected = manifest
  BY <1>1 DEF ReaderTypes
<1>3. ReaderTypes'
  BY <1>1, <1>2 DEF ReaderTypes, Reader!Statuses
<1>4. BusyInv' /\ PageInv' /\ HeaderInv'
  BY <1>1, <1>2 DEF BusyInv, PageInv, HeaderInv, Reader!InspectedHasHeader
<1>5. WalkInv'
  BY <1>1, <1>2 DEF WalkInv
<1>6. UntouchedInv'
  BY <1>1, <1>2 DEF UntouchedInv
<1>7. QED
  BY <1>3, <1>4, <1>5, <1>6

LEMMA OpenStep ==
  ASSUME RInv, Reader!Open
  PROVE  RInv'
<1> USE DEF RInv
<1>1. CASE Reader!Conflicts(scan.selected) \/ Reader!Bytes(log.lines) # scan.selected.size
  <2>1. scan.phase = "manifest" /\ Reader!Fails("UNEXPECTED_RESPONSE")
    BY <1>1 DEF Reader!Open
  <2>2. edits # 0
    <3> SUFFICES ASSUME edits = 0 PROVE FALSE
      OBVIOUS
    <3>1. scan.selected = Reader!Described(log.lines)
      BY <2>1 DEF UntouchedInv
    <3>2. log.lines \in Seq(Reader!Kinds)
      BY DEF ReaderTypes, Files
    <3>3. scan.selected.sha = log.lines /\ scan.selected.size = Reader!Bytes(log.lines)
      BY <3>1, <3>2, DescribedType
    <3>4. walk.status = "querying" => walk.sha = log.lines
      BY DEF UntouchedInv
    <3>5. QED
      BY <1>1, <3>3, <3>4 DEF Reader!Conflicts
  <2>3. QED
    BY <2>1, <2>2, FailsStep
<1>2. CASE ~(Reader!Conflicts(scan.selected) \/ Reader!Bytes(log.lines) # scan.selected.size)
  <2>1. /\ scan.phase = "manifest"
        /\ scan' = [phase |-> "reading", selected |-> scan.selected, replaced |-> Reader!NoFile,
                    stamp |-> log.stamp, read |-> <<>>, page |-> Reader!NoPage]
        /\ manifest' = manifest /\ log' = log /\ edits' = edits /\ walk' = walk
    BY <1>2 DEF Reader!Open
  <2>2. /\ scan'.phase = "reading" /\ scan'.selected = scan.selected /\ scan'.replaced = <<>>
        /\ scan'.stamp = log.stamp /\ scan'.read = <<>> /\ scan'.page = Reader!NoPage
    BY <2>1 DEF Reader!NoFile
  <2>3. walk.after \in Nat
    BY DEF ReaderTypes
  <2>4. scan.selected \in Selections /\ log.stamp \in 0..MaxEdits
    BY <2>1 DEF ReaderTypes, Files, Reader!NoScan, Readings
  <2>5. scan' \in Readings
    BY <2>1, <2>3, <2>4, FirstPage DEF Readings, Reader!NoFile
  <2>6. Len(<<>>) <= scan.selected.count
    BY <2>4 DEF Selections
  <2>7. ReaderTypes'
    BY <2>1, <2>2, <2>5, <2>6 DEF ReaderTypes
  <2>8. BusyInv'
    BY <1>2, <2>1, <2>2 DEF BusyInv, Reader!Conflicts
  <2>9. PageInv'
    BY <2>1, <2>2, <2>3, FirstPage DEF PageInv
  <2>10. WalkInv' /\ HeaderInv'
    BY <2>1 DEF WalkInv, HeaderInv, Reader!InspectedHasHeader
  <2>11. UntouchedInv'
    <3>1. edits = 0 => SubSeq(log.lines, 1, Len(<<>>)) = <<>>
      BY DEF ReaderTypes, Files
    <3>2. QED
      BY <2>1, <2>2, <3>1 DEF UntouchedInv
  <2>12. QED
    BY <2>7, <2>8, <2>9, <2>10, <2>11
<1>3. QED
  BY <1>1, <1>2

\* The file that is read has lines; a reading has types.
LEMMA ReadingRight ==
  ASSUME RInv, scan.phase = "reading"
  PROVE  /\ scan \in Readings /\ scan.read \in Seq(Good) /\ scan.read \in Seq(Reader!Kinds)
         /\ scan.selected \in Selections /\ scan.page \in Pages
         /\ Reader!Opened \in Files
         /\ edits = 0 => Reader!Opened = log /\ Len(scan.read) \in 0..Len(log.lines)
<1> USE DEF RInv
<1>1. scan \in Readings
  BY DEF ReaderTypes, Reader!NoScan
<1>2. scan.read \in Seq(Good) /\ scan.selected \in Selections /\ scan.page \in Pages
      /\ scan.replaced \in Seq(Files)
  BY <1>1 DEF Readings
<1>3. scan.read \in Seq(Reader!Kinds)
  BY <1>2 DEF Good, Reader!Kinds
<1>4. Reader!Opened \in Files
  BY <1>2 DEF Reader!Opened, Reader!NoFile, ReaderTypes
<1>5. ASSUME edits = 0 PROVE Reader!Opened = log /\ Len(scan.read) \in 0..Len(log.lines)
  <2>1. scan.replaced = <<>> /\ scan.selected = Reader!Described(log.lines)
    BY <1>5 DEF UntouchedInv
  <2>2. log.lines \in Seq(Reader!Kinds)
    BY DEF ReaderTypes, Files
  <2>3. Len(scan.read) <= Len(log.lines)
    BY <2>1, <2>2, DescribedType DEF ReaderTypes
  <2>4. QED
    BY <1>2, <2>1, <2>2, <2>3 DEF Reader!Opened, Reader!NoFile
<1>6. QED
  BY <1>1, <1>2, <1>3, <1>4, <1>5

LEMMA ReadLineStep ==
  ASSUME RInv, Reader!ReadLine
  PROVE  RInv'
<1> USE DEF RInv
<1> DEFINE kind == Reader!LineAt(Reader!Opened.lines, Reader!Bytes(scan.read))
<1>1. scan.phase = "reading" /\ kind # "eof"
  BY DEF Reader!ReadLine
<1>2. /\ scan \in Readings /\ scan.read \in Seq(Good) /\ scan.read \in Seq(Reader!Kinds)
      /\ scan.selected \in Selections /\ scan.page \in Pages
      /\ Reader!Opened \in Files
      /\ edits = 0 => Reader!Opened = log /\ Len(scan.read) \in 0..Len(log.lines)
  BY <1>1, ReadingRight
<1>3. Reader!Opened.lines \in Seq(Reader!Kinds)
  BY <1>2 DEF Files
<1>4. kind \in Reader!Kinds
  BY <1>1, <1>3, ReadingKind
<1>5. ASSUME edits = 0
      PROVE  /\ Len(scan.read) < Len(log.lines) /\ kind = log.lines[Len(scan.read) + 1]
             /\ scan.selected.count = Len(log.lines) /\ log.lines \in Seq(Good)
  <2>1. /\ log.lines \in PublishedLogs /\ scan.read = SubSeq(log.lines, 1, Len(scan.read))
        /\ scan.selected = Reader!Described(log.lines)
    BY <1>1, <1>5 DEF UntouchedInv
  <2>2. log.lines \in Seq(Reader!Kinds) /\ log.lines \in Seq(Good)
    BY <2>1, PublishedReadable
  <2>3. kind = IF Len(scan.read) = Len(log.lines) THEN "eof" ELSE log.lines[Len(scan.read) + 1]
    BY <1>2, <1>5, <2>1, <2>2, NextLine
  <2>4. QED
    BY <1>1, <1>2, <1>5, <2>1, <2>2, <2>3, DescribedType
<1> HIDE DEF kind
<1>6. CASE ~Reader!Readable(kind)
  <2>1. Reader!Fails("UNEXPECTED_RESPONSE")
    BY <1>6 DEF Reader!ReadLine, kind
  <2>2. edits # 0
    <3> SUFFICES ASSUME edits = 0 PROVE FALSE
      OBVIOUS
    <3>1. kind \in Good
      BY <1>2, <1>5
    <3>2. QED
      BY <1>5, <1>6, <3>1 DEF Reader!Readable, Good
  <2>3. QED
    BY <2>1, <2>2, FailsStep
<1>7. CASE Reader!Readable(kind)
  <2> DEFINE read == Append(scan.read, kind)
             page == Reader!Visited(scan.page, Len(scan.read) + 1, kind, walk.after)
  <2>1. /\ scan' = [scan EXCEPT !.read = read, !.page = page]
        /\ manifest' = manifest /\ log' = log /\ edits' = edits /\ walk' = walk
    BY <1>7 DEF Reader!ReadLine, kind
  <2>2. kind \in Good /\ Len(scan.read) < scan.selected.count
    BY <1>4, <1>7 DEF Reader!Readable, Good, Reader!Kinds
  <2>3. read \in Seq(Good) /\ Len(read) = Len(scan.read) + 1
    BY <1>2, <2>2
  <2>4. walk.after \in Nat
    BY DEF ReaderTypes
  <2>5. page \in Pages /\ PageRight(page, read, walk.after)
    BY <1>1, <1>2, <1>4, <2>4, VisitedRight DEF PageInv
  <2>6. Len(read) <= scan.selected.count
    BY <1>2, <2>2, <2>3 DEF Selections
  <2>7. edits = 0 => read = SubSeq(log.lines, 1, Len(read))
    <3> SUFFICES ASSUME edits = 0 PROVE read = SubSeq(log.lines, 1, Len(read))
      OBVIOUS
    <3>1. /\ scan.read = SubSeq(log.lines, 1, Len(scan.read)) /\ log.lines \in Seq(Good)
          /\ Len(scan.read) + 1 \in 1..Len(log.lines) /\ kind = log.lines[Len(scan.read) + 1]
      BY <1>1, <1>2, <1>5 DEF UntouchedInv
    <3>2. \A i \in 1..Len(scan.read) : scan.read[i] = log.lines[i]
      BY <1>2, <3>1
    <3>3. \A i \in 1..Len(read) : read[i] = log.lines[i]
      BY <1>2, <2>2, <2>3, <3>1, <3>2
    <3> HIDE DEF read
    <3>4. QED
      BY <1>2, <2>3, <3>1, <3>3
  <2> HIDE DEF read, page
  <2>8. scan' \in Readings /\ scan'.read = read /\ scan'.page = page /\ scan'.phase = "reading"
        /\ scan'.selected = scan.selected /\ scan'.replaced = scan.replaced
        /\ scan'.stamp = scan.stamp
    BY <1>2, <2>1, <2>3, <2>5 DEF Readings
  <2>9. ReaderTypes'
    BY <1>1, <2>1, <2>6, <2>8 DEF ReaderTypes
  <2>10. BusyInv' /\ PageInv'
    BY <1>1, <2>1, <2>5, <2>8 DEF BusyInv, PageInv
  <2>11. WalkInv' /\ HeaderInv'
    BY <2>1 DEF WalkInv, HeaderInv, Reader!InspectedHasHeader
  <2>12. UntouchedInv'
    BY <1>1, <2>1, <2>7, <2>8 DEF UntouchedInv
  <2>13. QED
    BY <2>9, <2>10, <2>11, <2>12
<1>8. QED
  BY <1>6, <1>7

-----------------------------------------------------------------------------
(* The end of a read. *)

\* The quotient and the remainder.
LEMMA Divided ==
  ASSUME NEW limit \in Nat \ {0}, NEW n \in Nat
  PROVE  n = limit * (n \div limit) + (n % limit)
  OBVIOUS

\* Their types.
LEMMA DividedType ==
  ASSUME NEW limit \in Nat \ {0}, NEW n \in Nat
  PROVE  n % limit \in 0..(limit - 1) /\ n \div limit \in Nat
  OBVIOUS

\* A full page more leaves whole pages.
LEMMA WholePages ==
  ASSUME NEW limit \in Nat \ {0}, NEW n \in Nat, n % limit = 0
  PROVE  (n + limit) % limit = 0
<1> DEFINE d == n \div limit
           e == (n + limit) \div limit
           r == (n + limit) % limit
<1>1. d \in Nat /\ n = limit * d
  <2>1. n = limit * d + (n % limit)
    BY Divided
  <2>2. d \in Nat
    BY DividedType
  <2>3. QED
    BY <2>1, <2>2
<1>2. e \in Nat /\ r \in 0..(limit - 1) /\ n + limit = limit * e + r
  <2>1. n + limit \in Nat
    OBVIOUS
  <2> DEFINE m == n + limit
  <2> HIDE DEF m
  <2>2. m \in Nat => /\ m \div limit \in Nat /\ m % limit \in 0..(limit - 1)
                     /\ m = limit * (m \div limit) + (m % limit)
    BY Divided, DividedType
  <2>3. QED
    BY <2>1, <2>2 DEF m
<1> HIDE DEF d, e, r
<1>3. limit * (d + 1) = limit * e + r
  BY <1>1, <1>2
<1>4. limit * e \in Nat /\ limit * (d + 1) \in Nat /\ limit * (e + 1) = limit * e + limit
  BY <1>1, <1>2
<1>5. CASE d + 1 <= e
  <2>1. limit * (d + 1) <= limit * e
    BY <1>1, <1>2, <1>5
  <2>2. QED
    BY <1>2, <1>3, <1>4, <2>1 DEF r
<1>6. CASE d + 1 >= e + 1
  <2>1. limit * (d + 1) >= limit * (e + 1)
    BY <1>1, <1>2, <1>6
  <2>2. QED
    BY <1>2, <1>3, <1>4, <2>1 DEF r
<1>7. QED
  BY <1>1, <1>2, <1>5, <1>6

\* What was shown ends where the next page starts, and nothing up to there
\* was left out.
LEMMA ShownUpTo ==
  ASSUME RInv, walk.status = "querying"
  PROVE  /\ \A i \in DOMAIN walk.shown : walk.shown[i] <= walk.after
         /\ \A h \in Reader!Hits(walk.sha) : h <= walk.after => Among(h, walk.shown)
<1> USE DEF RInv
<1>1. walk.shown \in Seq(Nat) /\ walk.after \in Nat /\ walk.sha \in Seq(Reader!Kinds)
  BY DEF ReaderTypes
<1>2. HeadOf(walk.shown, Reader!Hits(walk.sha))
  BY DEF WalkInv
<1>3. \A h \in Reader!Hits(walk.sha) : h \in Nat /\ h >= 1
  BY <1>1, HitsFinite
<1>4. CASE walk.after = 0
  BY <1>3, <1>4 DEF WalkInv
<1>5. CASE walk.after # 0
  <2>1. /\ Len(walk.shown) \in DOMAIN walk.shown /\ walk.after = walk.shown[Len(walk.shown)]
        /\ DOMAIN walk.shown = 1..Len(walk.shown) /\ Len(walk.shown) \in Nat
    BY <1>1, <1>5 DEF WalkInv
  <2>2. \A i \in DOMAIN walk.shown : walk.shown[i] \in Nat
    BY <1>1
  <2>3. \A i \in DOMAIN walk.shown : walk.shown[i] <= walk.after
    <3> TAKE i \in DOMAIN walk.shown
    <3>1. CASE i = Len(walk.shown)
      BY <1>1, <2>1, <3>1
    <3>2. CASE i < Len(walk.shown)
      <4>1. walk.shown[i] < walk.shown[Len(walk.shown)]
        BY <1>2, <2>1, <3>2 DEF HeadOf, Reader!InOrder
      <4>2. QED
        BY <2>1, <2>2, <4>1
    <3>3. QED
      BY <2>1, <3>1, <3>2
  <2>4. \A h \in Reader!Hits(walk.sha) : h <= walk.after => Among(h, walk.shown)
    <3> SUFFICES ASSUME NEW h \in Reader!Hits(walk.sha), h <= walk.after
                 PROVE  Among(h, walk.shown)
      OBVIOUS
    <3>1. CASE h = walk.after
      BY <2>1, <3>1 DEF Among
    <3>2. CASE h < walk.after
      BY <1>2, <2>1, <3>2 DEF HeadOf
    <3>3. QED
      BY <1>1, <1>3, <3>1, <3>2
  <2>5. QED
    BY <2>3, <2>4
<1>6. QED
  BY <1>4, <1>5

LEMMA FinishStep ==
  ASSUME RInv, Reader!Finish
  PROVE  RInv'
<1> USE DEF RInv
<1>1. /\ scan.phase = "reading"
      /\ Reader!LineAt(Reader!Opened.lines, Reader!Bytes(scan.read)) = "eof"
  BY DEF Reader!Finish
<1>2. /\ scan \in Readings /\ scan.read \in Seq(Good) /\ scan.read \in Seq(Reader!Kinds)
      /\ scan.selected \in Selections /\ scan.page \in Pages
      /\ Reader!Opened \in Files
      /\ edits = 0 => Reader!Opened = log /\ Len(scan.read) \in 0..Len(log.lines)
  BY <1>1, ReadingRight
<1>3. scan.selected = Reader!Described(scan.selected.sha)
  BY <1>1 DEF ReaderTypes
<1>4. CASE ~Reader!Verified(scan.read)
  <2>1. Reader!Fails("UNEXPECTED_RESPONSE")
    BY <1>4 DEF Reader!Finish
  <2>2. edits # 0
    <3> SUFFICES ASSUME edits = 0 PROVE FALSE
      OBVIOUS
    <3>1. /\ log.lines \in PublishedLogs /\ scan.read = SubSeq(log.lines, 1, Len(scan.read))
          /\ scan.selected = Reader!Described(log.lines) /\ log.stamp = 0 /\ scan.stamp = 0
          /\ Reader!Opened = log
      BY <1>1, <1>2 DEF UntouchedInv
    <3>2. log.lines \in Seq(Reader!Kinds) /\ log.lines \in Seq(Good)
          /\ Reader!Has(log.lines, "logStart") /\ Reader!Has(log.lines, "appStart")
      BY <3>1, PublishedReadable
    <3>3. Len(scan.read) = Len(log.lines)
      <4> SUFFICES ASSUME Len(scan.read) # Len(log.lines) PROVE FALSE
        OBVIOUS
      <4>1. log.lines[Len(scan.read) + 1] = "eof"
        BY <1>1, <1>2, <3>1, <3>2, NextLine
      <4>2. log.lines[Len(scan.read) + 1] \in Good
        BY <1>2, <3>2
      <4>3. QED
        BY <4>1, <4>2 DEF Good
    <3>4. scan.read = log.lines
      BY <3>1, <3>2, <3>3
    <3>5. scan.selected.end = Reader!Has(log.lines, "appEnd")
      BY <3>1 DEF Reader!Described
    <3>6. QED
      BY <1>4, <3>1, <3>2, <3>4, <3>5, DescribedType DEF Reader!Verified
  <2>3. QED
    BY <2>1, <2>2, FailsStep
<1>5. CASE Reader!Verified(scan.read)
  <2>1. /\ IF walk.status = "inspecting" THEN Reader!Inspected ELSE Reader!Paged
        /\ scan' = Reader!NoScan /\ manifest' = manifest /\ log' = log /\ edits' = edits
    BY <1>5 DEF Reader!Finish
  <2>2. /\ scan.read = scan.selected.sha /\ scan'.phase = "idle"
        /\ Reader!Has(scan.read, "appStart") /\ Reader!Has(scan.read, "logStart")
    BY <1>5, <2>1 DEF Reader!Verified, Reader!NoScan
  <2>3. walk.status \in {"inspecting", "querying"}
    BY <1>1 DEF BusyInv
  <2>4. edits = 0 => scan.selected.sha = log.lines
    BY <1>1, DescribedType, PublishedReadable DEF UntouchedInv
  <2>5. CASE walk.status = "inspecting"
    <3>1. walk' = [walk EXCEPT !.status = "inspected", !.sha = scan.selected.sha]
      BY <2>1, <2>5 DEF Reader!Inspected
    <3>2. /\ walk'.status = "inspected" /\ walk'.sha = scan.read /\ walk'.after = 0
          /\ walk'.shown = <<>> /\ walk'.matched = {}
      BY <2>2, <2>5, <3>1 DEF ReaderTypes, WalkInv
    <3>3. ReaderTypes'
      BY <1>2, <2>1, <2>2, <3>1 DEF ReaderTypes, Reader!Statuses, Selections
    <3>4. BusyInv' /\ PageInv'
      BY <2>2, <3>2 DEF BusyInv, PageInv
    <3>5. WalkInv'
      <4>1. 0 % PageLimit = 0 /\ Len(<<>>) = 0
        BY ReaderAssumption
      <4>2. HeadOf(<<>>, Reader!Hits(scan.read))
        BY DEF HeadOf, Reader!InOrder
      <4>3. QED
        BY <3>2, <4>1, <4>2 DEF WalkInv
    <3>6. UntouchedInv'
      BY <2>1, <2>2, <2>4, <3>2 DEF UntouchedInv
    <3>7. HeaderInv'
      <4>1. \A i \in DOMAIN scan.read : scan.read[i] \in Good
        BY <1>2
      <4>2. QED
        BY <2>2, <3>2, <4>1 DEF HeaderInv, Reader!InspectedHasHeader, Reader!Has, Good
    <3>8. QED
      BY <3>3, <3>4, <3>5, <3>6, <3>7
  <2>6. CASE walk.status = "querying"
    <3> DEFINE page == scan.page
               next == Reader!NextAfter(page)
               hits == Reader!Hits(walk.sha)
               both == walk.shown \o page.lines
               status == IF next = 0 THEN "done" ELSE "paused"
    <3>1. /\ walk.sha = scan.read /\ PageRight(page, walk.sha, walk.after)
      BY <1>1, <2>2, <2>6 DEF BusyInv, PageInv
    <3>2. /\ page.lines \in Seq(Nat) /\ page.eligible \in Nat /\ page.matched \in Nat
          /\ walk.shown \in Seq(Nat) /\ walk.after \in Nat /\ walk.sha \in Seq(Reader!Kinds)
          /\ walk.matched \in SUBSET Nat /\ PageLimit \in Nat \ {0}
      BY <1>2, ReaderAssumption DEF Pages, ReaderTypes
    <3>3. walk' = [walk EXCEPT !.status = status, !.after = next, !.shown = both,
                               !.matched = walk.matched \union {page.matched}]
      BY <2>1, <2>6 DEF Reader!Paged
    <3>4. hits \subseteq Nat /\ \A h \in hits : h >= 1
      BY <3>2, HitsFinite
    <3>5. /\ \A i \in DOMAIN walk.shown : walk.shown[i] <= walk.after
          /\ \A h \in hits : h <= walk.after => Among(h, walk.shown)
      BY <2>6, ShownUpTo
    <3>6. /\ HeadOf(both, hits)
          /\ \A h \in hits : Among(h, walk.shown) \/ Among(h, page.lines) => Among(h, both)
      <4>1. HeadOf(walk.shown, hits)
        BY DEF WalkInv
      <4>2. HeadOf(page.lines, {h \in hits : h > walk.after})
        BY <3>1 DEF PageRight, Beyond
      <4> HIDE DEF hits, page
      <4>3. QED
        BY <3>2, <3>4, <3>5, <4>1, <4>2, HeadGrows
    <3>7. /\ page.lines # <<>> => /\ Len(page.lines) \in DOMAIN page.lines
                                 /\ page.lines[Len(page.lines)] \in hits
                                 /\ page.lines[Len(page.lines)] # 0
          /\ Len(page.lines) \in Nat
      <4>1. \A i \in DOMAIN page.lines : page.lines[i] \in hits
        BY <3>1 DEF PageRight, HeadOf, Beyond
      <4>2. page.lines # <<>> => Len(page.lines) \in DOMAIN page.lines
        BY <3>2
      <4>3. QED
        BY <3>2, <3>4, <4>1, <4>2
    <3>8. next \in Nat
      BY <3>2, <3>7 DEF Reader!NextAfter, Reader!Last
    <3>9. ASSUME next # 0
          PROVE  /\ page.lines # <<>> /\ Len(page.lines) = PageLimit
                 /\ next = both[Len(both)] /\ both # <<>>
      <4>1. page.eligible > Len(page.lines) /\ page.lines # <<>> /\ next = page.lines[Len(page.lines)]
        BY <3>9 DEF Reader!NextAfter, Reader!Last
      <4>2. Len(both) = Len(walk.shown) + Len(page.lines)
            /\ both[Len(walk.shown) + Len(page.lines)] = page.lines[Len(page.lines)]
        BY <3>2, <3>7, <4>1, Joined
      <4>3. QED
        BY <3>1, <3>2, <3>7, <4>1, <4>2 DEF PageRight
    <3>10. ASSUME next = 0
           PROVE  \A h \in hits : Among(h, both)
      <4>1. page.lines = <<>> \/ ~(page.eligible > Len(page.lines))
        BY <3>7, <3>10 DEF Reader!NextAfter, Reader!Last
      <4>2. page.eligible = Len(page.lines)
        BY <3>1, <3>2, <3>7, <4>1 DEF PageRight
      <4>3. \A h \in hits : h > walk.after => Among(h, page.lines)
        BY <3>1, <4>2 DEF PageRight, Beyond
      <4>4. QED
        BY <3>2, <3>4, <3>5, <3>6, <4>3
    <3>11. Len(walk.shown) % PageLimit = 0
      BY <2>6 DEF WalkInv
    <3>12. next # 0 => Len(both) % PageLimit = 0
      <4> SUFFICES ASSUME next # 0 PROVE Len(both) % PageLimit = 0
        OBVIOUS
      <4>1. Len(both) = Len(walk.shown) + PageLimit /\ Len(walk.shown) \in Nat
        BY <3>2, <3>9, Joined
      <4>2. QED
        BY <3>2, <3>11, <4>1, WholePages
    <3>13. walk.matched \union {page.matched} \subseteq {Cardinality(hits)}
      BY <3>1 DEF PageRight, WalkInv
    <3>14. both \in Seq(Nat) /\ status \in {"done", "paused"}
      BY <3>2
    <3> HIDE DEF both, hits, page, next
    <3>15. /\ walk'.status = status /\ walk'.after = next /\ walk'.shown = both
           /\ walk'.matched = walk.matched \union {page.matched} /\ walk'.sha = walk.sha
      BY <3>3 DEF ReaderTypes
    <3>16. ReaderTypes'
      BY <2>1, <2>2, <3>2, <3>3, <3>8, <3>14 DEF ReaderTypes, Reader!Statuses
    <3>17. BusyInv' /\ PageInv' /\ HeaderInv'
      BY <2>2, <3>14, <3>15 DEF BusyInv, PageInv, HeaderInv, Reader!InspectedHasHeader
    <3>18. WalkInv'
      <4>1. HeadOf(walk'.shown, Reader!Hits(walk'.sha))
            /\ walk'.matched \subseteq {Cardinality(Reader!Hits(walk'.sha))}
        BY <3>6, <3>13, <3>15 DEF hits
      <4>2. walk'.status = "done" => \A h \in Reader!Hits(walk'.sha) : Among(h, walk'.shown)
        BY <3>10, <3>15 DEF hits
      <4>3. walk'.status \notin {"new", "inspecting", "inspected", "querying"}
        BY <3>14, <3>15
      <4>4. walk'.status = "paused" =>
              /\ walk'.after # 0 /\ walk'.shown # <<>> /\ walk'.after = walk'.shown[Len(walk'.shown)]
              /\ Len(walk'.shown) % PageLimit = 0
        BY <3>9, <3>12, <3>15
      <4>5. QED
        BY <4>1, <4>2, <4>3, <4>4 DEF WalkInv
    <3>19. UntouchedInv'
      BY <2>1, <2>2, <2>6, <3>14, <3>15 DEF UntouchedInv
    <3>20. QED
      BY <3>16, <3>17, <3>18, <3>19
  <2>7. QED
    BY <2>3, <2>5, <2>6
<1>6. QED
  BY <1>4, <1>5

-----------------------------------------------------------------------------
(* The theorem. *)

LEMMA ReaderSteps ==
  ASSUME RInv, Reader!Next
  PROVE  RInv'
<1>1. CASE Reader!EditLog \/ Reader!ReplaceLog \/ Reader!RewriteManifest
  BY <1>1, DirectorySteps
<1>2. CASE Reader!Inspect \/ Reader!Query
  BY <1>2, AskStep
<1>3. CASE Reader!DeadlinePasses
  BY <1>3, FailsStep DEF Reader!DeadlinePasses
<1>4. QED
  BY <1>1, <1>2, <1>3, OpenStep, ReadLineStep, FinishStep
     DEF Reader!Next, Reader!Reader, Reader!Caller

LEMMA RightIsHonest ==
  ASSUME RInv
  PROVE  /\ Reader!TypeOK /\ Reader!PagesAreOneSnapshot /\ Reader!MatchedIsConstant
         /\ Reader!InspectedHasHeader /\ Reader!UntouchedIsReadable
<1> USE DEF RInv
<1>1. Reader!TypeOK
  BY DEF ReaderTypes, Files, Readings, Reader!NoScan, Reader!TypeOK
<1>2. Reader!PagesAreOneSnapshot
  <2>1. Reader!ToSet(walk.shown) = {walk.shown[i] : i \in DOMAIN walk.shown}
    BY DEF Reader!ToSet
  <2>2. \A h : h \in Reader!ToSet(walk.shown) <=> Among(h, walk.shown)
    BY <2>1 DEF Among
  <2>3. Reader!InOrder(walk.shown) /\ Reader!ToSet(walk.shown) \subseteq Reader!Hits(walk.sha)
    BY <2>1 DEF WalkInv, HeadOf
  <2>4. \A h \in Reader!Hits(walk.sha), i \in DOMAIN walk.shown :
          h < walk.shown[i] => h \in Reader!ToSet(walk.shown)
    BY <2>2 DEF WalkInv, HeadOf
  <2>5. walk.status = "paused" => walk.shown # <<>> /\ Len(walk.shown) % PageLimit = 0
    BY DEF WalkInv
  <2>6. walk.status = "done" => Reader!ToSet(walk.shown) = Reader!Hits(walk.sha)
    BY <2>2, <2>3 DEF WalkInv
  <2>7. QED
    BY <2>3, <2>4, <2>5, <2>6 DEF Reader!PagesAreOneSnapshot
<1>3. Reader!MatchedIsConstant
  BY SameCount DEF WalkInv, Reader!MatchedIsConstant
<1>4. Reader!InspectedHasHeader /\ Reader!UntouchedIsReadable
  BY DEF HeaderInv, UntouchedInv, Reader!UntouchedIsReadable
<1>5. QED
  BY <1>1, <1>2, <1>3, <1>4

\* Whatever is edited, replaced or described anew while a log is read and
\* between two pages, a caller is shown the head of the matches of the one
\* snapshot it inspected, counted alike on every page, with full pages before
\* the last; a log without its header is never inspected, and one nobody
\* touched is never refused (VerifiedEventLogReader.read,
\* SparkInspectionService): for every published log, limit and number of edits.
THEOREM SnapshotRead == ReadersSpec => []ReaderHonest
<1>1. ReadersInit => ReaderInv
  BY InitRight DEF ReadersInit, ReaderInv
<1>2. ReaderInv /\ [ReadersNext]_allVars => ReaderInv'
  <2> SUFFICES ASSUME ReaderInv, [ReadersNext]_allVars, part' = "reader" PROVE RInv'
    BY DEF ReaderInv
  <2>1. part = "reader" /\ (Reader!Next \/ UNCHANGED readerVars)
    BY DEF ReadersNext, ReaderStep, RouteStep, OverviewStep, StageStep, TaskStep, allVars
  <2>2. CASE Reader!Next
    BY <2>1, <2>2, ReaderSteps DEF ReaderInv
  <2>3. CASE UNCHANGED readerVars
    BY <2>1, <2>3 DEF readerVars, ReaderInv, RInv, ReaderTypes, BusyInv, PageInv, WalkInv, UntouchedInv,
                      HeaderInv, Reader!InspectedHasHeader
  <2>4. QED
    BY <2>1, <2>2, <2>3
<1>3. ReaderInv => ReaderHonest
  BY RightIsHonest DEF ReaderInv, ReaderHonest
<1>4. QED
  BY <1>1, <1>2, <1>3, PTL DEF ReadersSpec

-----------------------------------------------------------------------------
(* The route to an executor's log. *)

\* What the gateway is asked for: a URL of the route.
Fits(u) ==
  /\ u \in OnNode \/ u \in InHistory
  /\ u.backend \in Allowed /\ u.log = Last(registered).log
  /\ \/ u.kind = "nm" /\ u.backend = route.node
     \/ u.kind = "jhs" /\ u.backend = route.history /\ u.node = route.node[1]

\* A route started at the history server has no port to meet a node with.
PinnedInv ==
  requested # <<>> =>
    /\ \A i \in DOMAIN requested : Fits(requested[i])
    /\ route.log = Last(registered).log /\ route.log \in Logged
    /\ requested[1].kind = "jhs" => route.node[2] = 0
    /\ \A i, j \in DOMAIN requested : i < j => requested[i] # requested[j]
    /\ (\E i \in DOMAIN requested : requested[i].kind = "jhs") \/ route.history = NoRoute.history

RouteTypes ==
  /\ registered \in Seq(Urls \cup {NoUrl}) /\ pc \in {"resolve", "get", "done"}
  /\ requested \in Seq(OnNode \cup InHistory) /\ Len(requested) <= 4
  /\ IF requested = <<>> THEN url = NoUrl /\ route = NoRoute ELSE url = Last(requested)
  /\ route \in [log : Logged \cup {"none"}, history : Backends \cup {NoRoute.history},
                node : Backends \cup {<<h, 0>> : h \in Hosts \cup {"none"}}]
  /\ pc = "resolve" => requested = <<>> /\ received = 0
  /\ pc = "get" => requested # <<>> /\ received \in 0..ResponseLimit
  /\ received \in 0..(ResponseLimit + 2)
  /\ pc = "done" <=> answer.category # "none"
  /\ pc # "done" => answer = NoAnswer
  /\ answer.coverage \in {"none", "tail", "complete", "unknown"}


\* What is known of a URL by the set it is of.
LEMMA UrlFields ==
  /\ \A u \in OnNode : /\ u.kind \in {"direct", "nm"} /\ u.backend \in Backends /\ u.log \in Logged
                      /\ FirstUrl(u) \in OnNode /\ FirstUrl(u).kind = "nm"
                      /\ FirstUrl(u).backend = u.backend /\ FirstUrl(u).log = u.log
  /\ \A u \in InHistory : /\ u.kind = "jhs" /\ u.backend \in Backends /\ u.log \in Logged
                         /\ u.node \in Hosts /\ FirstUrl(u) = u
  /\ \A u \in Elsewhere : u.kind \in {"login", "foreign"}
  /\ NoUrl.kind = "none"
<1>1. \A u \in OnNode : /\ u.kind \in {"direct", "nm"} /\ u.backend \in Backends /\ u.log \in Logged
                       /\ FirstUrl(u) \in OnNode /\ FirstUrl(u).kind = "nm"
                       /\ FirstUrl(u).backend = u.backend /\ FirstUrl(u).log = u.log
  BY DEF OnNode, FirstUrl
<1>2. \A u \in InHistory : /\ u.kind = "jhs" /\ u.backend \in Backends /\ u.log \in Logged
                          /\ u.node \in Hosts /\ FirstUrl(u) = u
  BY DEF InHistory, FirstUrl
<1>3. (\A u \in Elsewhere : u.kind \in {"login", "foreign"}) /\ NoUrl.kind = "none"
  BY DEF Elsewhere, NoUrl
<1>4. QED
  BY <1>1, <1>2, <1>3

\* An answer says something, and how much the text covers.
LEMMA Answers ==
  /\ \A category : Fail(category).category = category /\ Fail(category).coverage = "none"
  /\ \A category : LET again == [Fail(category) EXCEPT !.retryable = TRUE]
                   IN  again.category = category /\ again.coverage = "none"
  /\ \A page : PageCategory(page).category \notin {"none", "OK"} /\ PageCategory(page).coverage = "none"
  /\ \A status : StatusCategory(status).category \notin {"none", "OK"} /\ StatusCategory(status).coverage = "none"
  /\ \A pieces, total, growth :
       /\ Content(pieces, total, growth).category # "none"
       /\ Content(pieces, total, growth).coverage \in {"tail", "complete", "unknown"}
<1> DEFINE Again(category) == [Fail(category) EXCEPT !.retryable = TRUE]
<1>6. \A category : Again(category).category = category /\ Again(category).coverage = "none"
  BY DEF Outcome, Fail
<1>7. \A category : Fail(category).category = category /\ Fail(category).coverage = "none"
  BY DEF Outcome, Fail
<1>2. \A page : PageCategory(page).category \notin {"none", "OK"} /\ PageCategory(page).coverage = "none"
  BY <1>6, <1>7 DEF PageCategory
<1>3. \A status : StatusCategory(status).category \notin {"none", "OK"} /\ StatusCategory(status).coverage = "none"
  BY <1>6, <1>7 DEF StatusCategory
<1>4. \A pieces, total, growth :
        /\ Content(pieces, total, growth).category # "none"
        /\ Content(pieces, total, growth).coverage \in {"tail", "complete", "unknown"}
  <2> TAKE pieces, total, growth
  <2> DEFINE coverage == Coverage(Size(pieces), total)
             text == Grown(StartDiscarded(pieces, coverage), growth)
             given == IF Size(text) > OutputLimit THEN "tail" ELSE coverage
  <2>1. coverage \in {"tail", "complete", "unknown"}
    BY DEF Coverage
  <2>2. Content(pieces, total, growth) = Outcome("OK", FALSE, given, TailLines(text))
    BY DEF Content
  <2> HIDE DEF text
  <2>3. given \in {"tail", "complete", "unknown"}
    BY <2>1
  <2>4. QED
    BY <2>2, <2>3 DEF Outcome
<1>5. QED
  BY <1>2, <1>3, <1>4, <1>6, <1>7

LEMMA EndsRight ==
  ASSUME RouteTypes, PinnedInv, pc # "done", NEW outcome, Ends(outcome), outcome.category # "none",
         outcome.coverage \in {"none", "tail", "complete", "unknown"},
         received' \in 0..(ResponseLimit + 2)
  PROVE  RouteTypes' /\ PinnedInv'
<1>1. RouteTypes'
  BY DEF RouteTypes, Ends
<1>2. PinnedInv'
  BY DEF PinnedInv, Fits, Ends
<1>3. QED
  BY <1>1, <1>2

\* A URL that the route accepts is asked for, unless it was before.
LEMMA AsksRight ==
  ASSUME RouteTypes, pc # "done", NEW r, NEW u \in OnNode \cup InHistory,
         r \in [log : Logged \cup {"none"}, history : Backends \cup {NoRoute.history},
                node : Backends \cup {<<h, 0>> : h \in Hosts \cup {"none"}}],
         Accepts(r, u), u.log = Last(registered).log, Asks(Pinned(r, u), u),
         UNCHANGED registered, received' \in 0..ResponseLimit, Len(requested) < 4,
         \/ /\ requested = <<>> /\ r.history = NoRoute.history
            /\ u.kind = "jhs" => r.node[2] = 0
         \/ requested # <<>> /\ r = route /\ PinnedInv
  PROVE  RouteTypes' /\ PinnedInv'
<1> DEFINE next == Pinned(r, u)
<1>1. received' \in 0..(ResponseLimit + 2)
  BY RouteAssumption
<1>2. CASE u \in ToSet(requested)
  <2>1. pc' = "done" /\ answer' = Fail("UNEXPECTED_RESPONSE") /\ UNCHANGED <<route, url, requested>>
    BY <1>2 DEF Asks
  <2>2. requested # <<>>
    BY <1>2 DEF ToSet
  <2>3. QED
    <3>1. RouteTypes'
      BY <1>1, <2>1, <2>2, Answers DEF RouteTypes
    <3>2. PinnedInv'
      BY <2>1, <2>2 DEF PinnedInv, Fits
    <3>3. QED
      BY <3>1, <3>2
<1>3. CASE u \notin ToSet(requested)
  <2>1. /\ pc' = "get" /\ route' = next /\ url' = u /\ requested' = Append(requested, u)
        /\ answer' = answer
    BY <1>3 DEF Asks
  <2> DEFINE n == Len(requested)
  <2>2. /\ requested \in Seq(OnNode \cup InHistory) /\ n \in 0..3
        /\ requested' \in Seq(OnNode \cup InHistory) /\ Len(requested') = n + 1
        /\ DOMAIN requested' = 1..(n + 1) /\ requested'[n + 1] = u
        /\ \A i \in 1..n : requested'[i] = requested[i]
        /\ DOMAIN requested = 1..n
    <3>1. requested \in Seq(OnNode \cup InHistory) /\ n \in Nat /\ DOMAIN requested = 1..n
      BY DEF RouteTypes
    <3>2. requested' = Append(requested, u)
      BY <2>1
    <3>3. n \in 0..3
      BY <3>1
    <3>4. /\ requested' \in Seq(OnNode \cup InHistory) /\ Len(requested') = n + 1
          /\ DOMAIN requested' = 1..(n + 1) /\ requested'[n + 1] = u
          /\ \A i \in 1..n : requested'[i] = requested[i]
      BY <3>1, <3>2
    <3>5. QED
      BY <3>1, <3>3, <3>4
  <2>3. requested' # <<>> /\ Last(requested') = u
    BY <2>2 DEF Last
  <2>4. /\ next.log = r.log /\ next.node = r.node
        /\ next.history = IF u.kind = "jhs" THEN u.backend ELSE r.history
        /\ next \in [log : Logged \cup {"none"}, history : Backends \cup {NoRoute.history},
                     node : Backends \cup {<<h, 0>> : h \in Hosts \cup {"none"}}]
    BY UrlFields DEF Pinned
  <2> HIDE DEF next
  <2>5. RouteTypes'
    <3>1. answer' = NoAnswer /\ NoAnswer.category = "none" /\ NoAnswer.coverage = "none"
      BY <2>1, Answers DEF RouteTypes, NoAnswer
    <3>2. QED
      BY <1>1, <2>1, <2>2, <2>3, <2>4, <3>1 DEF RouteTypes
  <2>6. /\ u.backend \in Allowed /\ u.log = r.log /\ u.log # "alien" /\ u.log \in Logged
        /\ \/ u.kind = "nm" /\ u.backend = r.node
           \/ u.kind = "jhs" /\ u.node = r.node[1] /\ r.history \in {NoRoute.history, u.backend}
    BY UrlFields DEF Accepts
  <2>7. \A b \in Allowed : b # NoRoute.history
    BY RouteAssumption DEF NoRoute
  <2>8. Fits(u)'
    <3>1. u \in OnNode \/ u \in InHistory
      OBVIOUS
    <3>2. route' = next /\ registered' = registered
      BY <2>1
    <3>3. QED
      BY <2>4, <2>6, <3>1, <3>2 DEF Fits
  <2>9. requested # <<>> => PinnedInv /\ r = route
    OBVIOUS
  <2>10. ASSUME NEW i \in 1..n PROVE Fits(requested[i])'
    <3>1. requested # <<>> /\ Fits(requested[i])
      BY <2>2, <2>9, <1>3, <2>1 DEF PinnedInv
    <3>2. r = route
      BY <2>9, <3>1
    <3>3. requested'[i] = requested[i] /\ route' = next /\ registered' = registered
      BY <2>1, <2>2
    <3>4. requested[i].kind = "jhs" => next.history = requested[i].backend
      BY <2>4, <2>6, <2>7, <3>1, <3>2 DEF Fits
    <3> DEFINE v == requested[i]
    <3>5. v' = v
      BY <3>3
    <3>6. /\ v \in OnNode \/ v \in InHistory
          /\ v.backend \in Allowed /\ v.log = Last(registered).log
          /\ \/ v.kind = "nm" /\ v.backend = route.node
             \/ v.kind = "jhs" /\ v.backend = route.history /\ v.node = route.node[1]
      BY <3>1 DEF Fits
    <3>7. QED
      BY <2>4, <3>2, <3>3, <3>4, <3>5, <3>6 DEF Fits
  <2>11. \A i \in DOMAIN requested' : Fits(requested[i])'
    BY <2>2, <2>8, <2>10 DEF Fits
  <2>12. route'.log = Last(registered').log /\ route'.log \in Logged
    BY <2>1, <2>4, <2>6
  <2>13. requested'[1].kind = "jhs" => route'.node[2] = 0
    <3>1. CASE requested = <<>>
      BY <2>1, <2>2, <2>4, <3>1
    <3>2. CASE requested # <<>>
      BY <2>1, <2>2, <2>4, <2>9, <3>2 DEF PinnedInv
    <3>3. QED
      BY <3>1, <3>2
  <2>14. \A i, j \in DOMAIN requested' : i < j => requested'[i] # requested'[j]
    <3> SUFFICES ASSUME NEW i \in DOMAIN requested', NEW j \in DOMAIN requested', i < j
                 PROVE  requested'[i] # requested'[j]
      OBVIOUS
    <3>1. i \in 1..n /\ requested'[i] = requested[i]
      BY <2>2
    <3>2. CASE j \in 1..n
      BY <2>2, <2>9, <3>1, <3>2 DEF PinnedInv
    <3>3. CASE j = n + 1
      BY <1>3, <2>2, <3>1, <3>3 DEF ToSet
    <3>4. QED
      BY <2>2, <3>2, <3>3
  <2>15. (\E i \in DOMAIN requested' : requested'[i].kind = "jhs") \/ route'.history = NoRoute.history
    <3>1. CASE u.kind = "jhs"
      BY <2>2, <3>1
    <3>2. CASE u.kind # "jhs" /\ requested = <<>>
      BY <2>1, <2>4, <3>2
    <3>3. CASE u.kind # "jhs" /\ requested # <<>>
      BY <2>1, <2>2, <2>4, <2>9, <3>3 DEF PinnedInv
    <3>4. QED
      BY <3>1, <3>2, <3>3
  <2>16. PinnedInv'
    BY <2>11, <2>12, <2>13, <2>14, <2>15 DEF PinnedInv
  <2>17. QED
    BY <2>5, <2>16
<1>4. QED
  BY <1>2, <1>3

LEMMA RouteInit ==
  ASSUME Init
  PROVE  RouteTypes /\ PinnedInv
<1>1. registered \in Seq(Urls \cup {NoUrl})
  <2>1. \A u \in Urls \cup {NoUrl} : <<u>> \in Seq(Urls \cup {NoUrl})
    OBVIOUS
  <2>2. \A v, u \in Urls \cup {NoUrl} : <<v, u>> \in Seq(Urls \cup {NoUrl})
    OBVIOUS
  <2>3. \A b \in Backends : NodeUrl(b, "c1") \in Urls /\ NodeUrl(b, "c2") \in Urls
    BY DEF NodeUrl, Urls, OnNode, Logged
  <2>4. CASE registered \in UNION {{NodeUrl(b, "c2"), NoUrl} \X {NodeUrl(b, "c1"), NoUrl} : b \in Backends}
    <3>1. PICK b \in Backends : registered \in {NodeUrl(b, "c2"), NoUrl} \X {NodeUrl(b, "c1"), NoUrl}
      BY <2>4
    <3>2. PICK v, u : /\ registered = <<v, u>> /\ v \in {NodeUrl(b, "c2"), NoUrl}
                      /\ u \in {NodeUrl(b, "c1"), NoUrl}
      BY <3>1
    <3>3. QED
      BY <2>2, <2>3, <3>2
  <2>5. CASE registered \in {<<u>> : u \in Urls \cup {NoUrl}}
    BY <2>1, <2>5
  <2>6. CASE registered = <<>>
    BY <2>6
  <2>7. \/ registered \in UNION {{NodeUrl(b, "c2"), NoUrl} \X {NodeUrl(b, "c1"), NoUrl} : b \in Backends}
        \/ registered \in {<<u>> : u \in Urls \cup {NoUrl}} \/ registered \in {<<>>}
    BY Zenon DEF Init
  <2>8. QED
    BY <2>4, <2>5, <2>6, <2>7
<1>2. NoAnswer.category = "none" /\ NoAnswer.coverage = "none"
  BY Answers DEF NoAnswer
<1>3. ResponseLimit \in Nat
  BY RouteAssumption
<1>4. NoRoute \in [log : Logged \cup {"none"}, history : Backends \cup {NoRoute.history},
                   node : Backends \cup {<<h, 0>> : h \in Hosts \cup {"none"}}]
  BY DEF NoRoute
<1>5. QED
  BY <1>1, <1>2, <1>3, <1>4 DEF Init, RouteTypes, PinnedInv

LEMMA ResolveStep ==
  ASSUME RouteTypes, PinnedInv, Resolve
  PROVE  RouteTypes' /\ PinnedInv'
<1>1. /\ pc = "resolve" /\ requested = <<>> /\ received' = 0 /\ ResponseLimit \in Nat
  BY RouteAssumption DEF Resolve, RouteTypes
<1>2. CASE registered = <<>> \/ Last(registered) = NoUrl
  BY <1>1, <1>2, Answers, EndsRight DEF Resolve
<1>3. CASE ~(registered = <<>> \/ Last(registered) = NoUrl)
  <2> DEFINE u == Last(registered)
  <2>1. u \in Urls
    BY <1>3 DEF RouteTypes, Last
  <2>2. CASE ~Routable(u)
    BY <1>1, <1>3, <2>2, Answers, EndsRight DEF Resolve
  <2>3. CASE Routable(u)
    <3>1. /\ Asks(Pinned(RouteOf(u), FirstUrl(u)), FirstUrl(u)) /\ UNCHANGED registered
          /\ u.kind \in {"direct", "nm", "jhs"} /\ Accepts(RouteOf(u), FirstUrl(u))
      BY <1>3, <2>3 DEF Resolve, Routable
    <3>2. u \in OnNode \/ u \in InHistory
      BY <2>1, <3>1, UrlFields DEF Urls
    <3>3. /\ FirstUrl(u) \in OnNode \cup InHistory /\ FirstUrl(u).log = u.log /\ u.log \in Logged
          /\ u.kind = "jhs" => u.node \in Hosts
          /\ u.kind # "jhs" => u.backend \in Backends
          /\ FirstUrl(u).kind = "jhs" => u.kind = "jhs"
      BY <3>2, UrlFields
    <3> HIDE DEF u
    <3>4. /\ RouteOf(u) \in [log : Logged \cup {"none"}, history : Backends \cup {NoRoute.history},
                             node : Backends \cup {<<h, 0>> : h \in Hosts \cup {"none"}}]
          /\ RouteOf(u).history = NoRoute.history
          /\ u.kind = "jhs" => RouteOf(u).node[2] = 0
      BY <3>3 DEF RouteOf
    <3>5. received' \in 0..ResponseLimit /\ Len(requested) < 4
      BY <1>1
    <3>6. FirstUrl(u).log = Last(registered).log
      BY <3>3 DEF u
    <3>7. QED
      BY <1>1, <3>1, <3>3, <3>4, <3>5, <3>6, AsksRight
  <2>4. QED
    BY <2>2, <2>3
<1>4. QED
  BY <1>2, <1>3

LEMMA RedirectedStep ==
  ASSUME RouteTypes, PinnedInv, pc = "get", NEW target \in Urls, NEW size \in {0, 2},
         Redirected(target, size)
  PROVE  RouteTypes' /\ PinnedInv'
<1>1. /\ received \in 0..ResponseLimit /\ received' = received + size /\ ResponseLimit \in Nat
      /\ requested # <<>>
  BY RouteAssumption DEF Redirected, RouteTypes
<1>2. received' \in 0..(ResponseLimit + 2)
  BY <1>1
<1>3. CASE TooLarge(size) \/ Len(requested) = 4 \/ target.kind = "login" \/ ~Accepts(route, target)
  <2>1. \E category \in {"UPSTREAM_ERROR", "UNEXPECTED_RESPONSE", "AUTHENTICATION_FAILED"} :
          Ends(Fail(category))
    BY <1>3 DEF Redirected
  <2>2. QED
    BY <1>2, <2>1, Answers, EndsRight
<1>4. CASE ~(TooLarge(size) \/ Len(requested) = 4 \/ target.kind = "login" \/ ~Accepts(route, target))
  <2>1. Asks(Pinned(route, target), target) /\ UNCHANGED registered /\ Accepts(route, target)
    BY <1>4 DEF Redirected
  <2>2. received' \in 0..ResponseLimit
    BY <1>1, <1>4 DEF TooLarge
  <2>3. Len(requested) < 4
    <3>1. Len(requested) \in Nat /\ Len(requested) <= 4
      BY DEF RouteTypes
    <3>2. Len(requested) # 4
      BY <1>4
    <3> DEFINE n == Len(requested)
    <3> HIDE DEF n
    <3>3. n \in Nat /\ n <= 4 /\ n # 4 => n < 4
      OBVIOUS
    <3>4. QED
      BY <3>1, <3>2, <3>3 DEF n
  <2>4. target \in OnNode \cup InHistory
    BY <2>1, UrlFields DEF Accepts, Urls
  <2>5. target.log = Last(registered).log
    BY <1>1, <2>1 DEF Accepts, PinnedInv
  <2>6. route \in [log : Logged \cup {"none"}, history : Backends \cup {NoRoute.history},
                   node : Backends \cup {<<h, 0>> : h \in Hosts \cup {"none"}}]
    BY DEF RouteTypes
  <2>7. QED
    BY <1>1, <2>1, <2>2, <2>3, <2>4, <2>5, <2>6, AsksRight
<1>5. QED
  BY <1>3, <1>4

LEMMA RouteSteps ==
  ASSUME RouteTypes, PinnedInv, Next
  PROVE  RouteTypes' /\ PinnedInv'
<1>1. /\ received \in 0..(ResponseLimit + 2) /\ ResponseLimit \in Nat
      /\ pc = "get" => received \in 0..ResponseLimit
  BY RouteAssumption DEF RouteTypes
<1>2. ASSUME NEW status, NEW size \in {0, 2}, Refused(status, size)
      PROVE  RouteTypes' /\ PinnedInv'
  <2>1. pc = "get" /\ received' \in 0..(ResponseLimit + 2)
    BY <1>1, <1>2 DEF Refused
  <2>2. Ends(Fail("UPSTREAM_ERROR")) \/ Ends(StatusCategory(status))
    BY <1>2 DEF Refused
  <2>3. QED
    BY <2>1, <2>2, Answers, EndsRight
<1>3. ASSUME NEW page, NEW size \in {0, 2}, NotALog(page, size)
      PROVE  RouteTypes' /\ PinnedInv'
  <2>1. pc = "get" /\ received' \in 0..(ResponseLimit + 2)
    BY <1>1, <1>3 DEF NotALog
  <2>2. Ends(Fail("UPSTREAM_ERROR")) \/ Ends(PageCategory(page))
    BY <1>3 DEF NotALog
  <2>3. QED
    BY <2>1, <2>2, Answers, EndsRight
<1>4. ASSUME NEW served, NEW given, NEW total, NEW growth, LogPage(served, given, total, growth)
      PROVE  RouteTypes' /\ PinnedInv'
  <2>1. pc = "get" /\ received' \in 0..(ResponseLimit + 2)
    BY <1>1, <1>4 DEF LogPage
  <2> DEFINE pieces == LastBytes(served, given)
  <2>2. \/ Ends(Fail("UPSTREAM_ERROR")) \/ Ends(Fail("UNEXPECTED_RESPONSE"))
        \/ Ends(Content(pieces, total, growth))
    BY <1>4 DEF LogPage
  <2> HIDE DEF pieces
  <2>3. QED
    BY <2>1, <2>2, Answers, EndsRight
<1>5. ASSUME NEW category, ConnectionFails(category), category # "none"
      PROVE  RouteTypes' /\ PinnedInv'
  <2> DEFINE again == [Fail(category) EXCEPT !.retryable = TRUE]
  <2>1. pc = "get" /\ received' \in 0..(ResponseLimit + 2) /\ Ends(again)
    BY <1>1, <1>5 DEF ConnectionFails
  <2>2. again.category = category /\ again.coverage = "none"
    BY Answers
  <2> HIDE DEF again
  <2>3. QED
    BY <1>5, <2>1, <2>2, EndsRight
<1>6. CASE Over
  BY <1>6 DEF Over, vars, RouteTypes, PinnedInv, Fits
<1>7. QED
  BY <1>2, <1>3, <1>4, <1>5, <1>6, ResolveStep, RedirectedStep DEF Next

\* What the invariant says of the URLs that were asked for.
LEMMA PinnedStays ==
  ASSUME RouteTypes, PinnedInv
  PROVE  TypeOK /\ StaysOnRoute /\ RequestsBounded
<1>1. \A i \in DOMAIN requested :
        /\ requested # <<>> /\ Fits(requested[i]) /\ requested[i].backend \in Backends
        /\ requested[i].log = Last(registered).log /\ requested[i].backend \in Allowed
  BY UrlFields DEF RouteTypes, PinnedInv, Fits
<1>2. RequestsBounded
  BY <1>1 DEF RouteTypes, RequestsBounded
<1>3. TypeOK
  <2>1. requested # <<>> => Len(requested) \in DOMAIN requested
    BY DEF RouteTypes
  <2>2. requested # <<>> => url = Last(requested) /\ url.backend \in Backends
    BY <1>1, <2>1 DEF RouteTypes, Last
  <2>3. pc = "done" <=> answer # NoAnswer
    BY Answers DEF RouteTypes, NoAnswer
  <2>4. QED
    BY <2>2, <2>3 DEF RouteTypes, TypeOK
<1>4. StaysOnRoute
  <2>1. Pairs(LAMBDA u, v : u # v)
    BY <1>1 DEF Pairs, PinnedInv
  <2>2. Pairs(LAMBDA u, v : u.kind = v.kind => u.backend = v.backend)
    BY <1>1 DEF Pairs, Fits
  <2>3. Pairs(LAMBDA u, v : u.kind = "nm" /\ v.kind = "jhs" => v.node = u.backend[1])
    BY <1>1 DEF Pairs, Fits
  <2>4. Pairs(LAMBDA u, v : u.kind = "jhs" => v.kind = "jhs" \/ requested[1].kind = "nm")
    <3> SUFFICES ASSUME NEW i \in DOMAIN requested, NEW j \in DOMAIN requested,
                        requested[j].kind # "jhs", requested[1].kind # "nm"
                 PROVE  FALSE
      BY DEF Pairs
    <3>1. requested # <<>> /\ 1 \in DOMAIN requested
      BY <1>1 DEF RouteTypes
    <3>2. requested[1].kind = "jhs"
      BY <1>1, <3>1 DEF Fits
    <3>3. requested[j].backend = route.node /\ requested[j].backend \in Allowed
      BY <1>1 DEF Fits
    <3>4. route.node[2] = 0
      BY <3>1, <3>2 DEF PinnedInv
    <3>5. QED
      BY <3>3, <3>4, RouteAssumption
  <2>5. QED
    BY <1>1, <2>1, <2>2, <2>3, <2>4 DEF StaysOnRoute
<1>5. QED
  BY <1>2, <1>3, <1>4

-----------------------------------------------------------------------------
(* The text of an executor's log: the pieces of lines that its last bytes are. *)

\* The bytes of the lines from one on are those of it and of the lines after it.
LEMMA BytesBelow ==
  ASSUME NEW sizes \in Seq(Nat)
  PROVE  /\ \A i \in Nat : BytesFrom(sizes, i + 1) \in Nat
         /\ BytesFrom(sizes, Len(sizes) + 1) = 0
         /\ \A i \in DOMAIN sizes : BytesFrom(sizes, i) = sizes[i] + BytesFrom(sizes, i + 1)
<1>1. \A i \in Nat : BytesFrom(sizes, i + 1) \in Nat
  <2> SUFFICES ASSUME NEW i \in Nat PROVE BytesFrom(sizes, i + 1) \in Nat
    OBVIOUS
  <2>1. IsFiniteSet((i + 1)..Len(sizes))
    BY FS_Interval
  <2>2. \A k \in (i + 1)..Len(sizes) : sizes[k] \in Nat
    OBVIOUS
  <2>3. QED
    BY <2>1, <2>2, SumType DEF BytesFrom
<1>2. BytesFrom(sizes, Len(sizes) + 1) = 0
  <2>1. (Len(sizes) + 1)..Len(sizes) = {}
    OBVIOUS
  <2>2. QED
    BY <2>1, SumEmpty DEF BytesFrom
<1>3. ASSUME NEW i \in DOMAIN sizes
      PROVE  BytesFrom(sizes, i) = sizes[i] + BytesFrom(sizes, i + 1)
  <2> DEFINE after == (i + 1)..Len(sizes)
  <2>1. IsFiniteSet(after)
    BY FS_Interval
  <2>2. i..Len(sizes) = after \union {i} /\ i \notin after
    OBVIOUS
  <2>3. \A k \in after \union {i} : sizes[k] \in Nat
    OBVIOUS
  <2> HIDE DEF after
  <2>4. SumFunctionOnSet(sizes, after \union {i}) = sizes[i] + SumFunctionOnSet(sizes, after)
    BY <2>1, <2>2, <2>3, SumWith
  <2>5. QED
    BY <2>2, <2>4 DEF BytesFrom, after
<1>4. QED
  BY <1>1, <1>2, <1>3

\* The later the line, the fewer the bytes.
LEMMA BytesFall ==
  ASSUME NEW sizes \in Seq(Nat), NEW j \in 1..(Len(sizes) + 1)
  PROVE  \A i \in 1..j : BytesFrom(sizes, j) <= BytesFrom(sizes, i)
<1> DEFINE G == {d \in Nat : d < j => BytesFrom(sizes, j) <= BytesFrom(sizes, j - d)}
<1>1. \A k \in 1..(Len(sizes) + 1) : BytesFrom(sizes, k) \in Nat
  <2> SUFFICES ASSUME NEW k \in 1..(Len(sizes) + 1) PROVE BytesFrom(sizes, k) \in Nat
    OBVIOUS
  <2>1. k - 1 \in Nat /\ k = (k - 1) + 1
    OBVIOUS
  <2>2. QED
    BY <2>1, BytesBelow
<1>2. 0 \in G
  BY <1>1
<1>3. ASSUME NEW d \in Nat, d \in G PROVE d + 1 \in G
  <2> SUFFICES ASSUME d + 1 < j PROVE BytesFrom(sizes, j) <= BytesFrom(sizes, j - (d + 1))
    OBVIOUS
  <2> DEFINE i == j - (d + 1)
  <2>1. i \in DOMAIN sizes /\ i + 1 = j - d /\ i + 1 \in 1..(Len(sizes) + 1) /\ d < j
    OBVIOUS
  <2>2. BytesFrom(sizes, j) <= BytesFrom(sizes, j - d)
    BY <1>3, <2>1
  <2> HIDE DEF i, G
  <2>3. BytesFrom(sizes, i) = sizes[i] + BytesFrom(sizes, i + 1) /\ sizes[i] \in Nat
    BY <2>1, BytesBelow
  <2>4. BytesFrom(sizes, i + 1) \in Nat /\ BytesFrom(sizes, j) \in Nat
    BY <1>1, <2>1
  <2>5. BytesFrom(sizes, j) <= BytesFrom(sizes, i + 1)
    BY <2>1, <2>2
  <2>6. BytesFrom(sizes, j) <= BytesFrom(sizes, i)
    BY <2>3, <2>4, <2>5
  <2>7. QED
    BY <2>6 DEF i
<1> HIDE DEF G
<1>4. \A d \in Nat : d \in G
  BY <1>2, <1>3, AllNumbers
<1>5. ASSUME NEW i \in 1..j PROVE BytesFrom(sizes, j) <= BytesFrom(sizes, i)
  <2>1. j - i \in Nat /\ j - i < j /\ j - (j - i) = i
    OBVIOUS
  <2>2. j - i \in G
    BY <1>4, <2>1
  <2>3. BytesFrom(sizes, j) <= BytesFrom(sizes, j - (j - i))
    BY <2>1, <2>2 DEF G
  <2>4. QED
    BY <2>1, <2>3
<1>6. QED
  BY <1>5

\* The last bytes of a log are those of its last lines: a piece of the first
\* of them, and all of the others.
Pieces == [line : Nat, bytes : Nat, whole : BOOLEAN]
IsTail(pieces, text) ==
  \E f \in 1..(Len(text) + 1) :
    /\ pieces \in Seq(Pieces)
    /\ Len(pieces) = Len(text) - f + 1
    /\ \A k \in DOMAIN pieces : pieces[k].line = f - 1 + k
    /\ \A k \in DOMAIN pieces : pieces[k].bytes <= text[f - 1 + k]
    /\ \A k \in DOMAIN pieces : pieces[k].whole <=> pieces[k].bytes = text[f - 1 + k]
    /\ \A k \in DOMAIN pieces : k # 1 => pieces[k].whole

\* What is asked for of a log is such a tail of it.
LEMMA LastBytesTail ==
  ASSUME NEW text \in Logs, NEW n \in Nat
  PROVE  IsTail(LastBytes(text, n), text)
<1> DEFINE Kept(i) == IF n >= BytesFrom(text, i) THEN text[i] ELSE n - BytesFrom(text, i + 1)
           from == {i \in DOMAIN text : n > BytesFrom(text, i + 1)}
           pieces == LastBytes(text, n)
           m == Cardinality(from)
<1>1. text \in Seq(Nat) /\ \A i \in DOMAIN text : text[i] \in Nat \ {0}
  BY TextAssumption
<1>2. pieces = [k \in 1..m |->
                  Piece(Len(text) - m + k, Kept(Len(text) - m + k),
                        Kept(Len(text) - m + k) = text[Len(text) - m + k])]
  BY DEF LastBytes
<1>3. /\ \A i \in DOMAIN text : BytesFrom(text, i) = text[i] + BytesFrom(text, i + 1)
      /\ \A i \in DOMAIN text : BytesFrom(text, i + 1) \in Nat
  BY <1>1, BytesBelow
<1>4. \A i, j \in DOMAIN text : i \in from /\ i < j => j \in from
  <2> SUFFICES ASSUME NEW i \in DOMAIN text, NEW j \in DOMAIN text, i \in from, i < j
               PROVE  j \in from
    OBVIOUS
  <2>1. j + 1 \in 1..(Len(text) + 1) /\ i + 1 \in 1..(j + 1)
    BY <1>1
  <2>2. BytesFrom(text, j + 1) <= BytesFrom(text, i + 1)
    BY <1>1, <2>1, BytesFall
  <2>3. QED
    BY <1>3, <2>2
<1>5. \E f \in 1..(Len(text) + 1) : from = f..Len(text)
  <2>1. CASE from = {}
    <3>1. Len(text) + 1 \in 1..(Len(text) + 1) /\ (Len(text) + 1)..Len(text) = {}
      BY <1>1
    <3>2. QED
      BY <2>1, <3>1
  <2>2. CASE from # {}
    <3>1. from \in SUBSET Nat
      BY <1>1
    <3>2. PICK f \in from : \A i \in from : f <= i
      BY <2>2, <3>1, Least
    <3>3. f \in DOMAIN text /\ f \in 1..(Len(text) + 1)
      BY <1>1, <3>2
    <3>4. \A i \in DOMAIN text : i \in from <=> f <= i
      <4>1. \A i \in DOMAIN text : f < i => i \in from
        BY <1>4, <3>2, <3>3
      <4>2. QED
        BY <1>1, <3>2, <3>3, <4>1
    <3>5. DOMAIN text = 1..Len(text) /\ Len(text) \in Nat /\ from \subseteq DOMAIN text
      BY <1>1
    <3> HIDE DEF from
    <3>6. \A i \in from : i \in f..Len(text)
      BY <3>3, <3>4, <3>5
    <3>7. \A i \in f..Len(text) : i \in from
      BY <3>3, <3>4, <3>5
    <3>8. from = f..Len(text)
      BY <3>6, <3>7
    <3>9. QED
      BY <3>3, <3>8
  <2>3. QED
    BY <2>1, <2>2
<1>6. PICK f \in 1..(Len(text) + 1) : from = f..Len(text)
  BY <1>5
<1>7. m = Len(text) - f + 1
  <2>1. f \in Int /\ Len(text) \in Int /\ f <= Len(text) + 1
    BY <1>1
  <2>2. Cardinality(f..Len(text)) = IF f > Len(text) THEN 0 ELSE Len(text) - f + 1
    BY <2>1, FS_Interval
  <2> HIDE DEF from
  <2>3. m = Cardinality(f..Len(text))
    BY <1>6
  <2>4. QED
    BY <2>1, <2>2, <2>3
<1>8. ASSUME NEW i \in from
      PROVE  /\ Kept(i) \in Nat /\ Kept(i) <= text[i]
             /\ i # f => Kept(i) = text[i]
  <2>1. i \in DOMAIN text /\ n > BytesFrom(text, i + 1) /\ text[i] \in Nat
    BY <1>1
  <2>2. BytesFrom(text, i) = text[i] + BytesFrom(text, i + 1) /\ BytesFrom(text, i + 1) \in Nat
    BY <1>3, <2>1
  <2>3. i # f => i - 1 \in from /\ (i - 1) + 1 = i
    <3> HIDE DEF from
    <3>1. i \in f..Len(text) /\ f \in Nat /\ Len(text) \in Nat
      BY <1>1, <1>6
    <3>2. i # f => i - 1 \in f..Len(text) /\ (i - 1) + 1 = i
      BY <3>1
    <3>3. QED
      BY <1>6, <3>2
  <2>4. i # f => n > BytesFrom(text, i)
    BY <2>3
  <2>5. QED
    BY <2>1, <2>2, <2>4
<1> HIDE DEF Kept, from
<1>9. \A k \in 1..m : Len(text) - m + k = f - 1 + k /\ f - 1 + k \in from /\ f - 1 + k \in Nat
                      /\ (k # 1 => f - 1 + k # f)
  BY <1>1, <1>6, <1>7
<1>10. pieces = [k \in 1..m |-> Piece(f - 1 + k, Kept(f - 1 + k), Kept(f - 1 + k) = text[f - 1 + k])]
  BY <1>2, <1>9
<1>11. m \in Nat
  BY <1>1, <1>7
<1> HIDE DEF m, pieces
<1>12. ASSUME NEW k \in 1..m
       PROVE  /\ pieces[k] \in Pieces
              /\ pieces[k].line = f - 1 + k
              /\ pieces[k].bytes <= text[f - 1 + k]
              /\ pieces[k].whole <=> pieces[k].bytes = text[f - 1 + k]
              /\ k # 1 => pieces[k].whole
  <2>1. pieces[k] = Piece(f - 1 + k, Kept(f - 1 + k), Kept(f - 1 + k) = text[f - 1 + k])
    BY <1>10
  <2>2. Kept(f - 1 + k) \in Nat /\ Kept(f - 1 + k) <= text[f - 1 + k]
        /\ (k # 1 => Kept(f - 1 + k) = text[f - 1 + k])
    BY <1>8, <1>9
  <2> DEFINE i == f - 1 + k
  <2>3. i \in Nat /\ pieces[k] = [line |-> i, bytes |-> Kept(i), whole |-> Kept(i) = text[i]]
    BY <1>9, <2>1 DEF Piece
  <2>4. Kept(i) \in Nat /\ Kept(i) <= text[i] /\ (k # 1 => Kept(i) = text[i])
    BY <2>2
  <2> HIDE DEF i
  <2>5. pieces[k] \in Pieces
    BY <2>3, <2>4 DEF Pieces
  <2>6. /\ pieces[k].line = i
        /\ pieces[k].bytes = Kept(i)
        /\ pieces[k].whole = (Kept(i) = text[i])
    BY <2>3
  <2>7. /\ pieces[k].line = i
        /\ pieces[k].bytes <= text[i]
        /\ pieces[k].whole <=> pieces[k].bytes = text[i]
        /\ k # 1 => pieces[k].whole
    BY <2>4, <2>6
  <2>8. QED
    BY <2>5, <2>7 DEF i
<1>13. pieces \in Seq(Pieces) /\ DOMAIN pieces = 1..m
       /\ Len(pieces) = m
  <2>1. DOMAIN pieces = 1..m
    BY <1>10
  <2>2. pieces \in [1..m -> Pieces]
    BY <1>10, <1>12
  <2>3. QED
    BY <1>11, <2>1, <2>2
<1>14. IsTail(pieces, text)
  BY <1>7, <1>12, <1>13 DEF IsTail
<1>15. QED
  BY <1>14 DEF pieces

\* The sizes of pieces are numbers.
LEMMA PieceSizes ==
  ASSUME NEW pieces \in Seq(Pieces)
  PROVE  /\ Sizes(pieces) \in Seq(Nat) /\ Len(Sizes(pieces)) = Len(pieces)
         /\ \A k \in DOMAIN pieces : Sizes(pieces)[k] = pieces[k].bytes /\ pieces[k].bytes \in Nat
<1>1. \A k \in DOMAIN pieces : pieces[k].bytes \in Nat
  <2>1. \A k \in DOMAIN pieces : pieces[k] \in Pieces
    OBVIOUS
  <2>2. \A p \in Pieces : p.bytes \in Nat
    BY DEF Pieces
  <2>3. QED
    BY <2>1, <2>2
<1>2. QED
  BY <1>1 DEF Sizes

\* They are a number, from any line on.
LEMMA BytesAreNat ==
  ASSUME NEW sizes \in Seq(Nat)
  PROVE  \A k \in 1..(Len(sizes) + 1) : BytesFrom(sizes, k) \in Nat
<1> SUFFICES ASSUME NEW k \in 1..(Len(sizes) + 1) PROVE BytesFrom(sizes, k) \in Nat
  OBVIOUS
<1>1. k - 1 \in Nat /\ k = (k - 1) + 1
  OBVIOUS
<1>2. QED
  BY <1>1, BytesBelow

\* Pieces are no longer than the lines they are of.
LEMMA PiecesShorter ==
  ASSUME NEW text \in Seq(Nat), NEW pieces \in Seq(Pieces), NEW f \in 1..(Len(text) + 1),
         Len(pieces) = Len(text) - f + 1,
         \A k \in DOMAIN pieces : pieces[k].bytes <= text[f - 1 + k]
  PROVE  \A k \in 1..(Len(pieces) + 1) : BytesFrom(Sizes(pieces), k) <= BytesFrom(text, f - 1 + k)
<1> DEFINE m == Len(pieces)
           sizes == Sizes(pieces)
           G == {d \in Nat : d <= m => BytesFrom(sizes, m + 1 - d) <= BytesFrom(text, f + m - d)}
<1>1. /\ sizes \in Seq(Nat) /\ Len(sizes) = m /\ m \in Nat
      /\ \A k \in 1..m : sizes[k] = pieces[k].bytes /\ sizes[k] \in Nat
  BY PieceSizes
<1>2. f + m = Len(text) + 1 /\ Len(text) \in Nat /\ f \in Nat
  OBVIOUS
<1>3. \A k \in 1..m : sizes[k] <= text[f - 1 + k]
  <2>1. \A k \in 1..m : pieces[k].bytes <= text[f - 1 + k]
    OBVIOUS
  <2> HIDE DEF sizes, m
  <2>2. QED
    BY <1>1, <2>1
<1> HIDE DEF sizes, m
<1>4. 0 \in G
  <2>1. BytesFrom(sizes, m + 1) = 0 /\ BytesFrom(text, f + m) = 0
    BY <1>1, <1>2, BytesBelow
  <2>2. m + 1 - 0 = m + 1 /\ f + m - 0 = f + m
    BY <1>1, <1>2
  <2>3. QED
    BY <2>1, <2>2
<1>5. ASSUME NEW d \in Nat, d \in G PROVE d + 1 \in G
  <2> SUFFICES ASSUME d + 1 <= m
               PROVE  BytesFrom(sizes, m + 1 - (d + 1)) <= BytesFrom(text, f + m - (d + 1))
    OBVIOUS
  <2> DEFINE k == m - d
             i == f + m - (d + 1)
  <2>1. /\ k \in 1..m /\ m + 1 - (d + 1) = k /\ m + 1 - d = k + 1
        /\ i \in DOMAIN text /\ i = f - 1 + k /\ f + m - d = i + 1 /\ d <= m
    BY <1>1, <1>2
  <2>2. BytesFrom(sizes, k + 1) <= BytesFrom(text, i + 1)
    BY <1>5, <2>1
  <2> HIDE DEF k, i, G
  <2>3. /\ BytesFrom(sizes, k) = sizes[k] + BytesFrom(sizes, k + 1) /\ sizes[k] \in Nat
        /\ BytesFrom(sizes, k + 1) \in Nat
    <3>1. k \in DOMAIN sizes /\ k \in Nat
      BY <1>1, <2>1
    <3>2. QED
      BY <1>1, <2>1, <3>1, BytesBelow
  <2>4. BytesFrom(text, i) = text[i] + BytesFrom(text, i + 1) /\ text[i] \in Nat
        /\ BytesFrom(text, i + 1) \in Nat
    <3>1. i \in Nat /\ i \in DOMAIN text /\ text[i] \in Nat
      BY <2>1
    <3>2. BytesFrom(text, i) = text[i] + BytesFrom(text, i + 1)
      BY <3>1, BytesBelow
    <3>3. BytesFrom(text, i + 1) \in Nat
      BY <3>1, BytesBelow
    <3>4. QED
      BY <3>1, <3>2, <3>3
  <2>5. sizes[k] <= text[i]
    BY <1>3, <2>1
  <2>6. BytesFrom(sizes, k) <= BytesFrom(text, i)
    BY <2>2, <2>3, <2>4, <2>5
  <2>7. m + 1 - (d + 1) = k /\ f + m - (d + 1) = i
    BY <2>1 DEF i
  <2>8. QED
    BY <2>6, <2>7
<1> HIDE DEF G
<1>6. \A d \in Nat : d \in G
  BY <1>4, <1>5, AllNumbers
<1>7. ASSUME NEW k \in 1..(m + 1) PROVE BytesFrom(sizes, k) <= BytesFrom(text, f - 1 + k)
  <2> DEFINE d == m + 1 - k
  <2>1. d \in Nat /\ d <= m /\ m + 1 - d = k /\ f + m - d = f - 1 + k
    BY <1>1, <1>2
  <2> HIDE DEF d
  <2>2. BytesFrom(sizes, m + 1 - d) <= BytesFrom(text, f + m - d)
    BY <1>6, <2>1 DEF G
  <2>3. QED
    BY <2>1, <2>2
<1>8. QED
  BY <1>7 DEF m, sizes

\* Bytes of the log that are not fewer than the log has are all of it.
LEMMA AllOfIt ==
  ASSUME NEW text \in Logs, NEW pieces, IsTail(pieces, text), Size(pieces) >= BytesFrom(text, 1)
  PROVE  Len(pieces) = Len(text) /\ \A k \in DOMAIN pieces : pieces[k].whole
<1>1. text \in Seq(Nat) /\ \A i \in DOMAIN text : text[i] \in Nat \ {0}
  BY TextAssumption
<1>2. PICK f \in 1..(Len(text) + 1) :
        /\ pieces \in Seq(Pieces)
        /\ Len(pieces) = Len(text) - f + 1
        /\ \A k \in DOMAIN pieces : pieces[k].bytes <= text[f - 1 + k]
        /\ \A k \in DOMAIN pieces : pieces[k].whole <=> pieces[k].bytes = text[f - 1 + k]
        /\ \A k \in DOMAIN pieces : k # 1 => pieces[k].whole
  BY DEF IsTail
<1> DEFINE sizes == Sizes(pieces)
           m == Len(pieces)
<1>3. /\ sizes \in Seq(Nat) /\ Len(sizes) = m /\ m \in Nat
      /\ \A k \in 1..m : sizes[k] = pieces[k].bytes /\ sizes[k] \in Nat
  BY <1>2, PieceSizes
<1>4. \A k \in 1..(m + 1) : BytesFrom(sizes, k) <= BytesFrom(text, f - 1 + k)
  BY <1>1, <1>2, PiecesShorter
<1>5. /\ \A i \in DOMAIN text : BytesFrom(text, i) = text[i] + BytesFrom(text, i + 1)
      /\ \A k \in DOMAIN sizes : BytesFrom(sizes, k) = sizes[k] + BytesFrom(sizes, k + 1)
  BY <1>1, <1>3, BytesBelow
<1>6. /\ \A i \in 1..(Len(text) + 1) : BytesFrom(text, i) \in Nat
      /\ \A k \in 1..(m + 1) : BytesFrom(sizes, k) \in Nat
  BY <1>1, <1>3, BytesAreNat
<1>7. BytesFrom(sizes, 1) >= BytesFrom(text, 1)
  BY DEF Size
<1> HIDE DEF sizes
<1>8. f = 1
  <2> SUFFICES ASSUME f # 1 PROVE FALSE
    OBVIOUS
  <2>1. 1 \in DOMAIN text /\ 2 \in 1..f /\ f \in 1..(Len(text) + 1) /\ 2 \in 1..(Len(text) + 1)
    BY <1>1
  <2>2. BytesFrom(sizes, 1) <= BytesFrom(text, f)
    <3>1. 1 \in 1..(m + 1) /\ f - 1 + 1 = f
      BY <1>3
    <3>2. BytesFrom(sizes, 1) <= BytesFrom(text, f - 1 + 1)
      BY <1>4, <3>1
    <3>3. QED
      BY <3>1, <3>2
  <2>3. BytesFrom(text, f) <= BytesFrom(text, 2)
    BY <1>1, <2>1, BytesFall
  <2>4. BytesFrom(text, 1) = text[1] + BytesFrom(text, 1 + 1) /\ text[1] \in Nat \ {0} /\ 1 + 1 = 2
    BY <1>1, <1>5, <2>1
  <2>5. BytesFrom(text, 2) \in Nat /\ BytesFrom(text, f) \in Nat
    BY <1>6, <2>1
  <2> DEFINE first == BytesFrom(text, 1)
             second == BytesFrom(text, 2)
             there == BytesFrom(text, f)
             given == BytesFrom(sizes, 1)
  <2>6. /\ given >= first /\ given <= there /\ there <= second
        /\ second \in Nat /\ there \in Nat /\ given \in Nat
        /\ first = text[1] + second /\ text[1] \in Nat \ {0}
    <3>1. given \in Nat
      BY <1>3, <1>6
    <3>2. QED
      BY <1>7, <2>2, <2>3, <2>4, <2>5, <3>1
  <2> HIDE DEF first, second, there, given
  <2>7. QED
    BY <2>6
<1>9. m = Len(text)
  BY <1>1, <1>2, <1>8
<1>10. ASSUME NEW k \in DOMAIN pieces PROVE pieces[k].whole
  <2>1. CASE k # 1
    BY <1>2, <2>1
  <2>2. CASE k = 1
    <3>1. 1 \in 1..m /\ 1 \in DOMAIN text /\ 1 \in DOMAIN sizes /\ 2 \in 1..(m + 1) /\ 1 + 1 = 2
      BY <1>1, <1>2, <1>3, <1>9, <2>2
    <3>2. /\ BytesFrom(text, 1) = text[1] + BytesFrom(text, 2)
          /\ BytesFrom(sizes, 1) = sizes[1] + BytesFrom(sizes, 2)
      BY <1>5, <3>1
    <3>3. BytesFrom(sizes, 2) <= BytesFrom(text, 2)
      <4>1. f - 1 + 2 = 2
        BY <1>8
      <4>2. BytesFrom(sizes, 2) <= BytesFrom(text, f - 1 + 2)
        BY <1>4, <3>1
      <4>3. QED
        BY <4>1, <4>2
    <3>4. BytesFrom(sizes, 2) \in Nat /\ BytesFrom(text, 2) \in Nat
      BY <1>6, <1>9, <3>1
    <3>5. sizes[1] = pieces[1].bytes /\ sizes[1] \in Nat /\ text[1] \in Nat
      BY <1>1, <1>3, <3>1
    <3>6. f - 1 + 1 = 1 /\ 1 \in DOMAIN pieces
      BY <1>8, <2>2
    <3>7. pieces[1].bytes <= text[1] /\ (pieces[1].whole <=> pieces[1].bytes = text[1])
      <4>1. /\ pieces[1].bytes <= text[f - 1 + 1]
            /\ pieces[1].whole <=> pieces[1].bytes = text[f - 1 + 1]
        BY <1>2, <3>6
      <4>2. QED
        BY <3>6, <4>1
    <3> DEFINE a == BytesFrom(sizes, 2)
               b == BytesFrom(text, 2)
    <3>8. text[1] + b <= sizes[1] + a /\ a <= b /\ a \in Nat /\ b \in Nat
      BY <1>7, <3>2, <3>3, <3>4
    <3> HIDE DEF a, b
    <3>9. sizes[1] = text[1]
      BY <3>5, <3>7, <3>8
    <3>10. QED
      BY <2>2, <3>5, <3>7, <3>9
  <2>3. QED
    BY <2>1, <2>2
<1>11. QED
  BY <1>9, <1>10

\* A text that is too long loses its first lines, and no other does.
LEMMA TailCut ==
  ASSUME NEW pieces \in Seq(Pieces)
  PROVE  \E n \in 0..Len(pieces) :
           /\ TailLines(pieces) = SubSeq(pieces, Len(pieces) - n + 1, Len(pieces))
           /\ IF Size(pieces) > OutputLimit THEN n < Len(pieces) ELSE n = Len(pieces)
<1> DEFINE sizes == Sizes(pieces)
           m == Len(pieces)
           fits == {k \in 0..m : BytesFrom(sizes, m - k + 1) <= OutputLimit}
           n == Max(fits)
<1>1. sizes \in Seq(Nat) /\ Len(sizes) = m /\ m \in Nat /\ OutputLimit \in Nat
  BY PieceSizes, TextAssumption
<1>2. TailLines(pieces) = SubSeq(pieces, m - n + 1, m)
  BY DEF TailLines
<1>3. Size(pieces) = BytesFrom(sizes, 1) /\ BytesFrom(sizes, 1) \in Nat
  <2>1. 1 \in 1..(m + 1)
    BY <1>1
  <2>2. BytesFrom(sizes, 1) \in Nat
    BY <1>1, <2>1, BytesAreNat
  <2>3. QED
    BY <2>2 DEF Size
<1>4. 0 \in fits
  <2>1. BytesFrom(sizes, m + 1) = 0 /\ m - 0 + 1 = m + 1 /\ 0 \in 0..m
    BY <1>1, BytesBelow
  <2> HIDE DEF sizes, m
  <2>2. QED
    BY <1>1, <2>1
<1>5. fits \subseteq 0..m
  OBVIOUS
<1>6. m \in fits <=> Size(pieces) <= OutputLimit
  <2>1. m - m + 1 = 1 /\ m \in 0..m
    BY <1>1
  <2> HIDE DEF sizes, m
  <2>2. QED
    BY <1>3, <2>1
<1> HIDE DEF sizes, fits, m
<1>7. n \in fits /\ \A k \in fits : k <= n
  <2> DEFINE left == {m - k : k \in fits}
  <2>1. left \in SUBSET Nat /\ left # {}
    BY <1>1, <1>4, <1>5
  <2>2. PICK l \in left : \A j \in left : l <= j
    BY <2>1, Least
  <2>3. PICK k \in fits : l = m - k
    OBVIOUS
  <2>4. \A j \in fits : m - k <= m - j
    BY <2>2, <2>3
  <2>5. \A j \in fits : k >= j
    BY <1>1, <1>5, <2>4
  <2>6. n \in fits /\ \A j \in fits : n >= j
    BY <2>5 DEF Max
  <2>7. \A j \in fits : j \in Nat
    BY <1>1, <1>5
  <2> HIDE DEF n
  <2>8. QED
    BY <2>6, <2>7
<1> HIDE DEF n
<1>8. n \in 0..m
  BY <1>5, <1>7
<1>9. CASE Size(pieces) <= OutputLimit
  <2>1. n = m
    BY <1>1, <1>6, <1>7, <1>8, <1>9
  <2>2. ~(Size(pieces) > OutputLimit)
    BY <1>1, <1>3, <1>9
  <2>3. QED
    BY <1>2, <1>8, <2>1, <2>2 DEF m
<1>10. CASE ~(Size(pieces) <= OutputLimit)
  <2>1. n < m
    BY <1>1, <1>6, <1>7, <1>8, <1>10
  <2>2. Size(pieces) > OutputLimit
    BY <1>1, <1>3, <1>10
  <2>3. QED
    BY <1>2, <1>8, <2>1, <2>2 DEF m
<1>11. QED
  BY <1>9, <1>10

\* What is true of a text that was served for a log by a page that states a
\* length, or none (-1).
Truthful(outcome, text, total) ==
  LET lines == outcome.lines
  IN  /\ \A k \in DOMAIN lines : lines[k].line = Len(text) - Len(lines) + k
      /\ \A k \in 2..Len(lines) : lines[k].whole
      /\ outcome.coverage = "complete" /\ total >= BytesFrom(text, 1)
           => Len(lines) = Len(text) /\ \A k \in DOMAIN lines : lines[k].whole
      /\ outcome.coverage = "tail" /\ lines # <<>> => lines[1].whole

\* A page of a log that is served makes a text that is truthful, whatever
\* length the page states.
LEMMA ContentTruthful ==
  ASSUME NEW text \in Logs, NEW n \in Nat, NEW total, NEW growth \in Nat
  PROVE  Truthful(Content(LastBytes(text, n), total, growth), text, total)
<1> DEFINE pieces == LastBytes(text, n)
           coverage == Coverage(Size(pieces), total)
           kept == StartDiscarded(pieces, coverage)
           grown == Grown(kept, growth)
           outcome == Content(pieces, total, growth)
           lines == TailLines(grown)
<1>1. /\ outcome.lines = lines
      /\ outcome.coverage = IF Size(grown) > OutputLimit THEN "tail" ELSE coverage
  BY DEF Content, Outcome
<1>2. text \in Seq(Nat) /\ Len(text) \in Nat
  BY TextAssumption
<1>3. IsTail(pieces, text)
  BY LastBytesTail
<1>4. coverage = "complete" /\ total >= BytesFrom(text, 1)
        => Len(pieces) = Len(text) /\ \A k \in DOMAIN pieces : pieces[k].whole
  <2> SUFFICES ASSUME coverage = "complete", total >= BytesFrom(text, 1)
               PROVE  Size(pieces) >= BytesFrom(text, 1)
    BY <1>3, AllOfIt
  <2>1. Size(pieces) = total /\ total # -1
    BY DEF Coverage
  <2>2. QED
    BY <2>1
<1>5. kept = IF coverage = "tail" /\ pieces # <<>> THEN SubSeq(pieces, 2, Len(pieces)) ELSE pieces
  BY DEF StartDiscarded
<1> HIDE DEF pieces, coverage, kept
<1>6. PICK f \in 1..(Len(text) + 1) :
        /\ pieces \in Seq(Pieces)
        /\ Len(pieces) = Len(text) - f + 1
        /\ \A k \in DOMAIN pieces : pieces[k].line = f - 1 + k
        /\ \A k \in DOMAIN pieces : k # 1 => pieces[k].whole
  BY <1>3 DEF IsTail
<1> DEFINE d == Len(pieces) - Len(kept)
<1>7. /\ kept \in Seq(Pieces) /\ d \in {0, 1} /\ Len(kept) \in Nat /\ Len(pieces) = Len(kept) + d
      /\ \A k \in 1..Len(kept) : kept[k] = pieces[k + d] /\ k + d \in 1..Len(pieces)
      /\ coverage # "tail" => d = 0
      /\ coverage = "tail" /\ kept # <<>> => d = 1
  <2>1. CASE coverage = "tail" /\ pieces # <<>>
    <3>1. kept = SubSeq(pieces, 2, Len(pieces)) /\ pieces \in Seq(Pieces) /\ Len(pieces) \in Nat \ {0}
      BY <1>5, <1>6, <2>1
    <3> DEFINE n1 == Len(pieces)
    <3>2. kept = [k \in 1..(n1 - 1) |-> pieces[k + 1]] /\ n1 - 1 \in Nat
      <4>1. SubSeq(pieces, 2, n1) = [k \in 1..(1 + n1 - 2) |-> pieces[2 + k - 1]]
        BY <3>1
      <4>2. 1 + n1 - 2 = n1 - 1 /\ n1 - 1 \in Nat
        BY <3>1
      <4> HIDE DEF n1
      <4>3. \A k \in 1..(n1 - 1) : 2 + k - 1 = k + 1
        BY <3>1
      <4>4. QED
        BY <3>1, <4>1, <4>2, <4>3 DEF n1
    <3>3. \A k \in 1..(n1 - 1) : k + 1 \in 1..n1 /\ pieces[k + 1] \in Pieces
      BY <3>1
    <3> HIDE DEF n1
    <3>4. kept \in [1..(n1 - 1) -> Pieces] /\ n1 - 1 \in Nat
      BY <3>2, <3>3
    <3>5. kept \in Seq(Pieces) /\ Len(kept) = n1 - 1
      BY <3>4
    <3>6. n1 = Len(pieces) /\ n1 \in Nat
      BY <3>1 DEF n1
    <3>7. d = 1
      BY <3>5, <3>6
    <3>8. \A k \in 1..Len(kept) : kept[k] = pieces[k + 1] /\ k + 1 \in 1..Len(pieces)
      BY <3>2, <3>3, <3>5, <3>6
    <3>9. Len(kept) \in Nat /\ Len(pieces) = Len(kept) + d
      BY <3>5, <3>6, <3>7
    <3>10. \A k \in 1..Len(kept) : kept[k] = pieces[k + d] /\ k + d \in 1..Len(pieces)
      BY <3>7, <3>8
    <3> HIDE DEF d
    <3>11. QED
      BY <2>1, <3>5, <3>7, <3>9, <3>10
  <2>2. CASE ~(coverage = "tail" /\ pieces # <<>>)
    <3>1. kept = pieces /\ pieces \in Seq(Pieces) /\ Len(pieces) \in Nat
      BY <1>5, <1>6, <2>2
    <3>2. d = 0
      BY <3>1
    <3>3. QED
      BY <2>2, <3>1, <3>2
  <2>3. QED
    BY <2>1, <2>2
<1> HIDE DEF d
<1>8. /\ grown \in Seq(Pieces) /\ Len(grown) = Len(kept)
      /\ \A k \in 1..Len(kept) : grown[k].line = kept[k].line /\ grown[k].whole = kept[k].whole
  <2>1. grown = [k \in DOMAIN kept |-> [kept[k] EXCEPT !.bytes = @ + growth]]
    BY DEF Grown
  <2>2. \A p \in Pieces : LET q == [p EXCEPT !.bytes = @ + growth]
                          IN  q \in Pieces /\ q.line = p.line /\ q.whole = p.whole
    BY DEF Pieces
  <2>3. \A k \in DOMAIN kept : kept[k] \in Pieces
    BY <1>7
  <2> HIDE DEF grown
  <2>4. \A k \in DOMAIN kept : /\ grown[k] \in Pieces /\ grown[k].line = kept[k].line
                               /\ grown[k].whole = kept[k].whole
    BY <2>1, <2>2, <2>3
  <2>5. DOMAIN grown = 1..Len(kept) /\ DOMAIN kept = 1..Len(kept) /\ grown = [k \in 1..Len(kept) |-> grown[k]]
    BY <1>7, <2>1
  <2>6. grown \in [1..Len(kept) -> Pieces]
    BY <2>4, <2>5
  <2>7. grown \in Seq(Pieces) /\ Len(grown) = Len(kept)
    <3>1. Len(kept) \in Nat
      BY <1>7
    <3>2. QED
      BY <2>6, <3>1
  <2>8. \A k \in 1..Len(kept) : grown[k].line = kept[k].line /\ grown[k].whole = kept[k].whole
    BY <2>4, <2>5
  <2>9. QED
    BY <2>7, <2>8
<1> HIDE DEF grown, lines, outcome
<1>9. PICK r \in 0..Len(grown) :
        /\ lines = SubSeq(grown, Len(grown) - r + 1, Len(grown))
        /\ IF Size(grown) > OutputLimit THEN r < Len(grown) ELSE r = Len(grown)
  BY <1>8, TailCut DEF lines
<1> DEFINE s == Len(grown) - r
<1>10. /\ Len(lines) = r /\ r \in Nat /\ s \in Nat /\ DOMAIN lines = 1..r
       /\ \A k \in 1..r : lines[k] = grown[k + s] /\ k + s \in 1..Len(kept)
  BY <1>7, <1>8, <1>9
<1>11. \A k \in 1..r : /\ lines[k].line = f - 1 + (k + s + d)
                       /\ k + s + d \in DOMAIN pieces
                       /\ lines[k].whole = pieces[k + s + d].whole
  <2> SUFFICES ASSUME NEW k \in 1..r
               PROVE  /\ lines[k].line = f - 1 + (k + s + d)
                      /\ k + s + d \in DOMAIN pieces
                      /\ lines[k].whole = pieces[k + s + d].whole
    OBVIOUS
  <2> DEFINE i == k + s
  <2>1. lines[k] = grown[i] /\ i \in 1..Len(kept)
    BY <1>10
  <2> HIDE DEF i, s
  <2>2. grown[i].line = kept[i].line /\ grown[i].whole = kept[i].whole
    BY <1>8, <2>1
  <2>3. kept[i] = pieces[i + d] /\ i + d \in DOMAIN pieces
    BY <1>6, <1>7, <2>1
  <2>4. pieces[i + d].line = f - 1 + (i + d)
    BY <1>6, <2>3
  <2>5. QED
    BY <2>1, <2>2, <2>3, <2>4 DEF i
<1>12. Len(text) = f - 1 + (r + s + d) /\ d \in {0, 1}
  BY <1>2, <1>6, <1>7, <1>8, <1>10
<1>13. \A k \in 1..r : lines[k].line = Len(text) - r + k
  <2> SUFFICES ASSUME NEW k \in 1..r PROVE lines[k].line = Len(text) - r + k
    OBVIOUS
  <2>1. lines[k].line = f - 1 + (k + s + d)
    BY <1>11
  <2>2. k \in Int /\ f \in Int /\ r \in Int /\ s \in Int /\ d \in Int
    BY <1>2, <1>10, <1>12
  <2> DEFINE t == Len(text)
  <2>3. t = f - 1 + (r + s + d)
    BY <1>12
  <2> HIDE DEF t, s
  <2>4. f - 1 + (k + s + d) = t - r + k
    BY <2>2, <2>3
  <2>5. QED
    BY <2>1, <2>4 DEF t
<1>14. \A k \in 1..r : k + s + d # 1 => lines[k].whole
  BY <1>6, <1>11
<1>15. \A k \in 2..r : lines[k].whole
  BY <1>7, <1>10, <1>14
<1>16. outcome.coverage = "complete" /\ total >= BytesFrom(text, 1)
         => Len(lines) = Len(text) /\ \A k \in 1..r : lines[k].whole
  <2> SUFFICES ASSUME outcome.coverage = "complete", total >= BytesFrom(text, 1)
               PROVE  Len(lines) = Len(text) /\ \A k \in 1..r : lines[k].whole
    OBVIOUS
  <2>1. coverage = "complete" /\ ~(Size(grown) > OutputLimit)
    BY <1>1
  <2>2. r = Len(grown) /\ d = 0
    BY <1>7, <1>9, <2>1
  <2>3. Len(lines) = Len(text)
    BY <1>4, <1>7, <1>8, <1>10, <2>1, <2>2
  <2>4. \A k \in 1..r : lines[k].whole
    BY <1>4, <1>11, <2>1
  <2>5. QED
    BY <2>3, <2>4
<1>17. outcome.coverage = "tail" /\ lines # <<>> => lines[1].whole
  <2> SUFFICES ASSUME outcome.coverage = "tail", lines # <<>> PROVE lines[1].whole
    OBVIOUS
  <2>1. 1 \in 1..r
    <3>1. r # 0
      BY <1>9, <1>10
    <3>2. QED
      BY <1>10, <3>1
  <2>2. 1 + s + d # 1
    <3>1. CASE Size(grown) > OutputLimit
      BY <1>7, <1>8, <1>9, <1>10, <3>1
    <3>2. CASE ~(Size(grown) > OutputLimit)
      <4>1. coverage = "tail" /\ r = Len(grown)
        BY <1>1, <1>9, <3>2
      <4>2. kept # <<>>
        BY <1>7, <1>8, <2>1, <4>1
      <4>3. d = 1
        BY <1>7, <4>1, <4>2
      <4>4. QED
        BY <1>10, <4>3
    <3>3. QED
      BY <3>1, <3>2
  <2>3. QED
    BY <1>14, <2>1, <2>2
<1>18. Truthful(outcome, text, total)
  BY <1>1, <1>10, <1>13, <1>15, <1>16, <1>17 DEF Truthful
<1>19. QED
  BY <1>18 DEF outcome, pieces

-----------------------------------------------------------------------------

TextInv == answer.category = "OK" => Truthful(answer, source, stated)
RouteInv == part = "route" => RouteTypes /\ PinnedInv /\ TextInv

\* Nothing but a page of a log makes a text.
LEMMA TextSteps ==
  ASSUME RouteTypes, TextInv, Next
  PROVE  TextInv'
<1>1. ASSUME answer'.category # "OK" PROVE TextInv'
  BY <1>1 DEF TextInv
<1>2. NoAnswer.category # "OK"
  BY Answers DEF NoAnswer
<1>3. ASSUME NEW outcome, outcome.category # "OK", Ends(outcome) PROVE TextInv'
  BY <1>1, <1>3 DEF Ends
<1>4. \A category : Fail(category).category = category
  BY Answers
<1>5. ASSUME NEW r, NEW u, Asks(r, u), answer.category # "OK" PROVE TextInv'
  <2>1. answer' = Fail("UNEXPECTED_RESPONSE") \/ answer' = answer
    BY <1>5 DEF Asks
  <2>2. QED
    BY <1>1, <1>4, <1>5, <2>1
<1>6. pc # "done" => answer.category # "OK"
  BY <1>2 DEF RouteTypes
<1>7. CASE Resolve
  <2>1. pc # "done"
    BY <1>7 DEF Resolve
  <2>2. \/ Ends(Fail("NOT_FOUND")) \/ Ends(Fail("UNEXPECTED_RESPONSE"))
        \/ \E r, u : Asks(r, u)
    BY <1>7, Zenon DEF Resolve
  <2>3. QED
    BY <1>3, <1>4, <1>5, <1>6, <2>1, <2>2
<1>8. ASSUME NEW target, NEW size, pc = "get", Redirected(target, size) PROVE TextInv'
  <2>1. \/ \E category \in {"UPSTREAM_ERROR", "UNEXPECTED_RESPONSE", "AUTHENTICATION_FAILED"} :
             Ends(Fail(category))
        \/ Asks(Pinned(route, target), target)
    BY <1>8 DEF Redirected
  <2>2. QED
    BY <1>3, <1>4, <1>5, <1>6, <1>8, <2>1
<1>9. ASSUME NEW status, NEW size, Refused(status, size) PROVE TextInv'
  <2>1. Ends(Fail("UPSTREAM_ERROR")) \/ Ends(StatusCategory(status))
    BY <1>9 DEF Refused
  <2>2. QED
    BY <1>3, <2>1, Answers
<1>10. ASSUME NEW page, NEW size, NotALog(page, size) PROVE TextInv'
  <2>1. Ends(Fail("UPSTREAM_ERROR")) \/ Ends(PageCategory(page))
    BY <1>10 DEF NotALog
  <2>2. QED
    BY <1>3, <2>1, Answers
<1>11. ASSUME NEW served \in Logs, NEW given \in 0..(TailBytes + 1),
              NEW total \in {-1} \cup Lengths, NEW growth \in 0..1,
              LogPage(served, given, total, growth)
       PROVE  TextInv'
  <2> DEFINE content == Content(LastBytes(served, given), total, growth)
  <2>1. \/ Ends(Fail("UPSTREAM_ERROR")) \/ Ends(Fail("UNEXPECTED_RESPONSE")) \/ Ends(content)
    BY <1>11 DEF LogPage
  <2>2. source' = served /\ stated' = total
    BY <1>11 DEF LogPage
  <2>3. given \in Nat /\ growth \in Nat
    OBVIOUS
  <2>4. Truthful(content, served, total)
    BY <2>3, ContentTruthful
  <2> HIDE DEF content
  <2>5. CASE Ends(content)
    <3>1. answer' = content
      BY <2>5 DEF Ends
    <3>2. Truthful(answer', source', stated')
      BY <2>2, <2>4, <3>1
    <3>3. QED
      BY <3>2 DEF TextInv, Truthful
  <2>6. QED
    BY <1>3, <1>4, <2>1, <2>5
<1>12. ASSUME NEW category \in {"TIMEOUT", "CONNECTION_FAILED"}, ConnectionFails(category)
       PROVE  TextInv'
  <2>1. Ends([Fail(category) EXCEPT !.retryable = TRUE])
    BY <1>12 DEF ConnectionFails
  <2>2. [Fail(category) EXCEPT !.retryable = TRUE].category # "OK"
    BY Answers
  <2>3. QED
    BY <1>3, <2>1, <2>2
<1>13. CASE Over
  BY <1>13 DEF Over, vars, TextInv, Truthful
<1>14. QED
  BY <1>7, <1>8, <1>9, <1>10, <1>11, <1>12, <1>13 DEF Next

\* A truthful text is what its coverage says.
LEMMA TextHonest ==
  ASSUME TextInv
  PROVE  CoverageHonest /\ TailStartsALine
<1>1. CoverageHonest
  BY DEF TextInv, Truthful, CoverageHonest
<1>2. TailStartsALine
  BY DEF TextInv, Truthful, TailStartsALine
<1>3. QED
  BY <1>1, <1>2

\* Wherever redirects lead, no more than four URLs are asked for, all of them
\* of the one log, at allowed backends and never twice, of one node and one
\* history server (_LogRoute, _receive): whatever hosts, ports and backends
\* there are. The text that is saved is the end of that log: its last lines, from
\* the start of one if it counts as a tail, and all of them if it counts as
\* complete and the page did not state too small a length (parse_log_html,
\* _bounded_content): whatever logs there are and whatever the limits.
THEOREM RouteKept == ReadersSpec => []RouteHonest
<1>1. ReadersInit => RouteInv
  <2>1. Init => TextInv
    BY Answers DEF Init, TextInv, NoAnswer
  <2>2. QED
    BY <2>1, RouteInit DEF ReadersInit, RouteInv
<1>2. RouteInv /\ [ReadersNext]_allVars => RouteInv'
  <2> SUFFICES ASSUME RouteInv, [ReadersNext]_allVars, part' = "route"
               PROVE  RouteTypes' /\ PinnedInv' /\ TextInv'
    BY DEF RouteInv
  <2>1. part = "route" /\ (Next \/ UNCHANGED vars)
    BY DEF ReadersNext, ReaderStep, RouteStep, OverviewStep, StageStep, TaskStep, allVars
  <2>2. CASE Next
    BY <2>1, <2>2, RouteSteps, TextSteps DEF RouteInv
  <2>3. CASE UNCHANGED vars
    BY <2>1, <2>3 DEF vars, RouteInv, RouteTypes, PinnedInv, Fits, TextInv, Truthful
  <2>4. QED
    BY <2>1, <2>2, <2>3
<1>3. RouteInv => RouteHonest
  BY PinnedStays, TextHonest DEF RouteInv, RouteHonest
<1>4. QED
  BY <1>1, <1>2, <1>3, PTL DEF ReadersSpec

-----------------------------------------------------------------------------
(* Orders. *)

StrictOrder(S, R) ==
  /\ \A x \in S : <<x, x>> \notin R
  /\ \A x, y, z \in S : <<x, y>> \in R /\ <<y, z>> \in R => <<x, z>> \in R
  /\ \A x, y \in S : x = y \/ <<x, y>> \in R \/ <<y, x>> \in R

Below(S, R, x) == {y \in S : <<y, x>> \in R}

\* Each of n elements has a number of its own of others before it, up to n - 1.
LEMMA Ranks ==
  ASSUME NEW S, IsFiniteSet(S), NEW R, StrictOrder(S, R)
  PROVE  /\ Cardinality(S) \in Nat
         /\ \A x \in S : Cardinality(Below(S, R, x)) \in 0..(Cardinality(S) - 1)
         /\ \A x, y \in S : <<x, y>> \in R =>
              Cardinality(Below(S, R, x)) < Cardinality(Below(S, R, y))
         /\ \A r \in 0..(Cardinality(S) - 1) : \E x \in S : Cardinality(Below(S, R, x)) = r
<1> DEFINE n == Cardinality(S)
           f == [x \in S |-> Cardinality(Below(S, R, x))]
<1>1. n \in Nat
  BY FS_CardinalityType
<1>2. \A x \in S : IsFiniteSet(Below(S, R, x)) /\ Cardinality(Below(S, R, x)) \in Nat
  <2> TAKE x \in S
  <2>1. Below(S, R, x) \in SUBSET S
    BY DEF Below
  <2>2. QED
    BY <2>1, FS_Subset, FS_CardinalityType
<1>3. ASSUME NEW x \in S PROVE Cardinality(Below(S, R, x)) < n
  <2>1. Below(S, R, x) \in SUBSET S /\ x \notin Below(S, R, x)
    BY DEF Below, StrictOrder
  <2>2. Cardinality(Below(S, R, x)) <= n /\ Cardinality(Below(S, R, x)) # n
    BY <2>1, FS_Subset
  <2>3. QED
    BY <1>1, <1>2, <2>2
<1>4. ASSUME NEW x \in S, NEW y \in S, <<x, y>> \in R
      PROVE  Cardinality(Below(S, R, x)) < Cardinality(Below(S, R, y))
  <2>1. Below(S, R, x) \in SUBSET Below(S, R, y)
    BY <1>4 DEF Below, StrictOrder
  <2>2. x \in Below(S, R, y) /\ x \notin Below(S, R, x)
    BY <1>4 DEF Below, StrictOrder
  <2>3. /\ Cardinality(Below(S, R, x)) <= Cardinality(Below(S, R, y))
        /\ Cardinality(Below(S, R, y)) # Cardinality(Below(S, R, x))
    BY <1>2, <2>1, <2>2, FS_Subset
  <2>4. QED
    BY <1>2, <2>3
<1>5. f \in Injection(S, 0..(n - 1))
  <2>1. f \in [S -> 0..(n - 1)]
    BY <1>1, <1>2, <1>3
  <2>2. ASSUME NEW x \in S, NEW y \in S, x # y PROVE f[x] # f[y]
    <3>1. <<x, y>> \in R \/ <<y, x>> \in R
      BY <2>2 DEF StrictOrder
    <3>2. QED
      BY <1>2, <1>4, <3>1
  <2> HIDE DEF f
  <2>3. QED
    BY <2>1, <2>2 DEF Injection, IsInjective
<1>6. IsFiniteSet(0..(n - 1)) /\ Cardinality(0..(n - 1)) = n
  BY <1>1, FS_Interval
<1>7. f \in Surjection(S, 0..(n - 1))
  BY <1>5, <1>6, FS_Injection
<1>8. \A r \in 0..(n - 1) : \E x \in S : Cardinality(Below(S, R, x)) = r
  BY <1>7 DEF Surjection
<1>9. QED
  BY <1>1, <1>2, <1>3, <1>4, <1>8

\* At every place stands the element that so many others come before, if any.
Sorts(s, S, R) ==
  /\ s = [r \in 1..Cardinality(S) |-> s[r]]
  /\ \A r \in 1..Cardinality(S), x \in S :
       Cardinality(Below(S, R, x)) = r - 1 =>
         s[r] \in S /\ Cardinality(Below(S, R, s[r])) = r - 1

\* Put in order, all elements are there, each once, and in order.
LEMMA Ordered ==
  ASSUME NEW S, IsFiniteSet(S), NEW R, StrictOrder(S, R), NEW s, Sorts(s, S, R)
  PROVE  /\ Cardinality(S) \in Nat /\ s \in [1..Cardinality(S) -> S]
         /\ \A i \in 1..Cardinality(S) : Cardinality(Below(S, R, s[i])) = i - 1
         /\ \A x \in S : \E i \in 1..Cardinality(S) : s[i] = x
         /\ \A i, j \in 1..Cardinality(S) : i < j => <<s[i], s[j]>> \in R
<1> DEFINE n == Cardinality(S)
           rank(x) == Cardinality(Below(S, R, x))
<1>1. /\ n \in Nat /\ \A x \in S : rank(x) \in 0..(n - 1)
      /\ \A x, y \in S : <<x, y>> \in R => rank(x) < rank(y)
      /\ \A r \in 0..(n - 1) : \E x \in S : rank(x) = r
  BY Ranks
<1>2. ASSUME NEW i \in 1..n PROVE s[i] \in S /\ rank(s[i]) = i - 1
  <2>1. i - 1 \in 0..(n - 1)
    BY <1>1
  <2>2. \E x \in S : rank(x) = i - 1
    BY <1>1, <2>1
  <2>3. QED
    BY <2>2 DEF Sorts
<1> HIDE DEF rank
<1>3. s \in [1..n -> S]
  BY <1>2 DEF Sorts
<1>4. \A x, y \in S : rank(x) = rank(y) => x = y
  <2> SUFFICES ASSUME NEW x \in S, NEW y \in S, rank(x) = rank(y), x # y PROVE FALSE
    OBVIOUS
  <2>1. rank(x) < rank(y) \/ rank(y) < rank(x)
    BY <1>1 DEF StrictOrder
  <2>2. QED
    BY <1>1, <2>1
<1>5. \A x \in S : \E i \in 1..n : s[i] = x
  <2> TAKE x \in S
  <2>1. rank(x) + 1 \in 1..n /\ (rank(x) + 1) - 1 = rank(x)
    BY <1>1
  <2>2. rank(s[rank(x) + 1]) = rank(x) /\ s[rank(x) + 1] \in S
    BY <1>2, <2>1
  <2>3. QED
    BY <1>4, <2>1, <2>2
<1>6. \A i, j \in 1..n : i < j => <<s[i], s[j]>> \in R
  <2> SUFFICES ASSUME NEW i \in 1..n, NEW j \in 1..n, i < j PROVE <<s[i], s[j]>> \in R
    OBVIOUS
  <2>1. rank(s[i]) = i - 1 /\ rank(s[j]) = j - 1 /\ s[i] \in S /\ s[j] \in S
    BY <1>2
  <2>2. i - 1 < j - 1 /\ i - 1 \in Nat /\ j - 1 \in Nat
    BY <1>1
  <2>3. s[i] # s[j]
    <3> SUFFICES ASSUME s[i] = s[j] PROVE FALSE
      OBVIOUS
    <3>1. rank(s[i]) = rank(s[j])
      BY Zenon
    <3>2. i - 1 = j - 1
      BY <2>1, <3>1
    <3>3. QED
      BY <2>2, <3>2
  <2>4. <<s[j], s[i]>> \notin R
    <3> SUFFICES ASSUME <<s[j], s[i]>> \in R PROVE FALSE
      OBVIOUS
    <3>1. rank(s[j]) < rank(s[i])
      BY <1>1, <2>1
    <3>2. QED
      BY <2>1, <2>2, <3>1
  <2>5. QED
    BY <2>1, <2>3, <2>4 DEF StrictOrder
<1>7. \A i \in 1..n : Cardinality(Below(S, R, s[i])) = i - 1
  BY <1>2 DEF rank
<1>8. QED
  BY <1>1, <1>3, <1>5, <1>6, <1>7

-----------------------------------------------------------------------------
(* Percentiles. *)

\* Rounding up a number of hundredths; what the rank is made of.
LEMMA RoundedUp ==
  ASSUME NEW m \in Nat \ {0}, NEW n \in Nat, m <= 100 * n
  PROVE  LET rank == (m + 99) \div 100
         IN  /\ rank \in 1..n
             /\ \A r \in Nat : r < rank <=> 100 * r < m
  OBVIOUS

\* The index metric_distribution takes is one of the values', and the rank is
\* the least that covers q of every hundred, for any number of values.
THEOREM NearestRank ==
  ASSUME NEW q \in 1..100, NEW n \in Nat \ {0}
  PROVE  /\ Tasks!Rank(q, n) \in 1..n
         /\ \A r \in Nat : r < Tasks!Rank(q, n) <=> 100 * r < q * n
<1>1. q * n \in Nat \ {0}
  OBVIOUS
<1>2. q * n <= 100 * n
  OBVIOUS
<1>3. QED
  BY <1>1, <1>2, RoundedUp DEF Tasks!Rank

-----------------------------------------------------------------------------
(* The distribution over tasks. *)

TaskTypes ==
  /\ orderBy \in Tasks!Metrics /\ events \in Seq(Tasks!TaskEnds)
  /\ samples \in [Tasks!Metrics -> Seq(Nat)]
  /\ heap \subseteq Nat \X Nat /\ IsFiniteSet(heap)
  /\ counts \in [successful : Nat, nonSuccess : Nat, unknown : Nat, ranked : Nat]

\* Every success is counted, and has left a value of each metric it has.
SampledInv ==
  /\ counts.successful = Cardinality(Tasks!Successes)
  /\ counts.ranked = Cardinality(Tasks!Scored(orderBy))
  /\ \A metric \in Tasks!Metrics : Len(samples[metric]) = Cardinality(Tasks!Scored(metric))

Scoring(tasks, metric, line) == <<Tasks!Value(tasks[line], metric), line>>

\* The heap holds tasks of the log; once one was dropped it is full, and all it
\* holds are above what was dropped.
HeapInv ==
  /\ \A a \in heap : a[2] \in Tasks!Scored(orderBy) /\ a = Scoring(events, orderBy, a[2])
  /\ Cardinality(heap) <= TasksListed
  /\ \A line \in Tasks!Scored(orderBy) :
       Scoring(events, orderBy, line) \notin heap =>
         Cardinality(heap) = TasksListed /\ \A a \in heap : Tasks!Below(Scoring(events, orderBy, line), a)

TaskInv == part = "tasks" => TaskTypes /\ SampledInv /\ HeapInv

\* Cardinalities of the instance are cardinalities.
LEMMA SameCountT ==
  \A S : Tasks!Cardinality(S) = Cardinality(S)
  BY DEF Tasks!Cardinality, Tasks!IsFiniteSet, Cardinality, IsFiniteSet

LEMMA TaskFields ==
  ASSUME NEW e \in Tasks!TaskEnds
  PROVE  /\ e.ours \in BOOLEAN /\ e.outcome \in {"success", "non_success", "unknown"}
         /\ e.launch \in {0, 2} /\ e.finish \in {0, 2, 3}
         /\ e.remote \in {-1, 0, 1} /\ e.local = 1
  BY DEF Tasks!TaskEnds, Tasks!TaskEndsOf, Tasks!None

\* A value is a number or missing; and when it is missing.
LEMMA ValueType ==
  ASSUME NEW e \in Tasks!TaskEnds, NEW metric \in Tasks!Metrics
  PROVE  /\ Tasks!Value(e, metric) \in Nat \union {Tasks!None}
         /\ Tasks!Value(e, metric) = Tasks!None <=>
              IF metric = "duration_ms" THEN e.finish = 0 \/ e.finish < e.launch
              ELSE Tasks!None \in {e.remote, e.local}
  BY TaskFields DEF Tasks!Value, Tasks!None, Tasks!Metrics

\* By score and line, pairs are in one order.
LEMMA BelowOrder ==
  ASSUME NEW S \in SUBSET (Nat \X Nat), NEW R, R = {a \in S \X S : Tasks!Below(a[1], a[2])}
  PROVE  StrictOrder(S, R) /\ \A a, b \in S : <<a, b>> \in R <=> Tasks!Below(a, b)
<1>1. \A a, b \in S : <<a, b>> \in R <=> Tasks!Below(a, b)
  OBVIOUS
<1>2. \A a, b \in S : a = b \/ Tasks!Below(a, b) \/ Tasks!Below(b, a)
  <2> SUFFICES ASSUME NEW a \in S, NEW b \in S PROVE a = b \/ Tasks!Below(a, b) \/ Tasks!Below(b, a)
    OBVIOUS
  <2>1. a = <<a[1], a[2]>> /\ b = <<b[1], b[2]>> /\ a[1] \in Nat /\ a[2] \in Nat /\ b[1] \in Nat /\ b[2] \in Nat
    OBVIOUS
  <2>2. QED
    BY <2>1 DEF Tasks!Below
<1>3. \A a, b, c \in S : Tasks!Below(a, b) /\ Tasks!Below(b, c) => Tasks!Below(a, c)
  BY DEF Tasks!Below
<1>4. \A a \in S : ~Tasks!Below(a, a)
  BY DEF Tasks!Below
<1>5. QED
  BY <1>1, <1>2, <1>3, <1>4 DEF StrictOrder

\* The lowest of the kept tasks.
LEMMA LeastBelow ==
  ASSUME heap \subseteq Nat \X Nat, IsFiniteSet(heap), Cardinality(heap) # 0
  PROVE  /\ Tasks!Least(heap) \in heap
         /\ \A a \in heap : a = Tasks!Least(heap) \/ Tasks!Below(Tasks!Least(heap), a)
<1> DEFINE R == {a \in heap \X heap : Tasks!Below(a[1], a[2])}
<1>1. StrictOrder(heap, R) /\ \A a, b \in heap : <<a, b>> \in R <=> Tasks!Below(a, b)
  BY BelowOrder
<1> HIDE DEF R
<1>2. /\ Cardinality(heap) \in Nat
      /\ \A r \in 0..(Cardinality(heap) - 1) : \E x \in heap : Cardinality(Below(heap, R, x)) = r
  <2>1. IsFiniteSet(heap) /\ StrictOrder(heap, R)
    BY <1>1
  <2>2. QED
    BY <2>1, Ranks
<1>3. PICK x \in heap : Cardinality(Below(heap, R, x)) = 0
  <2>1. 0 \in 0..(Cardinality(heap) - 1)
    BY <1>2
  <2>2. QED
    BY <1>2, <2>1
<1>4. Below(heap, R, x) = {}
  <2>1. IsFiniteSet(Below(heap, R, x))
    BY FS_Subset DEF Below
  <2>2. QED
    BY <1>3, <2>1, FS_EmptySet
<1>5. \A a \in heap : x = a \/ Tasks!Below(x, a)
  BY <1>1, <1>4 DEF Below, StrictOrder
<1>6. \E a \in heap : \A b \in heap : a = b \/ Tasks!Below(a, b)
  BY <1>5
<1>7. QED
  BY <1>6 DEF Tasks!Least

\* Tasks of the log are finitely many lines of it.
LEMMA TasksFinite ==
  ASSUME TaskTypes, NEW metric \in Tasks!Metrics
  PROVE  /\ Tasks!Successes \subseteq 1..Len(events) /\ IsFiniteSet(Tasks!Successes)
         /\ Cardinality(Tasks!Successes) \in Nat
         /\ Tasks!Scored(metric) \subseteq Tasks!Successes
         /\ IsFiniteSet(Tasks!Scored(metric)) /\ Cardinality(Tasks!Scored(metric)) \in Nat
<1>1. Tasks!Successes \subseteq 1..Len(events)
  BY DEF TaskTypes, Tasks!Successes
<1>2. Tasks!Scored(metric) \subseteq Tasks!Successes
  BY DEF Tasks!Scored
<1>3. IsFiniteSet(1..Len(events))
  BY FS_Interval DEF TaskTypes
<1>4. IsFiniteSet(Tasks!Successes)
  BY <1>1, <1>3, FS_Subset
<1>5. IsFiniteSet(Tasks!Scored(metric))
  BY <1>2, <1>4, FS_Subset
<1>6. QED
  BY <1>1, <1>2, <1>4, <1>5, FS_CardinalityType

\* One task more is one success more or none, with its values.
LEMMA TasksGrow ==
  ASSUME TaskTypes, NEW e \in Tasks!TaskEnds, events' = Append(events, e),
         NEW metric \in Tasks!Metrics
  PROVE  LET line == Len(events) + 1
             success == e.ours /\ e.outcome = "success"
             scored == success /\ Tasks!Value(e, metric) # Tasks!None
         IN  /\ line \notin Tasks!Successes /\ line \notin Tasks!Scored(metric)
             /\ Tasks!Successes' = Tasks!Successes \union (IF success THEN {line} ELSE {})
             /\ Tasks!Scored(metric)' = Tasks!Scored(metric) \union (IF scored THEN {line} ELSE {})
             /\ Cardinality(Tasks!Successes)' =
                  Cardinality(Tasks!Successes) + (IF success THEN 1 ELSE 0)
             /\ Cardinality(Tasks!Scored(metric)') =
                  Cardinality(Tasks!Scored(metric)) + (IF scored THEN 1 ELSE 0)
             /\ events'[line] = e /\ \A i \in Tasks!Successes : events'[i] = events[i]
<1> DEFINE line == Len(events) + 1
           success == e.ours /\ e.outcome = "success"
           scored == success /\ Tasks!Value(e, metric) # Tasks!None
<1>1. /\ DOMAIN events = 1..Len(events) /\ Len(events) \in Nat
      /\ DOMAIN events' = 1..line /\ events'[line] = e
      /\ \A i \in 1..Len(events) : events'[i] = events[i]
  BY DEF TaskTypes
<1>2. line \notin Tasks!Successes /\ line \notin Tasks!Scored(metric)
  BY <1>1, TasksFinite
<1>3. Tasks!Successes' = Tasks!Successes \union (IF success THEN {line} ELSE {})
  <2>1. \A i : i \in Tasks!Successes' <=> i \in Tasks!Successes \/ (success /\ i = line)
    BY <1>1 DEF Tasks!Successes
  <2>2. QED
    BY <2>1
<1>4. Tasks!Scored(metric)' = Tasks!Scored(metric) \union (IF scored THEN {line} ELSE {})
  <2>1. \A i \in Tasks!Successes : events'[i] = events[i]
    BY <1>1 DEF Tasks!Successes
  <2>2. Tasks!Scored(metric)' = {i \in Tasks!Successes' : Tasks!Value(events'[i], metric) # Tasks!None}
    BY DEF Tasks!Scored
  <2>3. \A i : i \in Tasks!Scored(metric)' <=> i \in Tasks!Scored(metric) \/ (scored /\ i = line)
    <3> SUFFICES ASSUME NEW i
                 PROVE  i \in Tasks!Scored(metric)' <=> i \in Tasks!Scored(metric) \/ (scored /\ i = line)
      OBVIOUS
    <3>1. CASE i \in Tasks!Successes
      BY <1>2, <1>3, <2>1, <2>2, <3>1 DEF Tasks!Scored
    <3>2. CASE i \notin Tasks!Successes
      BY <1>1, <1>2, <1>3, <2>2, <3>2 DEF Tasks!Scored
    <3>3. QED
      BY <3>1, <3>2
  <2>4. QED
    BY <2>3
<1>5. Cardinality(Tasks!Successes') = Cardinality(Tasks!Successes) + (IF success THEN 1 ELSE 0)
  <2>1. CASE success
    BY <1>2, <1>3, <2>1, TasksFinite, FS_AddElement
  <2>2. CASE ~success
    <3>1. Tasks!Successes' = Tasks!Successes
      BY <1>3, <2>2
    <3>2. QED
      BY <2>2, <3>1, TasksFinite
  <2>3. QED
    BY <2>1, <2>2
<1>6. Cardinality(Tasks!Scored(metric)') = Cardinality(Tasks!Scored(metric)) + (IF scored THEN 1 ELSE 0)
  <2>1. CASE scored
    BY <1>2, <1>4, <2>1, TasksFinite, FS_AddElement
  <2>2. CASE ~scored
    <3>1. Tasks!Scored(metric)' = Tasks!Scored(metric)
      BY <1>4, <2>2
    <3>2. QED
      BY <2>2, <3>1, TasksFinite
  <2>3. QED
    BY <2>1, <2>2
<1>7. \A i \in Tasks!Successes : events'[i] = events[i]
  BY <1>1 DEF Tasks!Successes
<1>8. QED
  BY <1>1, <1>2, <1>3, <1>4, <1>5, <1>6, <1>7

\* A task of the log stays where it was and keeps its score.
LEMMA ScoringStays ==
  ASSUME TaskTypes, NEW e \in Tasks!TaskEnds, events' = Append(events, e), orderBy' = orderBy
  PROVE  \A line \in Tasks!Scored(orderBy) : Scoring(events', orderBy, line) = Scoring(events, orderBy, line)
<1>1. \A i \in Tasks!Successes : events'[i] = events[i]
  BY TasksGrow DEF TaskTypes
<1>2. QED
  BY <1>1 DEF Scoring, Tasks!Scored

LEMMA TaskInit ==
  ASSUME Tasks!Init
  PROVE  TaskTypes /\ SampledInv /\ HeapInv
<1>1. TaskTypes
  <2>1. IsFiniteSet(heap)
    BY FS_EmptySet DEF Tasks!Init
  <2>2. QED
    BY <2>1 DEF Tasks!Init, TaskTypes
<1>2. Tasks!Successes = {} /\ \A metric : Tasks!Scored(metric) = {}
  BY DEF Tasks!Init, Tasks!Successes, Tasks!Scored
<1>3. SampledInv
  BY <1>2, FS_EmptySet DEF Tasks!Init, SampledInv
<1>4. HeapInv
  BY <1>2, FS_EmptySet, ListsAssumption DEF Tasks!Init, HeapInv
<1>5. QED
  BY <1>1, <1>3, <1>4

\* A successful task with a score goes through the heap.
LEMMA KeptRight ==
  ASSUME TaskTypes, HeapInv, NEW e \in Tasks!TaskEnds, events' = Append(events, e),
         orderBy' = orderBy, e.ours, e.outcome = "success", Tasks!Value(e, orderBy) # Tasks!None,
         heap' = Tasks!Kept(<<Tasks!Value(e, orderBy), Len(events) + 1>>)
  PROVE  heap' \subseteq Nat \X Nat /\ IsFiniteSet(heap') /\ HeapInv'
<1> DEFINE line == Len(events) + 1
           task == <<Tasks!Value(e, orderBy), line>>
           lowest == Tasks!Least(heap)
<1>1. /\ line \notin Tasks!Scored(orderBy)
      /\ Tasks!Scored(orderBy)' = Tasks!Scored(orderBy) \union {line}
      /\ events'[line] = e
  BY TasksGrow DEF TaskTypes
<1>2. task \in Nat \X Nat /\ Scoring(events', orderBy, line) = task
  BY <1>1, ValueType DEF TaskTypes, Scoring
<1>3. \A i \in Tasks!Scored(orderBy) : Scoring(events', orderBy, i) = Scoring(events, orderBy, i)
  BY ScoringStays
<1>4. \A a \in heap : a[2] \in Tasks!Scored(orderBy) /\ a = Scoring(events, orderBy, a[2])
  BY DEF HeapInv
<1>5. task \notin heap
  BY <1>1, <1>4
<1>6. IsFiniteSet(heap) /\ Cardinality(heap) \in Nat /\ Cardinality(heap) <= TasksListed
  BY FS_CardinalityType DEF TaskTypes, HeapInv
<1>7. \A i \in Tasks!Scored(orderBy) : Scoring(events, orderBy, i) \in Nat \X Nat
  <2> SUFFICES ASSUME NEW i \in Tasks!Scored(orderBy) PROVE Scoring(events, orderBy, i) \in Nat \X Nat
    OBVIOUS
  <2>1. i \in 1..Len(events) /\ events[i] \in Tasks!TaskEnds
    BY TasksFinite DEF TaskTypes
  <2>2. Tasks!Value(events[i], orderBy) \in Nat
    BY <2>1, ValueType DEF TaskTypes, Tasks!Scored
  <2>3. QED
    BY <2>1, <2>2 DEF Scoring
<1> HIDE DEF task, line, lowest
<1>8. CASE Cardinality(heap) < TasksListed
  <2>1. heap' = heap \union {task}
    BY <1>8, SameCountT DEF Tasks!Kept, task, line
  <2>2. IsFiniteSet(heap') /\ Cardinality(heap') = Cardinality(heap) + 1
    BY <1>5, <1>6, <2>1, FS_AddElement
  <2>3. Cardinality(heap') <= TasksListed
    BY <1>6, <1>8, <2>2, ListsAssumption
  <2>4. \A i \in Tasks!Scored(orderBy) : Scoring(events, orderBy, i) \in heap
    BY <1>8, ListsAssumption DEF HeapInv
  <2>5. \A a \in heap' : a[2] \in Tasks!Scored(orderBy)' /\ a = Scoring(events', orderBy, a[2])
    <3>1. task[2] = line
      BY DEF task
    <3>2. QED
      BY <1>1, <1>2, <1>3, <1>4, <2>1, <3>1
  <2>6. \A i \in Tasks!Scored(orderBy)' : Scoring(events', orderBy, i) \in heap'
    BY <1>1, <1>2, <1>3, <2>1, <2>4
  <2>7. heap' \subseteq Nat \X Nat
    BY <1>2, <2>1 DEF TaskTypes
  <2>8. QED
    BY <2>2, <2>3, <2>5, <2>6, <2>7 DEF HeapInv
<1>9. CASE ~(Cardinality(heap) < TasksListed)
  <2>1. Cardinality(heap) = TasksListed /\ Cardinality(heap) # 0
    BY <1>6, <1>9, ListsAssumption
  <2>2. lowest \in heap /\ \A a \in heap : a = lowest \/ Tasks!Below(lowest, a)
    BY <1>6, <2>1, LeastBelow DEF TaskTypes, lowest
  <2>3. \A i \in Tasks!Scored(orderBy) :
          Scoring(events, orderBy, i) \notin heap => \A a \in heap : Tasks!Below(Scoring(events, orderBy, i), a)
    BY DEF HeapInv
  <2>4. \A a, b, c \in Nat \X Nat :
          /\ Tasks!Below(a, b) /\ Tasks!Below(b, c) => Tasks!Below(a, c)
          /\ a = b \/ Tasks!Below(a, b) \/ Tasks!Below(b, a)
    <3> DEFINE S == Nat \X Nat
               R == {a \in S \X S : Tasks!Below(a[1], a[2])}
    <3>1. S \in SUBSET (Nat \X Nat)
      OBVIOUS
    <3> HIDE DEF S
    <3>2. StrictOrder(S, R) /\ \A a, b \in S : <<a, b>> \in R <=> Tasks!Below(a, b)
      BY <3>1, BelowOrder
    <3> HIDE DEF R
    <3>3. QED
      BY <3>2 DEF StrictOrder, S
  <2>5. heap \subseteq Nat \X Nat
    BY DEF TaskTypes
  <2>6. CASE Tasks!Below(lowest, task)
    <3>1. heap' = (heap \ {lowest}) \union {task}
      BY <1>9, <2>6, SameCountT DEF Tasks!Kept, task, line, lowest
    <3>2. IsFiniteSet(heap \ {lowest}) /\ Cardinality(heap \ {lowest}) = Cardinality(heap) - 1
      BY <1>6, <2>2, FS_RemoveElement
    <3>3. IsFiniteSet(heap') /\ Cardinality(heap') = Cardinality(heap)
      <4>1. task \notin heap \ {lowest}
        BY <1>5
      <4>2. IsFiniteSet(heap') /\ Cardinality(heap') = Cardinality(heap \ {lowest}) + 1
        BY <3>1, <3>2, <4>1, FS_AddElement
      <4>3. QED
        BY <1>6, <3>2, <4>2
    <3>4. \A a \in heap' : a[2] \in Tasks!Scored(orderBy)' /\ a = Scoring(events', orderBy, a[2])
      <4>1. task[2] = line
        BY DEF task
      <4>2. QED
        BY <1>1, <1>2, <1>3, <1>4, <3>1, <4>1
    <3>5. ASSUME NEW i \in Tasks!Scored(orderBy)', Scoring(events', orderBy, i) \notin heap', NEW a \in heap'
          PROVE  Tasks!Below(Scoring(events', orderBy, i), a)
      <4>1. i \in Tasks!Scored(orderBy) /\ Scoring(events', orderBy, i) = Scoring(events, orderBy, i)
        BY <1>1, <1>2, <1>3, <3>1, <3>5
      <4>2. Tasks!Below(lowest, a)
        BY <2>2, <2>6, <3>1
      <4>3. Scoring(events, orderBy, i) = lowest
                 \/ (/\ Scoring(events, orderBy, i) \notin heap
                     /\ Tasks!Below(Scoring(events, orderBy, i), lowest))
        BY <2>2, <2>3, <3>1, <3>5, <4>1
      <4>4. a \in Nat \X Nat /\ lowest \in Nat \X Nat /\ Scoring(events, orderBy, i) \in Nat \X Nat
        BY <1>2, <1>7, <2>2, <2>5, <3>1, <4>1
      <4>5. QED
        BY <2>4, <4>1, <4>2, <4>3, <4>4
    <3>6. heap' \subseteq Nat \X Nat
      BY <1>2, <2>5, <3>1
    <3>7. QED
      BY <2>1, <3>3, <3>4, <3>5, <3>6 DEF HeapInv
  <2>7. CASE ~Tasks!Below(lowest, task)
    <3>1. heap' = heap
      BY <1>9, <2>7, SameCountT DEF Tasks!Kept, task, line, lowest
    <3>2. \A a \in heap : Tasks!Below(task, a)
      <4>1. Tasks!Below(task, lowest)
        BY <1>2, <1>5, <2>2, <2>4, <2>5, <2>7
      <4>2. QED
        BY <1>2, <2>2, <2>4, <2>5, <4>1
    <3>3. \A i \in Tasks!Scored(orderBy)' :
            Scoring(events', orderBy, i) \notin heap' => \A a \in heap' : Tasks!Below(Scoring(events', orderBy, i), a)
      BY <1>1, <1>2, <1>3, <2>3, <3>1, <3>2
    <3>4. \A a \in heap' : a[2] \in Tasks!Scored(orderBy)' /\ a = Scoring(events', orderBy, a[2])
      BY <1>1, <1>3, <1>4, <3>1
    <3>5. QED
      BY <1>6, <2>1, <2>5, <3>1, <3>3, <3>4 DEF HeapInv
  <2>8. QED
    BY <2>6, <2>7
<1>10. QED
  BY <1>8, <1>9

\* Tasks that are no successes leave the heap and the samples as they are.
LEMMA UnscoredRight ==
  ASSUME TaskTypes, HeapInv, NEW e \in Tasks!TaskEnds, events' = Append(events, e),
         orderBy' = orderBy, heap' = heap,
         ~(e.ours /\ e.outcome = "success") \/ Tasks!Value(e, orderBy) = Tasks!None
  PROVE  HeapInv'
<1>1. Tasks!Scored(orderBy)' = Tasks!Scored(orderBy)
  BY TasksGrow DEF TaskTypes
<1>2. \A i \in Tasks!Scored(orderBy) : Scoring(events', orderBy, i) = Scoring(events, orderBy, i)
  BY ScoringStays
<1>3. \A a \in heap : a[2] \in Tasks!Scored(orderBy) /\ a = Scoring(events, orderBy, a[2])
  BY DEF HeapInv
<1>4. \A a \in heap' : a[2] \in Tasks!Scored(orderBy)' /\ a = Scoring(events', orderBy, a[2])
  BY <1>1, <1>2, <1>3
<1>5. Cardinality(heap') <= TasksListed
  BY DEF HeapInv
<1>6. ASSUME NEW i \in Tasks!Scored(orderBy)', Scoring(events', orderBy, i) \notin heap'
      PROVE  /\ Cardinality(heap') = TasksListed
             /\ \A a \in heap' : Tasks!Below(Scoring(events', orderBy, i), a)
  <2>1. i \in Tasks!Scored(orderBy) /\ Scoring(events', orderBy, i) = Scoring(events, orderBy, i)
    BY <1>1, <1>2, <1>6
  <2>2. QED
    BY <1>6, <2>1 DEF HeapInv
<1>7. QED
  BY <1>4, <1>5, <1>6 DEF HeapInv

LEMMA TaskSteps ==
  ASSUME TaskTypes, SampledInv, HeapInv, Tasks!Next
  PROVE  TaskTypes' /\ SampledInv' /\ HeapInv'
<1>1. PICK e \in Tasks!TaskEnds : Tasks!Visit(e)
  BY DEF Tasks!Next
<1>2. /\ events' = Append(events, e) /\ orderBy' = orderBy /\ orderBy \in Tasks!Metrics
      /\ events' \in Seq(Tasks!TaskEnds)
  BY <1>1 DEF Tasks!Visit, TaskTypes
<1> DEFINE line == Len(events) + 1
           success == e.ours /\ e.outcome = "success"
           has(metric) == success /\ Tasks!Value(e, metric) # Tasks!None
<1>3. /\ Cardinality(Tasks!Successes)' = Cardinality(Tasks!Successes) + (IF success THEN 1 ELSE 0)
      /\ \A metric \in Tasks!Metrics :
           Cardinality(Tasks!Scored(metric)') =
             Cardinality(Tasks!Scored(metric)) + (IF has(metric) THEN 1 ELSE 0)
  BY <1>2, TasksGrow
<1>4. \A metric \in Tasks!Metrics : Tasks!Value(e, metric) \in Nat \union {Tasks!None}
  BY ValueType
<1>5. CASE ~success
  <2>1. samples' = samples /\ heap' = heap
    BY <1>1, <1>5 DEF Tasks!Visit, Tasks!Elsewhere, Tasks!NotSuccessful, Tasks!Successful
  <2>2. /\ counts' \in [successful : Nat, nonSuccess : Nat, unknown : Nat, ranked : Nat]
        /\ counts'.successful = counts.successful /\ counts'.ranked = counts.ranked
    <3>1. \/ counts' = counts \/ counts' = [counts EXCEPT !.unknown = @ + 1]
          \/ counts' = [counts EXCEPT !.nonSuccess = @ + 1]
      BY <1>1, <1>5 DEF Tasks!Visit, Tasks!Elsewhere, Tasks!NotSuccessful, Tasks!Successful
    <3>2. counts \in [successful : Nat, nonSuccess : Nat, unknown : Nat, ranked : Nat]
      BY DEF TaskTypes
    <3>3. CASE counts' = counts
      BY <3>2, <3>3
    <3>4. CASE counts' = [counts EXCEPT !.unknown = @ + 1]
      BY <3>2, <3>4
    <3>5. CASE counts' = [counts EXCEPT !.nonSuccess = @ + 1]
      BY <3>2, <3>5
    <3>6. QED
      BY <3>1, <3>3, <3>4, <3>5
  <2>3. TaskTypes'
    BY <1>2, <2>1, <2>2 DEF TaskTypes
  <2>4. SampledInv'
    <3>1. Cardinality(Tasks!Successes') = Cardinality(Tasks!Successes)
      BY <1>3, <1>5, TasksFinite, <1>2
    <3>2. \A metric \in Tasks!Metrics : Cardinality(Tasks!Scored(metric)') = Cardinality(Tasks!Scored(metric))
      BY <1>3, <1>5, TasksFinite
    <3>3. Cardinality(Tasks!Scored(orderBy)') = Cardinality(Tasks!Scored(orderBy))
      BY <1>2, <3>2
    <3>4. QED
      BY <2>1, <2>2, <3>1, <3>2, <3>3 DEF SampledInv
  <2>5. HeapInv'
    BY <1>2, <1>5, <2>1, UnscoredRight
  <2>6. QED
    BY <2>3, <2>4, <2>5
<1>6. CASE success
  <2>1. Tasks!Successful(e, line)
    BY <1>1, <1>6 DEF Tasks!Visit, Tasks!Elsewhere, Tasks!NotSuccessful
  <2>2. \A metric \in Tasks!Metrics :
          samples'[metric] = IF Tasks!Value(e, metric) = Tasks!None THEN samples[metric]
                             ELSE Append(samples[metric], Tasks!Value(e, metric))
    BY <2>1 DEF Tasks!Successful
  <2>3. samples' \in [Tasks!Metrics -> Seq(Nat)]
    <3>1. ASSUME NEW metric \in Tasks!Metrics PROVE samples'[metric] \in Seq(Nat)
      <4>1. samples[metric] \in Seq(Nat)
        BY DEF TaskTypes
      <4>2. CASE Tasks!Value(e, metric) = Tasks!None
        BY <2>2, <4>1, <4>2
      <4>3. CASE Tasks!Value(e, metric) \in Nat /\ Tasks!Value(e, metric) # Tasks!None
        <5>1. samples'[metric] = Append(samples[metric], Tasks!Value(e, metric))
          BY <2>2, <4>3
        <5>2. QED
          BY <4>1, <4>3, <5>1
      <4>4. QED
        BY <1>4, <4>2, <4>3
    <3>2. samples' = [metric \in Tasks!Metrics |-> samples'[metric]]
      BY <2>1 DEF Tasks!Successful
    <3>3. QED
      BY <3>1, <3>2
  <2>4. /\ counts' \in [successful : Nat, nonSuccess : Nat, unknown : Nat, ranked : Nat]
        /\ counts'.successful = counts.successful + 1
        /\ counts'.ranked = counts.ranked + (IF has(orderBy) THEN 1 ELSE 0)
    <3>1. counts \in [successful : Nat, nonSuccess : Nat, unknown : Nat, ranked : Nat]
      BY DEF TaskTypes
    <3>2. counts' = [counts EXCEPT !.successful = @ + 1,
                                   !.ranked = IF Tasks!Value(e, orderBy) = Tasks!None THEN @ ELSE @ + 1]
      BY <2>1 DEF Tasks!Successful
    <3>3. counts' = [counts EXCEPT !.successful = counts.successful + 1,
                                   !.ranked = counts.ranked + (IF has(orderBy) THEN 1 ELSE 0)]
      <4>1. (IF Tasks!Value(e, orderBy) = Tasks!None THEN counts.ranked ELSE counts.ranked + 1)
              = counts.ranked + (IF has(orderBy) THEN 1 ELSE 0)
        BY <1>6, <3>1
      <4>2. QED
        BY <3>2, <4>1
    <3>4. counts.ranked + (IF has(orderBy) THEN 1 ELSE 0) \in Nat /\ counts.successful + 1 \in Nat
      BY <3>1
    <3> HIDE DEF has
    <3>5. QED
      BY <3>1, <3>3, <3>4
  <2>5. SampledInv'
    <3>1. Cardinality(Tasks!Successes') = Cardinality(Tasks!Successes) + 1
      BY <1>2, <1>3, <1>6
    <3>2. \A metric \in Tasks!Metrics :
            Len(samples'[metric]) = Len(samples[metric]) + (IF has(metric) THEN 1 ELSE 0)
      <4> TAKE metric \in Tasks!Metrics
      <4>1. samples[metric] \in Seq(Nat)
        BY DEF TaskTypes
      <4>2. CASE Tasks!Value(e, metric) = Tasks!None
        BY <2>2, <4>1, <4>2
      <4>3. CASE Tasks!Value(e, metric) # Tasks!None
        <5>1. samples'[metric] = Append(samples[metric], Tasks!Value(e, metric))
          BY <2>2, <4>3
        <5>2. Len(samples'[metric]) = Len(samples[metric]) + 1
          BY <4>1, <5>1
        <5>3. QED
          BY <1>6, <4>3, <5>2
      <4>4. QED
        BY <4>2, <4>3
    <3>3. counts'.ranked = Cardinality(Tasks!Scored(orderBy)')
      BY <1>2, <1>3, <2>4 DEF SampledInv
    <3>4. counts'.successful = Cardinality(Tasks!Successes')
      BY <2>4, <3>1 DEF SampledInv
    <3>5. \A metric \in Tasks!Metrics : Len(samples'[metric]) = Cardinality(Tasks!Scored(metric)')
      BY <1>3, <3>2 DEF SampledInv
    <3>6. QED
      BY <1>2, <3>3, <3>4, <3>5 DEF SampledInv
  <2>6. heap' \subseteq Nat \X Nat /\ IsFiniteSet(heap') /\ HeapInv'
    <3>1. CASE has(orderBy)
      <4>1. heap' = Tasks!Kept(<<Tasks!Value(e, orderBy), Len(events) + 1>>)
        BY <2>1, <3>1 DEF Tasks!Successful
      <4>2. QED
        BY <1>2, <3>1, <4>1, KeptRight
    <3>2. CASE ~has(orderBy)
      <4>1. heap' = heap
        BY <1>6, <2>1, <3>2 DEF Tasks!Successful
      <4>2. QED
        BY <1>2, <3>2, <4>1, UnscoredRight DEF TaskTypes
    <3>3. QED
      BY <3>1, <3>2
  <2>7. QED
    BY <1>2, <2>3, <2>4, <2>5, <2>6 DEF TaskTypes
<1>7. QED
  BY <1>5, <1>6

\* The tasks listed are the kept ones, the highest first.
LEMMA TopIsSorted ==
  ASSUME TaskTypes
  PROVE  /\ Cardinality(heap) \in Nat /\ Tasks!TopTasks \in [1..Cardinality(heap) -> heap]
         /\ \A a \in heap : \E i \in 1..Cardinality(heap) : Tasks!TopTasks[i] = a
         /\ \A i, j \in 1..Cardinality(heap) :
              i < j => Tasks!Below(Tasks!TopTasks[j], Tasks!TopTasks[i])
<1> DEFINE R == {a \in heap \X heap : Tasks!Below(a[1], a[2])}
           B == {a \in heap \X heap : Tasks!Below(a[2], a[1])}
           top == Tasks!TopTasks
           n == Cardinality(heap)
<1>1. StrictOrder(heap, R) /\ \A a, b \in heap : <<a, b>> \in R <=> Tasks!Below(a, b)
  BY BelowOrder DEF TaskTypes
<1>2. \A a, b \in heap : <<a, b>> \in B <=> Tasks!Below(b, a)
  OBVIOUS
<1> HIDE DEF R, B
<1>3. StrictOrder(heap, B)
  BY <1>1, <1>2 DEF StrictOrder
<1>4. \A a \in heap : Cardinality(Below(heap, B, a)) =
                        Tasks!Cardinality({b \in heap : Tasks!Below(a, b)})
  <2> TAKE a \in heap
  <2>1. Below(heap, B, a) = {b \in heap : Tasks!Below(a, b)}
    BY <1>2 DEF Below
  <2>2. QED
    BY <2>1, SameCountT
<1>5. top = [r \in 1..n |-> CHOOSE a \in heap :
                              Tasks!Cardinality({b \in heap : Tasks!Below(a, b)}) = r - 1]
  BY SameCountT DEF Tasks!TopTasks, Tasks!OrderedBy
<1>6. Sorts(top, heap, B)
  <2>1. top = [r \in 1..n |-> top[r]]
    BY <1>5
  <2>2. ASSUME NEW r \in 1..n, NEW x \in heap, Cardinality(Below(heap, B, x)) = r - 1
        PROVE  top[r] \in heap /\ Cardinality(Below(heap, B, top[r])) = r - 1
    <3> DEFINE others(a) == Tasks!Cardinality({b \in heap : Tasks!Below(a, b)})
    <3>1. top[r] = CHOOSE a \in heap : others(a) = r - 1
      BY <1>5
    <3>2. others(x) = r - 1
      BY <1>4, <2>2
    <3> HIDE DEF others
    <3>3. top[r] \in heap /\ others(top[r]) = r - 1
      BY <3>1, <3>2
    <3>4. QED
      BY <1>4, <3>3 DEF others
  <2>3. QED
    BY <2>1, <2>2 DEF Sorts
<1> HIDE DEF top
<1>7. /\ n \in Nat /\ top \in [1..n -> heap]
      /\ \A a \in heap : \E i \in 1..n : top[i] = a
      /\ \A i, j \in 1..n : i < j => <<top[i], top[j]>> \in B
  BY <1>3, <1>6, Ordered DEF TaskTypes
<1>8. \A i, j \in 1..n : i < j => Tasks!Below(top[j], top[i])
  BY <1>2, <1>7
<1>9. QED
  BY <1>7, <1>8 DEF top

\* The tasks listed are the highest of the log.
LEMMA TopRight ==
  ASSUME TaskTypes, SampledInv, HeapInv
  PROVE  Tasks!TopTasksAreTop
<1> DEFINE top == Tasks!TopTasks
           n == Cardinality(heap)
           listed == {top[i][2] : i \in DOMAIN top}
           score(i) == Tasks!Value(events[i], orderBy)
<1>1. /\ n \in Nat /\ top \in [1..n -> heap]
      /\ \A a \in heap : \E i \in 1..n : top[i] = a
      /\ \A i, j \in 1..n : i < j => Tasks!Below(top[j], top[i])
  BY TopIsSorted
<1> HIDE DEF top
<1>2. \A i \in listed : \E a \in heap : a[2] = i
  BY <1>1
<1>3. \A a \in heap : a[2] \in listed
  BY <1>1
<1>4. \A a \in heap : a[2] \in Tasks!Scored(orderBy) /\ a = Scoring(events, orderBy, a[2])
  BY DEF HeapInv
<1> HIDE DEF listed
<1>5. listed \subseteq Tasks!Scored(orderBy)
  BY <1>2, <1>4
<1>6. ASSUME NEW i \in listed, NEW j \in Tasks!Scored(orderBy) \ listed
      PROVE  score(i) > score(j) \/ (score(i) = score(j) /\ i < j)
  <2>1. Scoring(events, orderBy, j) \notin heap
    BY <1>3 DEF Scoring
  <2>2. Scoring(events, orderBy, i) \in heap
    BY <1>2, <1>4
  <2>3. Tasks!Below(Scoring(events, orderBy, j), Scoring(events, orderBy, i))
    BY <2>1, <2>2 DEF HeapInv
  <2>4. score(i) \in Nat /\ score(j) \in Nat /\ i \in Nat /\ j \in Nat
    <3>1. i \in 1..Len(events) /\ j \in 1..Len(events)
      BY <1>5, TasksFinite DEF TaskTypes
    <3>2. events[i] \in Tasks!TaskEnds /\ events[j] \in Tasks!TaskEnds
      BY <3>1 DEF TaskTypes
    <3>3. score(i) # Tasks!None /\ score(j) # Tasks!None
      BY <1>5 DEF Tasks!Scored
    <3>4. QED
      BY <3>1, <3>2, <3>3, ValueType DEF TaskTypes
  <2>5. QED
    BY <2>3, <2>4 DEF Tasks!Below, Scoring
<1>7. Len(top) = n /\ DOMAIN top = 1..n
  BY <1>1
<1>8. Cardinality(listed) = n
  <2> DEFINE f == [a \in heap |-> a[2]]
  <2>1. f \in Bijection(heap, listed)
    <3>1. f \in [heap -> listed]
      BY <1>3
    <3>2. \A a, b \in heap : f[a] = f[b] => a = b
      BY <1>4
    <3>3. \A i \in listed : \E a \in heap : f[a] = i
      BY <1>2
    <3> HIDE DEF f
    <3>4. QED
      BY <3>1, <3>2, <3>3 DEF Bijection, Injection, Surjection, IsInjective
  <2>2. QED
    BY <2>1, FS_Bijection DEF TaskTypes, ExistsBijection
<1>9. Cardinality(listed) + Tasks!TasksOmitted = Cardinality(Tasks!Scored(orderBy))
  BY <1>1, <1>7, <1>8 DEF Tasks!TasksOmitted, SampledInv, TaskTypes, top
<1>10. \A i \in 1..Len(top) - 1 : Tasks!Below(top[i + 1], top[i])
  BY <1>1, <1>7
<1>11. QED
  BY <1>5, <1>6, <1>9, <1>10, SameCountT DEF Tasks!TopTasksAreTop, top, listed

\* What a metric misses are the successes without its value.
LEMMA MissingRight ==
  ASSUME TaskTypes, SampledInv
  PROVE  Tasks!MissingIsCounted
<1> DEFINE missing(metric) ==
      {i \in Tasks!Successes : IF metric = "duration_ms"
                               THEN events[i].finish = 0 \/ events[i].finish < events[i].launch
                               ELSE Tasks!None \in {events[i].remote, events[i].local}}
<1>1. ASSUME NEW metric \in Tasks!Metrics
      PROVE  counts.successful - Len(samples[metric]) = Cardinality(missing(metric))
  <2>1. \A i \in Tasks!Successes : events[i] \in Tasks!TaskEnds
    BY TasksFinite DEF TaskTypes
  <2>2. missing(metric) = Tasks!Successes \ Tasks!Scored(metric)
    BY <2>1, ValueType DEF Tasks!Scored
  <2>3. /\ IsFiniteSet(Tasks!Successes) /\ Cardinality(Tasks!Successes) \in Nat
        /\ Tasks!Successes \cap Tasks!Scored(metric) = Tasks!Scored(metric)
    BY TasksFinite
  <2>4. Cardinality(Tasks!Successes \ Tasks!Scored(metric))
          = Cardinality(Tasks!Successes) - Cardinality(Tasks!Scored(metric))
    BY <2>3, FS_Difference
  <2> HIDE DEF missing
  <2>5. QED
    BY <2>2, <2>4 DEF SampledInv
<1>2. counts.successful = Cardinality(Tasks!Successes)
  BY DEF SampledInv
<1>3. QED
  BY <1>1, <1>2, SameCountT DEF Tasks!MissingIsCounted

\* Values in ascending order are the values, at the places that so many
\* others come before.
LEMMA AscendingRight ==
  ASSUME NEW values \in Seq(Nat)
  PROVE  \E s, R :
           /\ R = {p \in (DOMAIN values) \X (DOMAIN values) :
                     values[p[1]] < values[p[2]] \/ (values[p[1]] = values[p[2]] /\ p[1] < p[2])}
           /\ StrictOrder(DOMAIN values, R) /\ Sorts(s, DOMAIN values, R)
           /\ Tasks!Ascending(values) = [r \in DOMAIN values |-> values[s[r]]]
<1> DEFINE D == DOMAIN values
           first(i, j) == values[i] < values[j] \/ (values[i] = values[j] /\ i < j)
           R == {p \in D \X D : first(p[1], p[2])}
           s == Tasks!OrderedBy(D, LAMBDA i, j : values[i] < values[j]
                                                   \/ (values[i] = values[j] /\ i < j))
           n == Cardinality(D)
<1>1. \A i \in D : i \in Nat /\ values[i] \in Nat
  OBVIOUS
<1>2. /\ \A i \in D : ~first(i, i)
      /\ \A i, j, k \in D : first(i, j) /\ first(j, k) => first(i, k)
      /\ \A i, j \in D : i = j \/ first(i, j) \/ first(j, i)
  BY <1>1
<1>3. Tasks!Ascending(values) = [r \in D |-> values[s[r]]]
  BY DEF Tasks!Ascending
<1>4. s = [r \in 1..n |-> CHOOSE i \in D : Tasks!Cardinality({j \in D : first(j, i)}) = r - 1]
  BY SameCountT DEF Tasks!OrderedBy
<1> HIDE DEF first, s, D
<1>5. \A i, j \in D : <<i, j>> \in R <=> first(i, j)
  OBVIOUS
<1>6. R = {p \in D \X D : first(p[1], p[2])}
  OBVIOUS
<1> HIDE DEF R
<1>7. StrictOrder(D, R)
  BY <1>2, <1>5 DEF StrictOrder
<1>8. \A i \in D : Cardinality(Below(D, R, i)) = Tasks!Cardinality({j \in D : first(j, i)})
  <2> TAKE i \in D
  <2>1. Below(D, R, i) = {j \in D : first(j, i)}
    BY <1>5 DEF Below
  <2>2. QED
    BY <2>1, SameCountT
<1>9. Sorts(s, D, R)
  <2>1. s = [r \in 1..n |-> s[r]]
    <3> DEFINE others(i) == Tasks!Cardinality({j \in D : first(j, i)})
               at(r) == CHOOSE i \in D : others(i) = r - 1
    <3>1. s = [r \in 1..n |-> at(r)]
      BY <1>4
    <3> HIDE DEF at
    <3>2. QED
      BY <3>1
  <2>2. ASSUME NEW r \in 1..n, NEW x \in D, Cardinality(Below(D, R, x)) = r - 1
        PROVE  s[r] \in D /\ Cardinality(Below(D, R, s[r])) = r - 1
    <3> DEFINE others(i) == Tasks!Cardinality({j \in D : first(j, i)})
    <3>1. s[r] = CHOOSE i \in D : others(i) = r - 1
      BY <1>4
    <3>2. others(x) = r - 1
      BY <1>8, <2>2
    <3> HIDE DEF others
    <3>3. s[r] \in D /\ others(s[r]) = r - 1
      BY <3>1, <3>2
    <3>4. QED
      BY <1>8, <3>3 DEF others
  <2>3. QED
    BY <2>1, <2>2 DEF Sorts
<1>10. QED
  BY <1>3, <1>6, <1>7, <1>9 DEF first, D

AtMost(values, v) == {i \in DOMAIN values : values[i] <= v}
Enough(q, values, v) == 100 * Cardinality(AtMost(values, v)) >= q * Len(values)

\* A percentile is the nearest rank, for any number of values.
LEMMA PercentileRight ==
  ASSUME NEW values \in Seq(Nat), values # <<>>, NEW q \in 1..100,
         NEW ordered, ordered = Tasks!Ascending(values),
         NEW rank, rank = Tasks!Rank(q, Len(ordered))
  PROVE  /\ rank \in DOMAIN ordered
         /\ Among(ordered[rank], values)
         /\ Enough(q, values, ordered[rank])
         /\ \A i \in DOMAIN values : values[i] < ordered[rank] => ~Enough(q, values, values[i])
<1> DEFINE D == DOMAIN values
           n == Len(values)
           atMost(v) == AtMost(values, v)
<1>1. PICK s, R :
        /\ R = {p \in (DOMAIN values) \X (DOMAIN values) :
                  values[p[1]] < values[p[2]] \/ (values[p[1]] = values[p[2]] /\ p[1] < p[2])}
        /\ StrictOrder(DOMAIN values, R) /\ Sorts(s, DOMAIN values, R)
        /\ ordered = [r \in DOMAIN values |-> values[s[r]]]
  BY AscendingRight
<1>2. /\ D = 1..n /\ n \in Nat \ {0} /\ \A i \in D : i \in Nat /\ values[i] \in Nat
      /\ IsFiniteSet(D) /\ Cardinality(D) = n
  <2>1. D = 1..n /\ n \in Nat \ {0} /\ \A i \in D : i \in Nat /\ values[i] \in Nat
    OBVIOUS
  <2>2. QED
    BY <2>1, FS_Interval
<1>3. \A i, j \in D : <<i, j>> \in R <=> values[i] < values[j] \/ (values[i] = values[j] /\ i < j)
  BY <1>1
<1>4. /\ s \in [D -> D] /\ \A r \in D : Cardinality(Below(D, R, s[r])) = r - 1
  <2>1. StrictOrder(D, R) /\ Sorts(s, D, R) /\ IsFiniteSet(D)
    BY <1>1, <1>2
  <2> HIDE DEF D
  <2>2. /\ s \in [1..Cardinality(D) -> D]
        /\ \A r \in 1..Cardinality(D) : Cardinality(Below(D, R, s[r])) = r - 1
    BY <2>1, Ordered
  <2>3. QED
    BY <1>2, <2>2
<1>5. DOMAIN ordered = D /\ Len(ordered) = n /\ \A r \in D : ordered[r] = values[s[r]]
  BY <1>1, <1>2
<1>6. rank \in D /\ rank \in Nat /\ 100 * rank >= q * n /\ 100 * (rank - 1) < q * n
  <2>1. rank \in 1..n /\ \A r \in Nat : r < rank <=> 100 * r < q * n
    BY <1>2, <1>5, NearestRank
  <2> HIDE DEF n, D
  <2>2. rank - 1 \in Nat /\ rank - 1 < rank /\ ~(rank < rank) /\ rank \in Nat
    BY <1>2, <2>1
  <2>3. 100 * (rank - 1) < q * n /\ ~(100 * rank < q * n)
    BY <2>1, <2>2
  <2>4. QED
    BY <1>2, <2>1, <2>2, <2>3
<1> DEFINE x == s[rank]
           before == Below(D, R, x)
<1>7. x \in D /\ Cardinality(before) = rank - 1 /\ before \subseteq D /\ ordered[rank] = values[x]
  BY <1>4, <1>5, <1>6 DEF Below
<1>8. x \notin before
  BY <1>1, <1>7 DEF Below, StrictOrder
<1> HIDE DEF x
<1>9. 100 * Cardinality(atMost(ordered[rank])) >= q * n
  <2>1. before \union {x} \subseteq atMost(values[x])
    <3>1. ASSUME NEW i \in before PROVE i \in D /\ values[i] <= values[x]
      <4>1. i \in D /\ <<i, x>> \in R
        BY DEF Below
      <4>2. values[i] < values[x] \/ values[i] = values[x]
        BY <1>3, <1>7, <4>1
      <4>3. QED
        BY <1>2, <1>7, <4>1, <4>2
    <3>2. QED
      BY <1>2, <1>7, <3>1 DEF AtMost
  <2>2. IsFiniteSet(before) /\ IsFiniteSet(atMost(values[x]))
    BY <1>2, <1>7, FS_Subset DEF AtMost
  <2> HIDE DEF before, atMost
  <2>3. Cardinality(before \union {x}) = Cardinality(before) + 1
    BY <1>8, <2>2, FS_AddElement
  <2>4. Cardinality(before \union {x}) <= Cardinality(atMost(values[x])) /\ Cardinality(atMost(values[x])) \in Nat
    BY <2>1, <2>2, FS_Subset, FS_CardinalityType
  <2>5. Cardinality(atMost(values[x])) >= rank
    BY <1>6, <1>7, <2>3, <2>4
  <2>6. q * n \in Nat
    BY <1>2
  <2>7. QED
    BY <1>6, <1>7, <2>4, <2>5, <2>6
<1>10. ASSUME NEW i \in D, values[i] < ordered[rank]
       PROVE  ~(100 * Cardinality(atMost(values[i])) >= q * n)
  <2>1. atMost(values[i]) \subseteq before
    <3>1. \A j \in D : values[j] <= values[i] => values[j] < values[x]
      BY <1>2, <1>7, <1>10
    <3>2. QED
      BY <1>3, <1>7, <3>1 DEF Below, AtMost
  <2>2. IsFiniteSet(before)
    BY <1>2, <1>7, FS_Subset
  <2> HIDE DEF before, atMost
  <2>3. /\ Cardinality(atMost(values[i])) <= rank - 1 /\ Cardinality(atMost(values[i])) \in Nat
    BY <1>7, <2>1, <2>2, FS_Subset, FS_CardinalityType
  <2>4. q * n \in Nat
    BY <1>2
  <2>5. QED
    BY <1>6, <2>3, <2>4
<1>11. QED
  BY <1>2, <1>5, <1>6, <1>7, <1>9, <1>10 DEF Enough, Among

LEMMA PercentilesRight ==
  ASSUME TaskTypes
  PROVE  Tasks!PercentilesAreNearestRank
<1>1. ASSUME NEW metric \in Tasks!Metrics, NEW q \in 1..100
      PROVE  IF samples[metric] = <<>> THEN Tasks!Percentile(q, metric) = Tasks!None
             ELSE /\ \E i \in DOMAIN samples[metric] : samples[metric][i] = Tasks!Percentile(q, metric)
                  /\ Enough(q, samples[metric], Tasks!Percentile(q, metric))
                  /\ \A i \in DOMAIN samples[metric] :
                       samples[metric][i] < Tasks!Percentile(q, metric) =>
                         ~Enough(q, samples[metric], samples[metric][i])
  <2> DEFINE values == samples[metric]
  <2>1. values \in Seq(Nat)
    BY DEF TaskTypes
  <2>2. CASE values = <<>>
    <3>1. DOMAIN Tasks!Ascending(values) = {}
      BY <2>2 DEF Tasks!Ascending
    <3>2. QED
      BY <2>2, <3>1 DEF Tasks!Percentile
  <2>3. CASE values # <<>>
    <3> DEFINE ordered == Tasks!Ascending(values)
               rank == Tasks!Rank(q, Len(ordered))
    <3>1. /\ rank \in DOMAIN ordered
          /\ \E i \in DOMAIN values : values[i] = ordered[rank]
          /\ Enough(q, values, ordered[rank])
          /\ \A i \in DOMAIN values :
               values[i] < ordered[rank] => ~Enough(q, values, values[i])
      <4>1. ordered = Tasks!Ascending(values) /\ rank = Tasks!Rank(q, Len(ordered))
        OBVIOUS
      <4> HIDE DEF values, ordered, rank
      <4>2. rank \in DOMAIN ordered /\ Enough(q, values, ordered[rank])
        BY <2>1, <2>3, <4>1, PercentileRight
      <4>3. Among(ordered[rank], values)
        BY <2>1, <2>3, <4>1, PercentileRight
      <4>4. \A i \in DOMAIN values : values[i] < ordered[rank] => ~Enough(q, values, values[i])
        BY <2>1, <2>3, <4>1, PercentileRight
      <4>5. QED
        BY <4>2, <4>3, <4>4 DEF Among
    <3>2. Tasks!Percentile(q, metric) = ordered[rank]
      BY <3>1 DEF Tasks!Percentile
    <3> HIDE DEF ordered, rank
    <3>3. QED
      BY <2>3, <3>1, <3>2
  <2>4. QED
    BY <2>2, <2>3
<1>2. {50, 95} \subseteq 1..100
  OBVIOUS
<1>3. ASSUME NEW metric \in Tasks!Metrics, NEW q \in {50, 95}
      PROVE  LET values == samples[metric]
                 atMost(v) == {i \in DOMAIN values : values[i] <= v}
                 enough(v) == 100 * Tasks!Cardinality(atMost(v)) >= q * Len(values)
                 p == Tasks!Percentile(q, metric)
             IN  IF values = <<>> THEN p = Tasks!None
                 ELSE /\ \E i \in DOMAIN values : values[i] = p
                      /\ enough(p) /\ \A i \in DOMAIN values : values[i] < p => ~enough(values[i])
  <2> DEFINE values == samples[metric]
             atMost(v) == {i \in DOMAIN values : values[i] <= v}
             enough(v) == 100 * Tasks!Cardinality(atMost(v)) >= q * Len(values)
             p == Tasks!Percentile(q, metric)
  <2>1. \A v : enough(v) <=> Enough(q, values, v)
    <3> TAKE v
    <3>1. Tasks!Cardinality(atMost(v)) = Cardinality(AtMost(values, v))
      BY SameCountT DEF AtMost
    <3> HIDE DEF atMost
    <3>2. QED
      BY <3>1 DEF Enough
  <2>2. q \in 1..100
    BY <1>2
  <2> HIDE DEF enough
  <2>3. IF values = <<>> THEN p = Tasks!None
        ELSE /\ \E i \in DOMAIN values : values[i] = p
             /\ enough(p) /\ \A i \in DOMAIN values : values[i] < p => ~enough(values[i])
    BY <1>1, <2>1, <2>2
  <2>4. QED
    BY <2>3 DEF enough
<1>4. QED
  BY <1>3 DEF Tasks!PercentilesAreNearestRank

\* However long the log, whatever the limit: the tasks listed are the highest,
\* the percentiles nearest ranks, and missing values are counted
\* (scan_task_distribution, metric_distribution).
THEOREM TasksRanked == ReadersSpec => []DistributionHonest
<1>1. ReadersInit => TaskInv
  BY TaskInit DEF ReadersInit, TaskInv
<1>2. TaskInv /\ [ReadersNext]_allVars => TaskInv'
  <2> SUFFICES ASSUME TaskInv, [ReadersNext]_allVars, part' = "tasks"
               PROVE  TaskTypes' /\ SampledInv' /\ HeapInv'
    BY DEF TaskInv
  <2>1. part = "tasks" /\ (Tasks!Next \/ UNCHANGED <<events, taskVars>>)
    BY DEF ReadersNext, ReaderStep, RouteStep, OverviewStep, StageStep, TaskStep, allVars
  <2>2. CASE Tasks!Next
    BY <2>1, <2>2, TaskSteps DEF TaskInv
  <2>3. CASE UNCHANGED <<events, taskVars>>
    <3>1. /\ events' = events /\ orderBy' = orderBy /\ samples' = samples
          /\ heap' = heap /\ counts' = counts
      BY <2>3 DEF taskVars
    <3>2. Tasks!Successes' = Tasks!Successes /\ \A metric : Tasks!Scored(metric)' = Tasks!Scored(metric)
      BY <3>1 DEF Tasks!Successes, Tasks!Scored
    <3>3. QED
      BY <2>1, <3>1, <3>2 DEF TaskInv, TaskTypes, SampledInv, HeapInv
  <2>4. QED
    BY <2>1, <2>2, <2>3
<1>3. TaskInv => DistributionHonest
  BY TopRight, PercentilesRight, MissingRight DEF TaskInv, DistributionHonest
<1>4. QED
  BY <1>1, <1>2, <1>3, PTL DEF ReadersSpec

-----------------------------------------------------------------------------
(* The overview. *)

Values(s) == {s[i] : i \in DOMAIN s}

\* What is listed once counts once.
LEMMA ListedOnce ==
  ASSUME NEW T, NEW s \in Seq(T), \A i, j \in DOMAIN s : i < j => s[i] # s[j]
  PROVE  IsFiniteSet(Values(s)) /\ Cardinality(Values(s)) = Len(s)
<1> DEFINE k == Len(s)
<1>1. /\ k \in Nat /\ DOMAIN s = 1..k /\ k = Len(s) /\ s = [i \in 1..k |-> s[i]]
      /\ \A i, j \in 1..k : i # j => i < j \/ j < i
  OBVIOUS
<1> HIDE DEF k
<1>2. s \in Bijection(1..k, Values(s))
  <2>1. s \in [1..k -> Values(s)] /\ \A y \in Values(s) : \E i \in 1..k : s[i] = y
    BY <1>1 DEF Values
  <2>2. \A i, j \in 1..k : s[i] = s[j] => i = j
    BY <1>1
  <2>3. QED
    BY <2>1, <2>2 DEF Bijection, Injection, Surjection, IsInjective
<1>3. IsFiniteSet(1..k) /\ Cardinality(1..k) = k
  <2>1. k \in Nat
    BY <1>1
  <2>2. QED
    BY <2>1, FS_Interval
<1>4. QED
  BY <1>1, <1>2, <1>3, FS_Bijection DEF ExistsBijection

\* A list is in order; and what of a set is not in it comes after all m of it.
InOrderOf(s, R) == \A i, j \in DOMAIN s : i < j => <<s[i], s[j]>> \in R
Leads(s, m, S, R) ==
  \A x \in S : Among(x, s) \/ (Len(s) = m /\ \A i \in DOMAIN s : <<s[i], x>> \in R)

NoneTwice(s) == Cardinality(Values(s)) = Len(s)

\* A list cut short: what is listed comes before what is not.
LEMMA CutShort ==
  ASSUME NEW S, IsFiniteSet(S), NEW R, StrictOrder(S, R), NEW s, Sorts(s, S, R), NEW m \in Nat,
         NEW first, first = SubSeq(s, 1, IF m < Len(s) THEN m ELSE Len(s))
  PROVE  /\ Cardinality(S) \in Nat /\ first \in Seq(S)
         /\ Len(first) = IF m < Cardinality(S) THEN m ELSE Cardinality(S)
         /\ InOrderOf(first, R) /\ Leads(first, m, S, R)
         /\ NoneTwice(first)
<1> DEFINE n == Cardinality(S)
           k == IF m < n THEN m ELSE n
<1>1. /\ n \in Nat /\ s \in [1..n -> S]
      /\ \A x \in S : \E i \in 1..n : s[i] = x
      /\ \A i, j \in 1..n : i < j => <<s[i], s[j]>> \in R
  BY Ordered
<1> HIDE DEF n
<1>2. k \in Nat /\ k <= n /\ (k = m \/ k = n)
  BY <1>1
<1>3. s \in Seq(S) /\ Len(s) = n
  BY <1>1
<1> HIDE DEF k
<1>4. first = SubSeq(s, 1, k)
  BY <1>3 DEF k
<1>5. first \in Seq(S) /\ Len(first) = k /\ DOMAIN first = 1..k /\ \A i \in 1..k : first[i] = s[i]
  BY <1>1, <1>2, <1>3, <1>4
<1>6. \A i, j \in 1..k : i < j => <<first[i], first[j]>> \in R
  BY <1>1, <1>2, <1>5
<1>7. ASSUME NEW x \in S, ~Among(x, first)
      PROVE  k = m /\ \A i \in 1..k : <<first[i], x>> \in R
  <2>1. PICK j \in 1..n : s[j] = x
    BY <1>1
  <2>2. j \notin 1..k
    BY <1>5, <1>7, <2>1 DEF Among
  <2>3. k < j /\ k # n
    BY <1>1, <1>2, <2>1, <2>2
  <2>4. QED
    BY <1>1, <1>2, <1>5, <2>1, <2>3
<1>8. Cardinality(Values(first)) = Len(first)
  <2>1. \A i \in DOMAIN first : first[i] \in S
    BY <1>5
  <2>2. \A i, j \in DOMAIN first : i < j => first[i] # first[j]
    BY <1>5, <1>6, <2>1 DEF StrictOrder
  <2>3. QED
    BY <1>5, <2>2, ListedOnce
<1>9. QED
  BY <1>1, <1>5, <1>6, <1>7, <1>8 DEF k, n, InOrderOf, Leads, NoneTwice

LEMMA SameCountO ==
  \A S : Overview!Cardinality(S) = Cardinality(S)
  BY DEF Overview!Cardinality, Overview!IsFiniteSet, Cardinality, IsFiniteSet

Weight(lines, line) == <<lines[line].priority, line>>

OverviewTypes ==
  /\ events \in Seq(Overview!Kinds)
  /\ types \in [Overview!Names -> Nat] /\ reasons \in [Overview!Reasons -> Nat]
  /\ signals \in [0..3 -> Nat] /\ ended \in Nat
  /\ failures \in Seq((0..3) \X Nat) /\ endings \in Seq(Nat)

\* Lines of the log, by what they are.
Named(name) == {i \in DOMAIN events : events[i].name = name}
Because(reason) == {i \in DOMAIN events : events[i].reason = reason}

CountInv ==
  /\ \A name \in Overview!Names : types[name] = Cardinality(Named(name))
  /\ \A reason \in Overview!Reasons : reasons[reason] = Cardinality(Because(reason))
  /\ Overview!Sum4(signals) = Cardinality(Overview!Failed)
  /\ ended = Cardinality(Overview!Ended)

\* The kept failures are failures of the log, in order; once one was left out
\* they are as many as may be, and all come before it.
FailInv ==
  /\ Len(failures) <= EvidenceKept
  /\ \A k \in DOMAIN failures :
       failures[k][2] \in Overview!Failed /\ failures[k] = Weight(events, failures[k][2])
  /\ \A j, k \in DOMAIN failures : j < k => Overview!Before(failures[j], failures[k])
  /\ \A line \in Overview!Failed :
       Among(Weight(events, line), failures)
         \/ (/\ Len(failures) = EvidenceKept
             /\ \A k \in DOMAIN failures : Overview!Before(failures[k], Weight(events, line)))

\* The kept endings are the first of the log.
EndInv ==
  /\ Len(endings) <= EvidenceKept
  /\ \A k \in DOMAIN endings : endings[k] \in Overview!Ended
  /\ \A j, k \in DOMAIN endings : j < k => endings[j] < endings[k]
  /\ \A line \in Overview!Ended :
       Among(line, endings)
         \/ (Len(endings) = EvidenceKept /\ \A k \in DOMAIN endings : endings[k] < line)

OverviewInv == part = "overview" => OverviewTypes /\ CountInv /\ FailInv /\ EndInv

LEMMA KindFields ==
  ASSUME NEW e \in Overview!Kinds
  PROVE  /\ e.name \in Overview!Names /\ e.priority \in 0..4
         /\ e.name = "TaskEnd" <=> e.reason \in Overview!Reasons
<1>1. e.name \in Overview!Names
  BY DEF Overview!Names
<1>2. e.priority \in 0..4
  <2>1. e.priority \in {0, 1, 2, 3, 4}
    BY DEF Overview!Kinds, Overview!KindsOf, Overview!NoFailure
  <2>2. QED
    BY <2>1
<1>3. e.name = "TaskEnd" <=> e.reason # ""
  BY DEF Overview!Kinds, Overview!KindsOf
<1>4. e.reason \in Overview!Reasons <=> e.reason # ""
  BY DEF Overview!Reasons
<1>5. QED
  BY <1>1, <1>2, <1>3, <1>4

\* A set of lines, or that and the line just read.
LEMMA LinesGrow ==
  ASSUME OverviewTypes, NEW e \in Overview!Kinds, events' = Append(events, e)
  PROVE  LET line == Len(events) + 1 IN
    /\ DOMAIN events = 1..Len(events) /\ DOMAIN events' = 1..line /\ Len(events) \in Nat
    /\ events'[line] = e /\ \A i \in DOMAIN events : events'[i] = events[i]
    /\ line \notin DOMAIN events
    /\ \A S \in SUBSET DOMAIN events :
         /\ IsFiniteSet(S) /\ Cardinality(S) \in Nat
         /\ Cardinality(S \union {line}) = Cardinality(S) + 1
<1>1. /\ DOMAIN events = 1..Len(events) /\ DOMAIN events' = 1..(Len(events) + 1) /\ Len(events) \in Nat
      /\ events'[Len(events) + 1] = e /\ \A i \in DOMAIN events : events'[i] = events[i]
      /\ Len(events) + 1 \notin DOMAIN events
  BY DEF OverviewTypes
<1>2. IsFiniteSet(DOMAIN events)
  <2>1. Len(events) \in Nat /\ DOMAIN events = 1..Len(events)
    BY <1>1
  <2>2. IsFiniteSet(1..Len(events))
    BY <2>1, FS_Interval
  <2>3. QED
    BY <2>1, <2>2
<1>3. ASSUME NEW S \in SUBSET DOMAIN events
      PROVE  /\ IsFiniteSet(S) /\ Cardinality(S) \in Nat
             /\ Cardinality(S \union {Len(events) + 1}) = Cardinality(S) + 1
  BY <1>1, <1>2, FS_Subset, FS_CardinalityType, FS_AddElement
<1>4. QED
  BY <1>1, <1>3

LEMMA CountSteps ==
  ASSUME OverviewTypes, CountInv, NEW e \in Overview!Kinds, Overview!Visit(e)
  PROVE  CountInv' /\ types' \in [Overview!Names -> Nat] /\ reasons' \in [Overview!Reasons -> Nat]
         /\ signals' \in [0..3 -> Nat] /\ ended' \in Nat
<1> DEFINE line == Len(events) + 1
<1>1. events' = Append(events, e)
  BY DEF Overview!Visit
<1>2. /\ DOMAIN events' = DOMAIN events \union {line}
      /\ events'[line] = e /\ \A i \in DOMAIN events : events'[i] = events[i]
      /\ line \notin DOMAIN events
      /\ \A S \in SUBSET DOMAIN events :
           Cardinality(S) \in Nat /\ Cardinality(S \union {line}) = Cardinality(S) + 1
  BY <1>1, LinesGrow
<1> HIDE DEF line
<1>3. /\ types' = [types EXCEPT ![e.name] = @ + 1]
      /\ reasons' = IF e.name = "TaskEnd" THEN [reasons EXCEPT ![e.reason] = @ + 1] ELSE reasons
  BY DEF Overview!Visit, Overview!Counted, Overview!ReasonsWith
<1>4. types' \in [Overview!Names -> Nat] /\ reasons' \in [Overview!Reasons -> Nat]
  <2>1. types \in [Overview!Names -> Nat] /\ reasons \in [Overview!Reasons -> Nat]
    BY DEF OverviewTypes
  <2>2. e.name \in Overview!Names /\ (e.name = "TaskEnd" => e.reason \in Overview!Reasons)
    BY KindFields
  <2>3. types[e.name] + 1 \in Nat /\ types' = [types EXCEPT ![e.name] = types[e.name] + 1]
    BY <1>3, <2>1, <2>2
  <2>4. types' \in [Overview!Names -> Nat]
    BY <2>1, <2>3
  <2>5. CASE e.name = "TaskEnd"
    <3>1. /\ reasons[e.reason] + 1 \in Nat
          /\ reasons' = [reasons EXCEPT ![e.reason] = reasons[e.reason] + 1]
      BY <1>3, <2>1, <2>2, <2>5
    <3>2. QED
      BY <2>1, <2>4, <3>1
  <2>6. CASE e.name # "TaskEnd"
    BY <1>3, <2>1, <2>4, <2>6
  <2>7. QED
    BY <2>5, <2>6
<1>5. ASSUME NEW name \in Overview!Names PROVE types'[name] = Cardinality(Named(name)')
  <2>1. Named(name)' = IF e.name = name THEN Named(name) \union {line} ELSE Named(name)
    BY <1>2 DEF Named
  <2>2. Named(name) \in SUBSET DOMAIN events
    BY DEF Named
  <2>3. types'[name] = IF e.name = name THEN types[name] + 1 ELSE types[name]
    BY <1>3 DEF OverviewTypes
  <2>4. types[name] = Cardinality(Named(name))
    BY DEF CountInv
  <2>5. CASE e.name = name
    BY <1>2, <2>1, <2>2, <2>3, <2>4, <2>5
  <2>6. CASE e.name # name
    BY <2>1, <2>3, <2>4, <2>6
  <2>7. QED
    BY <2>5, <2>6
<1>6. ASSUME NEW reason \in Overview!Reasons PROVE reasons'[reason] = Cardinality(Because(reason)')
  <2>1. Because(reason)' = IF e.reason = reason THEN Because(reason) \union {line} ELSE Because(reason)
    BY <1>2 DEF Because
  <2>2. Because(reason) \in SUBSET DOMAIN events
    BY DEF Because
  <2>3. reasons'[reason] = IF e.reason = reason THEN reasons[reason] + 1 ELSE reasons[reason]
    BY <1>3, KindFields DEF OverviewTypes
  <2>4. reasons[reason] = Cardinality(Because(reason))
    BY DEF CountInv
  <2>5. CASE e.reason = reason
    BY <1>2, <2>1, <2>2, <2>3, <2>4, <2>5
  <2>6. CASE e.reason # reason
    BY <2>1, <2>3, <2>4, <2>6
  <2>7. QED
    BY <2>5, <2>6
<1> DEFINE fails == e.priority # Overview!NoFailure
           ends == e.priority = Overview!NoFailure /\ e.name \in Overview!Endings
<1>7. /\ Overview!Failed' = IF fails THEN Overview!Failed \union {line} ELSE Overview!Failed
      /\ Overview!Ended' = IF ends THEN Overview!Ended \union {line} ELSE Overview!Ended
  BY <1>2 DEF Overview!Failed, Overview!Ended
<1>8. Overview!Failed \in SUBSET DOMAIN events /\ Overview!Ended \in SUBSET DOMAIN events
  BY DEF Overview!Failed, Overview!Ended
<1>9. /\ signals' = IF fails THEN [signals EXCEPT ![e.priority] = @ + 1] ELSE signals
      /\ ended' = IF ends THEN ended + 1 ELSE ended
  BY DEF Overview!Visit, Overview!Failure, Overview!Ending, Overview!Ordinary, Overview!Counted, line
<1>10. /\ Overview!Sum4(signals) = Cardinality(Overview!Failed) /\ ended = Cardinality(Overview!Ended)
  BY DEF CountInv
<1>11. signals' \in [0..3 -> Nat] /\ Overview!Sum4(signals') = Cardinality(Overview!Failed')
  <2>1. CASE fails
    <3>1. e.priority \in 0..3
      BY <2>1, KindFields DEF Overview!NoFailure
    <3>2. signals' \in [0..3 -> Nat] /\ Overview!Sum4(signals') = Overview!Sum4(signals) + 1
      <4>1. signals \in [0..3 -> Nat] /\ signals' = [signals EXCEPT ![e.priority] = signals[e.priority] + 1]
        BY <1>9, <2>1 DEF OverviewTypes
      <4>2. \A p \in 0..3 : signals'[p] = IF p = e.priority THEN signals[p] + 1 ELSE signals[p]
        BY <3>1, <4>1
      <4>3. signals' \in [0..3 -> Nat]
        BY <3>1, <4>1
      <4>4. e.priority = 0 \/ e.priority = 1 \/ e.priority = 2 \/ e.priority = 3
        BY <3>1
      <4>5. \A p \in 0..3 : signals[p] \in Nat
        BY <4>1
      <4>6. QED
        BY <4>2, <4>3, <4>4, <4>5 DEF Overview!Sum4
    <3>3. Cardinality(Overview!Failed') = Cardinality(Overview!Failed) + 1
      BY <1>2, <1>7, <1>8, <2>1
    <3>4. QED
      BY <1>10, <3>2, <3>3
  <2>2. CASE ~fails
    BY <1>7, <1>9, <1>10, <2>2 DEF OverviewTypes
  <2>3. QED
    BY <2>1, <2>2
<1>12. ended' \in Nat /\ ended' = Cardinality(Overview!Ended')
  <2>1. CASE ends
    <3>1. Cardinality(Overview!Ended') = Cardinality(Overview!Ended) + 1
      BY <1>2, <1>7, <1>8, <2>1
    <3>2. QED
      BY <1>9, <1>10, <2>1, <3>1 DEF OverviewTypes
  <2>2. CASE ~ends
    BY <1>7, <1>9, <1>10, <2>2 DEF OverviewTypes
  <2>3. QED
    BY <2>1, <2>2
<1>13. QED
  BY <1>4, <1>5, <1>6, <1>11, <1>12 DEF CountInv

\* Failures, by how bad they are and where.
LEMMA BeforeOrder ==
  ASSUME NEW S \in SUBSET (Nat \X Nat), NEW R, R = {a \in S \X S : Overview!Before(a[1], a[2])}
  PROVE  StrictOrder(S, R) /\ \A a, b \in S : <<a, b>> \in R <=> Overview!Before(a, b)
<1>1. \A a, b \in S : <<a, b>> \in R <=> Overview!Before(a, b)
  OBVIOUS
<1>2. ASSUME NEW a \in S, NEW b \in S PROVE a = b \/ Overview!Before(a, b) \/ Overview!Before(b, a)
  <2>1. /\ a = <<a[1], a[2]>> /\ b = <<b[1], b[2]>>
        /\ a[1] \in Nat /\ a[2] \in Nat /\ b[1] \in Nat /\ b[2] \in Nat
    OBVIOUS
  <2>2. QED
    BY <2>1 DEF Overview!Before
<1>3. \A a, b, c \in S : Overview!Before(a, b) /\ Overview!Before(b, c) => Overview!Before(a, c)
  BY DEF Overview!Before
<1>4. \A a \in S : ~Overview!Before(a, a)
  BY DEF Overview!Before
<1>5. QED
  BY <1>1, <1>2, <1>3, <1>4 DEF StrictOrder

\* Before is an order of all pairs.
LEMMA BeforeTotal ==
  \A a, b, c \in Nat \X Nat :
    /\ Overview!Before(a, b) /\ Overview!Before(b, c) => Overview!Before(a, c)
    /\ a = b \/ Overview!Before(a, b) \/ Overview!Before(b, a)
<1> DEFINE S == Nat \X Nat
           R == {a \in S \X S : Overview!Before(a[1], a[2])}
<1>1. S \in SUBSET (Nat \X Nat)
  OBVIOUS
<1> HIDE DEF S
<1>2. StrictOrder(S, R) /\ \A a, b \in S : <<a, b>> \in R <=> Overview!Before(a, b)
  BY <1>1, BeforeOrder
<1> HIDE DEF R
<1>3. QED
  BY <1>2 DEF StrictOrder, S

\* Sorted by Before.
LEMMA SortedByBefore ==
  ASSUME NEW S \in SUBSET (Nat \X Nat), NEW R, R = {a \in S \X S : Overview!Before(a[1], a[2])}
  PROVE  Sorts(Overview!OrderedBy(S, Overview!Before), S, R)
<1> DEFINE s == Overview!OrderedBy(S, Overview!Before)
           n == Cardinality(S)
           others(a) == Overview!Cardinality({b \in S : Overview!Before(b, a)})
           at(r) == CHOOSE a \in S : others(a) = r - 1
<1>1. \A a, b \in S : <<a, b>> \in R <=> Overview!Before(a, b)
  OBVIOUS
<1>2. \A a \in S : Cardinality(Below(S, R, a)) = others(a)
  <2> TAKE a \in S
  <2>1. Below(S, R, a) = {b \in S : Overview!Before(b, a)}
    BY <1>1 DEF Below
  <2>2. QED
    BY <2>1, SameCountO
<1>3. s = [r \in 1..n |-> at(r)]
  BY SameCountO DEF Overview!OrderedBy
<1> HIDE DEF s, others
<1>4. ASSUME NEW r \in 1..n, NEW x \in S, Cardinality(Below(S, R, x)) = r - 1
      PROVE  s[r] \in S /\ Cardinality(Below(S, R, s[r])) = r - 1
  <2>1. others(x) = r - 1 /\ s[r] = at(r)
    BY <1>2, <1>3, <1>4
  <2>2. s[r] \in S /\ others(s[r]) = r - 1
    BY <2>1
  <2>3. QED
    BY <1>2, <2>2
<1> HIDE DEF at
<1>5. s = [r \in 1..n |-> s[r]]
  BY <1>3
<1>6. QED
  BY <1>4, <1>5 DEF Sorts, s

\* A failure more, of a line after all others.
LEMMA FailStep ==
  ASSUME OverviewTypes, FailInv, NEW e \in Overview!Kinds, Overview!Visit(e),
         e.priority # Overview!NoFailure
  PROVE  FailInv' /\ failures' \in Seq((0..3) \X Nat)
<1> DEFINE line == Len(events) + 1
           weight == <<e.priority, line>>
           P == (0..3) \X Nat
<1>1. events' = Append(events, e) /\ failures' = Overview!Kept(failures, weight)
  BY DEF Overview!Visit, Overview!Failure, Overview!Ending, Overview!Ordinary
<1>2. /\ DOMAIN events = 1..Len(events) /\ DOMAIN events' = DOMAIN events \union {line}
      /\ events'[line] = e /\ \A i \in DOMAIN events : events'[i] = events[i]
      /\ line \notin DOMAIN events /\ line \in Nat
  BY <1>1, LinesGrow
<1>3. weight \in P
  BY <1>2, KindFields DEF Overview!NoFailure
<1>4. /\ Overview!Failed \subseteq DOMAIN events
      /\ Overview!Failed' = Overview!Failed \union {line}
      /\ \A i \in Overview!Failed : Weight(events', i) = Weight(events, i)
      /\ Weight(events', line) = weight
  BY <1>2 DEF Overview!Failed, Weight
<1> HIDE DEF line
<1>5. failures \in Seq(P) /\ Len(failures) \in Nat /\ DOMAIN failures = 1..Len(failures)
      /\ Len(failures) <= EvidenceKept /\ EvidenceKept \in Nat /\ EvidenceKept # 0
  BY ListsAssumption DEF OverviewTypes, FailInv
<1> DEFINE S == Values(failures) \union {weight}
<1>6. /\ S \subseteq P /\ S \subseteq Nat \X Nat
      /\ weight \in S /\ \A k \in DOMAIN failures : failures[k] \in S
  <2>1. \A k \in DOMAIN failures : failures[k] \in P
    BY <1>5
  <2>2. P \subseteq Nat \X Nat
    OBVIOUS
  <2> HIDE DEF P, weight
  <2>3. QED
    BY <1>3, <2>1, <2>2 DEF Values
<1>7. \A a \in S : a[2] \in Overview!Failed' /\ a = Weight(events', a[2])
  <2>1. weight[2] = line
    OBVIOUS
  <2>2. QED
    BY <1>4, <2>1 DEF FailInv, Values
<1> HIDE DEF weight, P
<1>8. weight \notin Values(failures)
  <2>1. \A k \in DOMAIN failures : failures[k][2] # line
    BY <1>2, <1>4 DEF FailInv
  <2>2. weight[2] = line
    BY DEF weight
  <2>3. QED
    BY <2>1, <2>2 DEF Values
<1>9. \A j, k \in DOMAIN failures : j < k => Overview!Before(failures[j], failures[k])
  BY DEF FailInv
<1>10. /\ IsFiniteSet(S) /\ Cardinality(S) \in Nat /\ Cardinality(S) = Len(failures) + 1
  <2>1. \A a \in S : ~Overview!Before(a, a)
    BY <1>6 DEF Overview!Before
  <2>2. \A j, k \in DOMAIN failures : j < k => failures[j] # failures[k]
    BY <1>6, <1>9, <2>1
  <2>3. IsFiniteSet(Values(failures)) /\ Cardinality(Values(failures)) = Len(failures)
    BY <1>5, <2>2, ListedOnce
  <2>4. QED
    <3>1. IsFiniteSet(Values(failures) \union {weight})
          /\ Cardinality(Values(failures) \union {weight}) = Cardinality(Values(failures)) + 1
      BY <1>8, <2>3, FS_AddElement
    <3>2. QED
      BY <1>5, <2>3, <3>1
<1>11. ASSUME NEW l \in Overview!Failed, ~Among(Weight(events, l), failures)
       PROVE  /\ Len(failures) = EvidenceKept /\ Weight(events, l) \in Nat \X Nat
              /\ \A k \in DOMAIN failures : Overview!Before(failures[k], Weight(events, l))
  <2>1. events[l].priority \in Nat /\ l \in Nat
    <3>1. l \in 1..Len(events) /\ Len(events) \in Nat /\ events[l] \in Overview!Kinds
      BY <1>2, <1>4 DEF OverviewTypes
    <3>2. QED
      BY <3>1, KindFields
  <2>2. QED
    BY <1>11, <2>1 DEF FailInv, Weight
<1>12. CASE Len(failures) < EvidenceKept \/ Overview!Before(weight, Overview!Last(failures))
  <2> DEFINE s == Overview!OrderedBy(S, Overview!Before)
             R == {a \in S \X S : Overview!Before(a[1], a[2])}
  <2>1. failures' = SubSeq(s, 1, IF EvidenceKept < Len(s) THEN EvidenceKept ELSE Len(s))
    <3>1. Overview!ToSet(failures) = Values(failures)
      BY DEF Overview!ToSet, Values
    <3>2. QED
      BY <1>1, <1>12, <3>1 DEF Overview!Kept, Overview!First
  <2> HIDE DEF S
  <2>2. R = {a \in S \X S : Overview!Before(a[1], a[2])}
    OBVIOUS
  <2> HIDE DEF R, s
  <2>3. StrictOrder(S, R) /\ \A a, b \in S : <<a, b>> \in R <=> Overview!Before(a, b)
    BY <1>6, <2>2, BeforeOrder
  <2>4. Sorts(s, S, R)
    BY <1>6, <2>2, SortedByBefore DEF s
  <2>5. /\ failures' \in Seq(S)
        /\ Len(failures') = IF EvidenceKept < Cardinality(S) THEN EvidenceKept ELSE Cardinality(S)
        /\ InOrderOf(failures', R) /\ Leads(failures', EvidenceKept, S, R)
    <3>1. IsFiniteSet(S) /\ EvidenceKept \in Nat
      BY <1>5, <1>10 DEF S
    <3>2. /\ failures' \in Seq(S)
          /\ Len(failures') = IF EvidenceKept < Cardinality(S) THEN EvidenceKept ELSE Cardinality(S)
      BY <2>1, <2>3, <2>4, <3>1, CutShort
    <3>3. InOrderOf(failures', R)
      BY <2>1, <2>3, <2>4, <3>1, CutShort
    <3>4. Leads(failures', EvidenceKept, S, R)
      BY <2>1, <2>3, <2>4, <3>1, CutShort
    <3>5. QED
      BY <3>2, <3>3, <3>4
  <2>6. \A k \in DOMAIN failures' : failures'[k] \in S
    BY <2>5
  <2>7. failures' \in Seq(P)
    BY <1>6, <2>5
  <2>8. Len(failures') <= EvidenceKept
    BY <1>5, <1>10, <2>5
  <2>9. \A k \in DOMAIN failures' :
          failures'[k][2] \in Overview!Failed' /\ failures'[k] = Weight(events', failures'[k][2])
    BY <1>7, <2>6
  <2>10. \A j, k \in DOMAIN failures' : j < k => Overview!Before(failures'[j], failures'[k])
    BY <2>3, <2>5, <2>6 DEF InOrderOf
  <2>11. ASSUME NEW l \in Overview!Failed'
         PROVE  Among(Weight(events', l), failures')
                  \/ (/\ Len(failures') = EvidenceKept
                      /\ \A k \in DOMAIN failures' : Overview!Before(failures'[k], Weight(events', l)))
    <3>1. CASE Weight(events', l) \in S
      BY <2>3, <2>5, <2>6, <3>1 DEF Leads
    <3>2. CASE Weight(events', l) \notin S
      <4>1. l \in Overview!Failed /\ Weight(events', l) = Weight(events, l)
        BY <1>4, <1>6, <3>2
      <4>2. ~Among(Weight(events, l), failures)
        BY <3>2, <4>1 DEF Among, Values, S
      <4>3. /\ Len(failures) = EvidenceKept /\ Weight(events, l) \in Nat \X Nat
            /\ \A k \in DOMAIN failures : Overview!Before(failures[k], Weight(events, l))
        BY <1>11, <4>1, <4>2
      <4>4. Overview!Before(weight, Overview!Last(failures))
        BY <1>5, <1>12, <4>3
      <4>5. Len(failures) \in DOMAIN failures /\ Overview!Last(failures) = failures[Len(failures)]
        BY <1>5, <4>3 DEF Overview!Last
      <4>6. Overview!Before(weight, Weight(events, l))
        BY <1>6, <4>3, <4>4, <4>5, BeforeTotal
      <4>7. \A a \in S : Overview!Before(a, Weight(events, l))
        BY <4>3, <4>6 DEF S, Values
      <4>8. Len(failures') = EvidenceKept
        BY <1>5, <1>10, <2>5, <4>3
      <4>9. QED
        BY <2>6, <4>1, <4>7, <4>8
    <3>3. QED
      BY <3>1, <3>2
  <2>12. QED
    BY <2>7, <2>8, <2>9, <2>10, <2>11 DEF FailInv, P
<1>13. CASE ~(Len(failures) < EvidenceKept \/ Overview!Before(weight, Overview!Last(failures)))
  <2>1. failures' = failures
    BY <1>1, <1>13 DEF Overview!Kept, weight
  <2>2. Len(failures) = EvidenceKept
    <3>1. ~(Len(failures) < EvidenceKept)
      BY <1>13
    <3>2. QED
      <4>1. Len(failures) \in Nat /\ EvidenceKept \in Nat /\ Len(failures) <= EvidenceKept
        BY <1>5
      <4>2. QED
        BY <3>1, <4>1
  <2>3. Len(failures) \in DOMAIN failures /\ Overview!Last(failures) = failures[Len(failures)]
    BY <1>5, <2>2 DEF Overview!Last
  <2>4. Overview!Before(failures[Len(failures)], weight)
    <3>1. failures[Len(failures)] # weight
      BY <1>8, <2>3 DEF Values
    <3>2. QED
      BY <1>6, <1>13, <2>3, <3>1, BeforeTotal
  <2>5. \A k \in DOMAIN failures : Overview!Before(failures[k], weight)
    <3> TAKE k \in DOMAIN failures
    <3>1. k = Len(failures) \/ k < Len(failures)
      BY <1>5
    <3>2. QED
      BY <1>6, <1>9, <2>3, <2>4, <3>1, BeforeTotal
  <2>6. \A k \in DOMAIN failures' :
          failures'[k][2] \in Overview!Failed' /\ failures'[k] = Weight(events', failures'[k][2])
    BY <1>6, <1>7, <2>1
  <2>7. ASSUME NEW l \in Overview!Failed'
        PROVE  Among(Weight(events', l), failures')
                 \/ (/\ Len(failures') = EvidenceKept
                     /\ \A k \in DOMAIN failures' : Overview!Before(failures'[k], Weight(events', l)))
    <3>1. CASE l = line
      BY <1>4, <2>1, <2>2, <2>5, <3>1
    <3>2. CASE l \in Overview!Failed
      BY <1>4, <1>11, <2>1, <3>2
    <3>3. QED
      BY <1>4, <3>1, <3>2
  <2>8. QED
    BY <1>5, <1>9, <2>1, <2>6, <2>7 DEF FailInv, P
<1>14. QED
  BY <1>12, <1>13

\* Events that are no failures leave the failures as they are, events that end
\* nothing the endings.
LEMMA OtherSteps ==
  ASSUME OverviewTypes, FailInv, EndInv, NEW e \in Overview!Kinds, Overview!Visit(e)
  PROVE  /\ e.priority = Overview!NoFailure =>
              FailInv' /\ failures' \in Seq((0..3) \X Nat)
         /\ EndInv' /\ endings' \in Seq(Nat)
<1> DEFINE line == Len(events) + 1
           ends == e.priority = Overview!NoFailure /\ e.name \in Overview!Endings
<1>1. events' = Append(events, e)
  BY DEF Overview!Visit
<1>2. /\ DOMAIN events = 1..Len(events) /\ DOMAIN events' = DOMAIN events \union {line}
      /\ events'[line] = e /\ \A i \in DOMAIN events : events'[i] = events[i]
      /\ line \notin DOMAIN events /\ Len(events) \in Nat /\ line = Len(events) + 1
  BY <1>1, LinesGrow
<1> HIDE DEF line
<1>3. /\ Overview!Failed \subseteq DOMAIN events /\ Overview!Ended \subseteq DOMAIN events
      /\ \A i \in Overview!Failed : Weight(events', i) = Weight(events, i)
      /\ Overview!Ended' = IF ends THEN Overview!Ended \union {line} ELSE Overview!Ended
  BY <1>2 DEF Overview!Failed, Overview!Ended, Weight
<1>4. ASSUME e.priority = Overview!NoFailure PROVE FailInv' /\ failures' \in Seq((0..3) \X Nat)
  <2>1. failures' = failures
    BY <1>4 DEF Overview!Visit, Overview!Failure, Overview!Ending, Overview!Ordinary
  <2>2. Overview!Failed' = Overview!Failed
    BY <1>2, <1>4 DEF Overview!Failed
  <2>3. Len(failures') <= EvidenceKept
    BY <2>1 DEF FailInv
  <2>4. \A k \in DOMAIN failures' :
          failures'[k][2] \in Overview!Failed' /\ failures'[k] = Weight(events', failures'[k][2])
    BY <1>3, <2>1, <2>2 DEF FailInv
  <2>5. \A j, k \in DOMAIN failures' : j < k => Overview!Before(failures'[j], failures'[k])
    BY <2>1 DEF FailInv
  <2>6. ASSUME NEW l \in Overview!Failed'
        PROVE  Among(Weight(events', l), failures')
                 \/ (/\ Len(failures') = EvidenceKept
                     /\ \A k \in DOMAIN failures' : Overview!Before(failures'[k], Weight(events', l)))
    BY <1>3, <2>1, <2>2 DEF FailInv
  <2>7. QED
    BY <2>1, <2>3, <2>4, <2>5, <2>6 DEF FailInv, OverviewTypes
<1>5. endings' = IF ends /\ Len(endings) < EvidenceKept THEN Append(endings, line) ELSE endings
  BY DEF Overview!Visit, Overview!Failure, Overview!Ending, Overview!Ordinary, line
<1>6. endings \in Seq(Nat) /\ Len(endings) <= EvidenceKept /\ EvidenceKept \in Nat
  BY ListsAssumption DEF OverviewTypes, EndInv
<1>7. \A k \in DOMAIN endings : endings[k] \in Overview!Ended /\ endings[k] < line
  <2>1. \A l \in Overview!Ended : l < line
    BY <1>2, <1>3
  <2>2. QED
    BY <2>1 DEF EndInv
<1>8. \A j, k \in DOMAIN endings : j < k => endings[j] < endings[k]
  BY DEF EndInv
<1>9. CASE ends /\ Len(endings) < EvidenceKept
  <2> DEFINE n == Len(endings) + 1
  <2>1. endings' = Append(endings, line)
    BY <1>5, <1>9
  <2>2. /\ endings' \in Seq(Nat) /\ Len(endings') = n /\ DOMAIN endings' = 1..n
        /\ endings'[n] = line /\ DOMAIN endings = 1..(n - 1) /\ n \in Nat /\ n \in DOMAIN endings'
        /\ \A k \in DOMAIN endings : endings'[k] = endings[k]
    BY <1>2, <1>6, <2>1
  <2> HIDE DEF n
  <2>3. Len(endings') <= EvidenceKept
    BY <1>6, <1>9, <2>2 DEF n
  <2>4. \A k \in DOMAIN endings' : k \in DOMAIN endings \/ k = n
    BY <2>2
  <2>5. \A k \in DOMAIN endings' : endings'[k] \in Overview!Ended'
    BY <1>3, <1>7, <1>9, <2>2, <2>4
  <2>6. ASSUME NEW j \in DOMAIN endings', NEW k \in DOMAIN endings', j < k
        PROVE  endings'[j] < endings'[k]
    <3>1. j \in DOMAIN endings
      BY <2>2, <2>4, <2>6
    <3>2. QED
      BY <1>7, <1>8, <2>2, <2>4, <2>6, <3>1
  <2>7. ASSUME NEW l \in Overview!Ended' PROVE Among(l, endings')
    <3>1. CASE l = line
      BY <2>2, <3>1 DEF Among
    <3>2. CASE l \in Overview!Ended
      <4>1. Among(l, endings)
        BY <1>6, <1>9, <3>2 DEF EndInv
      <4>2. QED
        BY <2>2, <4>1 DEF Among
    <3>3. QED
      BY <1>3, <1>9, <3>1, <3>2
  <2>8. EndInv'
    BY <2>3, <2>5, <2>6, <2>7 DEF EndInv
  <2>9. QED
    BY <1>4, <2>2, <2>8
<1>10. CASE ~(ends /\ Len(endings) < EvidenceKept)
  <2>1. endings' = endings
    BY <1>5, <1>10
  <2>2. \A k \in DOMAIN endings' : endings'[k] \in Overview!Ended'
    BY <1>3, <1>7, <2>1
  <2>3. ASSUME NEW l \in Overview!Ended'
        PROVE  Among(l, endings')
                 \/ (Len(endings') = EvidenceKept /\ \A k \in DOMAIN endings' : endings'[k] < l)
    <3>1. CASE l \in Overview!Ended
      BY <2>1, <3>1 DEF EndInv
    <3>2. CASE l \notin Overview!Ended
      <4>1. ends /\ l = line
        BY <1>3, <3>2
      <4>2. ~(Len(endings) < EvidenceKept)
        BY <1>10, <4>1
      <4>3. Len(endings) \in Nat /\ Len(endings) <= EvidenceKept /\ EvidenceKept \in Nat
        BY <1>6
      <4>4. Len(endings) = EvidenceKept
        BY <4>2, <4>3
      <4>5. QED
        BY <1>7, <2>1, <4>1, <4>4
    <3>3. QED
      BY <3>1, <3>2
  <2>4. /\ Len(endings') <= EvidenceKept
        /\ \A j, k \in DOMAIN endings' : j < k => endings'[j] < endings'[k]
    BY <1>6, <1>8, <2>1
  <2>5. EndInv'
    BY <2>2, <2>3, <2>4 DEF EndInv
  <2>6. QED
    BY <1>4, <1>6, <2>1, <2>5
<1>11. QED
  BY <1>4, <1>9, <1>10

LEMMA OverviewInit ==
  ASSUME Overview!Init
  PROVE  OverviewTypes /\ CountInv /\ FailInv /\ EndInv
<1>1. /\ events = <<>> /\ failures = <<>> /\ endings = <<>> /\ ended = 0
      /\ types = [name \in Overview!Names |-> 0] /\ reasons = [reason \in Overview!Reasons |-> 0]
      /\ signals = [priority \in 0..3 |-> 0]
  BY DEF Overview!Init
<1>2. OverviewTypes
  BY <1>1 DEF OverviewTypes
<1>3. Overview!Failed = {} /\ Overview!Ended = {} /\ (\A x : Named(x) = {}) /\ (\A x : Because(x) = {})
  BY <1>1 DEF Overview!Failed, Overview!Ended, Named, Because
<1>4. CountInv
  <2>1. Overview!Sum4(signals) = 0
    BY <1>1 DEF Overview!Sum4
  <2>2. QED
    BY <1>1, <1>3, <2>1, FS_EmptySet DEF CountInv
<1>5. FailInv /\ EndInv
  BY <1>1, <1>3, ListsAssumption DEF FailInv, EndInv
<1>6. QED
  BY <1>2, <1>4, <1>5

LEMMA OverviewSteps ==
  ASSUME OverviewTypes, CountInv, FailInv, EndInv, Overview!Next
  PROVE  OverviewTypes' /\ CountInv' /\ FailInv' /\ EndInv'
<1>1. PICK e \in Overview!Kinds : Overview!Visit(e)
  BY DEF Overview!Next
<1>2. events' \in Seq(Overview!Kinds)
  BY <1>1 DEF Overview!Visit, OverviewTypes
<1>3. FailInv' /\ failures' \in Seq((0..3) \X Nat)
  BY <1>1, FailStep, OtherSteps
<1>4. EndInv' /\ endings' \in Seq(Nat)
  BY <1>1, OtherSteps
<1>5. QED
  BY <1>1, <1>2, <1>3, <1>4, CountSteps DEF OverviewTypes

\* No two names have one place in the alphabet.
LEMMA Places ==
  ASSUME NEW K \in {Overview!Names, Overview!Reasons}
  PROVE  /\ IsFiniteSet(K) /\ \A a \in K : Overview!Place[a] \in Nat
         /\ \A a, b \in K : Overview!Place[a] = Overview!Place[b] => a = b
<1> DEFINE N == {"JobEnd", "StageCompleted", "TaskEnd", "ExecutorRemoved", "SQLExecutionEnd",
                 "ApplicationEnd"}
           W == {"Killed", "Success", "UNKNOWN"}
<1>1. \A e \in Overview!Kinds : e.name \in N /\ e.reason \in W \union {""}
  BY DEF Overview!Kinds, Overview!KindsOf
<1>2. K \subseteq N \/ K \subseteq W
  <2>1. Overview!Names \subseteq N
    BY <1>1 DEF Overview!Names
  <2>2. Overview!Reasons \subseteq W
    BY <1>1 DEF Overview!Reasons
  <2>3. QED
    BY <2>1, <2>2
<1>4. \A a \in N \union W : Overview!Place[a] \in 1..9
  BY DEF Overview!Place
<1>5. \A a, b \in N : Overview!Place[a] = Overview!Place[b] => a = b
  BY DEF Overview!Place
<1>6. \A a, b \in W : Overview!Place[a] = Overview!Place[b] => a = b
  BY DEF Overview!Place
<1> HIDE DEF N, W
<1>7. \A a, b \in K : Overview!Place[a] = Overview!Place[b] => a = b
  BY <1>2, <1>5, <1>6
<1>8. \A a \in K : Overview!Place[a] \in 1..9
  BY <1>2, <1>4
<1>9. IsFiniteSet(K)
  <2> DEFINE f == [a \in K |-> Overview!Place[a]]
  <2>1. f \in [K -> 1..9] /\ \A a \in K : f[a] = Overview!Place[a]
    BY <1>8
  <2> HIDE DEF f
  <2>2. f \in Injection(K, 1..9)
    BY <1>7, <2>1 DEF Injection, IsInjective
  <2>3. 1 \in Int /\ 9 \in Int => IsFiniteSet(1..9)
    BY FS_Interval
  <2>4. QED
    BY <2>2, <2>3, FS_Injection
<1>10. QED
  BY <1>7, <1>8, <1>9

\* A listing has the most frequent names, and says how many it leaves out.
LEMMA ListsRight ==
  ASSUME NEW K \in {Overview!Names, Overview!Reasons}, NEW counted \in [K -> Nat]
  PROVE  Overview!ListsMostFrequent(counted)
<1> DEFINE S == Overview!Seen(counted)
           first(a, b) == counted[a] > counted[b]
                            \/ (counted[a] = counted[b] /\ Overview!Place[a] < Overview!Place[b])
           R == {p \in S \X S : first(p[1], p[2])}
           s == Overview!OrderedBy(S, LAMBDA a, b : counted[a] > counted[b]
                     \/ (counted[a] = counted[b] /\ Overview!Place[a] < Overview!Place[b]))
           n == Cardinality(S)
           others(a) == Overview!Cardinality({b \in S : first(b, a)})
           at(r) == CHOOSE a \in S : others(a) = r - 1
           list == Overview!Listed(counted)
<1>1. S \subseteq K /\ (\A a \in K : counted[a] \in Nat) /\ \A a \in K \ S : counted[a] = 0
  BY DEF Overview!Seen
<1>2. s = [r \in 1..n |-> at(r)]
  BY SameCountO DEF Overview!OrderedBy
<1>3. list = SubSeq(s, 1, IF NamesListed < Len(s) THEN NamesListed ELSE Len(s))
  BY DEF Overview!Listed, Overview!First
<1> HIDE DEF S, s, list
<1>4. /\ \A a \in S : ~first(a, a)
      /\ \A a, b, c \in S : first(a, b) /\ first(b, c) => first(a, c)
      /\ \A a, b \in S : a = b \/ first(a, b) \/ first(b, a)
  <2>1. \A a \in S : counted[a] \in Nat /\ Overview!Place[a] \in Nat
    BY <1>1, Places
  <2>2. \A a, b \in S : Overview!Place[a] = Overview!Place[b] => a = b
    BY <1>1, Places
  <2>3. QED
    BY <2>1, <2>2
<1>5. \A a, b \in S : first(a, b) => counted[a] >= counted[b]
  BY <1>1
<1> HIDE DEF first
<1>6. \A a, b \in S : <<a, b>> \in R <=> first(a, b)
  OBVIOUS
<1> HIDE DEF R
<1>7. StrictOrder(S, R)
  BY <1>4, <1>6 DEF StrictOrder
<1>8. \A a \in S : Cardinality(Below(S, R, a)) = others(a)
  <2> TAKE a \in S
  <2>1. Below(S, R, a) = {b \in S : first(b, a)}
    BY <1>6 DEF Below
  <2>2. QED
    BY <2>1, SameCountO
<1> HIDE DEF others
<1>9. Sorts(s, S, R)
  <2>1. ASSUME NEW r \in 1..n, NEW x \in S, Cardinality(Below(S, R, x)) = r - 1
        PROVE  s[r] \in S /\ Cardinality(Below(S, R, s[r])) = r - 1
    <3>1. others(x) = r - 1 /\ s[r] = at(r)
      BY <1>2, <1>8, <2>1
    <3>2. s[r] \in S /\ others(s[r]) = r - 1
      BY <3>1
    <3>3. QED
      BY <1>8, <3>2
  <2> HIDE DEF at
  <2>2. s = [r \in 1..n |-> s[r]]
    BY <1>2
  <2>3. QED
    BY <2>1, <2>2 DEF Sorts
<1>10. IsFiniteSet(S) /\ NamesListed \in Nat
  BY <1>1, Places, FS_Subset, ListsAssumption
<1>11. list \in Seq(S) /\ n \in Nat
  BY <1>3, <1>7, <1>9, <1>10, CutShort
<1>12. /\ Len(list) = IF NamesListed < n THEN NamesListed ELSE n
  BY <1>3, <1>7, <1>9, <1>10, CutShort
<1>13. Leads(list, NamesListed, S, R)
  BY <1>3, <1>7, <1>9, <1>10, CutShort
<1>14. NoneTwice(list)
  BY <1>3, <1>7, <1>9, <1>10, CutShort
<1>15. ASSUME NEW shown \in Values(list), NEW other \in K \ Values(list)
       PROVE  counted[shown] >= counted[other]
  <2>1. PICK i \in DOMAIN list : shown = list[i]
    BY DEF Values
  <2>2. shown \in S
    BY <1>11, <2>1
  <2>3. CASE other \notin S
    BY <1>1, <2>2, <2>3
  <2>4. CASE other \in S
    <3>1. ~Among(other, list)
      BY DEF Among, Values
    <3>2. <<shown, other>> \in R
      BY <1>13, <2>1, <2>4, <3>1 DEF Leads
    <3>3. QED
      BY <1>5, <1>6, <2>2, <2>4, <3>2
  <2>5. QED
    BY <2>3, <2>4
<1>16. Cardinality(Values(list)) + Overview!NamesOmitted(counted) = Cardinality(S)
  <2>1. Overview!NamesOmitted(counted) = IF n > NamesListed THEN n - NamesListed ELSE 0
    BY SameCountO DEF Overview!NamesOmitted, S
  <2>2. QED
    BY <1>10, <1>11, <1>12, <1>14, <2>1 DEF NoneTwice
<1>17. Values(list) = {list[i] : i \in DOMAIN list} /\ DOMAIN counted = K
  BY DEF Values
<1>18. QED
  BY <1>15, <1>16, <1>17, SameCountO DEF Overview!ListsMostFrequent, list, S

\* The overview is right by what was kept.
LEMMA OverviewRight ==
  ASSUME OverviewTypes, CountInv, FailInv, EndInv
  PROVE  Overview!WorstFirst /\ Overview!OmissionsCounted /\ Overview!CountsCoverLog
<1> DEFINE failed == Overview!Failed
           shown == Overview!Evidence
<1>1. /\ DOMAIN events = 1..Len(events) /\ Len(events) \in Nat /\ IsFiniteSet(DOMAIN events)
  <2>1. IsFiniteSet(1..Len(events))
    BY FS_Interval DEF OverviewTypes
  <2>2. QED
    BY <2>1 DEF OverviewTypes
<1>2. /\ failed \subseteq DOMAIN events /\ Overview!Ended \subseteq DOMAIN events
      /\ IsFiniteSet(failed) /\ Cardinality(failed) \in Nat /\ Cardinality(Overview!Ended) \in Nat
  <2>1. failed \subseteq DOMAIN events /\ Overview!Ended \subseteq DOMAIN events
    BY DEF Overview!Failed, Overview!Ended
  <2>2. QED
    BY <1>1, <2>1, FS_Subset, FS_CardinalityType
<1>3. Overview!FailureCount = Cardinality(failed) /\ (Overview!FailureCount > 0 <=> failed # {})
  BY <1>2, FS_EmptySet DEF CountInv, Overview!FailureCount
<1>4. ASSUME failed # {} PROVE Overview!WorstFirst /\ Overview!OmissionsCounted
  <2>1. shown = [k \in DOMAIN failures |-> failures[k][2]]
    BY <1>3, <1>4 DEF Overview!Evidence
  <2>2. DOMAIN shown = DOMAIN failures /\ Len(shown) = Len(failures) /\ Len(shown) \in Nat
    BY <2>1 DEF OverviewTypes
  <2>3. \A k \in DOMAIN failures :
          /\ shown[k] \in failed /\ failures[k] = <<events[shown[k]].priority, shown[k]>>
    BY <2>1 DEF FailInv, Weight
  <2> HIDE DEF shown
  <2>4. Values(shown) \subseteq failed
    BY <2>2, <2>3 DEF Values
  <2>5. \A i, j \in DOMAIN shown : i < j => Overview!Worse(shown[i], shown[j])
    BY <2>2, <2>3 DEF FailInv, Overview!Worse
  <2>6. ASSUME NEW l \in failed \ Values(shown)
        PROVE  Len(shown) = EvidenceKept /\ \A i \in DOMAIN shown : Overview!Worse(shown[i], l)
    <3>1. ~Among(Weight(events, l), failures)
      <4> SUFFICES ASSUME NEW k \in DOMAIN failures, failures[k] = Weight(events, l) PROVE FALSE
        BY DEF Among
      <4>1. shown[k] = l
        BY <2>3 DEF Weight
      <4>2. QED
        BY <2>2, <2>6, <4>1 DEF Values
    <3>2. /\ Len(failures) = EvidenceKept
          /\ \A k \in DOMAIN failures : Overview!Before(failures[k], Weight(events, l))
      BY <3>1 DEF FailInv
    <3>3. QED
      BY <2>2, <2>3, <3>2 DEF Overview!Worse, Weight
  <2>7. Overview!Found = failed
    BY <1>4 DEF Overview!Found
  <2>8. Len(shown) + Overview!Omitted = Cardinality(failed)
    BY <1>2, <1>3, <1>4, <2>2 DEF Overview!Omitted, shown
  <2>9. Overview!ToSet(shown) = Values(shown)
    BY DEF Overview!ToSet, Values
  <2>10. Overview!WorstFirst
    BY <2>4, <2>5, <2>6, <2>7, <2>9 DEF Overview!WorstFirst, shown
  <2>11. Overview!OmissionsCounted
    BY <2>7, <2>8, SameCountO DEF Overview!OmissionsCounted, shown
  <2>12. QED
    BY <2>10, <2>11
<1>5. ASSUME failed = {} PROVE Overview!WorstFirst /\ Overview!OmissionsCounted
  <2>1. shown = endings /\ endings \in Seq(Nat)
    BY <1>3, <1>5 DEF Overview!Evidence, OverviewTypes
  <2>2. DOMAIN shown = DOMAIN endings /\ Len(shown) = Len(endings) /\ Len(shown) \in Nat
    BY <2>1
  <2> HIDE DEF shown
  <2>3. \A i, j \in Overview!Ended : i < j => Overview!Worse(i, j)
    BY DEF Overview!Worse, Overview!Before, Overview!Ended
  <2>4. Values(shown) \subseteq Overview!Ended
    BY <2>1 DEF Values, EndInv
  <2>5. \A i, j \in DOMAIN shown : i < j => Overview!Worse(shown[i], shown[j])
    BY <2>1, <2>3 DEF EndInv
  <2>6. ASSUME NEW l \in Overview!Ended \ Values(shown)
        PROVE  Len(shown) = EvidenceKept /\ \A i \in DOMAIN shown : Overview!Worse(shown[i], l)
    <3>1. ~Among(l, endings)
      BY <2>1 DEF Among, Values
    <3>2. Len(endings) = EvidenceKept /\ \A k \in DOMAIN endings : endings[k] < l
      BY <3>1 DEF EndInv
    <3>3. QED
      BY <2>1, <2>3, <3>2 DEF EndInv
  <2>7. Overview!Found = Overview!Ended
    BY <1>5 DEF Overview!Found
  <2>8. Len(shown) + Overview!Omitted = Cardinality(Overview!Ended)
    BY <1>2, <1>3, <1>5, <2>2 DEF Overview!Omitted, CountInv, shown
  <2>9. Overview!ToSet(shown) = Values(shown)
    BY DEF Overview!ToSet, Values
  <2>10. Overview!WorstFirst
    BY <2>4, <2>5, <2>6, <2>7, <2>9 DEF Overview!WorstFirst, shown
  <2>11. Overview!OmissionsCounted
    BY <2>7, <2>8, SameCountO DEF Overview!OmissionsCounted, shown
  <2>12. QED
    BY <2>10, <2>11
<1>6. Overview!CountsCoverLog
  <2>1. \A name \in Overview!Names :
          types[name] = Cardinality({i \in DOMAIN events : events[i].name = name})
    BY DEF CountInv, Named
  <2>2. \A reason \in Overview!Reasons :
          reasons[reason] = Cardinality({i \in DOMAIN events : events[i].reason = reason})
    BY DEF CountInv, Because
  <2>3. Overview!ListsMostFrequent(types) /\ Overview!ListsMostFrequent(reasons)
    BY ListsRight DEF OverviewTypes
  <2>4. QED
    BY <2>1, <2>2, <2>3, SameCountO DEF Overview!CountsCoverLog
<1>7. QED
  BY <1>4, <1>5, <1>6

\* However long the log, and however much is kept of it: an overview shows the
\* worst failures first and counts what it leaves out
\* (SparkInspectionAdapter._inspect).
THEOREM WorstShown == ReadersSpec => []OverviewHonest
<1>1. ReadersInit => OverviewInv
  BY OverviewInit DEF ReadersInit, OverviewInv
<1>2. OverviewInv /\ [ReadersNext]_allVars => OverviewInv'
  <2> SUFFICES ASSUME OverviewInv, [ReadersNext]_allVars, part' = "overview"
               PROVE  OverviewTypes' /\ CountInv' /\ FailInv' /\ EndInv'
    BY DEF OverviewInv
  <2>1. part = "overview" /\ (Overview!Next \/ UNCHANGED <<events, overviewVars>>)
    BY DEF ReadersNext, ReaderStep, RouteStep, OverviewStep, StageStep, TaskStep, allVars
  <2>2. CASE Overview!Next
    BY <2>1, <2>2, OverviewSteps DEF OverviewInv
  <2>3. CASE UNCHANGED <<events, overviewVars>>
    <3>1. /\ events' = events /\ types' = types /\ reasons' = reasons /\ signals' = signals
          /\ failures' = failures /\ endings' = endings /\ ended' = ended
      BY <2>3 DEF overviewVars
    <3>2. /\ Overview!Failed' = Overview!Failed /\ Overview!Ended' = Overview!Ended
          /\ (\A x : Named(x)' = Named(x)) /\ (\A x : Because(x)' = Because(x))
      BY <3>1 DEF Overview!Failed, Overview!Ended, Named, Because
    <3>3. OverviewTypes' /\ CountInv'
      BY <2>1, <3>1, <3>2 DEF OverviewInv, OverviewTypes, CountInv
    <3>4. FailInv' /\ EndInv'
      BY <2>1, <3>1, <3>2 DEF OverviewInv, FailInv, EndInv
    <3>5. QED
      BY <3>3, <3>4
  <2>4. QED
    BY <2>1, <2>2, <2>3
<1>3. OverviewInv => OverviewHonest
  BY OverviewRight DEF OverviewInv, OverviewHonest
<1>4. QED
  BY <1>1, <1>2, <1>3, PTL DEF ReadersSpec

-----------------------------------------------------------------------------
(* The metrics of stages. *)

LEMMA SameCountS ==
  \A S : Stages!Cardinality(S) = Cardinality(S)
  BY DEF Stages!Cardinality, Stages!IsFiniteSet, Cardinality, IsFiniteSet

Moments == (Nat \union {Stages!None}) \X (Nat \union {Stages!None})
Sums == [value : Nat, valid : Nat]
Groups == [submitted : Nat, completed : Nat, submittedTimes : Moments, completedTimes : Moments,
           successful : Nat, nonSuccess : Nat, unknown : Nat, inputs : Sums, shuffle : Sums]

StageTypes ==
  /\ request \in StageAttempts \union {Stages!All} /\ events \in Seq(Stages!Events)
  /\ groups = [ids \in DOMAIN groups |-> groups[ids]]
  /\ IsFiniteSet(DOMAIN groups) /\ DOMAIN groups \subseteq StageAttempts
  /\ \A ids \in DOMAIN groups : request \in {Stages!All, ids}
  /\ \A ids \in DOMAIN groups : groups[ids] \in Groups

\* The lines of an attempt's events of a name.
Of(lines, ids, name) == {i \in DOMAIN lines : lines[i].name = name /\ lines[i].ids = ids}

\* A line is the last of them, with these times; or there is none.
LastIs(line, times, lines, ids, name) ==
  IF line = 0 THEN Of(lines, ids, name) = {} /\ times = <<Stages!None, Stages!None>>
  ELSE /\ line \in Of(lines, ids, name) /\ \A i \in Of(lines, ids, name) : i <= line
       /\ times = lines[line].times

\* The successful tasks of an attempt, and what each line gives to a total.
Successful(lines, ids) == {i \in Of(lines, ids, "TaskEnd") : lines[i].outcome = "success"}
Inputs(lines) == [i \in DOMAIN lines |-> lines[i].input]
Shuffles(lines) == [i \in DOMAIN lines |-> Stages!ShuffleRead(lines[i])]
Given(succ, v) == {i \in succ : v[i] # Stages!None}

\* A total is the sum of what some lines give.
Tally(total, succ, v) ==
  /\ total.valid = Cardinality(Given(succ, v))
  /\ total.value = SumFunctionOnSet(v, Given(succ, v))

TotalsRight(group, lines, ids) ==
  /\ group.successful = Cardinality(Successful(lines, ids))
  /\ Tally(group.inputs, Successful(lines, ids), Inputs(lines))
  /\ Tally(group.shuffle, Successful(lines, ids), Shuffles(lines))

GroupRight(group, lines, ids) ==
  /\ Stages!TaskEnds(group) = Cardinality(Of(lines, ids, "TaskEnd"))
  /\ LastIs(group.submitted, group.submittedTimes, lines, ids, "StageSubmitted")
  /\ LastIs(group.completed, group.completedTimes, lines, ids, "StageCompleted")
  /\ TotalsRight(group, lines, ids)

\* What is kept of an attempt is right, and nothing was seen of one that is not
\* kept.
GroupsInv ==
  /\ unassigned = Cardinality(Of(events, Stages!NoIds, "TaskEnd"))
  /\ \A ids \in DOMAIN groups : GroupRight(groups[ids], events, ids)
  /\ \A ids \in StageAttempts \ DOMAIN groups :
       request \in {Stages!All, ids} => GroupRight(Stages!Empty, events, ids)

StageInv == part = "stages" => StageTypes /\ GroupsInv

LEMMA EventFields ==
  ASSUME NEW e \in Stages!Events
  PROVE  /\ e.ids \in StageAttempts \/ e.ids = Stages!NoIds
         /\ e.name \in {"TaskEnd", "StageSubmitted", "StageCompleted"}
         /\ e.name = "TaskEnd" => /\ e.outcome \in {"success", "non_success", "unknown"}
                                  /\ e.input \in Nat \union {Stages!None}
                                  /\ e.remote \in Nat \union {Stages!None} /\ e.local \in Nat
         /\ e.name # "TaskEnd" => e.times \in Moments
<1>1. CASE e \in Stages!Unassignable
  BY <1>1 DEF Stages!Unassignable, Stages!TasksOf, Stages!StagesOf, Stages!None, Moments
<1>2. CASE \E ids \in StageAttempts : e \in Stages!EventsOf(ids)
  <2>1. PICK ids \in StageAttempts : e \in Stages!EventsOf(ids)
    BY <1>2
  <2>2. e.ids = ids /\ e.name \in {"TaskEnd", "StageSubmitted", "StageCompleted"}
    BY <2>1 DEF Stages!EventsOf, Stages!TasksOf, Stages!StagesOf
  <2>3. e.name = "TaskEnd" => /\ e.outcome \in {"success", "non_success", "unknown"}
                              /\ e.input \in {2, Stages!None} /\ e.remote \in {0, Stages!None}
                              /\ e.local = 1
    BY <2>1 DEF Stages!EventsOf, Stages!TasksOf, Stages!StagesOf
  <2>4. e.name # "TaskEnd" =>
          e.times \in {<<1, Stages!None>>, <<1, 2>>, <<1, 4>>, <<2, 2>>, <<Stages!None, 4>>, <<4, 1>>}
    BY <2>1 DEF Stages!EventsOf, Stages!TasksOf, Stages!StagesOf
  <2>5. QED
    BY <2>2, <2>3, <2>4 DEF Moments
<1>3. e \in Stages!Unassignable \/ \E ids \in StageAttempts : e \in Stages!EventsOf(ids)
  <2>1. e \in UNION {Stages!EventsOf(ids) : ids \in StageAttempts} \/ e \in Stages!Unassignable
    BY DEF Stages!Events
  <2>2. QED
    BY <2>1
<1>4. QED
  BY <1>1, <1>2, <1>3

\* One group is the other with the event of a line.
OneMore(new, g, e, line) ==
  /\ Stages!TaskEnds(new) = Stages!TaskEnds(g) + (IF e.name = "TaskEnd" THEN 1 ELSE 0)
  /\ IF e.name = "StageSubmitted"
     THEN new.submitted = line /\ new.submittedTimes = e.times
     ELSE new.submitted = g.submitted /\ new.submittedTimes = g.submittedTimes
  /\ IF e.name = "StageCompleted"
     THEN new.completed = line /\ new.completedTimes = e.times
     ELSE new.completed = g.completed /\ new.completedTimes = g.completedTimes
  /\ IF e.name = "TaskEnd" /\ e.outcome = "success"
     THEN /\ new.successful = g.successful + 1
          /\ new.inputs = Stages!Add(g.inputs, e.input)
          /\ new.shuffle = Stages!Add(g.shuffle, Stages!ShuffleRead(e))
     ELSE /\ new.successful = g.successful
          /\ new.inputs = g.inputs /\ new.shuffle = g.shuffle

LEMMA GroupStep ==
  ASSUME NEW e \in Stages!Events, NEW g \in Groups, NEW line \in Nat, NEW new,
         new = IF e.name = "TaskEnd" THEN Stages!WithTask(g, e) ELSE Stages!WithStage(g, e, line)
  PROVE  new \in Groups /\ OneMore(new, g, e, line)
<1>1. CASE e.name = "TaskEnd" /\ e.outcome = "success"
  <2> DEFINE inputs == Stages!Add(g.inputs, e.input)
             shuffle == Stages!Add(g.shuffle, Stages!ShuffleRead(e))
  <2>1. new = [g EXCEPT !.successful = @ + 1, !.inputs = inputs, !.shuffle = shuffle]
    BY <1>1 DEF Stages!WithTask, Groups
  <2>2. Stages!ShuffleRead(e) \in Nat \union {Stages!None} /\ e.input \in Nat \union {Stages!None}
    BY <1>1, EventFields DEF Stages!ShuffleRead, Stages!None
  <2>3. \A total \in Sums, value \in Nat \union {Stages!None} : Stages!Add(total, value) \in Sums
    BY DEF Sums, Stages!Add
  <2>4. g.inputs \in Sums /\ g.shuffle \in Sums
    BY DEF Groups
  <2>5. inputs \in Sums /\ shuffle \in Sums
    BY <2>2, <2>3, <2>4
  <2> HIDE DEF inputs, shuffle
  <2>6. new \in Groups /\ new.successful = g.successful + 1 /\ new.nonSuccess = g.nonSuccess
        /\ new.unknown = g.unknown
    <3>1. g.successful + 1 \in Nat
      BY DEF Groups
    <3>2. new \in Groups
      BY <2>1, <2>5, <3>1 DEF Groups
    <3>3. QED
      BY <2>1, <3>2 DEF Groups
  <2>7. /\ new.submitted = g.submitted /\ new.submittedTimes = g.submittedTimes
        /\ new.completed = g.completed /\ new.completedTimes = g.completedTimes
    BY <2>1 DEF Groups
  <2>8. g.successful \in Nat /\ g.nonSuccess \in Nat /\ g.unknown \in Nat
    BY DEF Groups
  <2>9. new.inputs = Stages!Add(g.inputs, e.input)
        /\ new.shuffle = Stages!Add(g.shuffle, Stages!ShuffleRead(e))
    BY <2>1 DEF Groups, inputs, shuffle
  <2>10. QED
    BY <1>1, <2>6, <2>7, <2>8, <2>9 DEF Stages!TaskEnds, OneMore
<1>2. CASE e.name = "TaskEnd" /\ e.outcome = "non_success"
  <2>1. new = [g EXCEPT !.nonSuccess = @ + 1]
    BY <1>2 DEF Stages!WithTask
  <2>2. new \in Groups
    BY <2>1 DEF Groups
  <2>3. /\ new.submitted = g.submitted /\ new.submittedTimes = g.submittedTimes
        /\ new.completed = g.completed /\ new.completedTimes = g.completedTimes
        /\ new.successful = g.successful /\ new.nonSuccess = g.nonSuccess + 1 /\ new.unknown = g.unknown
    BY <2>1 DEF Groups
  <2>4. g.successful \in Nat /\ g.nonSuccess \in Nat /\ g.unknown \in Nat
    BY DEF Groups
  <2>5. new.inputs = g.inputs /\ new.shuffle = g.shuffle
    BY <2>1 DEF Groups
  <2>6. QED
    BY <1>2, <2>2, <2>3, <2>4, <2>5 DEF Stages!TaskEnds, OneMore
<1>3. CASE e.name = "TaskEnd" /\ e.outcome = "unknown"
  <2>1. new = [g EXCEPT !.unknown = @ + 1]
    BY <1>3 DEF Stages!WithTask
  <2>2. new \in Groups
    BY <2>1 DEF Groups
  <2>3. /\ new.submitted = g.submitted /\ new.submittedTimes = g.submittedTimes
        /\ new.completed = g.completed /\ new.completedTimes = g.completedTimes
        /\ new.successful = g.successful /\ new.nonSuccess = g.nonSuccess /\ new.unknown = g.unknown + 1
    BY <2>1 DEF Groups
  <2>4. g.successful \in Nat /\ g.nonSuccess \in Nat /\ g.unknown \in Nat
    BY DEF Groups
  <2>5. new.inputs = g.inputs /\ new.shuffle = g.shuffle
    BY <2>1 DEF Groups
  <2>6. QED
    BY <1>3, <2>2, <2>3, <2>4, <2>5 DEF Stages!TaskEnds, OneMore
<1>4. CASE e.name = "StageSubmitted"
  <2>1. new = [g EXCEPT !.submitted = line, !.submittedTimes = e.times] /\ e.times \in Moments
    BY <1>4, EventFields DEF Stages!WithStage
  <2>2. new \in Groups
    BY <2>1 DEF Groups
  <2>3. /\ new.submitted = line /\ new.submittedTimes = e.times
        /\ new.completed = g.completed /\ new.completedTimes = g.completedTimes
        /\ new.successful = g.successful /\ new.nonSuccess = g.nonSuccess /\ new.unknown = g.unknown
    BY <2>1 DEF Groups
  <2>4. g.successful \in Nat /\ g.nonSuccess \in Nat /\ g.unknown \in Nat
    BY DEF Groups
  <2>5. new.inputs = g.inputs /\ new.shuffle = g.shuffle
    BY <2>1 DEF Groups
  <2>6. QED
    BY <1>4, <2>2, <2>3, <2>4, <2>5 DEF Stages!TaskEnds, OneMore
<1>5. CASE e.name = "StageCompleted"
  <2>1. new = [g EXCEPT !.completed = line, !.completedTimes = e.times] /\ e.times \in Moments
    BY <1>5, EventFields DEF Stages!WithStage
  <2>2. new \in Groups
    BY <2>1 DEF Groups
  <2>3. /\ new.completed = line /\ new.completedTimes = e.times
        /\ new.submitted = g.submitted /\ new.submittedTimes = g.submittedTimes
        /\ new.successful = g.successful /\ new.nonSuccess = g.nonSuccess /\ new.unknown = g.unknown
    BY <2>1 DEF Groups
  <2>4. g.successful \in Nat /\ g.nonSuccess \in Nat /\ g.unknown \in Nat
    BY DEF Groups
  <2>5. new.inputs = g.inputs /\ new.shuffle = g.shuffle
    BY <2>1 DEF Groups
  <2>6. QED
    BY <1>5, <2>2, <2>3, <2>4, <2>5 DEF Stages!TaskEnds, OneMore
<1>6. QED
  BY <1>1, <1>2, <1>3, <1>4, <1>5, EventFields

LEMMA OfCount ==
  ASSUME NEW lines \in Seq(Stages!Events), NEW ids, NEW name
  PROVE  /\ IsFiniteSet(Of(lines, ids, name)) /\ Cardinality(Of(lines, ids, name)) \in Nat
         /\ Of(lines, ids, name) \subseteq 1..Len(lines)
<1>1. IsFiniteSet(1..Len(lines))
  BY FS_Interval
<1>2. Of(lines, ids, name) \subseteq 1..Len(lines)
  BY DEF Of
<1>3. QED
  BY <1>1, <1>2, FS_Subset, FS_CardinalityType

\* The lines of an attempt stay when an event is not one of them.
LEMMA OfOthers ==
  ASSUME NEW lines \in Seq(Stages!Events), NEW e \in Stages!Events, NEW ids, NEW name,
         e.ids # ids \/ e.name # name
  PROVE  /\ Of(Append(lines, e), ids, name) = Of(lines, ids, name)
         /\ \A i \in Of(lines, ids, name) : Append(lines, e)[i] = lines[i]
<1>1. /\ DOMAIN Append(lines, e) = DOMAIN lines \union {Len(lines) + 1} /\ Append(lines, e)[Len(lines) + 1] = e
      /\ \A i \in DOMAIN lines : Append(lines, e)[i] = lines[i]
  OBVIOUS
<1> DEFINE line == Len(lines) + 1
<1> HIDE DEF line
<1>2. DOMAIN Append(lines, e) = DOMAIN lines \union {line} /\ Append(lines, e)[line] = e
  BY <1>1 DEF line
<1>3. QED
  BY <1>1, <1>2 DEF Of

\* And grow by it when it is.
LEMMA OfOwn ==
  ASSUME NEW lines \in Seq(Stages!Events), NEW e \in Stages!Events, NEW ids, NEW name,
         e.ids = ids, e.name = name,
         NEW line, line = Len(lines) + 1
  PROVE  /\ Of(Append(lines, e), ids, name) = Of(lines, ids, name) \union {line}
         /\ Cardinality(Of(Append(lines, e), ids, name)) = Cardinality(Of(lines, ids, name)) + 1
         /\ \A i \in Of(lines, ids, name) : i < line
         /\ Append(lines, e)[line] = e /\ line \in Nat /\ line # 0
<1>1. /\ DOMAIN Append(lines, e) = DOMAIN lines \union {line} /\ Append(lines, e)[line] = e
      /\ \A i \in DOMAIN lines : Append(lines, e)[i] = lines[i] /\ i < line
      /\ line \in Nat /\ line # 0
  OBVIOUS
<1>2. Of(Append(lines, e), ids, name) = Of(lines, ids, name) \union {line}
  BY ONLY <1>1, e.ids = ids, e.name = name DEF Of
<1>3. \A i \in Of(lines, ids, name) : i < line
  BY <1>1 DEF Of
<1>4. line \notin Of(lines, ids, name)
  BY <1>1, <1>3
<1>5. Cardinality(Of(Append(lines, e), ids, name)) = Cardinality(Of(lines, ids, name)) + 1
  <2>1. IsFiniteSet(Of(lines, ids, name))
    BY OfCount
  <2> DEFINE those == Of(lines, ids, name)
  <2>2. IsFiniteSet(those) /\ line \notin those
    BY <1>4, <2>1
  <2> HIDE DEF those
  <2>3. Cardinality(those \union {line}) = Cardinality(those) + 1
    BY <2>2, FS_AddElement
  <2>4. QED
    BY <1>2, <2>3, Zenon DEF those
<1>6. QED
  BY <1>1, <1>2, <1>3, <1>5

\* The community module's sum is the same through an instance.
LEMMA SumThere ==
  ASSUME NEW v, NEW S PROVE Stages!SumFunctionOnSet(v, S) = SumFunctionOnSet(v, S)
  BY DEF Stages!SumFunctionOnSet, Stages!FoldFunctionOnSet, Stages!MapThenFoldSet,
         SumFunctionOnSet, FoldFunctionOnSet, MapThenFoldSet

\* A tally of the same lines is the same.
LEMMA TallySame ==
  ASSUME NEW total, NEW succ, IsFiniteSet(succ), NEW v, NEW w, \A i \in succ : v[i] = w[i],
         Tally(total, succ, v)
  PROVE  Tally(total, succ, w)
<1>1. Given(succ, v) = Given(succ, w) /\ IsFiniteSet(Given(succ, v))
  BY FS_Subset DEF Given
<1>2. \A i \in Given(succ, v) : v[i] = w[i]
  BY DEF Given
<1>3. SumFunctionOnSet(v, Given(succ, v)) = SumFunctionOnSet(w, Given(succ, v))
  BY <1>1, <1>2, SumSame
<1>4. QED
  BY <1>1, <1>3 DEF Tally

\* A line more adds what it gives.
LEMMA TallyMore ==
  ASSUME NEW total \in Sums, NEW succ, IsFiniteSet(succ), NEW line, line \notin succ, NEW v,
         \A i \in succ \union {line} : v[i] \in Nat \union {Stages!None},
         Tally(total, succ, v)
  PROVE  Tally(Stages!Add(total, v[line]), succ \union {line}, v)
<1> DEFINE has == Given(succ, v)
<1>1. IsFiniteSet(has) /\ line \notin has /\ \A i \in has : v[i] \in Nat
  BY FS_Subset DEF Given
<1>2. total.valid = Cardinality(has) /\ total.value = SumFunctionOnSet(v, has)
  BY DEF Tally
<1>3. total.value \in Nat /\ total.valid \in Nat
  BY DEF Sums
<1>4. CASE v[line] = Stages!None
  <2>1. Given(succ \union {line}, v) = has
    BY <1>4 DEF Given
  <2>2. Stages!Add(total, v[line]) = total
    BY <1>4 DEF Stages!Add
  <2>3. QED
    BY <1>2, <2>1, <2>2 DEF Tally
<1>5. CASE v[line] # Stages!None
  <2>1. Given(succ \union {line}, v) = has \union {line}
    BY <1>5 DEF Given
  <2>2. Stages!Add(total, v[line]) = [value |-> total.value + v[line], valid |-> total.valid + 1]
    BY <1>5 DEF Stages!Add
  <2>3. v[line] \in Nat
    BY <1>5
  <2> HIDE DEF has
  <2>4. Cardinality(has \union {line}) = Cardinality(has) + 1
    BY <1>1, FS_AddElement
  <2>5. SumFunctionOnSet(v, has \union {line}) = v[line] + SumFunctionOnSet(v, has)
    <3>1. \A i \in has \union {line} : v[i] \in Nat
      BY <1>1, <2>3
    <3>2. QED
      BY <1>1, <3>1, SumWith
  <2>6. total.value + v[line] = v[line] + total.value
    BY <1>3, <2>3
  <2>7. QED
    BY <1>2, <2>1, <2>2, <2>4, <2>5, <2>6 DEF Tally
<1>6. QED
  BY <1>4, <1>5

LEMMA SuccessfulFinite ==
  ASSUME NEW lines \in Seq(Stages!Events), NEW ids
  PROVE  /\ IsFiniteSet(Successful(lines, ids)) /\ Successful(lines, ids) \subseteq DOMAIN lines
         /\ \A i \in Successful(lines, ids) :
              /\ Inputs(lines)[i] \in Nat \union {Stages!None}
              /\ Shuffles(lines)[i] \in Nat \union {Stages!None}
<1>1. IsFiniteSet(Of(lines, ids, "TaskEnd"))
  BY OfCount
<1>2. IsFiniteSet(Successful(lines, ids))
  BY <1>1, FS_Subset DEF Successful
<1>3. ASSUME NEW i \in Successful(lines, ids)
      PROVE  /\ Inputs(lines)[i] \in Nat \union {Stages!None}
             /\ Shuffles(lines)[i] \in Nat \union {Stages!None}
  <2>1. i \in DOMAIN lines /\ lines[i] \in Stages!Events /\ lines[i].name = "TaskEnd"
    BY DEF Successful, Of
  <2>2. /\ lines[i].input \in Nat \union {Stages!None}
        /\ lines[i].remote \in Nat \union {Stages!None} /\ lines[i].local \in Nat
    BY <2>1, EventFields
  <2>3. QED
    BY <2>1, <2>2 DEF Inputs, Shuffles, Stages!ShuffleRead, Stages!None
<1>4. QED
  BY <1>2, <1>3 DEF Successful, Of

\* An event that is no successful task of an attempt leaves its totals.
LEMMA TotalsStay ==
  ASSUME NEW lines \in Seq(Stages!Events), NEW e \in Stages!Events, NEW ids, NEW g, NEW new,
         e.ids # ids \/ e.name # "TaskEnd" \/ e.outcome # "success",
         new.successful = g.successful, new.inputs = g.inputs, new.shuffle = g.shuffle,
         TotalsRight(g, lines, ids)
  PROVE  TotalsRight(new, Append(lines, e), ids)
<1> DEFINE more == Append(lines, e)
           succ == Successful(lines, ids)
           line == Len(lines) + 1
<1>1. /\ DOMAIN more = DOMAIN lines \union {line} /\ more[line] = e
      /\ \A i \in DOMAIN lines : more[i] = lines[i]
  OBVIOUS
<1> HIDE DEF more, line
<1>2. Successful(more, ids) = succ
  BY <1>1 DEF Successful, Of
<1>3. succ \subseteq DOMAIN lines /\ IsFiniteSet(succ)
  BY SuccessfulFinite
<1>4. \A i \in succ : Inputs(more)[i] = Inputs(lines)[i]
  BY <1>1, <1>3 DEF Inputs
<1>5. \A i \in succ : Shuffles(more)[i] = Shuffles(lines)[i]
  BY <1>1, <1>3 DEF Shuffles
<1> HIDE DEF succ
<1>6. Tally(g.inputs, succ, Inputs(lines)) /\ Tally(g.shuffle, succ, Shuffles(lines))
      /\ g.successful = Cardinality(succ)
  BY DEF TotalsRight, succ
<1>7. Tally(new.inputs, succ, Inputs(more))
  BY <1>3, <1>4, <1>6, TallySame
<1>8. Tally(new.shuffle, succ, Shuffles(more))
  BY <1>3, <1>5, <1>6, TallySame
<1>9. QED
  BY <1>2, <1>6, <1>7, <1>8 DEF TotalsRight, more

\* One that is adds to them.
LEMMA TotalsGrow ==
  ASSUME NEW lines \in Seq(Stages!Events), NEW e \in Stages!Events, NEW ids, NEW g \in Groups,
         NEW new, e.ids = ids, e.name = "TaskEnd", e.outcome = "success",
         new.successful = g.successful + 1, new.inputs = Stages!Add(g.inputs, e.input),
         new.shuffle = Stages!Add(g.shuffle, Stages!ShuffleRead(e)),
         TotalsRight(g, lines, ids)
  PROVE  TotalsRight(new, Append(lines, e), ids)
<1> DEFINE more == Append(lines, e)
           succ == Successful(lines, ids)
           line == Len(lines) + 1
<1>1. /\ DOMAIN more = DOMAIN lines \union {line} /\ more[line] = e /\ line \notin DOMAIN lines
      /\ \A i \in DOMAIN lines : more[i] = lines[i]
  OBVIOUS
<1>2. more \in Seq(Stages!Events)
  OBVIOUS
<1> HIDE DEF more, line
<1>3. Successful(more, ids) = succ \union {line}
  BY <1>1 DEF Successful, Of
<1>4. succ \subseteq DOMAIN lines /\ IsFiniteSet(succ) /\ line \notin succ
  BY <1>1, SuccessfulFinite
<1>5. \A i \in succ : Inputs(more)[i] = Inputs(lines)[i]
  BY <1>1, <1>4 DEF Inputs
<1>6. \A i \in succ : Shuffles(more)[i] = Shuffles(lines)[i]
  BY <1>1, <1>4 DEF Shuffles
<1>7. Inputs(more)[line] = e.input /\ Shuffles(more)[line] = Stages!ShuffleRead(e)
  BY <1>1 DEF Inputs, Shuffles
<1>8. \A i \in succ \union {line} : /\ Inputs(more)[i] \in Nat \union {Stages!None}
                                   /\ Shuffles(more)[i] \in Nat \union {Stages!None}
  BY <1>2, <1>3, SuccessfulFinite
<1>9. /\ Tally(g.inputs, succ, Inputs(lines)) /\ Tally(g.shuffle, succ, Shuffles(lines))
      /\ g.successful = Cardinality(succ) /\ g.inputs \in Sums /\ g.shuffle \in Sums
  BY DEF TotalsRight, Groups
<1> HIDE DEF succ
<1>10. Tally(g.inputs, succ, Inputs(more)) /\ Tally(g.shuffle, succ, Shuffles(more))
  <2>1. Tally(g.inputs, succ, Inputs(more))
    BY <1>4, <1>5, <1>9, TallySame
  <2>2. Tally(g.shuffle, succ, Shuffles(more))
    BY <1>4, <1>6, <1>9, TallySame
  <2>3. QED
    BY <2>1, <2>2
<1>11. Tally(new.inputs, succ \union {line}, Inputs(more))
  <2>1. \A i \in succ \union {line} : Inputs(more)[i] \in Nat \union {Stages!None}
    BY <1>8
  <2>2. Tally(Stages!Add(g.inputs, Inputs(more)[line]), succ \union {line}, Inputs(more))
    BY <1>4, <1>9, <1>10, <2>1, TallyMore
  <2>3. QED
    BY <1>7, <2>2
<1>12. Tally(new.shuffle, succ \union {line}, Shuffles(more))
  <2>1. \A i \in succ \union {line} : Shuffles(more)[i] \in Nat \union {Stages!None}
    BY <1>8
  <2>2. Tally(Stages!Add(g.shuffle, Shuffles(more)[line]), succ \union {line}, Shuffles(more))
    BY <1>4, <1>9, <1>10, <2>1, TallyMore
  <2>3. QED
    BY <1>7, <2>2
<1>13. Cardinality(succ \union {line}) = new.successful
  <2>1. Cardinality(succ \union {line}) = Cardinality(succ) + 1
    BY <1>4, FS_AddElement
  <2>2. QED
    BY <1>9, <2>1
<1>14. QED
  BY <1>3, <1>11, <1>12, <1>13 DEF TotalsRight, more

\* What an answer says of a total follows.
LEMMA TallyHonest ==
  ASSUME NEW ids, NEW total, NEW n, NEW v, StageTypes, n = Cardinality(Successful(events, ids)),
         Tally(total, Successful(events, ids), v),
         \A i \in Successful(events, ids) : v[i] \in Nat \union {Stages!None}
  PROVE  LET m == Stages!MetricTotal(total, n)
             has == Given(Successful(events, ids), v)
         IN  /\ m.valid = Stages!Cardinality(has)
             /\ m.missing = Stages!Cardinality(Successful(events, ids)) - Stages!Cardinality(has)
             /\ m.total = IF has = {} THEN Stages!None
                          ELSE Stages!SumFunctionOnSet([i \in has |-> v[i]], has)
<1> DEFINE m == Stages!MetricTotal(total, n)
           succ == Successful(events, ids)
           has == Given(succ, v)
<1>1. IsFiniteSet(succ)
  BY SuccessfulFinite DEF StageTypes
<1>2. IsFiniteSet(has)
  BY <1>1, FS_Subset DEF Given
<1>3. total.valid = Cardinality(has) /\ total.value = SumFunctionOnSet(v, has)
  BY DEF Tally
<1>4. Cardinality(has) \in Nat /\ (Cardinality(has) = 0 <=> has = {})
  BY <1>2, FS_CardinalityType, FS_EmptySet
<1>5. Stages!SumFunctionOnSet([i \in has |-> v[i]], has) = SumFunctionOnSet(v, has)
  <2> DEFINE u == [i \in has |-> v[i]]
  <2>1. \A i \in has : u[i] = v[i]
    OBVIOUS
  <2> HIDE DEF u, has
  <2>2. SumFunctionOnSet(u, has) = SumFunctionOnSet(v, has)
    BY <1>2, <2>1, SumSame
  <2>3. QED
    BY <2>2, SumThere DEF u
<1>6. m.valid = total.valid /\ m.missing = n - total.valid
      /\ m.total = IF total.valid > 0 THEN total.value ELSE Stages!None
  BY DEF Stages!MetricTotal
<1> HIDE DEF m, has
<1>7. m.total = IF has = {} THEN Stages!None
                ELSE Stages!SumFunctionOnSet([i \in has |-> v[i]], has)
  BY <1>3, <1>4, <1>5, <1>6
<1>8. Stages!Cardinality(has) = Cardinality(has) /\ Stages!Cardinality(succ) = Cardinality(succ)
  BY SameCountS
<1>9. QED
  BY <1>3, <1>6, <1>7, <1>8 DEF m, has

\* What is right of an attempt stays right when an event is another's.
LEMMA StaysRight ==
  ASSUME NEW lines \in Seq(Stages!Events), NEW e \in Stages!Events, NEW ids,
         NEW g \in Groups, e.ids # ids,
         GroupRight(g, lines, ids)
  PROVE  GroupRight(g, Append(lines, e), ids)
<1> DEFINE more == Append(lines, e)
<1>1. \A name : Of(more, ids, name) = Of(lines, ids, name)
  BY OfOthers
<1>2. \A i \in DOMAIN lines : more[i] = lines[i]
  OBVIOUS
<1>3. TotalsRight(g, more, ids)
  BY TotalsStay DEF GroupRight
<1> HIDE DEF more
<1>4. \A name : \A i \in Of(lines, ids, name) : more[i] = lines[i]
  BY <1>2 DEF Of
<1>5. ASSUME NEW line, NEW times, NEW name, LastIs(line, times, lines, ids, name)
      PROVE  LastIs(line, times, more, ids, name)
  BY <1>1, <1>4, <1>5 DEF LastIs
<1>6. GroupRight(g, more, ids)
  BY <1>1, <1>3, <1>5 DEF GroupRight
<1>7. QED
  BY <1>6 DEF more

\* And grows right when it is its own.
LEMMA GrowsRight ==
  ASSUME NEW lines \in Seq(Stages!Events), NEW e \in Stages!Events, NEW ids,
         NEW g \in Groups, e.ids = ids,
         GroupRight(g, lines, ids), NEW new,
         new = IF e.name = "TaskEnd" THEN Stages!WithTask(g, e)
               ELSE Stages!WithStage(g, e, Len(lines) + 1)
  PROVE  new \in Groups /\ GroupRight(new, Append(lines, e), ids)
<1> DEFINE line == Len(lines) + 1
<1>1. /\ line \in Nat /\ line # 0 /\ Append(lines, e)[line] = e
      /\ Of(Append(lines, e), ids, e.name) = Of(lines, ids, e.name) \union {line}
      /\ Cardinality(Of(Append(lines, e), ids, e.name)) = Cardinality(Of(lines, ids, e.name)) + 1
      /\ \A i \in Of(lines, ids, e.name) : i < line
  BY OfOwn
<1>2. Cardinality(Of(lines, ids, "TaskEnd")) \in Nat
  BY OfCount
<1>3. new \in Groups /\ OneMore(new, g, e, line)
  <2>1. new = IF e.name = "TaskEnd" THEN Stages!WithTask(g, e) ELSE Stages!WithStage(g, e, line)
    OBVIOUS
  <2> HIDE DEF line
  <2>2. QED
    BY <1>1, <2>1, GroupStep
<1>4. \A i \in Of(lines, ids, e.name) : i \in Nat
  BY DEF Of
<1> HIDE DEF line
<1>5. ASSUME NEW l, NEW times, NEW name, e.name # name, LastIs(l, times, lines, ids, name)
      PROVE  LastIs(l, times, Append(lines, e), ids, name)
  <2> DEFINE more == Append(lines, e)
  <2>1. Of(more, ids, name) = Of(lines, ids, name)
    BY <1>5, OfOthers
  <2>2. \A i \in Of(lines, ids, name) : more[i] = lines[i]
    BY DEF Of
  <2> HIDE DEF more
  <2>3. LastIs(l, times, more, ids, name)
    BY <1>5, <2>1, <2>2 DEF LastIs
  <2>4. QED
    BY <2>3 DEF more
<1>6. LastIs(line, e.times, Append(lines, e), ids, e.name)
  <2>1. \A i \in Of(Append(lines, e), ids, e.name) : i <= line
    BY <1>1, <1>4
  <2>2. QED
    BY <1>1, <2>1 DEF LastIs
<1>7. Stages!TaskEnds(new) = Cardinality(Of(Append(lines, e), ids, "TaskEnd"))
  <2>1. CASE e.name = "TaskEnd"
    BY <1>1, <1>3, <2>1 DEF GroupRight, OneMore
  <2>2. CASE e.name # "TaskEnd"
    <3>1. Of(Append(lines, e), ids, "TaskEnd") = Of(lines, ids, "TaskEnd")
      BY <2>2, OfOthers
    <3>2. Stages!TaskEnds(new) = Stages!TaskEnds(g) + 0
      BY <1>3, <2>2 DEF OneMore
    <3>3. Stages!TaskEnds(g) = Cardinality(Of(lines, ids, "TaskEnd"))
      BY DEF GroupRight
    <3>4. QED
      BY <1>2, <3>1, <3>2, <3>3
  <2>3. QED
    BY <2>1, <2>2
<1>8. LastIs(new.submitted, new.submittedTimes, Append(lines, e), ids, "StageSubmitted")
  BY <1>3, <1>5, <1>6 DEF GroupRight, OneMore
<1>9. LastIs(new.completed, new.completedTimes, Append(lines, e), ids, "StageCompleted")
  BY <1>3, <1>5, <1>6 DEF GroupRight, OneMore
<1>10. TotalsRight(new, Append(lines, e), ids)
  <2>1. CASE e.name = "TaskEnd" /\ e.outcome = "success"
    BY <1>3, <2>1, TotalsGrow DEF GroupRight, OneMore
  <2>2. CASE ~(e.name = "TaskEnd" /\ e.outcome = "success")
    BY <1>3, <2>2, TotalsStay DEF GroupRight, OneMore
  <2>3. QED
    BY <2>1, <2>2
<1>11. QED
  BY <1>3, <1>7, <1>8, <1>9, <1>10 DEF GroupRight

LEMMA EmptyGroup ==
  Stages!Empty \in Groups
  BY DEF Stages!Empty, Groups, Moments, Sums, Stages!None

LEMMA StageInit ==
  ASSUME Stages!Init
  PROVE  StageTypes /\ GroupsInv
<1>1. /\ events = <<>> /\ unassigned = 0 /\ request \in StageAttempts \union {Stages!All}
      /\ DOMAIN groups = {} /\ groups = [ids \in DOMAIN groups |-> groups[ids]]
  BY DEF Stages!Init
<1>2. \A ids, name : Of(events, ids, name) = {}
  BY <1>1 DEF Of
<1>3. Stages!TaskEnds(Stages!Empty) = 0
  BY DEF Stages!TaskEnds, Stages!Empty
<1>4. \A ids : GroupRight(Stages!Empty, events, ids)
  <2>1. ASSUME NEW v PROVE Given({}, v) = {} /\ Tally([value |-> 0, valid |-> 0], {}, v)
    <3>1. Given({}, v) = {}
      BY DEF Given
    <3>2. QED
      BY <3>1, SumEmpty, FS_EmptySet DEF Tally
  <2>2. \A ids : Successful(events, ids) = {}
    BY <1>2 DEF Successful
  <2>3. \A ids : TotalsRight(Stages!Empty, events, ids)
    BY <2>1, <2>2, FS_EmptySet DEF TotalsRight, Stages!Empty
  <2>4. \A ids :
          /\ LastIs(Stages!Empty.submitted, Stages!Empty.submittedTimes, events, ids, "StageSubmitted")
          /\ LastIs(Stages!Empty.completed, Stages!Empty.completedTimes, events, ids, "StageCompleted")
    BY <1>2 DEF LastIs, Stages!Empty
  <2>5. QED
    BY <1>2, <1>3, <2>3, <2>4, FS_EmptySet DEF GroupRight
<1>5. QED
  BY <1>1, <1>2, <1>4, FS_EmptySet DEF StageTypes, GroupsInv

LEMMA StageSteps ==
  ASSUME StageTypes, GroupsInv, Stages!Next
  PROVE  StageTypes' /\ GroupsInv'
<1>1. PICK e \in Stages!Events : Stages!Visit(e)
  BY DEF Stages!Next
<1> DEFINE old == IF e.ids \in DOMAIN groups THEN groups[e.ids] ELSE Stages!Empty
           new == IF e.name = "TaskEnd" THEN Stages!WithTask(old, e)
                  ELSE Stages!WithStage(old, e, Len(events) + 1)
<1>2. /\ events' = Append(events, e) /\ request' = request /\ events \in Seq(Stages!Events)
      /\ events' \in Seq(Stages!Events)
  BY <1>1 DEF Stages!Visit, StageTypes
<1>3. Stages!NoIds \notin StageAttempts
  BY ListsAssumption DEF Stages!NoIds, Stages!None
<1>4. \A ids \in DOMAIN groups : groups[ids] \in Groups /\ ids \in StageAttempts
  BY DEF StageTypes
<1>5. CASE e.ids = Stages!NoIds
  <2>1. /\ unassigned' = IF e.name = "TaskEnd" THEN unassigned + 1 ELSE unassigned
        /\ groups' = groups
    BY <1>1, <1>5 DEF Stages!Visit
  <2>2. unassigned' = Cardinality(Of(events', Stages!NoIds, "TaskEnd"))
    <3>1. unassigned = Cardinality(Of(events, Stages!NoIds, "TaskEnd"))
      BY DEF GroupsInv
    <3>2. CASE e.name = "TaskEnd"
      BY <1>2, <1>5, <2>1, <3>1, <3>2, OfOwn
    <3>3. CASE e.name # "TaskEnd"
      BY <1>2, <2>1, <3>1, <3>3, OfOthers
    <3>4. QED
      BY <3>2, <3>3
  <2>3. \A ids \in DOMAIN groups : GroupRight(groups[ids], events', ids)
    BY <1>2, <1>3, <1>4, <1>5, StaysRight DEF GroupsInv
  <2>4. \A ids \in StageAttempts \ DOMAIN groups :
          request \in {Stages!All, ids} => GroupRight(Stages!Empty, events', ids)
    BY <1>2, <1>3, <1>5, StaysRight, EmptyGroup DEF GroupsInv
  <2>5. QED
    BY <1>2, <2>1, <2>2, <2>3, <2>4 DEF StageTypes, GroupsInv
<1>6. CASE e.ids # Stages!NoIds
  <2>1. e.ids \in StageAttempts
    BY <1>6, EventFields
  <2>2. /\ unassigned' = unassigned
        /\ groups' = [ids \in Stages!Grouped(e) \union DOMAIN groups |->
                        IF ids \in Stages!Grouped(e) THEN new ELSE groups[ids]]
    BY <1>1, <1>6 DEF Stages!Visit
  <2>3. unassigned' = Cardinality(Of(events', Stages!NoIds, "TaskEnd"))
    <3>1. Of(events', Stages!NoIds, "TaskEnd") = Of(events, Stages!NoIds, "TaskEnd")
      BY <1>2, <1>6, OfOthers
    <3>2. QED
      BY <2>2, <3>1 DEF GroupsInv
  <2>4. Stages!Grouped(e) = IF request \in {Stages!All, e.ids} THEN {e.ids} ELSE {}
    BY DEF Stages!Grouped
  <2>5. request \in {Stages!All, e.ids} => new \in Groups /\ GroupRight(new, events', e.ids)
    <3>1. old \in Groups
      BY <1>4, EmptyGroup
    <3>2. request \in {Stages!All, e.ids} => GroupRight(old, events, e.ids)
      BY <2>1 DEF GroupsInv
    <3> HIDE DEF old
    <3>3. QED
      BY <1>2, <3>1, <3>2, GrowsRight
  <2> HIDE DEF new, old
  <2>6. \A ids \in StageAttempts \ {e.ids}, g \in Groups :
          GroupRight(g, events, ids) => GroupRight(g, events', ids)
    BY <1>2, StaysRight
  <2>7. ASSUME NEW ids \in DOMAIN groups'
        PROVE  /\ request \in {Stages!All, ids}
               /\ ids \in StageAttempts /\ groups'[ids] \in Groups
               /\ GroupRight(groups'[ids], events', ids)
    <3>1. CASE ids \in Stages!Grouped(e)
      BY <2>1, <2>2, <2>4, <2>5, <3>1
    <3>2. CASE ids \notin Stages!Grouped(e)
      <4>1. ids \in DOMAIN groups /\ groups'[ids] = groups[ids]
        BY <2>2, <3>2
      <4>2. GroupRight(groups[ids], events, ids)
        BY <4>1 DEF GroupsInv
      <4>3. ids # e.ids
        BY <2>4, <3>2, <4>1 DEF StageTypes
      <4>4. QED
        BY <1>4, <2>6, <4>1, <4>2, <4>3 DEF StageTypes
    <3>3. QED
      BY <3>1, <3>2
  <2>8. ASSUME NEW ids \in StageAttempts \ DOMAIN groups', request \in {Stages!All, ids}
        PROVE  GroupRight(Stages!Empty, events', ids)
    <3>1. ids \notin DOMAIN groups /\ ids # e.ids
      BY <2>2, <2>4, <2>8
    <3>2. QED
      BY <2>6, <2>8, <3>1, EmptyGroup DEF GroupsInv
  <2>9. groups' = [ids \in DOMAIN groups' |-> groups'[ids]]
    BY <2>2
  <2>10. StageTypes'
    <3>1. IsFiniteSet(DOMAIN groups \union {e.ids}) /\ IsFiniteSet(DOMAIN groups)
      BY FS_AddElement DEF StageTypes
    <3>2. DOMAIN groups' = DOMAIN groups \/ DOMAIN groups' = DOMAIN groups \union {e.ids}
      BY <2>2, <2>4
    <3>3. IsFiniteSet(DOMAIN groups')
      BY <3>1, <3>2
    <3>4. QED
      BY <1>2, <2>7, <2>9, <3>3 DEF StageTypes
  <2>11. GroupsInv'
    BY <1>2, <2>3, <2>7, <2>8 DEF GroupsInv
  <2>12. QED
    BY <2>10, <2>11
<1>7. QED
  BY <1>5, <1>6

LEMMA StageIndexes ==
  ASSUME StageTypes
  PROVE  \A ids :
    /\ Stages!Tasks(ids) = Of(events, ids, "TaskEnd")
    /\ {i \in DOMAIN events : events[i].ids = ids /\ events[i].name # "TaskEnd"} =
         Of(events, ids, "StageSubmitted") \union Of(events, ids, "StageCompleted")
<1>1. \A i \in DOMAIN events : events[i] \in Stages!Events
  BY DEF StageTypes
<1>2. \A i \in DOMAIN events :
        events[i].name \in {"TaskEnd", "StageSubmitted", "StageCompleted"}
  BY <1>1, EventFields
<1>3. QED
  BY <1>2 DEF Stages!Tasks, Stages!Indexes, Of

LEMMA StagesAccounted ==
  ASSUME StageTypes, GroupsInv
  PROVE  Stages!TasksAccounted
<1>1. unassigned = Stages!Cardinality(Stages!Tasks(Stages!NoIds))
  BY StageIndexes, SameCountS DEF GroupsInv
<1>2. ASSUME NEW ids \in StageAttempts, request \in {Stages!All, ids}
      PROVE  (IF ids \in DOMAIN groups THEN Stages!TaskEnds(groups[ids]) ELSE 0)
               = Stages!Cardinality(Stages!Tasks(ids))
  <2>1. Stages!TaskEnds(Stages!Empty) = 0
    BY DEF Stages!TaskEnds, Stages!Empty
  <2>2. Stages!Cardinality(Stages!Tasks(ids)) = Cardinality(Of(events, ids, "TaskEnd"))
    BY StageIndexes, SameCountS
  <2>3. CASE ids \in DOMAIN groups
    BY <2>2, <2>3 DEF GroupsInv, GroupRight
  <2>4. CASE ids \notin DOMAIN groups
    BY <1>2, <2>1, <2>2, <2>4 DEF GroupsInv, GroupRight
  <2>5. QED
    BY <2>3, <2>4
<1>3. QED
  BY <1>1, <1>2 DEF Stages!TasksAccounted


LEMMA StageTimes ==
  ASSUME StageTypes, GroupsInv
  PROVE  Stages!TimesOfOneEvent
<1> DEFINE Untasked(ids) == {i \in DOMAIN events : events[i].ids = ids /\ events[i].name # "TaskEnd"}
           done(ids) == {i \in Untasked(ids) : events[i].name = "StageCompleted"}
           from(ids) == IF done(ids) = {} THEN Untasked(ids) ELSE done(ids)
           right(ids) ==
             IF from(ids) = {} THEN Stages!Times(groups[ids]) = <<Stages!None, Stages!None>>
             ELSE \E last \in from(ids) : /\ \A i \in from(ids) : i <= last
                                         /\ Stages!Times(groups[ids]) = events[last].times
<1>1. ASSUME NEW ids \in DOMAIN groups PROVE right(ids)
  <2> DEFINE g == groups[ids]
             S == Of(events, ids, "StageSubmitted")
             C == Of(events, ids, "StageCompleted")
  <2>1. LastIs(g.submitted, g.submittedTimes, events, ids, "StageSubmitted")
    BY DEF GroupsInv, GroupRight
  <2>2. LastIs(g.completed, g.completedTimes, events, ids, "StageCompleted")
    BY DEF GroupsInv, GroupRight
  <2>3. Stages!Times(g) = IF g.completed # 0 THEN g.completedTimes ELSE g.submittedTimes
    BY DEF Stages!Times
  <2> HIDE DEF g
  <2>4. Untasked(ids) = S \union C
    BY StageIndexes
  <2>5. done(ids) = C
    BY DEF Of
  <2>6. /\ IF g.submitted = 0 THEN S = {} /\ g.submittedTimes = <<Stages!None, Stages!None>>
           ELSE g.submitted \in S /\ (\A i \in S : i <= g.submitted)
                /\ g.submittedTimes = events[g.submitted].times
        /\ IF g.completed = 0 THEN C = {} /\ g.completedTimes = <<Stages!None, Stages!None>>
           ELSE g.completed \in C /\ (\A i \in C : i <= g.completed)
                /\ g.completedTimes = events[g.completed].times
    BY <2>1, <2>2 DEF LastIs
  <2> DEFINE f == IF C = {} THEN S \union C ELSE C
  <2>7. from(ids) = f
    BY <2>4, <2>5, Zenon
  <2> HIDE DEF from, S, C
  <2>8. IF f = {} THEN Stages!Times(g) = <<Stages!None, Stages!None>>
        ELSE \E last \in f : /\ \A i \in f : i <= last
                             /\ Stages!Times(g) = events[last].times
    <3>1. CASE g.completed # 0
      BY <2>3, <2>6, <3>1
    <3>2. CASE g.completed = 0
      <4>1. f = S /\ Stages!Times(g) = g.submittedTimes
        BY <2>3, <2>6, <3>2
      <4> HIDE DEF f
      <4>2. QED
        BY <2>6, <4>1
    <3>3. QED
      BY <3>1, <3>2
  <2>9. QED
    BY <2>7, <2>8, Zenon DEF g
<1>2. QED
  BY <1>1 DEF Stages!TimesOfOneEvent, Stages!Indexes

\* The totals say what they are the sums of.
LEMMA StageTotals ==
  ASSUME StageTypes, \A ids \in DOMAIN groups : TotalsRight(groups[ids], events, ids)
  PROVE  Stages!TotalsHonest
<1> DEFINE succ(ids) == Successful(events, ids)
           hasInputs(ids) == {i \in succ(ids) : events[i].input # Stages!None}
           read(i) == IF Stages!None \in {events[i].remote, events[i].local} THEN Stages!None
                      ELSE events[i].remote + events[i].local
           hasReads(ids) == {i \in succ(ids) : read(i) # Stages!None}
           inputs(ids) == Stages!MetricTotal(groups[ids].inputs, groups[ids].successful)
           reads(ids) == Stages!MetricTotal(groups[ids].shuffle, groups[ids].successful)
<1>1. \A ids : Stages!Successes(ids) = succ(ids)
  BY StageIndexes DEF Stages!Successes, Successful
<1>2. ASSUME NEW ids \in DOMAIN groups
      PROVE  /\ inputs(ids).valid = Stages!Cardinality(hasInputs(ids))
             /\ inputs(ids).missing
                  = Stages!Cardinality(succ(ids)) - Stages!Cardinality(hasInputs(ids))
             /\ inputs(ids).total
                  = IF hasInputs(ids) = {} THEN Stages!None
                    ELSE Stages!SumFunctionOnSet([i \in hasInputs(ids) |-> events[i].input],
                                                 hasInputs(ids))
  <2> DEFINE v == Inputs(events)
             has == Given(succ(ids), v)
  <2>1. \A i \in succ(ids) : v[i] \in Nat \union {Stages!None} /\ v[i] = events[i].input
    BY SuccessfulFinite DEF StageTypes, Inputs
  <2>2. has = hasInputs(ids) /\ [i \in has |-> v[i]] = [i \in has |-> events[i].input]
    BY <2>1 DEF Given
  <2>3. /\ groups[ids].successful = Cardinality(succ(ids))
        /\ Tally(groups[ids].inputs, succ(ids), v)
    BY DEF TotalsRight
  <2> HIDE DEF v
  <2>4. LET m == inputs(ids)
        IN  /\ m.valid = Stages!Cardinality(has)
            /\ m.missing = Stages!Cardinality(succ(ids)) - Stages!Cardinality(has)
            /\ m.total = IF has = {} THEN Stages!None
                         ELSE Stages!SumFunctionOnSet([i \in has |-> v[i]], has)
    BY <2>1, <2>3, TallyHonest
  <2> HIDE DEF has, inputs, hasInputs, succ
  <2>5. QED
    BY <2>2, <2>4, Zenon
<1>3. ASSUME NEW ids \in DOMAIN groups
      PROVE  /\ reads(ids).valid = Stages!Cardinality(hasReads(ids))
             /\ reads(ids).missing
                  = Stages!Cardinality(succ(ids)) - Stages!Cardinality(hasReads(ids))
             /\ reads(ids).total
                  = IF hasReads(ids) = {} THEN Stages!None
                    ELSE Stages!SumFunctionOnSet([i \in hasReads(ids) |-> read(i)],
                                                 hasReads(ids))
  <2> DEFINE v == Shuffles(events)
             has == Given(succ(ids), v)
  <2>1. \A i \in succ(ids) : v[i] \in Nat \union {Stages!None} /\ v[i] = read(i)
    BY SuccessfulFinite DEF StageTypes, Shuffles, Stages!ShuffleRead
  <2> HIDE DEF read
  <2>2. has = hasReads(ids) /\ [i \in has |-> v[i]] = [i \in has |-> read(i)]
    BY <2>1 DEF Given
  <2>3. /\ groups[ids].successful = Cardinality(succ(ids))
        /\ Tally(groups[ids].shuffle, succ(ids), v)
    BY DEF TotalsRight
  <2> HIDE DEF v
  <2>4. LET m == reads(ids)
        IN  /\ m.valid = Stages!Cardinality(has)
            /\ m.missing = Stages!Cardinality(succ(ids)) - Stages!Cardinality(has)
            /\ m.total = IF has = {} THEN Stages!None
                         ELSE Stages!SumFunctionOnSet([i \in has |-> v[i]], has)
    BY <2>1, <2>3, TallyHonest
  <2> HIDE DEF has, reads, hasReads, succ
  <2>5. QED
    BY <2>2, <2>4, Zenon
<1> HIDE DEF succ
<1>4. QED
  BY <1>1, <1>2, <1>3 DEF Stages!TotalsHonest

\* The longest are listed.
LEMMA StagesListedRight ==
  ASSUME StageTypes
  PROVE  Stages!LongestListed
<1> DEFINE S == DOMAIN groups
           R == {p \in S \X S : Stages!StageOrder(p[1], p[2])}
           s == Stages!OrderedBy(S, Stages!StageOrder)
           n == Cardinality(S)
           others(a) == Stages!Cardinality({b \in S : Stages!StageOrder(b, a)})
           at(r) == CHOOSE a \in S : others(a) = r - 1
           list == Stages!Listed
           long(a) == Stages!Duration(groups[a])
<1>1. s = [r \in 1..n |-> at(r)]
  BY SameCountS DEF Stages!OrderedBy
<1>2. list = SubSeq(s, 1, IF StagesListed < Len(s) THEN StagesListed ELSE Len(s))
  BY DEF Stages!Listed
<1>3. \A a \in S : long(a) \in Int
  <2> TAKE a \in S
  <2>1. groups[a] \in Groups
    BY DEF StageTypes
  <2>2. Stages!Times(groups[a]) \in Moments
    BY <2>1 DEF Stages!Times, Groups
  <2>3. QED
    BY <2>2 DEF Stages!Duration, Moments, Stages!None
<1>4. S \subseteq Nat \X Nat /\ IsFiniteSet(S)
  BY ListsAssumption DEF StageTypes
<1>5. \A a, b \in S : Stages!StageOrder(a, b) <=>
          IF long(a) # long(b) THEN long(a) > long(b)
          ELSE a[1] < b[1] \/ (a[1] = b[1] /\ a[2] < b[2])
  BY DEF Stages!StageOrder
<1> HIDE DEF S, s, list, long
<1>6. /\ \A a \in S : ~Stages!StageOrder(a, a)
      /\ \A a, b, c \in S :
           Stages!StageOrder(a, b) /\ Stages!StageOrder(b, c) => Stages!StageOrder(a, c)
      /\ \A a, b \in S : a = b \/ Stages!StageOrder(a, b) \/ Stages!StageOrder(b, a)
  <2>1. \A a \in S : a[1] \in Nat /\ a[2] \in Nat /\ a = <<a[1], a[2]>>
    BY <1>4
  <2>2. \A a \in S : ~Stages!StageOrder(a, a)
    BY <1>3, <1>5, <2>1
  <2>3. ASSUME NEW a \in S, NEW b \in S, NEW c \in S,
               Stages!StageOrder(a, b), Stages!StageOrder(b, c)
        PROVE  Stages!StageOrder(a, c)
    BY <1>3, <1>5, <2>1, <2>3
  <2>4. ASSUME NEW a \in S, NEW b \in S, ~Stages!StageOrder(a, b), ~Stages!StageOrder(b, a)
        PROVE  a = b
    BY <1>3, <1>5, <2>1, <2>4
  <2>5. QED
    BY <2>2, <2>3, <2>4
<1>7. \A a, b \in S : Stages!StageOrder(a, b) => long(a) >= long(b)
  BY <1>3, <1>5
<1>8. \A a, b \in S : <<a, b>> \in R <=> Stages!StageOrder(a, b)
  OBVIOUS
<1> HIDE DEF R
<1>9. StrictOrder(S, R)
  BY <1>6, <1>8 DEF StrictOrder
<1>10. \A a \in S : Cardinality(Below(S, R, a)) = others(a)
  <2> TAKE a \in S
  <2>1. Below(S, R, a) = {b \in S : Stages!StageOrder(b, a)}
    BY <1>8 DEF Below
  <2>2. QED
    BY <2>1, SameCountS
<1> HIDE DEF others
<1>11. Sorts(s, S, R)
  <2>1. ASSUME NEW r \in 1..n, NEW x \in S, Cardinality(Below(S, R, x)) = r - 1
        PROVE  s[r] \in S /\ Cardinality(Below(S, R, s[r])) = r - 1
    <3>1. others(x) = r - 1 /\ s[r] = at(r)
      BY <1>1, <1>10, <2>1
    <3>2. s[r] \in S /\ others(s[r]) = r - 1
      BY <3>1
    <3>3. QED
      BY <1>10, <3>2
  <2>2. s = [r \in 1..n |-> s[r]]
    BY <1>1
  <2>3. QED
    BY <2>1, <2>2 DEF Sorts
<1>12. StagesListed \in Nat
  BY ListsAssumption
<1>13. list \in Seq(S) /\ Leads(list, StagesListed, S, R)
  BY <1>2, <1>4, <1>9, <1>11, <1>12, CutShort
<1>14. ASSUME NEW shown \in Values(list), NEW omitted \in S \ Values(list)
       PROVE  long(shown) >= long(omitted)
  <2>1. PICK i \in DOMAIN list : shown = list[i]
    BY DEF Values
  <2>2. shown \in S
    BY <1>13, <2>1
  <2>3. ~Among(omitted, list)
    BY DEF Among, Values
  <2>4. <<shown, omitted>> \in R
    BY <1>13, <2>1, <2>3 DEF Leads
  <2>5. QED
    BY <1>7, <1>8, <2>2, <2>4
<1>15. Values(list) = {list[i] : i \in DOMAIN list}
  BY DEF Values
<1>16. QED
  BY <1>14, <1>15 DEF Stages!LongestListed, list, S, long

\* Whatever the log, and whatever attempt is asked for: no end of a task is
\* lost, a total is the sum of what it says it sums, the times of an attempt
\* are those of one of its events, and an attempt is left out for ones that
\* took as long (scan_stage_metrics).
THEOREM StagesKept == ReadersSpec => []StagesHonest
<1>1. ReadersInit => StageInv
  BY StageInit DEF ReadersInit, StageInv
<1>2. StageInv /\ [ReadersNext]_allVars => StageInv'
  <2> SUFFICES ASSUME StageInv, [ReadersNext]_allVars, part' = "stages"
               PROVE  StageTypes' /\ GroupsInv'
    BY DEF StageInv
  <2>1. part = "stages" /\ (Stages!Next \/ UNCHANGED <<events, stageVars>>)
    BY DEF ReadersNext, ReaderStep, RouteStep, OverviewStep, StageStep, TaskStep, allVars
  <2>2. CASE Stages!Next
    BY <2>1, <2>2, StageSteps DEF StageInv
  <2>3. CASE UNCHANGED <<events, stageVars>>
    BY <2>1, <2>3 DEF StageInv, StageTypes, GroupsInv, stageVars
  <2>4. QED
    BY <2>1, <2>2, <2>3
<1>3. StageInv => StagesHonest
  <2> SUFFICES ASSUME StageTypes, GroupsInv PROVE StagesHonest
    BY DEF StageInv, StagesHonest
  <2>1. \A ids \in DOMAIN groups : TotalsRight(groups[ids], events, ids)
    BY DEF GroupsInv, GroupRight
  <2>2. QED
    BY <2>1, StagesAccounted, StageTotals, StageTimes, StagesListedRight DEF StagesHonest
<1>4. QED
  BY <1>1, <1>2, <1>3, PTL DEF ReadersSpec

\* Both scans for metrics keep what they say of stages and of tasks.
THEOREM MetricsKept == ReadersSpec => []MetricsHonest
<1>1. StagesHonest /\ DistributionHonest => MetricsHonest
  BY DEF MetricsHonest
<1>2. QED
  BY <1>1, StagesKept, TasksRanked, PTL
=============================================================================
