----------------------------- MODULE OutputProofs -----------------------------
(***************************************************************************)
(* Proofs about what a build leaves behind.  Two of the formats: sealed    *)
(* snapshot stores, for every size of the file, the areas and the origin,  *)
(* and disks, for every size asked for, every device and every change that *)
(* SnapshotStore and DiskLayout allow.  Each machine has an inductive      *)
(* invariant of its own, StoreInv and DiskInv, which holds while it is the *)
(* one that was chosen.  And their publication: Inv, for every set of      *)
(* blobs and sealed scutes, every assignment of digests and every set of   *)
(* outputs.                                                                *)
(***************************************************************************)
EXTENDS MCFormats, Publication, FiniteSetTheorems, SequenceTheorems, TLAPS

-----------------------------------------------------------------------------
(* Numbers *)

\* A product grows with its factor.
LEMMA Grows == ASSUME NEW a \in Nat, NEW b \in Nat, NEW k \in Nat, a < b PROVE a * k + k <= b * k
  <1>1. b = (b - a - 1) + a + 1 /\ b - a - 1 \in Nat
    OBVIOUS
  <1>2. PICK d \in Nat : d = b - a - 1
    BY <1>1
  <1>3. b * k = d * k + a * k + k
    BY <1>1, <1>2
  <1>4. d * k \in Nat /\ a * k \in Nat /\ b * k \in Nat
    OBVIOUS
  <1> QED
    BY <1>3, <1>4

\* Quotient and remainder are what is divided, and nothing else is.
LEMMA Divides ==
  ASSUME NEW n \in Nat, NEW k \in Nat \ {0}
  PROVE  n \div k \in Nat /\ n % k \in 0..(k - 1) /\ n = (n \div k) * k + (n % k)
  OBVIOUS

LEMMA Quotient ==
  ASSUME NEW k \in Nat \ {0}, NEW q \in Nat, NEW r \in 0..(k - 1)
  PROVE  (q * k + r) \div k = q /\ (q * k + r) % k = r
  <1> DEFINE n == q * k + r
             d == n \div k
  <1>1. n \in Nat
    <2>1. q * k \in Nat
      OBVIOUS
    <2> QED
      BY <2>1
  <1>2. d \in Nat /\ n % k \in 0..(k - 1) /\ n = d * k + (n % k)
    BY <1>1, Divides
  <1> HIDE DEF d
  <1>3. q * k \in Nat /\ d * k \in Nat
    BY <1>2
  <1>4. ~(q < d)
    <2> SUFFICES ASSUME q < d PROVE FALSE
      OBVIOUS
    <2>1. q * k + k <= d * k
      BY <1>2, Grows
    <2> QED
      BY <1>2, <1>3, <2>1
  <1>5. ~(d < q)
    <2> SUFFICES ASSUME d < q PROVE FALSE
      OBVIOUS
    <2>1. d * k + k <= q * k
      BY <1>2, Grows
    <2> QED
      BY <1>2, <1>3, <2>1
  <1>6. d = q
    BY <1>2, <1>4, <1>5
  <1>7. n % k = r
    BY <1>2, <1>3, <1>6
  <1> QED
    BY <1>6, <1>7 DEF d

-----------------------------------------------------------------------------
(* Areas and their chunks *)

LEMMA Scale == PerArea \in Nat \ {0} /\ Limit \in Nat /\ Origin \in [0..(Limit - 1) -> Values] /\ StoreSizes \subseteq Nat
  BY FormatAssumption DEF S!StoreAssumption

\* The first record of an area.
First(area) == area * PerArea

LEMMA Places ==
  ASSUME NEW i \in Nat
  PROVE  S!AreaOf(i) \in Nat /\ S!SlotOf(i) \in S!Slots /\ i = First(S!AreaOf(i)) + S!SlotOf(i)
  BY Scale, Divides DEF S!AreaOf, S!SlotOf, S!Slots, First

LEMMA Placed ==
  ASSUME NEW area \in Nat, NEW slot \in S!Slots
  PROVE  /\ First(area) + slot \in Nat
         /\ S!AreaOf(First(area) + slot) = area /\ S!SlotOf(First(area) + slot) = slot
  <1>1. First(area) \in Nat
    BY Scale DEF First
  <1> QED
    BY <1>1, Scale, Quotient DEF S!AreaOf, S!SlotOf, S!Slots, First

\* The next record is in the next slot, or the first of the next area.
LEMMA NextPlace ==
  ASSUME NEW i \in Nat
  PROVE  \/ /\ S!SlotOf(i) + 1 < PerArea /\ S!AreaOf(i + 1) = S!AreaOf(i) /\ S!SlotOf(i + 1) = S!SlotOf(i) + 1
         \/ /\ S!SlotOf(i) + 1 = PerArea /\ S!AreaOf(i + 1) = S!AreaOf(i) + 1 /\ S!SlotOf(i + 1) = 0
  <1> DEFINE a == S!AreaOf(i)  s == S!SlotOf(i)
  <1>1. a \in Nat /\ s \in S!Slots /\ i = First(a) + s
    BY Places
  <1>2. First(a) \in Nat /\ First(a + 1) = First(a) + PerArea
    BY <1>1, Scale DEF First
  <1> HIDE DEF a, s
  <1>3. CASE s + 1 < PerArea
    <2>1. s + 1 \in S!Slots /\ i + 1 = First(a) + (s + 1)
      BY <1>1, <1>2, <1>3, Scale DEF S!Slots
    <2>2. S!AreaOf(i + 1) = a /\ S!SlotOf(i + 1) = s + 1
      BY <1>1, <2>1, Placed
    <2> QED
      BY <1>3, <2>2 DEF a, s
  <1>4. CASE s + 1 = PerArea
    <2>1. 0 \in S!Slots /\ i + 1 = First(a + 1) + 0
      BY <1>1, <1>2, <1>4, Scale DEF S!Slots
    <2>2. S!AreaOf(i + 1) = a + 1 /\ S!SlotOf(i + 1) = 0
      BY <1>1, <2>1, Placed
    <2> QED
      BY <1>4, <2>2 DEF a, s
  <1> QED
    BY <1>1, <1>3, <1>4, Scale DEF S!Slots

\* Records are in the order of their areas, and of their slots in an area.
LEMMA PlacesInOrder ==
  ASSUME NEW i \in Nat, NEW j \in Nat, i < j
  PROVE  \/ S!AreaOf(i) < S!AreaOf(j)
         \/ S!AreaOf(i) = S!AreaOf(j) /\ S!SlotOf(i) < S!SlotOf(j)
  <1> DEFINE a == S!AreaOf(i)  s == S!SlotOf(i)  b == S!AreaOf(j)  t == S!SlotOf(j)
  <1>1. /\ a \in Nat /\ s \in S!Slots /\ i = First(a) + s
        /\ b \in Nat /\ t \in S!Slots /\ j = First(b) + t
    BY Places
  <1> HIDE DEF a, s, b, t
  <1>2. First(a) \in Nat /\ First(b) \in Nat
    BY <1>1, Scale DEF First
  <1>3. ~(b < a)
    <2> SUFFICES ASSUME b < a PROVE FALSE
      OBVIOUS
    <2>1. First(b) + PerArea <= First(a)
      BY <1>1, Scale, Grows DEF First
    <2> QED
      BY <1>1, <1>2, <2>1, Scale DEF S!Slots
  <1>4. a = b => s < t
    BY <1>1, <1>2, Scale DEF S!Slots
  <1>5. a < b \/ (a = b /\ s < t)
    BY <1>1, <1>3, <1>4
  <1> QED
    BY <1>5 DEF a, s, b, t

LEMMA OnePlace ==
  ASSUME NEW i \in Nat, NEW j \in Nat, S!AreaOf(i) = S!AreaOf(j), S!SlotOf(i) = S!SlotOf(j)
  PROVE  i = j
  BY Places

LEMMA FirstPlace == S!AreaOf(0) = 0 /\ S!SlotOf(0) = 0
  <1>1. 0 \in S!Slots /\ First(0) + 0 = 0
    BY Scale DEF S!Slots, First
  <1> QED
    BY <1>1, Placed

\* The metadata chunks, one and a full area apart.
LEMMA AreaChunks ==
  ASSUME NEW a \in Nat
  PROVE  /\ S!AreaChunk(a) \in Nat /\ S!AreaChunk(a) >= 1 /\ S!AreaChunk(a) >= a + 1
         /\ S!AreaChunk(0) = 1
         /\ S!AreaChunk(a + 1) = S!AreaChunk(a) + PerArea + 1
         /\ \A b \in Nat : a < b => S!AreaChunk(a) + PerArea + 1 <= S!AreaChunk(b)
         /\ S!IsArea(S!AreaChunk(a))
  <1> DEFINE k == PerArea + 1
  <1>1. k \in Nat \ {0} /\ S!Stride = k
    BY Scale DEF S!Stride
  <1> HIDE DEF k
  <1>2. a * k \in Nat /\ (a + 1) * k = a * k + k /\ 0 * k = 0
    BY <1>1
  <1>3. a * k >= a
    <2>1. a * k = a * (k - 1) + a /\ k - 1 \in Nat
      BY <1>1
    <2>2. a * (k - 1) \in Nat
      BY <2>1
    <2> QED
      BY <2>1, <2>2, <1>2
  <1>4. \A b \in Nat : a < b => a * k + k <= b * k
    BY <1>1, Grows
  <1>5. S!IsArea(1 + a * k)
    <2>1. a \in 0..(a * k) /\ 1 + a * k - 1 = a * k /\ 1 + a * k > 0
      BY <1>2, <1>3
    <2> QED
      BY <1>1, <2>1 DEF S!IsArea, S!MultipleOf
  <1>6. \A b \in Nat : S!AreaChunk(b) = 1 + b * k /\ b * k \in Nat
    BY <1>1 DEF S!AreaChunk
  <1>7. S!AreaChunk(a) \in Nat /\ S!AreaChunk(a) >= 1 /\ S!AreaChunk(a) >= a + 1 /\ S!AreaChunk(0) = 1
    BY <1>2, <1>3, <1>6
  <1>8. S!AreaChunk(a + 1) = S!AreaChunk(a) + k
    BY <1>1, <1>2, <1>6
  <1>9. \A b \in Nat : a < b => S!AreaChunk(a) + k <= S!AreaChunk(b)
    BY <1>1, <1>2, <1>4, <1>6
  <1> QED
    BY <1>5, <1>6, <1>7, <1>8, <1>9, Scale DEF k

LEMMA AreaOfChunk ==
  ASSUME NEW c \in Nat, S!IsArea(c)
  PROVE  \E a \in Nat : c = S!AreaChunk(a)
  <1>1. PICK q \in 0..(c - 1) : c - 1 = q * S!Stride
    BY DEF S!IsArea, S!MultipleOf
  <1>2. c = 1 + q * S!Stride
    BY <1>1, Scale DEF S!Stride
  <1> QED
    BY <1>2 DEF S!AreaChunk

\* Between two metadata chunks there are data chunks only.
LEMMA BetweenAreas ==
  ASSUME NEW a \in Nat, NEW s \in S!Slots
  PROVE  ~S!IsArea(S!AreaChunk(a) + 1 + s)
  <1> SUFFICES ASSUME S!IsArea(S!AreaChunk(a) + 1 + s) PROVE FALSE
    OBVIOUS
  <1>1. PICK b \in Nat : S!AreaChunk(a) + 1 + s = S!AreaChunk(b)
    BY AreaOfChunk, AreaChunks DEF S!Slots
  <1>2. a < b \/ b < a \/ a = b
    OBVIOUS
  <1>3. S!AreaChunk(a) \in Nat /\ S!AreaChunk(b) \in Nat
    BY AreaChunks
  <1>4. CASE a < b
    <2>1. S!AreaChunk(a) + PerArea + 1 <= S!AreaChunk(b)
      BY <1>4, AreaChunks
    <2> QED
      BY <1>1, <1>3, <2>1, Scale DEF S!Slots
  <1>5. CASE b < a
    <2>1. S!AreaChunk(b) + PerArea + 1 <= S!AreaChunk(a)
      BY <1>5, AreaChunks
    <2> QED
      BY <1>1, <1>3, <2>1, Scale DEF S!Slots
  <1>6. CASE a = b
    BY <1>1, <1>3, <1>6 DEF S!Slots
  <1> QED
    BY <1>2, <1>4, <1>5, <1>6

\* Where the kernel puts the data of a record, and the stream puts them again.
Datum(i) == 2 + i + S!AreaOf(i)

LEMMA Data ==
  ASSUME NEW i \in Nat
  PROVE  /\ Datum(i) = S!AreaChunk(S!AreaOf(i)) + 1 + S!SlotOf(i)
         /\ Datum(i) \in Nat /\ Datum(i) >= i + 2 /\ ~S!IsArea(Datum(i))
  <1> DEFINE a == S!AreaOf(i)  s == S!SlotOf(i)
  <1>1. a \in Nat /\ s \in S!Slots /\ i = First(a) + s
    BY Places
  <1> HIDE DEF a, s
  <1>2. S!AreaChunk(a) = 1 + First(a) + a /\ First(a) \in Nat
    BY <1>1, Scale DEF S!AreaChunk, S!Stride, First
  <1>3. 2 + i + a = S!AreaChunk(a) + 1 + s
    BY <1>1, <1>2 DEF S!Slots
  <1>4. 2 + i + a \in Nat /\ 2 + i + a >= i + 2
    BY <1>1
  <1> QED
    BY <1>1, <1>3, <1>4, BetweenAreas DEF Datum, a, s

LEMMA DataInOrder ==
  ASSUME NEW i \in Nat, NEW j \in Nat, i < j
  PROVE  Datum(i) < Datum(j)
  BY PlacesInOrder, Places DEF Datum

\* Every chunk behind the header is a metadata chunk, or that of a datum.
LEMMA ChunkKinds ==
  ASSUME NEW c \in Nat, c # 0
  PROVE  \/ \E a \in Nat : c = S!AreaChunk(a) /\ ((c - 1) \div S!Stride) * PerArea = First(a)
         \/ \E i \in Nat : c = Datum(i) /\ (c - 2) % S!Stride = S!SlotOf(i)
  <1> DEFINE k == S!Stride  q == (c - 1) \div k  r == (c - 1) % k
  <1>1. k \in Nat \ {0} /\ k = PerArea + 1
    BY Scale DEF S!Stride
  <1> HIDE DEF k
  <1>2. q \in Nat /\ r \in 0..(k - 1) /\ c - 1 = q * k + r
    <2>1. c - 1 \in Nat
      OBVIOUS
    <2> QED
      BY <1>1, <2>1, Divides
  <1> HIDE DEF q, r
  <1>3. S!AreaChunk(q) = 1 + q * k /\ q * k \in Nat
    BY <1>1, <1>2 DEF S!AreaChunk, k
  <1>4. CASE r = 0
    <2>1. c = S!AreaChunk(q)
      BY <1>2, <1>3, <1>4
    <2> QED
      BY <1>2, <2>1 DEF First, q, k
  <1>5. CASE r # 0
    <2>1. r - 1 \in S!Slots /\ c = S!AreaChunk(q) + 1 + (r - 1)
      BY <1>1, <1>2, <1>3, <1>5, Scale DEF S!Slots
    <2>2. PICK i \in Nat : S!AreaOf(i) = q /\ S!SlotOf(i) = r - 1
      BY <1>2, <2>1, Placed
    <2>3. c = Datum(i)
      BY <2>1, <2>2, Data
    <2>4. c - 2 = q * k + (r - 1) /\ r - 1 \in 0..(k - 1)
      BY <1>1, <1>2, <1>3, <1>5
    <2>5. (c - 2) % k = r - 1
      BY <1>1, <1>2, <2>4, Quotient
    <2> QED
      BY <2>2, <2>3, <2>5 DEF k
  <1> QED
    BY <1>4, <1>5

-----------------------------------------------------------------------------
(* A store as a list of records *)

Records == [old : Nat, new : Nat]
ChunkType(c) == IF c = 0 THEN {"valid", "invalid"} ELSE IF S!IsArea(c) THEN [S!Slots -> Records] ELSE Values
Home(i) == S!AreaChunk(S!AreaOf(i))

Typed(f) ==
  /\ Cardinality(DOMAIN f) \in Nat /\ DOMAIN f = 0..(Cardinality(DOMAIN f) - 1)
  /\ \A c \in DOMAIN f : f[c] \in ChunkType(c)

Good(f, i) ==
  LET r == S!Record(f, i) IN r.old < Limit /\ r.new \in DOMAIN f /\ r.new >= 2 /\ ~S!IsArea(r.new)

\* The records of f end with the n-th.
Listed(f, n) ==
  /\ n \in Nat
  /\ \A i \in Nat : i <= n => Home(i) \in DOMAIN f
  /\ \A i \in Nat : i < n => S!Record(f, i).new # 0
  /\ S!Record(f, n).new = 0

OriginsDiffer(f, n) ==
  \A i, j \in Nat : i < n /\ j < n /\ S!Record(f, i).old = S!Record(f, j).old => i = j

\* What the kernel has written after n records, and what a damage leaves of it.
Wrote(f, n) ==
  /\ Typed(f) /\ n \in Nat /\ n <= Cardinality(DOMAIN f)
  /\ \A i \in Nat : i < n => Home(i) \in DOMAIN f /\ S!Record(f, i).new # 0
  /\ \A i \in Nat : i >= n /\ Home(i) \in DOMAIN f => S!Record(f, i).new = 0
  /\ n # 0 => Home(n) \in DOMAIN f
  /\ (\A i \in Nat : i < n => Good(f, i)) => OriginsDiffer(f, n)

\* SnapshotStore counts as FiniteSets does.
LEMMA SameCount == \A T : S!Cardinality(T) = Cardinality(T)
  BY DEF S!Cardinality, Cardinality

LEMMA IntervalSize == ASSUME NEW n \in Nat PROVE Cardinality(0..(n - 1)) = n
  BY FS_Interval

LEMMA Homes ==
  ASSUME NEW i \in Nat
  PROVE  /\ Home(i) \in Nat /\ Home(i) >= 1 /\ S!IsArea(Home(i)) /\ Home(i) < Datum(i) /\ Home(0) = 1
         /\ \A j \in Nat : i <= j => Home(i) <= Home(j)
         /\ \A j \in Nat : Home(i) = Home(j) => S!AreaOf(i) = S!AreaOf(j)
  <1>1. \A j \in Nat : S!AreaOf(j) \in Nat /\ S!SlotOf(j) \in S!Slots
    BY Places
  <1>2. Home(i) \in Nat /\ Home(i) >= 1 /\ S!IsArea(Home(i)) /\ Home(0) = 1
    BY <1>1, AreaChunks, FirstPlace DEF Home
  <1>3. Home(i) < Datum(i)
    BY <1>1, <1>2, Data DEF Home, S!Slots
  <1>4. ASSUME NEW k \in Nat, NEW j \in Nat, S!AreaOf(k) < S!AreaOf(j) PROVE Home(k) < Home(j)
    <2>1. S!AreaChunk(S!AreaOf(k)) + PerArea + 1 <= S!AreaChunk(S!AreaOf(j))
      BY <1>1, <1>4, AreaChunks
    <2>2. S!AreaChunk(S!AreaOf(k)) \in Nat /\ S!AreaChunk(S!AreaOf(j)) \in Nat
      BY <1>1, AreaChunks
    <2> QED
      BY <2>1, <2>2, Scale DEF Home
  <1>6. \A j \in Nat : Home(j) \in Nat
    BY <1>1, AreaChunks DEF Home
  <1>7. ASSUME NEW j \in Nat, i <= j PROVE Home(i) <= Home(j)
    <2>1. i = j \/ S!AreaOf(i) = S!AreaOf(j) \/ S!AreaOf(i) < S!AreaOf(j)
      BY <1>7, PlacesInOrder
    <2>2. S!AreaOf(i) = S!AreaOf(j) => Home(i) = Home(j)
      BY DEF Home
    <2> QED
      BY <1>4, <1>6, <2>1, <2>2
  <1>8. ASSUME NEW j \in Nat, Home(i) = Home(j) PROVE S!AreaOf(i) = S!AreaOf(j)
    <2>1. S!AreaOf(i) < S!AreaOf(j) \/ S!AreaOf(j) < S!AreaOf(i) \/ S!AreaOf(i) = S!AreaOf(j)
      BY <1>1
    <2> QED
      BY <1>4, <1>6, <1>8, <2>1
  <1> QED
    BY <1>2, <1>3, <1>7, <1>8

LEMMA ListLength ==
  ASSUME NEW f, NEW n, Listed(f, n), n <= Cardinality(DOMAIN f), Cardinality(DOMAIN f) \in Nat
  PROVE  S!Length(f) = n /\ S!Terminated(f)
  <1> DEFINE Ends(m) == S!Record(f, m).new = 0 /\ \A i \in 0..(m - 1) : S!Record(f, i).new # 0
  <1>1. n \in 0..Cardinality(DOMAIN f) /\ Ends(n)
    BY DEF Listed
  <1>2. \A m \in 0..Cardinality(DOMAIN f) : Ends(m) => m = n
    BY <1>1
  <1>3. S!Length(f) = CHOOSE m \in 0..Cardinality(DOMAIN f) : Ends(m)
    BY SameCount DEF S!Length
  <1>4. S!Length(f) = n
    <2> HIDE DEF Ends
    <2> QED
      BY <1>1, <1>2, <1>3
  <1>5. \A i \in 0..n : S!AreaChunk(S!AreaOf(i)) \in DOMAIN f
    BY DEF Listed, Home
  <1>6. S!Terminated(f)
    BY <1>1, <1>5, SameCount DEF S!Terminated, Listed
  <1> QED
    BY <1>4, <1>6

\* A file of two chunks or more that the kernel wrote is a list.
LEMMA KernelLists ==
  ASSUME NEW f, NEW n, Wrote(f, n), Cardinality(DOMAIN f) >= 2
  PROVE  Listed(f, n) /\ S!Length(f) = n /\ S!Terminated(f)
  <1>1. Home(n) \in DOMAIN f
    <2>1. CASE n = 0
      BY <2>1, Homes DEF Wrote, Typed
    <2> QED
      BY <2>1 DEF Wrote
  <1>2. Listed(f, n)
    BY <1>1 DEF Wrote, Listed
  <1> QED
    BY <1>2, ListLength DEF Wrote, Typed

\* One record replaced.
Replaced(f, g, n, r) ==
  /\ DOMAIN g = DOMAIN f
  /\ \A c \in DOMAIN f : S!IsArea(c) =>
       g[c] = IF c = Home(n) THEN [f[c] EXCEPT ![S!SlotOf(n)] = r] ELSE f[c]

LEMMA RecordTypes ==
  ASSUME NEW f, Typed(f), NEW i \in Nat, Home(i) \in DOMAIN f
  PROVE  /\ f[Home(i)] \in [S!Slots -> Records] /\ S!Record(f, i) \in Records
         /\ S!Record(f, i) = f[Home(i)][S!SlotOf(i)]
  <1>1. f[Home(i)] \in ChunkType(Home(i)) /\ Home(i) # 0 /\ S!IsArea(Home(i))
    BY Homes DEF Typed
  <1>2. f[Home(i)] \in [S!Slots -> Records]
    BY <1>1 DEF ChunkType
  <1> QED
    BY <1>2, Places DEF S!Record, Home

LEMMA Replacing ==
  ASSUME NEW f, Typed(f), NEW g, NEW n \in Nat, NEW r, Replaced(f, g, n, r),
         NEW i \in Nat, Home(i) \in DOMAIN f
  PROVE  S!Record(g, i) = IF i = n THEN r ELSE S!Record(f, i)
  <1>1. f[Home(i)] \in [S!Slots -> Records] /\ S!SlotOf(i) \in S!Slots /\ S!IsArea(Home(i))
    BY RecordTypes, Places, Homes
  <1>2. S!Record(g, i) = g[Home(i)][S!SlotOf(i)] /\ S!Record(f, i) = f[Home(i)][S!SlotOf(i)]
    BY DEF S!Record, Home
  <1>3. CASE Home(i) = Home(n)
    <2>1. g[Home(i)] = [f[Home(i)] EXCEPT ![S!SlotOf(n)] = r]
      BY <1>1, <1>3 DEF Replaced
    <2>2. S!SlotOf(i) = S!SlotOf(n) => i = n
      BY <1>3, Homes, OnePlace
    <2> QED
      BY <1>1, <1>2, <2>1, <2>2
  <1>4. CASE Home(i) # Home(n)
    <2>1. g[Home(i)] = f[Home(i)]
      BY <1>1, <1>4 DEF Replaced
    <2> QED
      BY <1>2, <1>4, <2>1
  <1> QED
    BY <1>3, <1>4

-----------------------------------------------------------------------------
(* What the kernel writes *)

LEMMA DatumHome ==
  ASSUME NEW f, Typed(f), NEW i \in Nat, Datum(i) \in DOMAIN f
  PROVE  Home(i) \in DOMAIN f /\ i + 1 <= Cardinality(DOMAIN f)
  <1> DEFINE size == Cardinality(DOMAIN f)
  <1>1. size \in Nat /\ DOMAIN f = 0..(size - 1)
    BY DEF Typed
  <1>2. Home(i) \in Nat /\ Home(i) < Datum(i) /\ Datum(i) \in Nat /\ i + 2 <= Datum(i)
    BY Homes, Data
  <1> HIDE DEF size
  <1>3. Home(i) \in DOMAIN f /\ i + 1 <= size
    BY <1>1, <1>2
  <1> QED
    BY <1>3 DEF size

LEMMA SameAreas ==
  ASSUME NEW f, NEW g, NEW n, Wrote(f, n), Typed(g), DOMAIN g = DOMAIN f,
         \A c \in DOMAIN f : S!IsArea(c) => g[c] = f[c]
  PROVE  Wrote(g, n)
  <1>1. \A i \in Nat : Home(i) \in DOMAIN f => S!Record(g, i) = S!Record(f, i)
    BY Homes DEF S!Record, Home
  <1>2. \A i \in Nat : i < n => Home(i) \in DOMAIN f
    BY DEF Wrote
  <1>3. \A i \in Nat : i < n => S!Record(g, i) = S!Record(f, i) /\ (Good(g, i) <=> Good(f, i))
    BY <1>1, <1>2 DEF Good
  <1>4. (\A i \in Nat : i < n => Good(g, i)) => OriginsDiffer(g, n)
    BY <1>3 DEF Wrote, OriginsDiffer
  <1> QED
    BY <1>1, <1>3, <1>4 DEF Wrote

\* One more record, for a chunk that had none.
LEMMA WroteMore ==
  ASSUME NEW f, NEW g, NEW n, NEW r, Wrote(f, n), Typed(g), Replaced(f, g, n, r),
         r \in Records, r.new = Datum(n), Datum(n) \in DOMAIN f,
         \A i \in Nat : i < n => S!Record(f, i).old # r.old,
         S!SlotOf(n + 1) = 0 => Home(n + 1) \in DOMAIN f
  PROVE  Wrote(g, n + 1)
  <1>1. n \in Nat /\ n + 1 \in Nat /\ Typed(f) /\ DOMAIN g = DOMAIN f
    BY DEF Wrote, Replaced
  <1>2. Home(n) \in DOMAIN f
    BY <1>1, DatumHome
  <1>3. \A i \in Nat : Home(i) \in DOMAIN f => S!Record(g, i) = IF i = n THEN r ELSE S!Record(f, i)
    BY <1>1, Replacing
  <1>4. Home(n + 1) \in DOMAIN f
    <2>1. S!SlotOf(n + 1) # 0 => Home(n + 1) = Home(n)
      BY <1>1, NextPlace DEF Home
    <2> QED
      BY <1>2, <2>1
  <1>5. n + 1 <= Cardinality(DOMAIN f)
    BY <1>1, DatumHome
  <1>6. \A i \in Nat : i < n => Home(i) \in DOMAIN f /\ S!Record(f, i).new # 0
    BY DEF Wrote
  <1>7. ASSUME NEW i \in Nat, i < n + 1 PROVE Home(i) \in DOMAIN f /\ S!Record(g, i).new # 0
    <2>1. i = n \/ i < n
      BY <1>1, <1>7
    <2> QED
      BY <1>1, <1>2, <1>3, <1>6, <2>1, Data
  <1>8. \A i \in Nat : i >= n + 1 /\ Home(i) \in DOMAIN g => S!Record(g, i).new = 0
    BY <1>1, <1>3 DEF Wrote
  <1>9. (\A i \in Nat : i < n + 1 => Good(g, i)) => OriginsDiffer(g, n + 1)
    <2> SUFFICES ASSUME \A i \in Nat : i < n + 1 => Good(g, i) PROVE OriginsDiffer(g, n + 1)
      OBVIOUS
    <2>1. \A i \in Nat : i < n => S!Record(g, i) = S!Record(f, i)
      BY <1>1, <1>3, <1>6
    <2>2. \A i \in Nat : i < n => Good(f, i)
      BY <1>1, <2>1 DEF Good
    <2>3. OriginsDiffer(f, n)
      BY <2>2 DEF Wrote
    <2>4. S!Record(g, n) = r
      BY <1>1, <1>2, <1>3
    <2>5. ASSUME NEW i \in Nat, NEW j \in Nat, i < n + 1, j < n + 1, S!Record(g, i).old = S!Record(g, j).old
          PROVE  i = j
      <3>1. (i < n \/ i = n) /\ (j < n \/ j = n)
        BY <1>1, <2>5
      <3> QED
        BY <2>1, <2>3, <2>4, <2>5, <3>1 DEF OriginsDiffer
    <2> QED
      BY <2>5 DEF OriginsDiffer
  <1> QED
    BY <1>1, <1>4, <1>5, <1>7, <1>8, <1>9 DEF Wrote

\* A record that is damaged spoils the store.
LEMMA WroteDamaged ==
  ASSUME NEW f, NEW g, NEW n, NEW d \in Nat, NEW r, Wrote(f, n), Typed(g), Replaced(f, g, d, r), d < n,
         r.new # 0,
         ~(r.old < Limit /\ r.new \in DOMAIN f /\ r.new >= 2 /\ ~S!IsArea(r.new))
  PROVE  Wrote(g, n)
  <1>1. n \in Nat /\ Typed(f) /\ DOMAIN g = DOMAIN f
    BY DEF Wrote, Replaced
  <1>2. \A i \in Nat : Home(i) \in DOMAIN f => S!Record(g, i) = IF i = d THEN r ELSE S!Record(f, i)
    BY <1>1, Replacing
  <1>3. \A i \in Nat : i < n => Home(i) \in DOMAIN f /\ S!Record(f, i).new # 0
    BY DEF Wrote
  <1>4. ~Good(g, d)
    BY <1>1, <1>2, <1>3 DEF Good
  <1>5. \A i \in Nat : i < n => Home(i) \in DOMAIN g /\ S!Record(g, i).new # 0
    BY <1>1, <1>2, <1>3
  <1>6. \A i \in Nat : i >= n /\ Home(i) \in DOMAIN g => S!Record(g, i).new = 0
    BY <1>1, <1>2 DEF Wrote
  <1> QED
    BY <1>1, <1>4, <1>5, <1>6 DEF Wrote

-----------------------------------------------------------------------------
(* The inductive invariant of sealing *)

Count == S!Length(store)

\* The store as it was detached.
WholeStore ==
  /\ Wrote(store, Count) /\ Listed(store, Count) /\ Count <= Cardinality(DOMAIN store)
  /\ Cardinality(DOMAIN store) >= 2 /\ store[0] = "valid"

Fresh == kept = 0 /\ output = S!Blank /\ out = <<>>
Buffer == S!SlotOf(cursor) # 0 => metadata = store[Home(cursor)]

\* What is known of the records that were measured, and of the extent.
Covers(n) ==
  /\ \A i \in Nat : i < n => Good(store, i) /\ S!Record(store, i).new < end
  /\ \A i \in Nat : i < n => Home(i) < end

Measuring ==
  /\ cursor <= Count /\ 2 <= end /\ end <= Cardinality(DOMAIN store)
  /\ Covers(cursor) /\ Buffer

Cut ==
  /\ 2 <= end /\ end <= Cardinality(DOMAIN store)
  /\ DOMAIN file = 0..(end - 1)
  /\ Covers(Count) /\ Home(Count) < end
  /\ \A c \in DOMAIN file : ~S!IsArea(c) => file[c] = store[c]

\* A record whose datum is not the origin's.
Differs(i) == store[S!Record(store, i).new] # Origin[S!Record(store, i).old]

\* Where a packed record is: in an area that was overwritten, or not yet written.
PackedRecord(j) ==
  IF S!AreaOf(j) < S!AreaOf(kept) THEN file[Home(j)][S!SlotOf(j)] ELSE output[S!SlotOf(j)]

\* The records that differ, of the first n, are those packed.
Packs(n) ==
  /\ \A j \in Nat : j < kept => \E i \in Nat : i < n /\ Differs(i) /\ PackedRecord(j) = S!Record(store, i)
  /\ \A i \in Nat : i < n /\ Differs(i) => \E j \in Nat : j < kept /\ PackedRecord(j) = S!Record(store, i)

Packing ==
  /\ cursor <= Count /\ kept <= cursor /\ Buffer
  /\ \A a \in Nat : a >= S!AreaOf(kept) /\ S!AreaChunk(a) \in DOMAIN file
       => file[S!AreaChunk(a)] = store[S!AreaChunk(a)]
  /\ Packs(cursor)
  /\ \A s \in S!Slots : s >= S!SlotOf(kept) => output[s] = S!NoRecord

\* The metadata as they are streamed.
Packed ==
  /\ kept <= Count
  /\ \A j \in Nat : j < kept => \E i \in Nat : i < Count /\ Differs(i) /\ S!Record(file, j) = S!Record(store, i)
  /\ \A i \in Nat : i < Count /\ Differs(i) => \E j \in Nat : j < kept /\ S!Record(file, j) = S!Record(store, i)
  /\ \A s \in S!Slots : s >= S!SlotOf(kept) => file[Home(kept)][s] = S!NoRecord

Renumbered(i) ==
  IF i < kept THEN [old |-> S!Record(file, i).old, new |-> Datum(i)] ELSE S!Record(file, i)

Streaming ==
  /\ Len(out) \in Nat /\ DOMAIN out = 1..Len(out) /\ Len(out) <= Datum(kept)
  /\ Len(out) > 0 => out[1] = "valid"
  /\ \A i \in Nat : Home(i) < Len(out) => out[Home(i) + 1][S!SlotOf(i)] = Renumbered(i)
  /\ \A i \in Nat : i < kept /\ Datum(i) < Len(out) => out[Datum(i) + 1] = store[S!Record(file, i).new]
  /\ \A i \in Nat : i < kept /\ Home(i) < Len(out) /\ Datum(i) >= Len(out)
       => sources[S!SlotOf(i)] = S!Record(file, i).new

StoreTypes ==
  /\ Typed(file) /\ cursor \in Nat /\ end \in Nat /\ kept \in Nat
  /\ metadata \in [S!Slots -> Records] /\ output \in [S!Slots -> Records] /\ sources \in [S!Slots -> Nat]
  /\ phase \in {"open", "header", "extent", "scan", "stream", "done", "failed"}
  /\ fault \in {"none", "damaged", "store", "io"}

StoreInv ==
  /\ StoreTypes
  /\ phase = "open" => Wrote(file, cursor) /\ Fresh
  /\ phase = "header" => file = store /\ (\E n : Wrote(store, n)) /\ Fresh
  /\ phase = "extent" => file = store /\ WholeStore /\ Measuring /\ Fresh
  /\ phase = "scan" => WholeStore /\ Cut /\ Packing /\ out = <<>>
  /\ phase = "stream" => WholeStore /\ Cut /\ Packed /\ Streaming
  /\ phase = "done" => WholeStore /\ Cut /\ Packed /\ Streaming /\ Len(out) = Datum(kept)
  /\ phase = "failed" =>
       /\ fault = "store" => ~S!Usable(store)
       /\ \A c \in DOMAIN file : ~S!IsArea(c) => file[c] = store[c]
  /\ fault = "store" => phase = "failed"

-----------------------------------------------------------------------------
(* Its steps: the kernel *)

LEMMA BlankTypes == /\ S!NoRecord \in Records /\ S!NoRecord.new = 0 /\ S!Blank \in [S!Slots -> Records]
                    /\ \A s \in S!Slots : S!Blank[s] = S!NoRecord
  BY DEF S!NoRecord, S!Blank, Records

\* Every chunk written by its type.
LEMMA TypedAgain ==
  ASSUME NEW f, NEW g, Typed(f), DOMAIN g = DOMAIN f,
         \A c \in DOMAIN f : g[c] = f[c] \/ g[c] \in ChunkType(c)
  PROVE  Typed(g)
  BY DEF Typed

\* A new scratch file is a store without records (Scratch).
LEMMA StoreStarts == ASSUME S!Init PROVE StoreInv
  <1>1. PICK room \in StoreSizes, unwritten \in Values :
          file = [c \in 0..(room - 1) |->
                    IF c = 0 THEN "valid" ELSE IF S!IsArea(c) THEN S!Blank ELSE unwritten]
    BY DEF S!Init
  <1>2. room \in Nat
    BY Scale
  <1>3. DOMAIN file = 0..(room - 1) /\ Cardinality(DOMAIN file) = room
    BY <1>1, <1>2, IntervalSize
  <1>4. \A c \in DOMAIN file : file[c] \in ChunkType(c)
    BY <1>1, <1>3, BlankTypes DEF ChunkType
  <1>5. Typed(file)
    BY <1>2, <1>3, <1>4 DEF Typed
  <1>6. ASSUME NEW i \in Nat, Home(i) \in DOMAIN file PROVE S!Record(file, i).new = 0
    <2>1. file[Home(i)] = S!Blank
      BY <1>1, <1>3, <1>6, Homes
    <2> QED
      BY <2>1, Places, BlankTypes DEF S!Record, Home
  <1>7. Wrote(file, 0)
    BY <1>2, <1>3, <1>5, <1>6 DEF Wrote, OriginsDiffer
  <1>8. cursor = 0 /\ end = 0 /\ kept = 0 /\ metadata = S!Blank /\ output = S!Blank /\ out = <<>>
        /\ sources = [slot \in S!Slots |-> 0] /\ phase = "open" /\ fault = "none"
    BY DEF S!Init
  <1>9. StoreTypes
    BY <1>5, <1>8, BlankTypes DEF StoreTypes
  <1> QED
    BY <1>7, <1>8, <1>9 DEF StoreInv, Fresh

LEMMA KernelKeeps == ASSUME StoreInv, S!KernelCopies PROVE StoreInv'
  <1>1. /\ phase = "open" /\ phase' = "open" /\ cursor < Limit
        /\ UNCHANGED <<store, end, metadata, output, kept, sources, out, fault>>
    BY DEF S!KernelCopies
  <1>2. Wrote(file, cursor) /\ Fresh /\ Typed(file) /\ cursor \in Nat /\ StoreTypes
    BY <1>1 DEF StoreInv, StoreTypes
  <1>3. PICK old \in 0..(Limit - 1), value \in Values :
          LET area == S!AreaOf(cursor)
              new  == 2 + cursor + area
              next == S!AreaChunk(area + 1)
          IN  /\ \A i \in 0..(cursor - 1) : S!Record(file, i).old # old
              /\ IF new \notin DOMAIN file \/ (S!SlotOf(cursor + 1) = 0 /\ next \notin DOMAIN file)
                 THEN file' = [file EXCEPT ![0] = "invalid"] /\ UNCHANGED cursor
                 ELSE /\ file' = [file EXCEPT ![new] = value,
                            ![S!AreaChunk(area)][S!SlotOf(cursor)] = [old |-> old, new |-> new]]
                      /\ cursor' = cursor + 1
    BY DEF S!KernelCopies
  <1>4. \A i \in Nat : i < cursor => S!Record(file, i).old # old
    BY <1>2, <1>3
  <1>5. CASE file' = [file EXCEPT ![0] = "invalid"] /\ UNCHANGED cursor
    <2>1. DOMAIN file' = DOMAIN file
          /\ \A c \in DOMAIN file : file'[c] = IF c = 0 THEN "invalid" ELSE file[c]
      BY <1>5
    <2>2. Typed(file')
      BY <1>2, <2>1, TypedAgain DEF ChunkType
    <2>3. Wrote(file', cursor)
      BY <1>2, <2>1, <2>2, SameAreas DEF S!IsArea
    <2> QED
      BY <1>1, <1>2, <1>5, <2>2, <2>3 DEF StoreInv, StoreTypes, Fresh
  <1>6. CASE ~(file' = [file EXCEPT ![0] = "invalid"] /\ UNCHANGED cursor)
    <2> DEFINE r == [old |-> old, new |-> Datum(cursor)]
    <2>1. /\ Datum(cursor) \in DOMAIN file
          /\ S!SlotOf(cursor + 1) = 0 => S!AreaChunk(S!AreaOf(cursor) + 1) \in DOMAIN file
          /\ file' = [file EXCEPT ![Datum(cursor)] = value, ![Home(cursor)][S!SlotOf(cursor)] = r]
          /\ cursor' = cursor + 1
      BY <1>3, <1>6 DEF Datum, Home
    <2>2. Home(cursor) # Datum(cursor) /\ Home(cursor) \in DOMAIN file /\ Datum(cursor) \in Nat /\ ~S!IsArea(Datum(cursor))
          /\ Datum(cursor) # 0
      BY <1>2, <2>1, Homes, Data, DatumHome
    <2>3. file[Home(cursor)] \in [S!Slots -> Records] /\ S!SlotOf(cursor) \in S!Slots
      BY <1>2, <2>2, RecordTypes, Places
    <2>4. r \in Records /\ r.new = Datum(cursor) /\ r.old = old
      BY <2>2, Scale DEF Records
    <2> HIDE DEF r
    <2>5. DOMAIN file' = DOMAIN file
          /\ \A c \in DOMAIN file :
               file'[c] = IF c = Home(cursor) THEN [file[c] EXCEPT ![S!SlotOf(cursor)] = r]
                          ELSE IF c = Datum(cursor) THEN value ELSE file[c]
      BY <2>1, <2>2
    <2>6. [file[Home(cursor)] EXCEPT ![S!SlotOf(cursor)] = r] \in [S!Slots -> Records]
      BY <2>3, <2>4
    <2>7. Home(cursor) # 0 /\ S!IsArea(Home(cursor))
      BY <1>2, Homes
    <2>8. Typed(file')
      <3>1. [file[Home(cursor)] EXCEPT ![S!SlotOf(cursor)] = r] \in ChunkType(Home(cursor))
        BY <2>6, <2>7 DEF ChunkType
      <3>2. value \in ChunkType(Datum(cursor))
        BY <2>2 DEF ChunkType
      <3> QED
        BY <1>2, <2>5, <3>1, <3>2, TypedAgain
    <2>9. Replaced(file, file', cursor, r)
      BY <2>2, <2>5 DEF Replaced
    <2>10. S!SlotOf(cursor + 1) = 0 => Home(cursor + 1) \in DOMAIN file
      <3>1. S!SlotOf(cursor) \in Nat
        BY <1>2, Places DEF S!Slots
      <3>2. S!SlotOf(cursor + 1) = 0 => S!AreaOf(cursor + 1) = S!AreaOf(cursor) + 1
        BY <1>2, <3>1, NextPlace
      <3> QED
        BY <2>1, <3>2 DEF Home
    <2>11. Wrote(file', cursor + 1)
      BY <1>2, <1>4, <2>1, <2>4, <2>8, <2>9, <2>10, WroteMore
    <2> QED
      BY <1>1, <1>2, <2>1, <2>8, <2>11 DEF StoreInv, StoreTypes, Fresh
  <1> QED
    BY <1>5, <1>6

LEMMA DamageKeeps == ASSUME StoreInv, S!Damages PROVE StoreInv'
  <1>1. /\ phase = "open" /\ phase' = "open" /\ fault' = "damaged"
        /\ UNCHANGED <<store, cursor, end, metadata, output, kept, sources, out>>
    BY DEF S!Damages
  <1>2. Wrote(file, cursor) /\ Fresh /\ Typed(file) /\ cursor \in Nat /\ StoreTypes
    BY <1>1 DEF StoreInv, StoreTypes
  <1>3. PICK i \in 0..(cursor - 1),
             r \in {[old |-> Limit, new |-> 2], [old |-> 0, new |-> 1],
                    [old |-> 0, new |-> S!AreaChunk(1)],
                    [old |-> 0, new |-> S!Cardinality(DOMAIN file)]} :
          file' = [file EXCEPT ![S!AreaChunk(S!AreaOf(i))][S!SlotOf(i)] = r]
    BY DEF S!Damages
  <1>4. i \in Nat /\ i < cursor /\ Home(i) \in DOMAIN file
    BY <1>2, <1>3 DEF Wrote
  <1>5. Cardinality(DOMAIN file) \in Nat /\ Cardinality(DOMAIN file) \notin DOMAIN file
        /\ Cardinality(DOMAIN file) # 0
    BY <1>2, <1>4, Homes DEF Typed
  <1>6. S!AreaChunk(1) \in Nat /\ S!AreaChunk(1) # 0 /\ S!IsArea(S!AreaChunk(1))
    BY AreaChunks
  <1>7. /\ r \in Records /\ r.new # 0
        /\ ~(r.old < Limit /\ r.new \in DOMAIN file /\ r.new >= 2 /\ ~S!IsArea(r.new))
    BY <1>3, <1>5, <1>6, SameCount, Scale DEF Records
  <1>8. file[Home(i)] \in [S!Slots -> Records] /\ S!SlotOf(i) \in S!Slots
    BY <1>2, <1>4, RecordTypes, Places
  <1>9. DOMAIN file' = DOMAIN file
        /\ \A c \in DOMAIN file :
             file'[c] = IF c = Home(i) THEN [file[c] EXCEPT ![S!SlotOf(i)] = r] ELSE file[c]
    BY <1>3, <1>4 DEF Home
  <1>10. Typed(file')
    <2>1. [file[Home(i)] EXCEPT ![S!SlotOf(i)] = r] \in [S!Slots -> Records]
      BY <1>7, <1>8
    <2>2. Home(i) # 0 /\ S!IsArea(Home(i))
      BY <1>4, Homes
    <2>3. [file[Home(i)] EXCEPT ![S!SlotOf(i)] = r] \in ChunkType(Home(i))
      BY <2>1, <2>2 DEF ChunkType
    <2> QED
      BY <1>2, <1>9, <2>3, TypedAgain
  <1>11. Wrote(file', cursor)
    <2>1. Replaced(file, file', i, r)
      BY <1>9 DEF Replaced
    <2> QED
      BY <1>2, <1>4, <1>7, <1>10, <2>1, WroteDamaged
  <1> QED
    BY <1>1, <1>2, <1>10, <1>11 DEF StoreInv, StoreTypes, Fresh

-----------------------------------------------------------------------------
(* Its steps: the used extent *)

LEMMA GoodMeansUsable ==
  ASSUME WholeStore
  PROVE  S!Usable(store) <=> \A i \in Nat : i < Count => Good(store, i)
  <1>1. Count \in Nat /\ S!Terminated(store) /\ S!Cardinality(DOMAIN store) >= 2 /\ store[0] = "valid"
    BY ListLength, SameCount DEF WholeStore, Listed, Wrote, Typed
  <1>2. (\A i \in 0..(S!Length(store) - 1) : Good(store, i)) <=> (\A i \in Nat : i < Count => Good(store, i))
    BY <1>1 DEF Count
  <1>3. S!Usable(store) <=> \A i \in 0..(S!Length(store) - 1) : Good(store, i)
    BY <1>1 DEF S!Usable, Good
  <1> QED
    BY <1>2, <1>3

LEMMA FailKeeps ==
  ASSUME StoreInv, NEW why \in {"store", "io"}, S!Fails(why), why = "store" => ~S!Usable(store),
         \A c \in DOMAIN file : ~S!IsArea(c) => file[c] = store[c]
  PROVE  StoreInv'
  <1>1. phase' = "failed" /\ fault' = why
        /\ UNCHANGED <<file, store, cursor, end, metadata, output, kept, sources, out>>
    BY DEF S!Fails
  <1>2. S!Usable(store)' <=> S!Usable(store)
    BY <1>1 DEF S!Usable, S!Length, S!Terminated, S!Record
  <1>3. StoreTypes'
    BY <1>1 DEF StoreInv, StoreTypes, Typed, ChunkType
  <1> QED
    BY <1>1, <1>2, <1>3 DEF StoreInv

LEMMA DetachKeeps == ASSUME StoreInv, S!Detach PROVE StoreInv'
  <1>1. /\ phase = "open" /\ phase' = "header" /\ store' = file
        /\ UNCHANGED <<file, cursor, end, metadata, output, kept, sources, out, fault>>
    BY DEF S!Detach
  <1>2. StoreTypes'
    BY <1>1 DEF StoreInv, StoreTypes, Typed, ChunkType
  <1>3. Wrote(store', cursor)
    BY <1>1 DEF StoreInv
  <1> QED
    BY <1>1, <1>2, <1>3 DEF StoreInv, Fresh

LEMMA OriginFailsKeeps == ASSUME StoreInv, S!OriginFails PROVE StoreInv'
  <1>1. S!Fails("io") /\ phase \in {"header", "scan"}
    BY DEF S!OriginFails
  <1>2. \A c \in DOMAIN file : ~S!IsArea(c) => file[c] = store[c]
    BY <1>1 DEF StoreInv, Cut
  <1> QED
    BY <1>1, <1>2, FailKeeps

LEMMA HeaderKeeps == ASSUME StoreInv, S!ReadHeader PROVE StoreInv'
  <1>1. phase = "header" /\ file = store /\ Fresh /\ StoreTypes
    BY DEF S!ReadHeader, StoreInv
  <1>2. PICK n : Wrote(store, n)
    BY <1>1 DEF StoreInv
  <1>3. Cardinality(DOMAIN store) \in Nat /\ n \in Nat /\ n <= Cardinality(DOMAIN store)
    BY <1>2 DEF Wrote, Typed
  <1>4. S!Chunks = Cardinality(DOMAIN store)
    BY <1>1, SameCount DEF S!Chunks
  <1>5. CASE Cardinality(DOMAIN store) < 2 \/ store[0] # "valid"
    <2>1. S!Fails("store")
      BY <1>1, <1>4, <1>5 DEF S!ReadHeader
    <2>2. ~S!Usable(store)
      <3>1. ~(Cardinality(DOMAIN store) >= 2 /\ store[0] = "valid")
        BY <1>3, <1>5
      <3> QED
        BY <3>1, SameCount DEF S!Usable
    <2> QED
      BY <1>1, <2>1, <2>2, FailKeeps
  <1>6. CASE Cardinality(DOMAIN store) >= 2 /\ store[0] = "valid"
    <2>1. Listed(store, n) /\ Count = n
      BY <1>2, <1>6, KernelLists DEF Count
    <2>2. WholeStore
      BY <1>2, <1>3, <1>6, <2>1 DEF WholeStore
    <2>3. /\ phase' = "extent" /\ cursor' = 0 /\ end' = 2
          /\ UNCHANGED <<file, store, metadata, output, kept, sources, out, fault>>
      BY <1>1, <1>3, <1>4, <1>6 DEF S!ReadHeader
    <2>4. Count' = Count
      BY <2>3 DEF Count, S!Length, S!Record
    <2>5. WholeStore'
      BY <2>2, <2>3, <2>4 DEF WholeStore, Wrote, Typed, ChunkType, Listed, Good, OriginsDiffer, S!Record
    <2>6. Measuring'
      BY <1>3, <1>6, <2>1, <2>3, <2>4, FirstPlace DEF Measuring, Covers, Buffer
    <2>7. StoreTypes'
      BY <1>1, <2>3 DEF StoreTypes, Typed, ChunkType
    <2> QED
      BY <1>1, <2>3, <2>5, <2>6, <2>7 DEF StoreInv, Fresh
  <1> QED
    BY <1>3, <1>5, <1>6

\* The record under the cursor is the store's, wherever it is read from.
LEMMA CurrentRecord ==
  ASSUME WholeStore, cursor \in Nat, cursor <= Count, Buffer,
         S!SlotOf(cursor) = 0 => file[Home(cursor)] = store[Home(cursor)]
  PROVE  /\ S!Area = Home(cursor) /\ S!Buffered = store[Home(cursor)] /\ S!Current = S!Record(store, cursor)
         /\ Home(cursor) \in DOMAIN store /\ S!Record(store, cursor) \in Records
         /\ store[Home(cursor)] \in [S!Slots -> Records]
         /\ S!Record(store, cursor).new = 0 <=> cursor = Count
  <1>1. S!Area = Home(cursor) /\ Home(cursor) \in DOMAIN store
    BY DEF S!Area, Home, WholeStore, Listed
  <1>2. S!Buffered = store[Home(cursor)]
    BY <1>1 DEF S!Buffered, Buffer
  <1>3. S!Current = S!Record(store, cursor)
    BY <1>2 DEF S!Current, S!Record, Home
  <1>4. Typed(store) /\ Count \in Nat
    BY DEF WholeStore, Wrote
  <1>5. S!Record(store, cursor).new = 0 <=> cursor = Count
    BY <1>4 DEF WholeStore, Listed
  <1> QED
    BY <1>1, <1>2, <1>3, <1>4, <1>5, RecordTypes

LEMMA NextBuffer ==
  ASSUME cursor \in Nat, cursor' = cursor + 1, metadata' = store[Home(cursor)], store' = store
  PROVE  Buffer'
  <1>1. S!SlotOf(cursor + 1) # 0 => Home(cursor + 1) = Home(cursor)
    BY NextPlace DEF Home
  <1>2. S!SlotOf(cursor)' = S!SlotOf(cursor + 1) /\ Home(cursor)' = Home(cursor + 1)
    BY DEF S!SlotOf, S!AreaOf, Home
  <1> QED
    BY <1>1, <1>2 DEF Buffer

\* Nothing that is said of the detached store changes with the other variables.
LEMMA StoreStays ==
  ASSUME UNCHANGED store
  PROVE  /\ Count' = Count /\ (WholeStore => WholeStore')
         /\ \A i \in Nat : (Good(store, i)' <=> Good(store, i)) /\ S!Record(store, i)' = S!Record(store, i)
         /\ \A i \in Nat : Differs(i)' <=> Differs(i)
  <1>1. Count' = Count
    BY DEF Count, S!Length, S!Record
  <1> QED
    BY <1>1 DEF WholeStore, Wrote, Typed, ChunkType, Listed, Good, OriginsDiffer, S!Record, Differs

LEMMA ExtentRecordKeeps == ASSUME StoreInv, S!ExtentRecord PROVE StoreInv'
  <1>1. phase = "extent" /\ file = store /\ WholeStore /\ Measuring /\ Fresh /\ StoreTypes
    BY DEF S!ExtentRecord, StoreInv
  <1>2. cursor \in Nat /\ cursor <= Count /\ Buffer /\ Count \in Nat /\ Typed(store) /\ end \in Nat
    BY <1>1 DEF StoreTypes, Measuring, WholeStore, Wrote
  <1>3. /\ S!Area = Home(cursor) /\ S!Buffered = store[Home(cursor)] /\ S!Current = S!Record(store, cursor)
        /\ Home(cursor) \in DOMAIN store /\ S!Record(store, cursor) \in Records
        /\ store[Home(cursor)] \in [S!Slots -> Records]
        /\ S!Record(store, cursor).new = 0 <=> cursor = Count
    BY <1>1, <1>2, CurrentRecord
  <1>4. S!Chunks = Cardinality(DOMAIN store) /\ Cardinality(DOMAIN store) \in Nat
        /\ DOMAIN store = 0..(Cardinality(DOMAIN store) - 1)
    BY <1>1, <1>2, SameCount DEF S!Chunks, Typed
  <1> DEFINE r == S!Record(store, cursor)
  <1>5. r.old \in Nat /\ r.new \in Nat
    BY <1>3 DEF Records
  <1>6. ~(S!Area >= S!Chunks)
    BY <1>3, <1>4
  <1>7. cursor < Count
    BY <1>1, <1>2, <1>3, <1>6 DEF S!ExtentRecord
  <1>8. S!Acceptable(S!Current) <=> Good(store, cursor)
    BY <1>3, <1>4, <1>5 DEF S!Acceptable, Good
  <1>9. CASE ~Good(store, cursor)
    <2>1. S!Fails("store")
      BY <1>6, <1>8, <1>9 DEF S!ExtentRecord
    <2>2. ~S!Usable(store)
      BY <1>1, <1>2, <1>7, <1>9, GoodMeansUsable
    <2> QED
      BY <1>1, <2>1, <2>2, FailKeeps
  <1>10. CASE Good(store, cursor)
    <2>1. /\ end' = S!Larger(S!Larger(end, Home(cursor) + 1), r.new + 1)
          /\ cursor' = cursor + 1 /\ metadata' = store[Home(cursor)]
          /\ UNCHANGED <<phase, file, store, output, kept, sources, out, fault>>
      BY <1>3, <1>6, <1>8, <1>10 DEF S!ExtentRecord
    <2>2. r.new < Cardinality(DOMAIN store) /\ Home(cursor) < Cardinality(DOMAIN store) /\ Home(cursor) \in Nat
      <3>1. r.new \in DOMAIN store /\ Home(cursor) \in DOMAIN store
        BY <1>3, <1>10 DEF Good
      <3>2. \A c \in DOMAIN store : c \in Nat /\ c < Cardinality(DOMAIN store)
        BY <1>4
      <3> QED
        BY <3>1, <3>2
    <2>3. end' \in Nat /\ end <= end' /\ Home(cursor) < end' /\ r.new < end' /\ end' <= Cardinality(DOMAIN store)
      <3> HIDE DEF r
      <3> QED
        BY <1>1, <1>2, <1>4, <1>5, <2>1, <2>2 DEF S!Larger, Measuring
    <2>4. Count' = Count /\ WholeStore' /\ \A i \in Nat : (Good(store, i)' <=> Good(store, i)) /\ S!Record(store, i)' = S!Record(store, i)
      BY <1>1, <2>1, StoreStays
    <2>5. \A i \in Nat : i < cursor + 1 => Good(store, i) /\ S!Record(store, i).new < end' /\ Home(i) < end'
      <3> SUFFICES ASSUME NEW i \in Nat, i < cursor + 1
                   PROVE  Good(store, i) /\ S!Record(store, i).new < end' /\ Home(i) < end'
        OBVIOUS
      <3>1. CASE i = cursor
        BY <1>10, <2>3, <3>1
      <3>2. CASE i < cursor
        <4>1. Good(store, i) /\ S!Record(store, i).new < end /\ Home(i) < end /\ i <= Count
          BY <1>1, <1>2, <3>2 DEF Measuring, Covers
        <4>2. S!Record(store, i).new \in Nat /\ Home(i) \in Nat
          BY <1>1, <1>2, <4>1, RecordTypes, Homes DEF WholeStore, Listed, Records
        <4> QED
          BY <1>2, <2>3, <4>1, <4>2
      <3> QED
        BY <1>2, <3>1, <3>2
    <2>6. Covers(cursor)'
      BY <2>1, <2>4, <2>5 DEF Covers, Home, S!AreaChunk, S!AreaOf, S!Stride
    <2>7. Buffer'
      BY <1>2, <2>1, NextBuffer
    <2>8. Measuring'
      BY <1>1, <1>2, <1>4, <1>7, <2>1, <2>3, <2>4, <2>6, <2>7 DEF Measuring
    <2>9. StoreTypes'
      BY <1>1, <1>2, <1>3, <2>1, <2>3 DEF StoreTypes, Typed, ChunkType
    <2>10. phase' = "extent" /\ file' = store' /\ Fresh' /\ fault' = fault
      BY <1>1, <2>1 DEF Fresh
    <2> QED
      BY <1>1, <2>4, <2>8, <2>9, <2>10 DEF StoreInv
  <1> QED
    BY <1>9, <1>10

LEMMA ExtentFoundKeeps == ASSUME StoreInv, S!ExtentFound PROVE StoreInv'
  <1>1. phase = "extent" /\ file = store /\ WholeStore /\ Measuring /\ Fresh /\ StoreTypes
    BY DEF S!ExtentFound, StoreInv
  <1>2. cursor \in Nat /\ cursor <= Count /\ Buffer /\ Count \in Nat /\ Typed(store) /\ end \in Nat
    BY <1>1 DEF StoreTypes, Measuring, WholeStore, Wrote
  <1>3. /\ S!Area = Home(cursor) /\ S!Current = S!Record(store, cursor) /\ Home(cursor) \in DOMAIN store
        /\ S!Record(store, cursor).new = 0 <=> cursor = Count
    BY <1>1, <1>2, CurrentRecord
  <1>4. Cardinality(DOMAIN store) \in Nat /\ DOMAIN store = 0..(Cardinality(DOMAIN store) - 1)
    BY <1>2 DEF Typed
  <1>5. cursor = Count
    BY <1>3 DEF S!ExtentFound
  <1>6. /\ end' = S!Larger(end, Home(Count) + 1) /\ file' = [c \in 0..(end' - 1) |-> store[c]]
        /\ phase' = "scan" /\ cursor' = 0
        /\ UNCHANGED <<store, metadata, output, kept, sources, out, fault>>
    BY <1>1, <1>3, <1>5 DEF S!ExtentFound, S!Truncated
  <1>7. Home(Count) \in Nat /\ Home(Count) < Cardinality(DOMAIN store)
    BY <1>2, <1>3, <1>4, <1>5, Homes
  <1>8. end' \in Nat /\ end <= end' /\ 2 <= end' /\ Home(Count) < end' /\ end' <= Cardinality(DOMAIN store)
    BY <1>1, <1>2, <1>4, <1>6, <1>7 DEF S!Larger, Measuring
  <1>9. /\ Count' = Count /\ WholeStore'
        /\ \A i \in Nat : (Good(store, i)' <=> Good(store, i)) /\ S!Record(store, i)' = S!Record(store, i)
    BY <1>1, <1>6, StoreStays
  <1>10. DOMAIN file' = 0..(end' - 1) /\ \A c \in DOMAIN file' : file'[c] = store[c] /\ c \in DOMAIN store
    BY <1>4, <1>6, <1>8
  <1>11. \A i \in Nat : i < Count => Good(store, i) /\ S!Record(store, i).new < end' /\ Home(i) < end'
    <2> SUFFICES ASSUME NEW i \in Nat, i < Count
                 PROVE  Good(store, i) /\ S!Record(store, i).new < end' /\ Home(i) < end'
      OBVIOUS
    <2>1. Good(store, i) /\ S!Record(store, i).new < end /\ Home(i) < end
      BY <1>1, <1>5 DEF Measuring, Covers
    <2>2. S!Record(store, i).new \in Nat /\ Home(i) \in Nat
      BY <1>1, <1>2, RecordTypes, Homes DEF WholeStore, Listed, Records
    <2> QED
      BY <1>2, <1>8, <2>1, <2>2
  <1>12. Covers(Count)'
    BY <1>9, <1>11 DEF Covers, Home, S!AreaChunk, S!AreaOf, S!Stride
  <1>13. Cut'
    <2>1. Home(Count)' = Home(Count)
      BY <1>9 DEF Home, S!AreaChunk, S!AreaOf, S!Stride
    <2> QED
      BY <1>6, <1>8, <1>10, <1>12, <2>1 DEF Cut
  <1>14. Typed(file')
    <2>1. Cardinality(DOMAIN file') = end'
      BY <1>8, <1>10, IntervalSize
    <2> QED
      BY <1>2, <1>8, <1>10, <2>1 DEF Typed
  <1>15. Packing'
    <2>1. cursor' = 0 /\ kept' = 0 /\ output' = S!Blank
      BY <1>1, <1>6 DEF Fresh
    <2>2. Buffer'
      BY <2>1, FirstPlace DEF Buffer
    <2>3. \A a \in Nat : S!AreaChunk(a) \in DOMAIN file' => file'[S!AreaChunk(a)] = store[S!AreaChunk(a)]
      BY <1>10
    <2>4. Packs(cursor)'
      BY <2>1 DEF Packs
    <2>5. \A s \in S!Slots : output'[s] = S!NoRecord
      BY <2>1, BlankTypes
    <2> QED
      BY <1>2, <1>6, <1>9, <2>1, <2>2, <2>3, <2>4, <2>5
      DEF Packing, S!AreaChunk, S!Stride, S!Slots, S!NoRecord
  <1>16. StoreTypes'
    BY <1>1, <1>6, <1>8, <1>14 DEF StoreTypes
  <1>17. out' = <<>> /\ fault' = fault
    BY <1>1, <1>6 DEF Fresh
  <1> QED
    BY <1>1, <1>6, <1>9, <1>13, <1>15, <1>16, <1>17 DEF StoreInv

-----------------------------------------------------------------------------
(* Its steps: packing *)

LEMMA ScanFacts ==
  ASSUME StoreInv, phase = "scan"
  PROVE  /\ WholeStore /\ Cut /\ Packing /\ out = <<>> /\ StoreTypes
         /\ cursor \in Nat /\ kept \in Nat /\ Count \in Nat /\ Typed(store) /\ Typed(file) /\ end \in Nat
         /\ Home(kept) \in Nat /\ Home(kept) < end /\ Home(kept) \in DOMAIN file
         /\ S!Area = Home(cursor) /\ S!Area \in DOMAIN file
         /\ S!Buffered = store[Home(cursor)] /\ S!Current = S!Record(store, cursor)
         /\ S!Record(store, cursor) \in Records /\ store[Home(cursor)] \in [S!Slots -> Records]
         /\ S!Record(store, cursor).new = 0 <=> cursor = Count
         /\ S!SlotOf(kept) \in S!Slots /\ S!AreaOf(kept) \in Nat
  <1>1. WholeStore /\ Cut /\ Packing /\ out = <<>> /\ StoreTypes
    BY DEF StoreInv
  <1>2. cursor \in Nat /\ kept \in Nat /\ Count \in Nat /\ Typed(store) /\ Typed(file) /\ end \in Nat
    BY <1>1 DEF StoreTypes, WholeStore, Wrote
  <1>3. kept <= Count /\ kept <= cursor /\ cursor <= Count /\ Buffer
    BY <1>1, <1>2 DEF Packing
  <1>4. Home(kept) <= Home(Count) /\ Home(cursor) <= Home(Count) /\ Home(kept) \in Nat /\ Home(cursor) \in Nat
        /\ Home(Count) \in Nat
    BY <1>2, <1>3, Homes
  <1>5. Home(kept) \in DOMAIN file /\ Home(cursor) \in DOMAIN file /\ Home(kept) < end
    BY <1>1, <1>2, <1>4 DEF Cut
  <1>6. S!AreaOf(cursor) >= S!AreaOf(kept) /\ S!AreaOf(cursor) \in Nat /\ S!AreaOf(kept) \in Nat
    <2>1. cursor = kept \/ S!AreaOf(kept) = S!AreaOf(cursor) \/ S!AreaOf(kept) < S!AreaOf(cursor)
      BY <1>2, <1>3, PlacesInOrder
    <2>2. S!AreaOf(cursor) \in Nat /\ S!AreaOf(kept) \in Nat
      BY <1>2, Places
    <2> QED
      BY <2>1, <2>2
  <1>7. file[Home(cursor)] = store[Home(cursor)]
    BY <1>1, <1>5, <1>6 DEF Packing, Home
  <1>8. S!SlotOf(kept) \in S!Slots
    BY <1>2, Places
  <1> QED
    BY <1>1, <1>2, <1>3, <1>4, <1>5, <1>6, <1>7, <1>8, CurrentRecord

\* A file in which an area was overwritten.
LEMMA WrittenArea ==
  ASSUME Typed(file), NEW c \in DOMAIN file, S!IsArea(c), NEW area \in [S!Slots -> Records], S!Written(c, area)
  PROVE  /\ DOMAIN file' = DOMAIN file /\ Typed(file') /\ file'[c] = area
         /\ \A d \in DOMAIN file : d # c => file'[d] = file[d]
  <1>1. DOMAIN file \cup {c} = DOMAIN file
    OBVIOUS
  <1>2. DOMAIN file' = DOMAIN file /\ \A d \in DOMAIN file : file'[d] = IF d = c THEN area ELSE file[d]
    BY <1>1 DEF S!Written
  <1>3. c # 0
    BY DEF S!IsArea
  <1>4. area \in ChunkType(c)
    BY <1>3 DEF ChunkType
  <1> QED
    BY <1>2, <1>4, TypedAgain

LEMMA CutStays ==
  ASSUME Cut, UNCHANGED <<store, end>>, DOMAIN file' = DOMAIN file,
         \A c \in DOMAIN file : ~S!IsArea(c) => file'[c] = file[c]
  PROVE  Cut'
  <1>1. Count' = Count
    BY StoreStays
  <1>2. Covers(Count)'
    BY <1>1 DEF Cut, Covers, Good, S!Record, Home, S!AreaOf, S!SlotOf, S!AreaChunk, S!Stride, S!IsArea, S!MultipleOf
  <1> QED
    BY <1>1, <1>2 DEF Cut, Home, S!AreaOf, S!AreaChunk, S!Stride, S!IsArea, S!MultipleOf

\* One more record of the list was looked at, and packed if it differs.
LEMMA PacksMore ==
  ASSUME Packs(cursor), cursor \in Nat, kept \in Nat, UNCHANGED store,
         \/ /\ ~Differs(cursor) /\ kept' = kept
            /\ \A j \in Nat : j < kept => PackedRecord(j)' = PackedRecord(j)
         \/ /\ Differs(cursor) /\ kept' = kept + 1
            /\ \A j \in Nat : j = kept => PackedRecord(j)' = S!Record(store, cursor)
            /\ \A j \in Nat : j < kept => PackedRecord(j)' = PackedRecord(j)
  PROVE  /\ \A j \in Nat : j < kept' => \E i \in Nat : i < cursor + 1 /\ Differs(i) /\ PackedRecord(j)' = S!Record(store, i)
         /\ \A i \in Nat : i < cursor + 1 /\ Differs(i) => \E j \in Nat : j < kept' /\ PackedRecord(j)' = S!Record(store, i)
  <1>1. \A j \in Nat : j < kept => PackedRecord(j)' = PackedRecord(j)
    OBVIOUS
  <1>5. kept' \in Nat /\ kept <= kept'
    OBVIOUS
  <1>2. ASSUME NEW j \in Nat, j < kept'
        PROVE  \E i \in Nat : i < cursor + 1 /\ Differs(i) /\ PackedRecord(j)' = S!Record(store, i)
    <2>1. CASE j < kept
      <3>1. PICK i \in Nat : i < cursor /\ Differs(i) /\ PackedRecord(j) = S!Record(store, i)
        BY <2>1 DEF Packs
      <3> QED
        BY <1>1, <2>1, <3>1
    <2>2. CASE ~(j < kept)
      <3>1. j = kept /\ Differs(cursor) /\ PackedRecord(j)' = S!Record(store, cursor)
        BY <1>2, <2>2
      <3> QED
        BY <3>1
    <2> QED
      BY <2>1, <2>2
  <1>3. ASSUME NEW i \in Nat, i < cursor + 1, Differs(i)
        PROVE  \E j \in Nat : j < kept' /\ PackedRecord(j)' = S!Record(store, i)
    <2>1. CASE i < cursor
      <3>1. PICK j \in Nat : j < kept /\ PackedRecord(j) = S!Record(store, i)
        BY <1>3, <2>1 DEF Packs
      <3> QED
        BY <1>1, <3>1
    <2>2. CASE ~(i < cursor)
      <3>1. i = cursor
        BY <1>3, <2>2
      <3> QED
        BY <1>3, <3>1
    <2> QED
      BY <2>1, <2>2
  <1> QED
    BY <1>2, <1>3

LEMMA ScanRecordKeeps == ASSUME StoreInv, S!ScanRecord PROVE StoreInv'
  <1>1. phase = "scan"
    BY DEF S!ScanRecord
  <1>2. /\ WholeStore /\ Cut /\ Packing /\ out = <<>> /\ StoreTypes
        /\ cursor \in Nat /\ kept \in Nat /\ Count \in Nat /\ Typed(store) /\ Typed(file) /\ end \in Nat
        /\ Home(kept) \in Nat /\ Home(kept) < end /\ Home(kept) \in DOMAIN file
        /\ S!Area = Home(cursor) /\ S!Area \in DOMAIN file
        /\ S!Buffered = store[Home(cursor)] /\ S!Current = S!Record(store, cursor)
        /\ S!Record(store, cursor) \in Records /\ store[Home(cursor)] \in [S!Slots -> Records]
        /\ S!Record(store, cursor).new = 0 <=> cursor = Count
        /\ S!SlotOf(kept) \in S!Slots /\ S!AreaOf(kept) \in Nat
    BY <1>1, ScanFacts
  <1> DEFINE r == S!Record(store, cursor)
             packed == [output EXCEPT ![S!SlotOf(kept)] = r]
  <1>3. S!Current.new # 0
    BY <1>2 DEF S!ScanRecord
  <1>4. cursor < Count
    BY <1>2, <1>3 DEF Packing
  <1>5. Good(store, cursor) /\ r.new < end /\ r.new \in Nat /\ r.new \in DOMAIN file /\ ~S!IsArea(r.new)
    BY <1>2, <1>4 DEF Cut, Covers, Good, Records
  <1>6. /\ IF file[r.new] = Origin[r.old]
           THEN UNCHANGED <<kept, output, file>>
           ELSE /\ kept' = kept + 1
                /\ IF S!SlotOf(kept + 1) = 0
                   THEN S!Written(Home(kept), packed) /\ output' = S!Blank
                   ELSE output' = packed /\ UNCHANGED file
        /\ cursor' = cursor + 1 /\ metadata' = store[Home(cursor)]
        /\ UNCHANGED <<phase, store, end, sources, out, fault>>
    BY <1>2, <1>3, <1>5 DEF S!ScanRecord, Home
  <1>7. file[r.new] = Origin[r.old] <=> ~Differs(cursor)
    BY <1>2, <1>5 DEF Cut, Differs
  <1>8. /\ packed \in [S!Slots -> Records] /\ packed[S!SlotOf(kept)] = r
        /\ \A s \in S!Slots : s # S!SlotOf(kept) => packed[s] = output[s]
    BY <1>2 DEF StoreTypes
  <1> HIDE DEF packed, r
  <1>9. /\ Count' = Count /\ WholeStore'
        /\ \A i \in Nat : S!Record(store, i)' = S!Record(store, i)
        /\ \A i \in Nat : Differs(i)' <=> Differs(i)
    BY <1>2, <1>6, StoreStays
  <1>10. Buffer'
    BY <1>2, <1>6, NextBuffer
  <1>11. \A j \in Nat : /\ PackedRecord(j)' = IF S!AreaOf(j) < S!AreaOf(kept') THEN file'[Home(j)][S!SlotOf(j)]
                                              ELSE output'[S!SlotOf(j)]
                        /\ j < kept /\ ~(S!AreaOf(j) < S!AreaOf(kept)) =>
                             S!AreaOf(j) = S!AreaOf(kept) /\ S!SlotOf(j) < S!SlotOf(kept)
                        /\ S!SlotOf(j) \in S!Slots /\ S!AreaOf(j) \in Nat
                        /\ j <= kept => Home(j) \in DOMAIN file
    <2> SUFFICES ASSUME NEW j \in Nat
                 PROVE  /\ PackedRecord(j)' = IF S!AreaOf(j) < S!AreaOf(kept') THEN file'[Home(j)][S!SlotOf(j)]
                                              ELSE output'[S!SlotOf(j)]
                        /\ j < kept /\ ~(S!AreaOf(j) < S!AreaOf(kept)) =>
                             S!AreaOf(j) = S!AreaOf(kept) /\ S!SlotOf(j) < S!SlotOf(kept)
                        /\ S!SlotOf(j) \in S!Slots /\ S!AreaOf(j) \in Nat
                        /\ j <= kept => Home(j) \in DOMAIN file
      OBVIOUS
    <2>1. PackedRecord(j)' = IF S!AreaOf(j) < S!AreaOf(kept') THEN file'[Home(j)][S!SlotOf(j)] ELSE output'[S!SlotOf(j)]
      BY DEF PackedRecord, Home, S!AreaOf, S!SlotOf, S!AreaChunk, S!Stride
    <2>2. j <= kept => Home(j) \in DOMAIN file
      <3>1. j <= kept => Home(j) <= Home(kept) /\ Home(j) \in Nat
        BY <1>2, Homes
      <3> QED
        BY <1>2, <3>1 DEF Cut
    <2> QED
      BY <1>2, <2>1, <2>2, PlacesInOrder, Places
  <1>12. CASE ~Differs(cursor)
    <2>1. UNCHANGED <<kept, output, file>>
      BY <1>6, <1>7, <1>12
    <2>2. \A j \in Nat : PackedRecord(j)' = PackedRecord(j)
      BY <1>11, <2>1 DEF PackedRecord
    <2>3. Packs(cursor)'
      <3>1. Packs(cursor)
        BY <1>2 DEF Packing
      <3> QED
        BY <1>2, <1>6, <1>9, <1>12, <2>1, <2>2, <3>1, PacksMore DEF Packs
    <2>4. Packing'
      BY <1>2, <1>4, <1>6, <1>9, <1>10, <2>1, <2>3
      DEF Packing, S!AreaChunk, S!AreaOf, S!SlotOf, S!Stride, S!Slots, S!NoRecord
    <2>5. Cut'
      BY <1>2, <1>6, <2>1, CutStays
    <2>6. StoreTypes'
      BY <1>2, <1>6, <2>1 DEF StoreTypes, Typed, ChunkType
    <2> QED
      BY <1>1, <1>2, <1>6, <1>9, <2>4, <2>5, <2>6 DEF StoreInv
  <1>13. CASE Differs(cursor) /\ S!SlotOf(kept + 1) # 0
    <2>1. kept' = kept + 1 /\ output' = packed /\ UNCHANGED file
      BY <1>6, <1>7, <1>13
    <2>2. S!AreaOf(kept') = S!AreaOf(kept) /\ S!SlotOf(kept') = S!SlotOf(kept) + 1
      BY <1>2, <1>13, <2>1, NextPlace
    <2>3. ASSUME NEW j \in Nat, j = kept PROVE PackedRecord(j)' = r
      <3>1. S!AreaOf(j) = S!AreaOf(kept) /\ S!SlotOf(j) = S!SlotOf(kept) /\ S!AreaOf(j) \in Nat
        BY <1>2, <2>3
      <3>2. PackedRecord(j)' = output'[S!SlotOf(j)]
        BY <1>11, <2>2, <3>1
      <3> QED
        BY <1>8, <2>1, <3>1, <3>2
    <2>4. ASSUME NEW j \in Nat, j < kept PROVE PackedRecord(j)' = PackedRecord(j)
      <3>1. S!AreaOf(j) \in Nat /\ S!SlotOf(j) \in S!Slots
        BY Places
      <3>2. CASE S!AreaOf(j) < S!AreaOf(kept)
        BY <1>11, <2>1, <2>2, <3>2 DEF PackedRecord
      <3>3. CASE ~(S!AreaOf(j) < S!AreaOf(kept))
        <4>1. PackedRecord(j)' = output'[S!SlotOf(j)] /\ PackedRecord(j) = output[S!SlotOf(j)]
          BY <1>11, <2>2, <3>3 DEF PackedRecord
        <4>2. S!SlotOf(j) # S!SlotOf(kept)
          BY <1>2, <1>11, <2>4, <3>3 DEF S!Slots
        <4> QED
          BY <1>8, <2>1, <3>1, <4>1, <4>2
      <3> QED
        BY <3>2, <3>3
    <2>5. Packs(cursor)'
      <3>1. Packs(cursor)
        BY <1>2 DEF Packing
      <3> QED
        BY <1>2, <1>6, <1>9, <1>13, <2>1, <2>3, <2>4, <3>1, PacksMore DEF Packs, r
    <2>6. \A s \in S!Slots : s >= S!SlotOf(kept') => output'[s] = S!NoRecord
      BY <1>2, <1>8, <2>1, <2>2 DEF Packing, S!Slots
    <2>7. kept' <= cursor'
      BY <1>2, <1>6, <2>1 DEF Packing
    <2>8. \A a \in Nat : a >= S!AreaOf(kept') /\ S!AreaChunk(a) \in DOMAIN file'
            => file'[S!AreaChunk(a)] = store[S!AreaChunk(a)]
      BY <1>2, <2>1, <2>2 DEF Packing
    <2>9. Packing'
      BY <1>2, <1>4, <1>6, <1>9, <1>10, <2>5, <2>6, <2>7, <2>8
      DEF Packing, S!AreaChunk, S!AreaOf, S!SlotOf, S!Stride, S!Slots, S!NoRecord
    <2>10. Cut'
      BY <1>2, <1>6, <2>1, CutStays
    <2>11. StoreTypes'
      BY <1>2, <1>6, <1>8, <2>1 DEF StoreTypes, Typed, ChunkType
    <2> QED
      BY <1>1, <1>2, <1>6, <1>9, <2>9, <2>10, <2>11 DEF StoreInv
  <1>14. CASE Differs(cursor) /\ S!SlotOf(kept + 1) = 0
    <2>1. kept' = kept + 1 /\ output' = S!Blank /\ S!Written(Home(kept), packed)
      BY <1>6, <1>7, <1>14
    <2>2. S!AreaOf(kept') = S!AreaOf(kept) + 1 /\ S!SlotOf(kept') = 0
      BY <1>2, <1>14, <2>1, NextPlace DEF S!Slots
    <2>3. S!IsArea(Home(kept))
      BY <1>2, Homes
    <2>4. /\ DOMAIN file' = DOMAIN file /\ Typed(file') /\ file'[Home(kept)] = packed
          /\ \A d \in DOMAIN file : d # Home(kept) => file'[d] = file[d]
      BY <1>2, <1>8, <2>1, <2>3, WrittenArea
    <2>5. ASSUME NEW j \in Nat, j = kept PROVE PackedRecord(j)' = r
      <3>1. S!AreaOf(j) < S!AreaOf(kept') /\ Home(j) = Home(kept) /\ S!SlotOf(j) = S!SlotOf(kept)
        BY <1>2, <2>2, <2>5
      <3>2. PackedRecord(j)' = file'[Home(j)][S!SlotOf(j)]
        BY <1>11, <3>1
      <3> QED
        BY <1>8, <2>4, <3>1, <3>2
    <2>6. ASSUME NEW j \in Nat, j < kept PROVE PackedRecord(j)' = PackedRecord(j)
      <3>1. CASE S!AreaOf(j) < S!AreaOf(kept)
        <4>1. Home(j) # Home(kept) /\ Home(j) \in DOMAIN file
          <5>1. Home(j) = Home(kept) => S!AreaOf(j) = S!AreaOf(kept)
            BY <1>2, <2>6, Homes
          <5>2. S!AreaOf(j) \in Nat /\ j <= kept
            BY <1>2, <1>11, <2>6
          <5> QED
            BY <1>2, <1>11, <3>1, <5>1, <5>2
        <4>2. S!AreaOf(j) < S!AreaOf(kept')
          BY <1>2, <1>11, <2>2, <3>1
        <4>3. PackedRecord(j)' = file'[Home(j)][S!SlotOf(j)] /\ PackedRecord(j) = file[Home(j)][S!SlotOf(j)]
          BY <1>11, <3>1, <4>2 DEF PackedRecord
        <4> QED
          BY <2>4, <4>1, <4>3
      <3>2. CASE ~(S!AreaOf(j) < S!AreaOf(kept))
        <4>1. Home(j) = Home(kept) /\ S!AreaOf(j) < S!AreaOf(kept') /\ S!SlotOf(j) # S!SlotOf(kept)
          BY <1>2, <1>11, <2>2, <2>6, <3>2 DEF Home, S!Slots
        <4> QED
          BY <1>8, <1>11, <2>4, <3>2, <4>1 DEF PackedRecord
      <3> QED
        BY <3>1, <3>2
    <2>7. Packs(cursor)'
      <3>1. Packs(cursor)
        BY <1>2 DEF Packing
      <3> QED
        BY <1>2, <1>6, <1>9, <1>14, <2>1, <2>5, <2>6, <3>1, PacksMore DEF Packs, r
    <2>8. \A s \in S!Slots : s >= S!SlotOf(kept') => output'[s] = S!NoRecord
      BY <2>1, BlankTypes
    <2>9. kept' <= cursor'
      BY <1>2, <1>6, <2>1 DEF Packing
    <2>10. \A a \in Nat : a >= S!AreaOf(kept') /\ S!AreaChunk(a) \in DOMAIN file'
            => file'[S!AreaChunk(a)] = store[S!AreaChunk(a)]
      <3> SUFFICES ASSUME NEW a \in Nat, a >= S!AreaOf(kept'), S!AreaChunk(a) \in DOMAIN file'
                   PROVE  file'[S!AreaChunk(a)] = store[S!AreaChunk(a)]
        OBVIOUS
      <3>0. S!AreaOf(kept) < a
        BY <1>2, <2>2
      <3>1. S!AreaChunk(S!AreaOf(kept)) + PerArea + 1 <= S!AreaChunk(a)
        BY <1>2, <3>0, AreaChunks
      <3>2. S!AreaChunk(S!AreaOf(kept)) \in Nat /\ S!AreaChunk(a) \in Nat
        BY <1>2, AreaChunks
      <3>3. S!AreaChunk(a) # Home(kept) /\ a >= S!AreaOf(kept)
        BY <1>2, <3>0, <3>1, <3>2, Scale DEF Home
      <3> QED
        BY <1>2, <2>4, <3>3 DEF Packing
    <2>11. Packing'
      BY <1>2, <1>4, <1>6, <1>9, <1>10, <2>7, <2>8, <2>9, <2>10
      DEF Packing, S!AreaChunk, S!AreaOf, S!SlotOf, S!Stride, S!Slots, S!NoRecord
    <2>12. Cut'
      BY <1>2, <1>6, <2>3, <2>4, CutStays
    <2>13. StoreTypes'
      BY <1>2, <1>6, <2>1, <2>4, BlankTypes DEF StoreTypes
    <2> QED
      BY <1>1, <1>2, <1>6, <1>9, <2>11, <2>12, <2>13 DEF StoreInv
  <1> QED
    BY <1>12, <1>13, <1>14

LEMMA ScanEndsKeeps == ASSUME StoreInv, S!ScanEnds PROVE StoreInv'
  <1>1. phase = "scan"
    BY DEF S!ScanEnds
  <1>2. /\ WholeStore /\ Cut /\ Packing /\ out = <<>> /\ StoreTypes
        /\ cursor \in Nat /\ kept \in Nat /\ Count \in Nat /\ Typed(store) /\ Typed(file) /\ end \in Nat
        /\ Home(kept) \in Nat /\ Home(kept) < end /\ Home(kept) \in DOMAIN file
        /\ S!Current = S!Record(store, cursor)
        /\ S!Record(store, cursor).new = 0 <=> cursor = Count
        /\ S!SlotOf(kept) \in S!Slots /\ S!AreaOf(kept) \in Nat
    BY <1>1, ScanFacts
  <1>3. cursor = Count
    BY <1>2 DEF S!ScanEnds
  <1>4. /\ S!Written(Home(kept), output) /\ phase' = "stream"
        /\ UNCHANGED <<store, cursor, end, metadata, output, kept, sources, out, fault>>
    BY DEF S!ScanEnds, Home
  <1>5. S!IsArea(Home(kept))
    BY <1>2, Homes
  <1>6. output \in [S!Slots -> Records]
    BY <1>2 DEF StoreTypes
  <1>7. /\ DOMAIN file' = DOMAIN file /\ Typed(file') /\ file'[Home(kept)] = output
        /\ \A d \in DOMAIN file : d # Home(kept) => file'[d] = file[d]
    BY <1>2, <1>4, <1>5, <1>6, WrittenArea
  <1>8. ASSUME NEW j \in Nat, j < kept PROVE S!Record(file', j) = PackedRecord(j)
    <2>1. S!AreaOf(j) \in Nat /\ S!SlotOf(j) \in S!Slots
      BY Places
    <2>2. S!Record(file', j) = file'[Home(j)][S!SlotOf(j)]
      BY DEF S!Record, Home
    <2>3. CASE S!AreaOf(j) < S!AreaOf(kept)
      <3>1. Home(j) = Home(kept) => S!AreaOf(j) = S!AreaOf(kept)
        BY <1>2, Homes
      <3>4. j <= kept
        BY <1>2, <1>8
      <3>2. Home(j) <= Home(kept) /\ Home(j) \in Nat
        BY <1>2, <3>4, Homes
      <3>3. Home(j) \in DOMAIN file /\ Home(j) # Home(kept)
        BY <1>2, <2>1, <2>3, <3>1, <3>2 DEF Cut
      <3> QED
        BY <1>7, <2>2, <2>3, <3>3 DEF PackedRecord
    <2>4. CASE ~(S!AreaOf(j) < S!AreaOf(kept))
      <3>1. S!AreaOf(j) = S!AreaOf(kept)
        BY <1>2, <1>8, <2>1, <2>4, PlacesInOrder
      <3>2. Home(j) = Home(kept)
        BY <3>1 DEF Home
      <3> QED
        BY <1>7, <2>2, <2>4, <3>2 DEF PackedRecord
    <2> QED
      BY <2>3, <2>4
  <1>9. /\ Count' = Count /\ WholeStore'
        /\ \A i \in Nat : (S!Record(store, i)' = S!Record(store, i)) /\ (Differs(i)' <=> Differs(i))
    BY <1>2, <1>4, StoreStays
  <1>10. Packs(Count) /\ kept <= Count
    BY <1>2, <1>3 DEF Packing
  <1>11. ASSUME NEW j \in Nat, j < kept
         PROVE  \E i \in Nat : i < Count /\ Differs(i) /\ S!Record(file', j) = S!Record(store, i)
    BY <1>8, <1>10, <1>11 DEF Packs
  <1>12. ASSUME NEW i \in Nat, i < Count, Differs(i)
         PROVE  \E j \in Nat : j < kept /\ S!Record(file', j) = S!Record(store, i)
    BY <1>8, <1>10, <1>12 DEF Packs
  <1>13. \A s \in S!Slots : s >= S!SlotOf(kept) => file'[Home(kept)][s] = S!NoRecord
    BY <1>2, <1>7 DEF Packing
  <1>14. /\ \A j \in Nat : S!Record(file, j)' = S!Record(file', j)
         /\ Home(kept)' = Home(kept) /\ S!SlotOf(kept)' = S!SlotOf(kept) /\ kept' = kept
    BY <1>4 DEF S!Record, Home, S!AreaOf, S!SlotOf, S!AreaChunk, S!Stride
  <1>15. Packed'
    BY <1>9, <1>10, <1>11, <1>12, <1>13, <1>14 DEF Packed, S!NoRecord, S!Slots
  <1>16. Streaming'
    <2>1. out' = <<>> /\ Len(<<>>) = 0 /\ DOMAIN <<>> = 1..0
      BY <1>2, <1>4
    <2>2. Datum(kept)' = Datum(kept) /\ Datum(kept) \in Nat
      BY <1>2, <1>4, Data DEF Datum, S!AreaOf
    <2>3. \A i \in Nat : Home(i)' = Home(i) /\ Datum(i)' = Datum(i) /\ Home(i) \in Nat /\ Datum(i) \in Nat
      BY Homes, Data DEF Home, Datum, S!AreaOf, S!AreaChunk, S!Stride
    <2> QED
      BY <2>1, <2>2, <2>3 DEF Streaming
  <1>17. Cut'
    BY <1>2, <1>4, <1>5, <1>7, CutStays
  <1>18. StoreTypes'
    BY <1>2, <1>4, <1>7 DEF StoreTypes
  <1>19. fault' # "store"
    BY <1>1, <1>4 DEF StoreInv
  <1> QED
    BY <1>4, <1>9, <1>15, <1>16, <1>17, <1>18, <1>19 DEF StoreInv

-----------------------------------------------------------------------------
(* Its steps: streaming *)

LEMMA Appended ==
  ASSUME NEW s, NEW e, Len(s) \in Nat, DOMAIN s = 1..Len(s)
  PROVE  /\ Len(Append(s, e)) = Len(s) + 1 /\ DOMAIN Append(s, e) = 1..(Len(s) + 1)
         /\ Append(s, e)[Len(s) + 1] = e
         /\ \A i \in 1..Len(s) : Append(s, e)[i] = s[i]
  OBVIOUS

\* What streaming keeps of the file, and where it is.
LEMMA StreamFacts ==
  ASSUME StoreInv, phase = "stream"
  PROVE  /\ WholeStore /\ Cut /\ Packed /\ Streaming /\ StoreTypes
         /\ kept \in Nat /\ Count \in Nat /\ Typed(store) /\ Typed(file) /\ end \in Nat
         /\ Len(out) \in Nat /\ S!Size = Datum(kept) /\ Datum(kept) \in Nat
         /\ Home(kept) \in Nat /\ Home(kept) < end /\ S!AreaOf(kept) \in Nat
  <1>1. WholeStore /\ Cut /\ Packed /\ Streaming /\ StoreTypes
    BY DEF StoreInv
  <1>2. /\ kept \in Nat /\ Count \in Nat /\ Typed(store) /\ Typed(file) /\ end \in Nat /\ Len(out) \in Nat
        /\ kept <= Count
    BY <1>1 DEF StoreTypes, WholeStore, Wrote, Streaming, Packed
  <1>3. Home(kept) <= Home(Count) /\ Home(kept) \in Nat /\ Home(Count) \in Nat /\ Home(Count) < end
    BY <1>1, <1>2, Homes DEF Cut
  <1>4. S!Size = Datum(kept) /\ Datum(kept) \in Nat /\ S!AreaOf(kept) \in Nat
    BY <1>2, Data, Places DEF S!Size, Datum
  <1> QED
    BY <1>1, <1>2, <1>3, <1>4

\* A packed record is one of the store's that differs, and its datum is in the file.
LEMMA PackedFacts ==
  ASSUME WholeStore, Cut, Packed, end \in Nat, Count \in Nat, NEW j \in Nat, j < kept
  PROVE  \E i \in Nat : /\ i < Count /\ Differs(i) /\ Good(store, i) /\ S!Record(file, j) = S!Record(store, i)
                        /\ S!Record(store, i) \in Records /\ S!Record(store, i).new \in DOMAIN file
                        /\ file[S!Record(store, i).new] = store[S!Record(store, i).new]
  <1>1. PICK i \in Nat : i < Count /\ Differs(i) /\ S!Record(file, j) = S!Record(store, i)
    BY DEF Packed
  <1>2. Good(store, i) /\ S!Record(store, i).new < end
    BY <1>1 DEF Cut, Covers
  <1>3. Home(i) \in DOMAIN store
    BY <1>1 DEF WholeStore, Listed
  <1>4. S!Record(store, i) \in Records
    BY <1>3, RecordTypes DEF WholeStore, Wrote
  <1>5. S!Record(store, i).new \in Nat /\ ~S!IsArea(S!Record(store, i).new)
    BY <1>2, <1>4 DEF Records, Good
  <1>6. S!Record(store, i).new \in DOMAIN file
    BY <1>2, <1>5 DEF Cut
  <1> QED
    BY <1>1, <1>2, <1>4, <1>5, <1>6 DEF Cut

\* A metadata chunk that is streamed is that of an area with packed records, or
\* of the end of the list.
LEMMA StreamedArea ==
  ASSUME kept \in Nat, NEW a \in Nat, S!AreaChunk(a) < Datum(kept)
  PROVE  S!AreaChunk(a) <= Home(kept)
  <1>1. S!AreaOf(kept) \in Nat /\ S!SlotOf(kept) \in S!Slots
    BY Places
  <1>2. Datum(kept) = Home(kept) + 1 + S!SlotOf(kept) /\ Home(kept) \in Nat
    BY Data, Homes DEF Home
  <1>3. S!AreaChunk(a) \in Nat
    BY AreaChunks
  <1>4. ~(S!AreaOf(kept) < a)
    <2> SUFFICES ASSUME S!AreaOf(kept) < a PROVE FALSE
      OBVIOUS
    <2>1. Home(kept) + PerArea + 1 <= S!AreaChunk(a)
      BY <1>1, AreaChunks DEF Home
    <2> QED
      BY <1>1, <1>2, <1>3, <2>1, Scale DEF S!Slots
  <1>5. CASE a = S!AreaOf(kept)
    BY <1>2, <1>5 DEF Home
  <1>6. CASE a < S!AreaOf(kept)
    <2>1. S!AreaChunk(a) + PerArea + 1 <= Home(kept)
      BY <1>1, <1>6, AreaChunks DEF Home
    <2> QED
      BY <1>2, <1>3, <2>1, Scale
  <1> QED
    BY <1>1, <1>4, <1>5, <1>6

LEMMA Positions ==
  ASSUME NEW i \in Nat
  PROVE  /\ Home(i) \in Nat /\ Home(i) >= 1 /\ S!IsArea(Home(i)) /\ Home(i) < Datum(i)
         /\ Datum(i) \in Nat /\ Datum(i) >= 2 /\ ~S!IsArea(Datum(i)) /\ Home(i) = S!AreaChunk(S!AreaOf(i))
         /\ S!AreaOf(i) \in Nat /\ S!SlotOf(i) \in S!Slots /\ S!SlotOf(i) \in Nat /\ S!SlotOf(i) < PerArea
         /\ Datum(i) = Home(i) + 1 + S!SlotOf(i)
  <1>1. Home(i) \in Nat /\ Home(i) >= 1 /\ S!IsArea(Home(i)) /\ Home(i) < Datum(i)
    BY Homes
  <1>2. Datum(i) \in Nat /\ Datum(i) >= i + 2 /\ ~S!IsArea(Datum(i)) /\ Datum(i) = Home(i) + 1 + S!SlotOf(i)
    BY Data DEF Home
  <1>3. S!AreaOf(i) \in Nat /\ S!SlotOf(i) \in S!Slots
    BY Places
  <1>4. S!SlotOf(i) \in Nat /\ S!SlotOf(i) < PerArea
    BY <1>3, Scale DEF S!Slots
  <1> QED
    BY <1>1, <1>2, <1>3, <1>4 DEF Home

\* One more chunk: the header, the metadata of an area, or the next datum.
LEMMA StreamsMore ==
  ASSUME Streaming, kept \in Nat, UNCHANGED <<store, file, kept>>, Len(out) < Datum(kept),
         NEW chunk, out' = Append(out, chunk),
         \/ Len(out) = 0 /\ chunk = "valid" /\ UNCHANGED sources
         \/ \E a \in Nat :
              /\ Len(out) = S!AreaChunk(a)
              /\ \A i \in Nat : S!AreaOf(i) = a => chunk[S!SlotOf(i)] = Renumbered(i)
              /\ \A i \in Nat : S!AreaOf(i) = a /\ i < kept => sources'[S!SlotOf(i)] = S!Record(file, i).new
         \/ /\ UNCHANGED sources
            /\ \E d \in Nat : Len(out) = Datum(d) /\ chunk = store[S!Record(file, d).new]
  PROVE  Streaming'
  <1> DEFINE n == Len(out)
  <1>1. n \in Nat /\ DOMAIN out = 1..n
    BY DEF Streaming
  <1>2. /\ Len(out') = n + 1 /\ DOMAIN out' = 1..(n + 1) /\ out'[n + 1] = chunk
        /\ \A i \in 1..n : out'[i] = out[i]
    BY <1>1, Appended
  <1>3. /\ n > 0 => out[1] = "valid"
        /\ \A i \in Nat : Home(i) < n => out[Home(i) + 1][S!SlotOf(i)] = Renumbered(i)
        /\ \A i \in Nat : i < kept /\ Datum(i) < n => out[Datum(i) + 1] = store[S!Record(file, i).new]
        /\ \A i \in Nat : i < kept /\ Home(i) < n /\ Datum(i) >= n => sources[S!SlotOf(i)] = S!Record(file, i).new
    BY DEF Streaming
  <1>4. n < Datum(kept) /\ Datum(kept) \in Nat
    BY Data
  <1> HIDE DEF n
  <1>6. n > 0 \/ n = 0
    BY <1>1
  <1>7. \/ n = 0 /\ chunk = "valid" /\ UNCHANGED sources
        \/ \E a \in Nat :
             /\ n = S!AreaChunk(a)
             /\ \A i \in Nat : S!AreaOf(i) = a => chunk[S!SlotOf(i)] = Renumbered(i)
             /\ \A i \in Nat : S!AreaOf(i) = a /\ i < kept => sources'[S!SlotOf(i)] = S!Record(file, i).new
        \/ /\ UNCHANGED sources
           /\ \E d \in Nat : n = Datum(d) /\ chunk = store[S!Record(file, d).new]
    BY DEF n
  <1>8. ASSUME NEW a \in Nat, NEW b \in Nat, S!AreaChunk(a) = S!AreaChunk(b) PROVE a = b
    <2>1. a < b \/ b < a \/ a = b
      OBVIOUS
    <2>2. S!AreaChunk(a) \in Nat /\ S!AreaChunk(b) \in Nat
      BY AreaChunks
    <2>3. a < b => S!AreaChunk(a) + PerArea + 1 <= S!AreaChunk(b)
      BY AreaChunks
    <2>4. b < a => S!AreaChunk(b) + PerArea + 1 <= S!AreaChunk(a)
      BY AreaChunks
    <2> QED
      BY <1>8, <2>1, <2>2, <2>3, <2>4, Scale
  <1>9. out'[1] = "valid"
    <2>1. CASE n = 0
      <3>1. \A a \in Nat : S!AreaChunk(a) # 0
        BY AreaChunks
      <3>3. \A d \in Nat : Datum(d) # 0
        <4>1. ASSUME NEW d \in Nat PROVE Datum(d) # 0
          BY Positions
        <4> QED
          BY <4>1
      <3>2. chunk = "valid"
        BY <1>7, <2>1, <3>1, <3>3
      <3> QED
        BY <1>2, <2>1, <3>2
    <2>2. CASE n > 0
      BY <1>1, <1>2, <1>3, <2>2
    <2> QED
      BY <1>6, <2>1, <2>2
  <1>10. ASSUME NEW i \in Nat, Home(i) < n + 1 PROVE out'[Home(i) + 1][S!SlotOf(i)] = Renumbered(i)
    <2>0. /\ Home(i) \in Nat /\ Home(i) >= 1 /\ S!IsArea(Home(i)) /\ Home(i) < Datum(i)
          /\ Datum(i) \in Nat /\ Datum(i) >= 2 /\ ~S!IsArea(Datum(i)) /\ Home(i) = S!AreaChunk(S!AreaOf(i))
          /\ S!AreaOf(i) \in Nat /\ S!SlotOf(i) \in S!Slots /\ S!SlotOf(i) \in Nat /\ S!SlotOf(i) < PerArea
          /\ Datum(i) = Home(i) + 1 + S!SlotOf(i)
      BY Positions
    <2>1. CASE Home(i) < n
      <3>1. out'[Home(i) + 1] = out[Home(i) + 1]
        BY <1>1, <1>2, <2>0, <2>1
      <3> QED
        BY <1>3, <2>1, <3>1
    <2>2. CASE Home(i) = n
      <3>1. PICK a \in Nat :
             /\ n = S!AreaChunk(a)
             /\ \A k \in Nat : S!AreaOf(k) = a => chunk[S!SlotOf(k)] = Renumbered(k)
        <4>1. n # 0
          BY <2>0, <2>2
        <4>2. ASSUME NEW d \in Nat, n = Datum(d) PROVE FALSE
          BY <2>0, <2>2, <4>2, Positions
        <4> QED
          BY <1>7, <4>1, <4>2
      <3>2. S!AreaOf(i) = a
        BY <2>0, <1>8, <2>2, <3>1
      <3> QED
        BY <1>2, <2>2, <3>1, <3>2
    <2> QED
      BY <1>1, <2>0, <1>10, <2>1, <2>2
  <1>11. ASSUME NEW i \in Nat, i < kept, Datum(i) < n + 1 PROVE out'[Datum(i) + 1] = store[S!Record(file, i).new]
    <2>0. /\ Home(i) \in Nat /\ Home(i) >= 1 /\ S!IsArea(Home(i)) /\ Home(i) < Datum(i)
          /\ Datum(i) \in Nat /\ Datum(i) >= 2 /\ ~S!IsArea(Datum(i)) /\ Home(i) = S!AreaChunk(S!AreaOf(i))
          /\ S!AreaOf(i) \in Nat /\ S!SlotOf(i) \in S!Slots /\ S!SlotOf(i) \in Nat /\ S!SlotOf(i) < PerArea
          /\ Datum(i) = Home(i) + 1 + S!SlotOf(i)
      BY Positions
    <2>1. CASE Datum(i) < n
      <3>1. out'[Datum(i) + 1] = out[Datum(i) + 1]
        BY <1>1, <1>2, <2>0, <2>1
      <3> QED
        BY <1>3, <1>11, <2>1, <3>1
    <2>2. CASE Datum(i) = n
      <3>1. \A a \in Nat : S!IsArea(S!AreaChunk(a))
        BY AreaChunks
      <3>2. PICK d \in Nat : n = Datum(d) /\ chunk = store[S!Record(file, d).new]
        <4>1. n # 0
          BY <2>0, <2>2
        <4>2. \A a \in Nat : n # S!AreaChunk(a)
          BY <2>0, <2>2, <3>1
        <4> QED
          BY <1>7, <4>1, <4>2
      <3>3. ~(i < d) /\ ~(d < i)
        <4>1. i < d => Datum(i) < Datum(d)
          BY DataInOrder
        <4>2. d < i => Datum(d) < Datum(i)
          BY DataInOrder
        <4> QED
          BY <1>1, <2>2, <3>2, <4>1, <4>2
      <3>4. i = d
        BY <3>3
      <3> QED
        BY <1>2, <2>2, <3>2, <3>4
    <2> QED
      BY <1>1, <2>0, <1>11, <2>1, <2>2
  <1>12. ASSUME NEW i \in Nat, i < kept, Home(i) < n + 1, Datum(i) >= n + 1
         PROVE  sources'[S!SlotOf(i)] = S!Record(file, i).new
    <2>0. /\ Home(i) \in Nat /\ Home(i) >= 1 /\ S!IsArea(Home(i)) /\ Home(i) < Datum(i)
          /\ Datum(i) \in Nat /\ Datum(i) >= 2 /\ ~S!IsArea(Datum(i)) /\ Home(i) = S!AreaChunk(S!AreaOf(i))
          /\ S!AreaOf(i) \in Nat /\ S!SlotOf(i) \in S!Slots /\ S!SlotOf(i) \in Nat /\ S!SlotOf(i) < PerArea
          /\ Datum(i) = Home(i) + 1 + S!SlotOf(i)
      BY Positions
    <2>1. CASE Home(i) < n /\ UNCHANGED sources
      BY <1>1, <1>3, <2>0, <1>12, <2>1
    <2>2. CASE \E a \in Nat :
             /\ n = S!AreaChunk(a)
             /\ \A k \in Nat : S!AreaOf(k) = a /\ k < kept => sources'[S!SlotOf(k)] = S!Record(file, k).new
      <3>1. PICK a \in Nat :
             /\ n = S!AreaChunk(a)
             /\ \A k \in Nat : S!AreaOf(k) = a /\ k < kept => sources'[S!SlotOf(k)] = S!Record(file, k).new
        BY <2>2
      <3>2. ~(S!AreaOf(i) < a)
        <4> SUFFICES ASSUME S!AreaOf(i) < a PROVE FALSE
          OBVIOUS
        <4>1. Home(i) + PerArea + 1 <= n
          <5>1. S!AreaChunk(S!AreaOf(i)) + PerArea + 1 <= S!AreaChunk(a)
            BY <2>0, AreaChunks
          <5> QED
            BY <2>0, <3>1, <5>1
        <4> QED
          BY <1>1, <2>0, <1>12, <4>1, Scale DEF S!Slots
      <3>3. ~(a < S!AreaOf(i))
        <4> SUFFICES ASSUME a < S!AreaOf(i) PROVE FALSE
          OBVIOUS
        <4>1. n + PerArea + 1 <= Home(i)
          <5>1. S!AreaChunk(a) + PerArea + 1 <= S!AreaChunk(S!AreaOf(i))
            BY <2>0, AreaChunks
          <5> QED
            BY <2>0, <3>1, <5>1
        <4> QED
          BY <1>1, <2>0, <1>12, <4>1, Scale
      <3>4. S!AreaOf(i) = a
        BY <2>0, <3>2, <3>3
      <3> QED
        BY <1>12, <3>1, <3>4
    <2>3. CASE n = 0
      BY <2>0, <1>12, <2>3
    <2>4. CASE UNCHANGED sources /\ \E d \in Nat : n = Datum(d)
      <3>1. Home(i) # n
        <4>1. ASSUME NEW d \in Nat, n = Datum(d) PROVE Home(i) # n
          BY <2>0, <4>1, Positions
        <4> QED
          BY <2>4, <4>1
      <3> QED
        BY <1>1, <2>0, <1>12, <2>1, <2>4, <3>1
    <2> QED
      BY <1>7, <2>2, <2>3, <2>4
  <1>13. /\ \A i \in Nat : /\ Home(i)' = Home(i) /\ Datum(i)' = Datum(i) /\ S!SlotOf(i)' = S!SlotOf(i)
                           /\ Renumbered(i)' = Renumbered(i) /\ S!Record(file, i)' = S!Record(file, i)
         /\ Datum(kept)' = Datum(kept)
    BY DEF Home, Datum, Renumbered, S!Record, S!AreaOf, S!SlotOf, S!AreaChunk, S!Stride
  <1>14. Len(out') <= Datum(kept)
    BY <1>1, <1>2, <1>4
  <1>15. (Len(out) \in Nat /\ DOMAIN out = 1..Len(out) /\ Len(out) <= Datum(kept))'
    BY <1>1, <1>2, <1>13, <1>14
  <1>16. \A i \in Nat : Home(i)' < Len(out') => out'[Home(i)' + 1][S!SlotOf(i)'] = Renumbered(i)'
    BY <1>2, <1>10, <1>13
  <1>17. \A i \in Nat : i < kept' /\ Datum(i)' < Len(out') => out'[Datum(i)' + 1] = store'[S!Record(file, i)'.new]
    BY <1>2, <1>11, <1>13
  <1>18. \A i \in Nat : i < kept' /\ Home(i)' < Len(out') /\ Datum(i)' >= Len(out')
           => sources'[S!SlotOf(i)'] = S!Record(file, i)'.new
    BY <1>2, <1>12, <1>13
  <1> QED
    BY <1>9, <1>15, <1>16, <1>17, <1>18 DEF Streaming

\* What a step of the stream leaves, but for what was streamed.
LEMMA StreamKeeps ==
  ASSUME StoreInv, phase = "stream", Streaming', sources' \in [S!Slots -> Nat],
         UNCHANGED <<phase, file, store, cursor, end, metadata, output, kept, fault>>
  PROVE  StoreInv'
  <1>1. WholeStore /\ Cut /\ Packed /\ StoreTypes /\ fault # "store"
    BY DEF StoreInv
  <1>2. Count' = Count /\ WholeStore' /\ \A i \in Nat : (S!Record(store, i)' = S!Record(store, i)) /\ (Differs(i)' <=> Differs(i))
    BY <1>1, StoreStays
  <1>3. Cut'
    BY <1>1, CutStays
  <1>4. Packed'
    <2>1. \A j \in Nat : S!Record(file, j)' = S!Record(file, j)
      BY DEF S!Record
    <2>2. Home(kept)' = Home(kept) /\ S!SlotOf(kept)' = S!SlotOf(kept)
      BY DEF Home, S!AreaOf, S!SlotOf, S!AreaChunk, S!Stride
    <2> QED
      BY <1>1, <1>2, <2>1, <2>2 DEF Packed, S!NoRecord, S!Slots
  <1>5. StoreTypes'
    BY <1>1 DEF StoreTypes, Typed, ChunkType
  <1> QED
    BY <1>1, <1>2, <1>3, <1>4, <1>5 DEF StoreInv

LEMMA StreamHeaderKeeps == ASSUME StoreInv, S!StreamHeader PROVE StoreInv'
  <1>1. phase = "stream" /\ Len(out) = 0 /\ Len(out) < S!Size /\ out' = Append(out, file[0])
        /\ UNCHANGED <<phase, file, store, cursor, end, metadata, output, kept, fault, sources>>
    BY DEF S!StreamHeader, S!Streams, S!NextChunk
  <1>2. /\ WholeStore /\ Cut /\ Streaming /\ StoreTypes /\ kept \in Nat /\ S!Size = Datum(kept)
    BY <1>1, StreamFacts
  <1>3. file[0] = "valid"
    <2>1. 0 \in DOMAIN file /\ ~S!IsArea(0)
      BY <1>2 DEF Cut, StoreTypes, S!IsArea
    <2> QED
      BY <1>2, <2>1 DEF Cut, WholeStore
  <1>4. Streaming'
    BY <1>1, <1>2, <1>3, StreamsMore
  <1>5. sources' \in [S!Slots -> Nat]
    BY <1>1, <1>2 DEF StoreTypes
  <1> QED
    BY <1>1, <1>4, <1>5, StreamKeeps

LEMMA StreamAreaKeeps == ASSUME StoreInv, S!StreamArea PROVE StoreInv'
  <1>1. phase = "stream" /\ Len(out) < S!Size /\ S!IsArea(Len(out))
    BY DEF S!StreamArea, S!NextChunk
  <1>2. /\ WholeStore /\ Cut /\ Packed /\ Streaming /\ StoreTypes
        /\ kept \in Nat /\ Count \in Nat /\ Typed(store) /\ Typed(file) /\ end \in Nat
        /\ Len(out) \in Nat /\ S!Size = Datum(kept) /\ Datum(kept) \in Nat
        /\ Home(kept) \in Nat /\ Home(kept) < end
    BY <1>1, StreamFacts
  <1>3. PICK a \in Nat : Len(out) = S!AreaChunk(a) /\ ((Len(out) - 1) \div S!Stride) * PerArea = First(a)
    <2>1. Len(out) # 0
      BY <1>1 DEF S!IsArea
    <2>2. ASSUME NEW i \in Nat, Len(out) = Datum(i) PROVE FALSE
      BY <1>1, <2>2, Positions
    <2> QED
      BY <1>2, <2>1, <2>2, ChunkKinds
  <1>4. S!AreaChunk(a) \in Nat /\ S!AreaChunk(a) <= Home(kept)
    BY <1>1, <1>2, <1>3, StreamedArea, AreaChunks
  <1>5. Len(out) \in DOMAIN file
    BY <1>2, <1>3, <1>4 DEF Cut
  <1> DEFINE buffer == file[Len(out)]
             count == S!Smaller(kept - First(a), PerArea)
             chunk == [slot \in S!Slots |->
                         IF slot < count THEN [old |-> buffer[slot].old, new |-> Len(out) + 1 + slot] ELSE buffer[slot]]
  <1>6. /\ sources' = [slot \in S!Slots |-> IF slot < count THEN buffer[slot].new ELSE sources[slot]]
        /\ out' = Append(out, chunk)
        /\ UNCHANGED <<phase, file, store, cursor, end, metadata, output, kept, fault>>
    BY <1>3, <1>5 DEF S!StreamArea, S!Streams, S!NextChunk
  <1>7. buffer \in [S!Slots -> Records]
    <2>1. Len(out) # 0
      BY <1>1 DEF S!IsArea
    <2>2. file[Len(out)] \in ChunkType(Len(out))
      BY <1>2, <1>5 DEF Typed
    <2> QED
      BY <1>1, <2>1, <2>2 DEF ChunkType
  <1>8. sources' \in [S!Slots -> Nat]
    <2>1. \A slot \in S!Slots : buffer[slot].new \in Nat /\ sources[slot] \in Nat
      BY <1>2, <1>7 DEF Records, StoreTypes
    <2> HIDE DEF buffer, count
    <2> QED
      BY <1>6, <2>1
  <1>9. ASSUME NEW i \in Nat, S!AreaOf(i) = a
        PROVE  /\ chunk[S!SlotOf(i)] = Renumbered(i)
               /\ i < kept => sources'[S!SlotOf(i)] = S!Record(file, i).new
    <2>1. /\ S!SlotOf(i) \in S!Slots /\ S!SlotOf(i) \in Nat /\ S!SlotOf(i) < PerArea
          /\ Datum(i) = Home(i) + 1 + S!SlotOf(i) /\ Home(i) = S!AreaChunk(S!AreaOf(i))
      BY Positions
    <2>2. i = First(a) + S!SlotOf(i) /\ First(a) \in Nat
      BY <1>9, Places, Scale DEF First
    <2>3. Datum(i) = Len(out) + 1 + S!SlotOf(i) /\ Home(i) = Len(out)
      BY <1>3, <1>9, <2>1
    <2>4. S!SlotOf(i) < count <=> i < kept
      BY <1>2, <2>1, <2>2, Scale DEF S!Smaller
    <2>5. buffer[S!SlotOf(i)] = S!Record(file, i)
      BY <2>3 DEF S!Record, Home
    <2> HIDE DEF buffer, count
    <2>6. chunk[S!SlotOf(i)] = IF i < kept THEN [old |-> S!Record(file, i).old, new |-> Datum(i)] ELSE S!Record(file, i)
      BY <2>1, <2>3, <2>4, <2>5
    <2>7. i < kept => sources'[S!SlotOf(i)] = S!Record(file, i).new
      BY <1>6, <2>1, <2>4, <2>5
    <2> QED
      BY <2>6, <2>7 DEF Renumbered
  <1>10. Streaming'
    <2> HIDE DEF chunk
    <2>1. \E b \in Nat :
              /\ Len(out) = S!AreaChunk(b)
              /\ \A i \in Nat : S!AreaOf(i) = b => chunk[S!SlotOf(i)] = Renumbered(i)
              /\ \A i \in Nat : S!AreaOf(i) = b /\ i < kept => sources'[S!SlotOf(i)] = S!Record(file, i).new
      BY <1>3, <1>9
    <2>2. Len(out) < Datum(kept)
      BY <1>1, <1>2
    <2> QED
      BY <1>2, <1>6, <2>1, <2>2, StreamsMore
  <1> QED
    BY <1>1, <1>6, <1>8, <1>10, StreamKeeps

LEMMA StreamDataKeeps == ASSUME StoreInv, S!StreamData PROVE StoreInv'
  <1>1. phase = "stream" /\ Len(out) < S!Size /\ Len(out) # 0 /\ ~S!IsArea(Len(out))
    BY DEF S!StreamData, S!NextChunk
  <1>2. /\ WholeStore /\ Cut /\ Packed /\ Streaming /\ StoreTypes
        /\ kept \in Nat /\ Count \in Nat /\ Typed(store) /\ Typed(file) /\ end \in Nat
        /\ Len(out) \in Nat /\ S!Size = Datum(kept) /\ Datum(kept) \in Nat
    BY <1>1, StreamFacts
  <1>3. PICK d \in Nat : Len(out) = Datum(d) /\ (Len(out) - 2) % S!Stride = S!SlotOf(d)
    <2>1. \A a \in Nat : S!IsArea(S!AreaChunk(a))
      BY AreaChunks
    <2> QED
      BY <1>1, <1>2, <2>1, ChunkKinds
  <1>4. d < kept
    <2>1. kept < d => Datum(kept) < Datum(d)
      BY <1>2, DataInOrder
    <2> QED
      BY <1>1, <1>2, <1>3, <2>1
  <1>5. sources[S!SlotOf(d)] = S!Record(file, d).new
    <2>1. Home(d) < Len(out) /\ Datum(d) >= Len(out)
      BY <1>2, <1>3, Positions
    <2> QED
      BY <1>2, <1>4, <2>1 DEF Streaming
  <1>6. S!Record(file, d).new \in DOMAIN file /\ file[S!Record(file, d).new] = store[S!Record(file, d).new]
    BY <1>2, <1>4, PackedFacts
  <1>7. out' = Append(out, file[S!Record(file, d).new])
        /\ UNCHANGED <<phase, file, store, cursor, end, metadata, output, kept, fault, sources>>
    BY <1>3, <1>5, <1>6 DEF S!StreamData, S!Streams, S!NextChunk
  <1>8. Streaming'
    <2>1. \E e \in Nat : Len(out) = Datum(e) /\ file[S!Record(file, d).new] = store[S!Record(file, e).new]
      BY <1>3, <1>6
    <2>2. Len(out) < Datum(kept)
      BY <1>1, <1>2
    <2> QED
      BY <1>2, <1>7, <2>1, <2>2, StreamsMore
  <1>9. sources' \in [S!Slots -> Nat]
    BY <1>2, <1>7 DEF StoreTypes
  <1> QED
    BY <1>1, <1>7, <1>8, <1>9, StreamKeeps

LEMMA StreamEndsKeeps == ASSUME StoreInv, S!StreamEnds PROVE StoreInv'
  <1>1. phase = "stream" /\ Len(out) = S!Size /\ phase' = "done"
        /\ UNCHANGED <<file, store, cursor, end, metadata, output, kept, sources, out, fault>>
    BY DEF S!StreamEnds, S!NextChunk
  <1>2. /\ WholeStore /\ Cut /\ Packed /\ Streaming /\ StoreTypes /\ S!Size = Datum(kept)
    BY <1>1, StreamFacts
  <1>3. Count' = Count /\ WholeStore' /\ \A i \in Nat : (S!Record(store, i)' = S!Record(store, i)) /\ (Differs(i)' <=> Differs(i))
    BY <1>1, <1>2, StoreStays
  <1>4. Cut'
    BY <1>1, <1>2, CutStays
  <1>5. /\ \A i \in Nat : /\ Home(i)' = Home(i) /\ Datum(i)' = Datum(i) /\ S!SlotOf(i)' = S!SlotOf(i)
                          /\ Renumbered(i)' = Renumbered(i) /\ S!Record(file, i)' = S!Record(file, i)
        /\ Datum(kept)' = Datum(kept) /\ Home(kept)' = Home(kept) /\ S!SlotOf(kept)' = S!SlotOf(kept)
    BY <1>1 DEF Home, Datum, Renumbered, S!Record, S!AreaOf, S!SlotOf, S!AreaChunk, S!Stride
  <1>6. Packed'
    BY <1>1, <1>2, <1>3, <1>5 DEF Packed, S!NoRecord, S!Slots
  <1>7. Streaming'
    BY <1>1, <1>2, <1>5 DEF Streaming
  <1>8. StoreTypes'
    BY <1>1, <1>2 DEF StoreTypes, Typed, ChunkType
  <1>9. fault' # "store" /\ Len(out)' = Datum(kept)'
    BY <1>1, <1>2, <1>5 DEF StoreInv
  <1> QED
    BY <1>1, <1>3, <1>4, <1>6, <1>7, <1>8, <1>9 DEF StoreInv

LEMMA StoreStep == ASSUME StoreInv, S!Next PROVE StoreInv'
  BY KernelKeeps, DamageKeeps, DetachKeeps, OriginFailsKeeps, HeaderKeeps, ExtentRecordKeeps, ExtentFoundKeeps,
     ScanRecordKeeps, ScanEndsKeeps, StreamHeaderKeeps, StreamAreaKeeps, StreamDataKeeps, StreamEndsKeeps
  DEF S!Next, S!Seal

LEMMA StoreIdle ==
  ASSUME StoreInv,
         UNCHANGED <<phase, file, store, cursor, end, metadata, output, kept, sources, out, fault>>
  PROVE  StoreInv'
  <1>1. StoreTypes' = StoreTypes /\ Fresh' = Fresh
    BY DEF StoreTypes, Typed, ChunkType, Fresh
  <1>2. Wrote(file, cursor)' = Wrote(file, cursor) /\ (\E n : Wrote(store, n))' = (\E n : Wrote(store, n))
    BY DEF Wrote, Typed, ChunkType, Good, OriginsDiffer, S!Record
  <1>3. /\ Count' = Count /\ (WholeStore => WholeStore')
        /\ \A i \in Nat : (Good(store, i)' <=> Good(store, i)) /\ S!Record(store, i)' = S!Record(store, i)
        /\ \A i \in Nat : Differs(i)' <=> Differs(i)
    BY StoreStays
  <1>4. /\ \A i \in Nat : /\ Home(i)' = Home(i) /\ Datum(i)' = Datum(i) /\ S!SlotOf(i)' = S!SlotOf(i)
                           /\ PackedRecord(i)' = PackedRecord(i)
                           /\ Renumbered(i)' = Renumbered(i) /\ S!Record(file, i)' = S!Record(file, i)
        /\ Datum(kept)' = Datum(kept) /\ Home(kept)' = Home(kept) /\ S!SlotOf(kept)' = S!SlotOf(kept)
        /\ S!AreaOf(kept)' = S!AreaOf(kept) /\ Home(Count)' = Home(Count) /\ Home(cursor)' = Home(cursor)
        /\ S!SlotOf(cursor)' = S!SlotOf(cursor)
    BY <1>3 DEF Home, Datum, Renumbered, PackedRecord, S!Record, S!AreaOf, S!SlotOf, S!AreaChunk, S!Stride
  <1>5. Measuring => Measuring'
    BY <1>3, <1>4 DEF Measuring, Covers, Buffer
  <1>6. Cut => Cut'
    BY CutStays
  <1>7. Packing => Packing'
    BY <1>3, <1>4 DEF Packing, Packs, Buffer, S!NoRecord, S!Slots, S!AreaChunk, S!Stride
  <1>8. Packed => Packed'
    BY <1>3, <1>4 DEF Packed, S!NoRecord, S!Slots
  <1>9. Streaming => Streaming'
    BY <1>3, <1>4 DEF Streaming
  <1>10. S!Usable(store)' = S!Usable(store)
    BY DEF S!Usable, S!Terminated, S!Length, S!Record
  <1>11. CASE phase = "open" \/ phase = "header" \/ phase = "extent"
    BY <1>1, <1>2, <1>3, <1>5, <1>11 DEF StoreInv
  <1>12. CASE phase = "scan" \/ phase = "stream" \/ phase = "done"
    BY <1>1, <1>3, <1>4, <1>6, <1>7, <1>8, <1>9, <1>12 DEF StoreInv
  <1>13. CASE phase = "failed"
    BY <1>1, <1>10, <1>13 DEF StoreInv
  <1> QED
    BY <1>11, <1>12, <1>13 DEF StoreInv, StoreTypes

-----------------------------------------------------------------------------
(* What the invariant says of the store that was sealed *)

\* The records of the sealed store are those packed, each with its datum where
\* it is streamed.
LEMMA SealedRecords ==
  ASSUME StoreInv, phase = "done"
  PROVE  /\ WholeStore /\ Cut /\ Packed /\ Streaming /\ StoreTypes
         /\ kept \in Nat /\ Count \in Nat /\ Typed(store) /\ end \in Nat
         /\ Len(out) = Datum(kept) /\ Datum(kept) \in Nat /\ Datum(kept) >= 2
         /\ DOMAIN S!Sealed = 0..(Datum(kept) - 1) /\ S!Sealed[0] = "valid"
         /\ S!Cardinality(DOMAIN S!Sealed) = Datum(kept)
         /\ Listed(S!Sealed, kept) /\ S!Length(S!Sealed) = kept /\ S!Terminated(S!Sealed)
         /\ \A i \in Nat : i < kept =>
              S!Record(S!Sealed, i) = [old |-> S!Record(file, i).old, new |-> Datum(i)]
         /\ \A i \in Nat : i < kept => S!Sealed[Datum(i)] = store[S!Record(file, i).new] /\ Datum(i) \in DOMAIN S!Sealed
  <1>1. WholeStore /\ Cut /\ Packed /\ Streaming /\ StoreTypes /\ Len(out) = Datum(kept)
    BY DEF StoreInv
  <1>2. kept \in Nat /\ Count \in Nat /\ Typed(store) /\ end \in Nat
    BY <1>1 DEF StoreTypes, WholeStore, Wrote
  <1>3. Datum(kept) \in Nat /\ Datum(kept) >= 2 /\ Datum(kept) >= kept
    <2>1. Datum(kept) >= kept + 2
      BY <1>2, Data
    <2> QED
      BY <1>2, <2>1, Data
  <1>4. DOMAIN S!Sealed = 0..(Datum(kept) - 1) /\ \A c \in 0..(Datum(kept) - 1) : S!Sealed[c] = out[c + 1]
    BY <1>1 DEF S!Sealed
  <1>5. S!Sealed[0] = "valid"
    BY <1>1, <1>3, <1>4 DEF Streaming
  <1>6. Cardinality(DOMAIN S!Sealed) = Datum(kept)
    BY <1>3, <1>4, IntervalSize
  <1> HIDE DEF S!Sealed
  <1>7. ASSUME NEW i \in Nat, i <= kept PROVE Home(i) \in DOMAIN S!Sealed /\ S!Record(S!Sealed, i) = Renumbered(i)
    <2>1. Home(i) <= Home(kept) /\ Home(i) \in Nat /\ Home(kept) \in Nat /\ Home(kept) < Datum(kept)
      BY <1>2, <1>7, Homes
    <2>2. Home(i) \in 0..(Datum(kept) - 1)
      BY <1>3, <2>1
    <2>3. S!Sealed[Home(i)] = out[Home(i) + 1]
      BY <1>4, <2>2
    <2>4. out[Home(i) + 1][S!SlotOf(i)] = Renumbered(i)
      BY <1>1, <1>3, <2>2 DEF Streaming
    <2>5. S!Record(S!Sealed, i) = S!Sealed[Home(i)][S!SlotOf(i)]
      BY DEF S!Record, Home
    <2> QED
      BY <1>4, <2>2, <2>3, <2>4, <2>5
  <1>8. ASSUME NEW i \in Nat, i < kept
        PROVE  /\ S!Record(S!Sealed, i) = [old |-> S!Record(file, i).old, new |-> Datum(i)]
               /\ S!Sealed[Datum(i)] = store[S!Record(file, i).new] /\ Datum(i) \in DOMAIN S!Sealed
    <2>1. Datum(i) < Datum(kept) /\ Datum(i) \in Nat /\ i <= kept
      BY <1>2, <1>8, DataInOrder, Data
    <2>2. S!Record(S!Sealed, i) = [old |-> S!Record(file, i).old, new |-> Datum(i)]
      BY <1>7, <1>8, <2>1 DEF Renumbered
    <2>3. Datum(i) \in 0..(Datum(kept) - 1)
      BY <1>3, <2>1
    <2>4. out[Datum(i) + 1] = store[S!Record(file, i).new]
      BY <1>1, <1>8, <2>1 DEF Streaming
    <2> QED
      BY <1>4, <2>2, <2>3, <2>4
  <1>9. S!Record(S!Sealed, kept).new = 0
    <2>1. S!Record(S!Sealed, kept) = S!Record(file, kept)
      BY <1>2, <1>7 DEF Renumbered
    <2>2. S!SlotOf(kept) \in S!Slots /\ S!SlotOf(kept) >= S!SlotOf(kept)
      BY <1>2, Positions
    <2>3. file[Home(kept)][S!SlotOf(kept)] = S!NoRecord
      BY <1>1, <2>2 DEF Packed
    <2>4. S!Record(file, kept) = file[Home(kept)][S!SlotOf(kept)]
      BY DEF S!Record, Home
    <2> QED
      BY <2>1, <2>3, <2>4, BlankTypes
  <1>10. \A i \in Nat : i < kept => S!Record(S!Sealed, i).new # 0
    <2>1. ASSUME NEW i \in Nat, i < kept PROVE S!Record(S!Sealed, i).new # 0
      <3>1. Datum(i) # 0
        BY Positions
      <3> QED
        BY <1>8, <2>1, <3>1
    <2> QED
      BY <2>1
  <1>11. Listed(S!Sealed, kept)
    BY <1>2, <1>7, <1>9, <1>10 DEF Listed
  <1>12. S!Length(S!Sealed) = kept /\ S!Terminated(S!Sealed)
    BY <1>3, <1>6, <1>11, ListLength
  <1>13. S!Cardinality(DOMAIN S!Sealed) = Datum(kept)
    BY <1>6, SameCount
  <1> QED
    BY <1>1, <1>2, <1>3, <1>4, <1>5, <1>8, <1>11, <1>12, <1>13

LEMMA AllGood ==
  ASSUME WholeStore, Cut
  PROVE  S!Usable(store) /\ OriginsDiffer(store, Count) /\ \A i \in Nat : i < Count => Good(store, i)
  <1>1. \A i \in Nat : i < Count => Good(store, i)
    BY DEF Cut, Covers
  <1> QED
    BY <1>1, GoodMeansUsable DEF WholeStore, Wrote

LEMMA SealedShows == ASSUME StoreInv PROVE S!ViewKept
  <1> SUFFICES ASSUME phase = "done" PROVE S!Usable(S!Sealed) /\ S!View(S!Sealed) = S!View(store)
    BY DEF S!ViewKept
  <1> DEFINE sealed == S!Sealed
  <1>1. /\ WholeStore /\ Cut /\ Packed /\ StoreTypes
        /\ kept \in Nat /\ Count \in Nat /\ Typed(store) /\ end \in Nat
        /\ Datum(kept) \in Nat /\ Datum(kept) >= 2
        /\ sealed[0] = "valid"
        /\ S!Cardinality(DOMAIN sealed) = Datum(kept)
        /\ S!Length(sealed) = kept /\ S!Terminated(sealed)
        /\ \A i \in Nat : i < kept => S!Record(sealed, i) = [old |-> S!Record(file, i).old, new |-> Datum(i)]
        /\ \A i \in Nat : i < kept => sealed[Datum(i)] = store[S!Record(file, i).new] /\ Datum(i) \in DOMAIN sealed
    BY SealedRecords
  <1>2. OriginsDiffer(store, Count) /\ \A i \in Nat : i < Count => Good(store, i)
    BY <1>1, AllGood
  <1> HIDE DEF sealed
  <1>3. ASSUME NEW i \in Nat, i < kept
        PROVE  LET r == S!Record(sealed, i) IN
                 r.old < Limit /\ r.new \in DOMAIN sealed /\ r.new >= 2 /\ ~S!IsArea(r.new)
    <2>1. PICK k \in Nat : Good(store, k) /\ S!Record(file, i) = S!Record(store, k)
      BY <1>1, <1>3, PackedFacts
    <2>2. S!Record(file, i).old < Limit
      BY <2>1 DEF Good
    <2>3. Datum(i) >= 2 /\ ~S!IsArea(Datum(i))
      BY Positions
    <2> QED
      BY <1>1, <1>3, <2>2, <2>3
  <1>4. S!Usable(sealed)
    BY <1>1, <1>3 DEF S!Usable
  <1> DEFINE Hits(f, n, old) == {i \in 0..(n - 1) : S!Record(f, i).old = old}
             Shown(f, n, old) == IF Hits(f, n, old) = {} THEN Origin[old]
                                 ELSE f[S!Record(f, CHOOSE i \in Hits(f, n, old) : TRUE).new]
  <1>5. ASSUME NEW old \in 0..(Limit - 1) PROVE Shown(sealed, kept, old) = Shown(store, Count, old)
    <2> DEFINE H == Hits(sealed, kept, old)  G == Hits(store, Count, old)
               h == CHOOSE i \in H : TRUE    g == CHOOSE i \in G : TRUE
    <2>1. \A i \in Nat : i \in G <=> i < Count /\ S!Record(store, i).old = old
      BY <1>1
    <2>2. \A j \in Nat : j \in H <=> j < kept /\ S!Record(file, j).old = old
      BY <1>1
    <2>3. H \subseteq Nat /\ G \subseteq Nat
      BY <1>1
    <2>4. (H # {} => h \in H) /\ (G # {} => g \in G)
      OBVIOUS
    <2>5. /\ Shown(sealed, kept, old) = IF H = {} THEN Origin[old] ELSE sealed[S!Record(sealed, h).new]
          /\ Shown(store, Count, old) = IF G = {} THEN Origin[old] ELSE store[S!Record(store, g).new]
      OBVIOUS
    <2> HIDE DEF H, G, h, g, Shown, Hits
    <2>6. CASE H = {}
      <3>1. ASSUME G # {} PROVE store[S!Record(store, g).new] = Origin[old]
        <4>1. g \in Nat /\ g < Count /\ S!Record(store, g).old = old
          BY <2>1, <2>3, <2>4, <3>1
        <4>2. ~Differs(g)
          <5> SUFFICES ASSUME Differs(g) PROVE FALSE
            OBVIOUS
          <5>1. PICK j \in Nat : j < kept /\ S!Record(file, j) = S!Record(store, g)
            BY <1>1, <4>1 DEF Packed
          <5>2. j \in H
            BY <2>2, <4>1, <5>1
          <5> QED
            BY <2>6, <5>2
        <4> QED
          BY <4>1, <4>2 DEF Differs
      <3> QED
        BY <2>5, <2>6, <3>1
    <2>7. CASE H # {}
      <3>1. h \in Nat /\ h < kept /\ S!Record(file, h).old = old
        BY <2>2, <2>3, <2>4, <2>7
      <3>2. PICK i \in Nat : i < Count /\ S!Record(file, h) = S!Record(store, i)
        BY <1>1, <3>1, PackedFacts
      <3>3. i \in G
        BY <2>1, <3>1, <3>2
      <3>4. g \in Nat /\ g < Count /\ S!Record(store, g).old = old
        BY <2>1, <2>3, <2>4, <3>3
      <3>5. i = g
        BY <1>2, <3>1, <3>2, <3>4 DEF OriginsDiffer
      <3>6. sealed[S!Record(sealed, h).new] = store[S!Record(file, h).new]
        BY <1>1, <3>1
      <3> QED
        BY <2>5, <2>7, <3>2, <3>3, <3>5, <3>6
    <2> QED
      BY <2>6, <2>7
  <1>6. /\ S!View(sealed) = [old \in 0..(Limit - 1) |-> Shown(sealed, kept, old)]
        /\ S!View(store) = [old \in 0..(Limit - 1) |-> Shown(store, Count, old)]
    BY <1>1 DEF S!View, Count
  <1> HIDE DEF Shown
  <1>7. S!View(sealed) = S!View(store)
    BY <1>5, <1>6
  <1> QED
    BY <1>4, <1>7 DEF sealed

LEMMA SealedIsCanonical == ASSUME StoreInv PROVE S!Canonical
  <1> SUFFICES ASSUME phase = "done" PROVE S!Canonical
    BY DEF S!Canonical
  <1> DEFINE sealed == S!Sealed
  <1>1. /\ WholeStore /\ Cut /\ Packed /\ StoreTypes
        /\ kept \in Nat /\ Count \in Nat /\ end \in Nat
        /\ Len(out) = Datum(kept) /\ Datum(kept) \in Nat
        /\ S!Length(sealed) = kept /\ S!Terminated(sealed)
        /\ \A i \in Nat : i < kept => S!Record(sealed, i) = [old |-> S!Record(file, i).old, new |-> Datum(i)]
        /\ \A i \in Nat : i < kept => sealed[Datum(i)] = store[S!Record(file, i).new]
    BY SealedRecords
  <1> HIDE DEF sealed
  <1>2. ASSUME NEW i \in Nat, i < kept
        PROVE  LET r == S!Record(sealed, i) IN r.new = 2 + i + S!AreaOf(i) /\ sealed[r.new] # Origin[r.old]
    <2>1. PICK k \in Nat : Differs(k) /\ S!Record(file, i) = S!Record(store, k)
      BY <1>1, <1>2, PackedFacts
    <2>2. sealed[Datum(i)] # Origin[S!Record(file, i).old]
      BY <1>1, <1>2, <2>1 DEF Differs
    <2>3. S!Record(sealed, i).new = Datum(i) /\ S!Record(sealed, i).old = S!Record(file, i).old
      BY <1>1, <1>2
    <2> QED
      BY <2>2, <2>3 DEF Datum
  <1>3. /\ Datum(kept) = Home(kept) + 1 + S!SlotOf(kept) /\ Home(kept) \in Nat /\ S!SlotOf(kept) \in Nat
        /\ Home(kept) = S!AreaChunk(S!AreaOf(kept))
    BY <1>1, Positions
  <1>4. Datum(kept) - 1 \in {S!AreaChunk(S!AreaOf(kept))} \cup {S!Record(sealed, i).new : i \in 0..(kept - 1)}
    <2>1. CASE S!SlotOf(kept) = 0
      BY <1>3, <2>1
    <2>2. CASE S!SlotOf(kept) # 0
      <3>1. kept # 0
        BY <2>2, FirstPlace
      <3>2. kept - 1 \in Nat /\ kept - 1 < kept /\ (kept - 1) + 1 = kept
        BY <1>1, <3>1
      <3>3. S!AreaOf(kept) = S!AreaOf(kept - 1)
        <4>1. PICK i \in Nat : i = kept - 1
          BY <3>2
        <4>2. S!AreaOf(i + 1) = S!AreaOf(i) \/ S!SlotOf(i + 1) = 0
          BY NextPlace
        <4>3. i + 1 = kept
          BY <1>1, <4>1
        <4> QED
          BY <2>2, <4>1, <4>2, <4>3
      <3>4. Datum(kept) - 1 = Datum(kept - 1)
        <4>1. S!AreaOf(kept) \in Nat
          BY <1>1, Places
        <4> QED
          BY <1>1, <3>3, <4>1 DEF Datum
      <3>5. S!Record(sealed, kept - 1).new = Datum(kept) - 1 /\ kept - 1 \in 0..(kept - 1)
        BY <1>1, <3>2, <3>4
      <3> QED
        BY <3>5
    <2> QED
      BY <2>1, <2>2
  <1>5. \A i \in 0..(kept - 1) : LET r == S!Record(sealed, i) IN r.new = 2 + i + S!AreaOf(i) /\ sealed[r.new] # Origin[r.old]
    BY <1>1, <1>2
  <1>6. S!AreaChunk(S!AreaOf(kept)) < Len(out)
    BY <1>1, <1>3
  <1> QED
    BY <1>1, <1>4, <1>5, <1>6 DEF S!Canonical, sealed

LEMMA StoreSound == ASSUME StoreInv PROVE S!StoreIsKept
  <1>1. S!TypeOK
    BY SameCount DEF StoreInv, StoreTypes, Typed, ChunkType, Records, S!TypeOK, S!Chunks
  <1>2. S!ExtentSuffices
    BY SameCount DEF StoreInv, StoreTypes, Cut, S!ExtentSuffices
  <1>3. S!RefusesExactly
    BY AllGood DEF StoreInv, S!RefusesExactly
  <1>4. S!DataUntouched
    BY DEF StoreInv, Cut, S!DataUntouched
  <1> QED
    BY <1>1, <1>2, <1>3, <1>4, SealedShows, SealedIsCanonical DEF S!StoreIsKept

-----------------------------------------------------------------------------
(* The theorem *)

LEMMA StoreRuns == FormatsSpec => [](machine = "store" => StoreInv)
  <1>1. FormatsInit => (machine = "store" => StoreInv)
    BY StoreStarts DEF FormatsInit
  <1>2. (machine = "store" => StoreInv) /\ [FormatsNext]_all => (machine = "store" => StoreInv)'
    <2> SUFFICES ASSUME machine = "store" => StoreInv, [FormatsNext]_all, machine' = "store" PROVE StoreInv'
      OBVIOUS
    <2>1. CASE Sealing /\ S!Next
      BY <2>1, StoreStep DEF Sealing
    <2>2. CASE (Disk /\ D!Next) \/ (Syntax /\ B!Next)
      BY <2>2 DEF Disk, Syntax
    <2>3. CASE UNCHANGED all
      BY <2>3, StoreIdle DEF all, sealing
    <2> QED
      BY <2>1, <2>2, <2>3 DEF FormatsNext
  <1> QED
    BY <1>1, <1>2, PTL DEF FormatsSpec

\* Whatever the sizes of the scratch file and of the origin, and however many
\* records fill a chunk: the store that is sealed shows what the kernel's store
\* showed, in the canonical form, within the extent it was cut to, and exactly
\* the usable stores are sealed (Scratch::seal_snapshot, compact.rs).
THEOREM StoreKept == FormatsSpec => []StoreIsKept
  <1>1. (machine = "store" => StoreInv) => StoreIsKept
    BY StoreSound DEF StoreIsKept
  <1> QED
    BY <1>1, StoreRuns, PTL

-----------------------------------------------------------------------------
(* A disk: its geometry *)

LEMMA DiskScale ==
  /\ Sizes \subseteq Nat /\ DeviceSizes \subseteq Nat /\ Word \in Nat /\ MbrMax \in Nat /\ MaxSlots \in Nat
  /\ MaxChanges \in Nat /\ PerBlock \in Nat \ {0} /\ Alignment \in Nat /\ Alignment >= 48 /\ Alignment % 8 = 0
  /\ MaxSectors \in Nat /\ MaxSectors < Word /\ D!Slots \in Nat /\ D!Slots = 4 * PerBlock /\ D!Slots <= MaxSlots
  /\ D!Slots >= 4
  <1>1. Word \in Nat /\ MbrMax \in Nat /\ MaxSlots \in Nat /\ MaxChanges \in Nat
    BY FormatAssumption DEF D!ScaleAssumption
  <1>2. /\ Sizes \subseteq Nat /\ DeviceSizes \subseteq Nat
        /\ PerBlock \in Nat \ {0} /\ Alignment \in Nat /\ Alignment >= 48 /\ Alignment % 8 = 0
        /\ MaxSectors \in Nat /\ MaxSectors < Word /\ MaxSlots >= D!Slots
    BY FormatAssumption DEF D!ScaleAssumption
  <1> QED
    BY <1>1, <1>2 DEF D!Slots

LEMMA Multiple ==
  ASSUME NEW n \in Nat, NEW k \in Nat \ {0}
  PROVE  /\ D!NextMultiple(n, k) \in Nat /\ D!NextMultiple(n, k) >= n
         /\ D!NextMultiple(n, k) % k = 0
         /\ \E q \in Nat : D!NextMultiple(n, k) = q * k
  <1> DEFINE m == n + k - 1
             q == m \div k
             r == m % k
  <1>1. m \in Nat
    OBVIOUS
  <1>2. q \in Nat /\ r \in 0..(k - 1) /\ m = q * k + r
    BY <1>1, Divides
  <1>3. D!NextMultiple(n, k) = q * k
    BY DEF D!NextMultiple
  <1>4. 0 \in 0..(k - 1)
    OBVIOUS
  <1> HIDE DEF q, r
  <1>7. q * k \in Nat /\ q * k + 0 = q * k
    BY <1>2
  <1>8. (q * k + 0) % k = 0
    BY <1>2, <1>4, Quotient
  <1>5. (q * k) % k = 0
    BY <1>7, <1>8
  <1>6. q * k >= n
    BY <1>2, <1>7
  <1> QED
    BY <1>2, <1>3, <1>5, <1>6, <1>7

LEMMA Aligned == ASSUME NEW n \in Nat PROVE D!NextMultiple(n, Alignment) % 8 = 0
  <1>1. PICK q \in Nat : D!NextMultiple(n, Alignment) = q * Alignment
    <2>1. Alignment \in Nat \ {0}
      BY DiskScale
    <2> QED
      BY <2>1, Multiple
  <1>2. PICK a \in Nat : Alignment = a * 8
    <2>1. Alignment = (Alignment \div 8) * 8 /\ Alignment \div 8 \in Nat
      BY DiskScale
    <2> QED
      BY <2>1
  <1>3. q * (a * 8) = (q * a) * 8
    OBVIOUS
  <1>4. PICK b \in Nat : b = q * a
    OBVIOUS
  <1>5. D!NextMultiple(n, Alignment) = b * 8
    BY <1>1, <1>2, <1>3, <1>4
  <1> QED
    BY <1>5

\* What the layout accepted.
Laid ==
  /\ plan.root \in Nat /\ plan.esp \in Nat /\ capacity \in Nat
  /\ D!AcceptedSize(plan.root) /\ (plan.esp = 0 \/ D!AcceptedSize(plan.esp))
  /\ D!DiskSectors <= MaxSectors
  /\ capacity * 8 >= D!DiskSectors /\ capacity * 8 <= MaxSectors

RootFrom == D!Root.start \div 8
RootTo == (D!Root.start + D!Root.sectors) \div 8 - 1
EspFrom == Alignment \div 8
EspTo == (Alignment + plan.esp) \div 8 - 1

LEMMA Geometry ==
  ASSUME Laid
  PROVE  /\ D!End \in Nat /\ D!End >= 11 /\ D!End < capacity /\ D!End + 5 < Word /\ capacity < Word
         /\ capacity * 8 <= MaxSectors /\ capacity >= 12
         /\ D!DiskSectors % Alignment = 0 /\ D!Root.start % Alignment = 0
         /\ RootFrom \in Nat /\ RootTo \in Nat /\ 6 <= RootFrom /\ RootFrom <= RootTo /\ RootTo <= D!End - 5
         /\ D!Root.start = RootFrom * 8 /\ D!Root.sectors = (RootTo - RootFrom + 1) * 8
         /\ plan.esp # 0 => /\ EspFrom \in Nat /\ EspTo \in Nat /\ 6 <= EspFrom /\ EspFrom <= EspTo /\ EspTo < RootFrom
                            /\ D!Esp.start = EspFrom * 8 /\ D!Esp.sectors = (EspTo - EspFrom + 1) * 8
  <1>1. /\ plan.root \in Nat /\ plan.root > 0 /\ plan.root % 8 = 0
        /\ plan.esp \in Nat /\ (plan.esp # 0 => plan.esp > 0 /\ plan.esp % 8 = 0)
        /\ capacity \in Nat /\ D!DiskSectors <= MaxSectors /\ capacity * 8 >= D!DiskSectors /\ capacity * 8 <= MaxSectors
    BY DEF Laid, D!AcceptedSize
  <1>2. D!Esp = [start |-> Alignment, sectors |-> plan.esp]
    BY DEF D!Esp
  <1>3. /\ D!Root.sectors = plan.root
        /\ D!Root.start = IF plan.esp = 0 THEN Alignment ELSE D!NextMultiple(Alignment + plan.esp, Alignment)
    BY <1>2 DEF D!Root
  <1>4. /\ D!NextMultiple(Alignment + plan.esp, Alignment) \in Nat
        /\ D!NextMultiple(Alignment + plan.esp, Alignment) >= Alignment + plan.esp
        /\ D!NextMultiple(Alignment + plan.esp, Alignment) % Alignment = 0
        /\ D!NextMultiple(Alignment + plan.esp, Alignment) % 8 = 0
    <2>1. Alignment + plan.esp \in Nat /\ Alignment \in Nat \ {0}
      BY <1>1, DiskScale
    <2> QED
      BY <2>1, Multiple, Aligned
  <1>5. Alignment % Alignment = 0
    <2>1. Alignment \in Nat \ {0} /\ 0 \in 0..(Alignment - 1)
      BY DiskScale
    <2>2. (1 * Alignment + 0) % Alignment = 0
      BY <2>1, Quotient
    <2>3. 1 * Alignment + 0 = Alignment
      BY <2>1
    <2> QED
      BY <2>2, <2>3
  <1> DEFINE s == D!Root.start
             n == plan.root
             t == D!DiskSectors
  <1>6. s \in Nat /\ s >= 48 /\ s % 8 = 0 /\ s % Alignment = 0 /\ (plan.esp # 0 => s >= Alignment + plan.esp)
    BY <1>1, <1>3, <1>4, <1>5, DiskScale
  <1>7. t \in Nat /\ t >= s + n + 40 /\ t % Alignment = 0 /\ t % 8 = 0
    <2>1. s + n + 40 \in Nat /\ Alignment \in Nat \ {0}
      BY <1>1, <1>6, DiskScale
    <2>2. t = D!NextMultiple(s + n + 40, Alignment)
      BY <1>3 DEF D!DiskSectors
    <2> QED
      BY <2>1, <2>2, Multiple, Aligned
  <1>8. D!End = t \div 8 - 1
    BY DEF D!End
  <1>9. RootFrom = s \div 8 /\ RootTo = (s + n) \div 8 - 1
    BY <1>3 DEF RootFrom, RootTo
  <1> HIDE DEF s, n, t
  <1>10. n \in Nat /\ n > 0 /\ n % 8 = 0 /\ capacity \in Nat /\ t <= MaxSectors /\ capacity * 8 >= t /\ capacity * 8 <= MaxSectors
    BY <1>1 DEF n, t
  <1>11. /\ D!End \in Nat /\ D!End >= 11 /\ D!End < capacity /\ D!End + 5 < Word /\ capacity < Word
         /\ capacity * 8 <= MaxSectors /\ capacity >= 12
    BY <1>6, <1>7, <1>8, <1>10, DiskScale
  <1>12. /\ RootFrom \in Nat /\ RootTo \in Nat /\ 6 <= RootFrom /\ RootFrom <= RootTo /\ RootTo <= D!End - 5
         /\ s = RootFrom * 8 /\ n = (RootTo - RootFrom + 1) * 8
    BY <1>6, <1>7, <1>8, <1>9, <1>10
  <1>13. ASSUME plan.esp # 0
         PROVE  /\ EspFrom \in Nat /\ EspTo \in Nat /\ 6 <= EspFrom /\ EspFrom <= EspTo /\ EspTo < RootFrom
                /\ D!Esp.start = EspFrom * 8 /\ D!Esp.sectors = (EspTo - EspFrom + 1) * 8
    <2>1. plan.esp \in Nat /\ plan.esp > 0 /\ plan.esp % 8 = 0 /\ s >= Alignment + plan.esp /\ s % 8 = 0 /\ s \in Nat
      BY <1>1, <1>6, <1>13
    <2>2. EspFrom = Alignment \div 8 /\ EspTo = (Alignment + plan.esp) \div 8 - 1
      BY DEF EspFrom, EspTo
    <2>3. D!Esp.start = Alignment /\ D!Esp.sectors = plan.esp
      BY <1>2
    <2>4. Alignment \in Nat /\ Alignment >= 48 /\ Alignment % 8 = 0 /\ RootFrom = s \div 8
      BY <1>9, DiskScale
    <2>5. EspFrom \in Nat /\ 6 <= EspFrom /\ Alignment = EspFrom * 8
      BY <2>2, <2>4
    <2>6. EspTo \in Nat /\ EspFrom <= EspTo /\ EspTo < RootFrom /\ plan.esp = (EspTo - EspFrom + 1) * 8
      BY <2>1, <2>2, <2>4
    <2> QED
      BY <2>3, <2>5, <2>6
  <1>14. D!DiskSectors % Alignment = 0 /\ D!Root.start % Alignment = 0 /\ D!Root.start = RootFrom * 8
         /\ D!Root.sectors = (RootTo - RootFrom + 1) * 8
    BY <1>3, <1>6, <1>7, <1>12 DEF s, n, t
  <1> QED
    BY <1>11, <1>12, <1>13, <1>14

-----------------------------------------------------------------------------
(* A disk: its blocks *)

EntryType == [kind : {"none", "root", "esp", "other"}, start : Int, end : Int, auto : BOOLEAN,
              name : {"a", "b", "garbage"}]
Entries == [1..PerBlock -> EntryType]
TableType == [is : {"table"}, records : Entries]
HeadType == [is : {"header"}, valid : BOOLEAN, id : {"new", "other"}, current : Nat, backup : Nat, first : Nat, last : Nat,
             start : Nat, count : Nat, sum : [1..D!Slots -> EntryType]]
MbrType == [is : {"mbr"}, size : Nat, hybrid : BOOLEAN]
BlockType(b) == IF b = 0 THEN MbrType ELSE IF b = 1 \/ b = D!End THEN HeadType ELSE TableType

\* What the layout puts in a block, and the blocks that the first n writes fill.
LaidBlock(b) ==
  IF b = 0 THEN [is |-> "mbr", size |-> IF D!End <= MbrMax THEN D!End ELSE MbrMax, hybrid |-> FALSE]
  ELSE IF b = 1 THEN D!Header(1, D!End, 2)
  ELSE IF b = D!End THEN D!Header(D!End, 1, D!End - 4)
  ELSE [is |-> "table", records |-> D!Chunk(D!Table, IF b <= 5 THEN b - 2 ELSE b - (D!End - 4))]
Present(n) ==
  {b \in 0..D!End : \/ n >= 1 /\ b = 0
                    \/ n >= 2 /\ b \in 2..5
                    \/ n >= 3 /\ b \in (D!End - 4)..(D!End - 1)
                    \/ n >= 4 /\ b = 1
                    \/ n >= 5 /\ b = D!End}

LEMMA Piece ==
  ASSUME NEW T, NEW s \in Seq(T), NEW a \in Nat, NEW n \in Nat, a + n <= Len(s)
  PROVE  SubSeq(s, a + 1, a + n) \in [1..n -> T] /\ \A j \in 1..n : SubSeq(s, a + 1, a + n)[j] = s[a + j]
  <1> DEFINE part == SubSeq(s, a + 1, a + n)
  <1>1. DOMAIN part = 1..n /\ \A j \in 1..n : part[j] = s[a + j]
    OBVIOUS
  <1>2. \A j \in 1..n : s[a + j] \in T
    OBVIOUS
  <1>3. part = [j \in 1..n |-> s[a + j]]
    OBVIOUS
  <1> HIDE DEF part
  <1>4. part \in [1..n -> T]
    BY <1>2, <1>3
  <1> QED
    BY <1>1, <1>4 DEF part

\* A block of a table holds its entries in order.
LEMMA Chunks ==
  ASSUME NEW table \in [1..D!Slots -> EntryType], NEW b \in 0..3
  PROVE  /\ D!Chunk(table, b) \in Entries
         /\ \A j \in 1..PerBlock : D!Chunk(table, b)[j] = table[b * PerBlock + j] /\ b * PerBlock + j \in 1..D!Slots
  <1>1. PICK a \in Nat : a = b * PerBlock
    BY DiskScale
  <1>2. (b + 1) * PerBlock = a + PerBlock /\ a + PerBlock <= D!Slots /\ PerBlock \in Nat /\ D!Slots \in Nat
    BY <1>1, DiskScale
  <1>3. table \in Seq(EntryType) /\ Len(table) = D!Slots
    BY <1>2
  <1>4. D!Chunk(table, b) = SubSeq(table, a + 1, a + PerBlock)
    BY <1>1, <1>2 DEF D!Chunk
  <1>5. D!Chunk(table, b) \in [1..PerBlock -> EntryType] /\ \A j \in 1..PerBlock : D!Chunk(table, b)[j] = table[a + j]
    BY <1>2, <1>3, <1>4, Piece
  <1>6. \A j \in 1..PerBlock : a + j \in 1..D!Slots
    BY <1>2
  <1> QED
    BY <1>1, <1>5, <1>6 DEF Entries

LEMMA LaidTable ==
  ASSUME Laid
  PROVE  /\ D!Table \in [1..D!Slots -> EntryType] /\ D!Checksum(D!Table) = D!Table
         /\ D!Table[1] = [kind |-> "root", start |-> RootFrom, end |-> RootTo, auto |-> TRUE, name |-> "a"]
         /\ plan.esp # 0 =>
              D!Table[2] = [kind |-> "esp", start |-> EspFrom, end |-> EspTo, auto |-> TRUE, name |-> "a"]
         /\ \A s \in 1..D!Slots : ~(s = 1 \/ (s = 2 /\ plan.esp # 0)) => D!Table[s] = D!Unused
         /\ D!Unused.kind = "none"
  <1> DEFINE root == [kind |-> "root", start |-> RootFrom, end |-> RootTo, auto |-> TRUE, name |-> "a"]
             esp == [kind |-> "esp", start |-> EspFrom, end |-> EspTo, auto |-> TRUE, name |-> "a"]
  <1>1. D!Record("root", D!Root) = root
    BY DEF D!Record, RootFrom, RootTo
  <1>2. D!Record("esp", D!Esp) = esp
    BY DEF D!Record, D!Esp, EspFrom, EspTo
  <1> HIDE DEF root, esp
  <1>3. D!Table = [s \in 1..D!Slots |-> CASE s = 1 -> root
                                           [] s = 2 /\ plan.esp # 0 -> esp
                                           [] OTHER -> D!Unused]
    BY <1>1, <1>2 DEF D!Table
  <1>12. RootFrom \in Int /\ RootTo \in Int /\ (plan.esp # 0 => EspFrom \in Int /\ EspTo \in Int)
    BY Geometry
  <1>4. root \in EntryType /\ D!Unused \in EntryType /\ D!Unused.kind = "none"
    BY <1>12 DEF EntryType, D!Unused, root
  <1>5. plan.esp # 0 => esp \in EntryType
    BY <1>12 DEF EntryType, esp
  <1>6. root.name = "a" /\ esp.name = "a" /\ D!Unused.name = "a"
    BY DEF D!Unused, root, esp
  <1> HIDE DEF D!Unused
  <1>7. \A s \in 1..D!Slots : D!Table[s] = IF s = 1 THEN root ELSE IF s = 2 /\ plan.esp # 0 THEN esp ELSE D!Unused
    BY <1>3
  <1>8. D!Table \in [1..D!Slots -> EntryType]
    BY <1>3, <1>4, <1>5, <1>7
  <1>9. \A s \in 1..D!Slots : [D!Table[s] EXCEPT !.name = "a"] = D!Table[s]
    <2>1. ASSUME NEW e \in EntryType, e.name = "a" PROVE [e EXCEPT !.name = "a"] = e
      BY <2>1 DEF EntryType
    <2> QED
      BY <1>4, <1>5, <1>6, <1>7, <2>1
  <1>10. D!Checksum(D!Table) = D!Table
    BY <1>8, <1>9 DEF D!Checksum
  <1>11. 1 \in 1..D!Slots /\ 2 \in 1..D!Slots
    BY DiskScale
  <1> QED
    BY <1>4, <1>7, <1>8, <1>10, <1>11 DEF root, esp

LEMMA LaidBlocks ==
  ASSUME Laid, NEW b \in Present(5)
  PROVE  LaidBlock(b) \in BlockType(b)
  <1>1. D!End \in Nat /\ D!End >= 11 /\ D!Slots \in Nat /\ MbrMax \in Nat
    BY Geometry, DiskScale
  <1>2. D!Table \in [1..D!Slots -> EntryType] /\ D!Checksum(D!Table) = D!Table
    BY LaidTable
  <1>3. b = 0 \/ b \in 2..5 \/ b \in (D!End - 4)..(D!End - 1) \/ b = 1 \/ b = D!End
    BY DEF Present
  <1>4. CASE b = 0
    BY <1>1, <1>4 DEF LaidBlock, BlockType, MbrType
  <1>5. CASE b = 1
    <2>1. LaidBlock(b) = D!Header(1, D!End, 2) /\ BlockType(b) = HeadType
      BY <1>5 DEF LaidBlock, BlockType
    <2>2. D!End - 5 \in Nat
      BY <1>1
    <2> QED
      BY <1>1, <1>2, <2>1, <2>2 DEF HeadType, D!Header
  <1>6. CASE b = D!End
    <2>1. LaidBlock(b) = D!Header(D!End, 1, D!End - 4) /\ BlockType(b) = HeadType
      BY <1>1, <1>6 DEF LaidBlock, BlockType
    <2>2. D!End - 5 \in Nat /\ D!End - 4 \in Nat
      BY <1>1
    <2> QED
      BY <1>1, <1>2, <2>1, <2>2 DEF HeadType, D!Header
  <1>7. CASE b \in 2..5 \/ b \in (D!End - 4)..(D!End - 1)
    <2> DEFINE k == IF b <= 5 THEN b - 2 ELSE b - (D!End - 4)
    <2>1. k \in 0..3 /\ b # 0 /\ b # 1 /\ b # D!End
      BY <1>1, <1>7
    <2>2. LaidBlock(b) = [is |-> "table", records |-> D!Chunk(D!Table, k)]
      BY <2>1 DEF LaidBlock
    <2> HIDE DEF k
    <2>3. D!Chunk(D!Table, k) \in Entries
      BY <1>2, <2>1, Chunks
    <2>4. BlockType(b) = TableType
      BY <2>1 DEF BlockType
    <2> QED
      BY <2>2, <2>3, <2>4 DEF TableType
  <1> QED
    BY <1>3, <1>4, <1>5, <1>6, <1>7

\* The five writes.
LEMMA WritesAre ==
  ASSUME Laid, NEW n \in 0..4
  PROVE  /\ Len(D!Writes) = 5
         /\ DOMAIN D!Writes[n + 1] = Present(n + 1) \ Present(n)
         /\ Present(n) \subseteq Present(n + 1) /\ Present(n + 1) \subseteq Present(5) /\ Present(n) \subseteq Present(5)
         /\ \A b \in DOMAIN D!Writes[n + 1] : D!Writes[n + 1][b] = LaidBlock(b)
  <1>1. D!End \in Nat /\ D!End >= 11
    BY Geometry
  <1> DEFINE mbr == [is |-> "mbr", size |-> IF D!End <= MbrMax THEN D!End ELSE MbrMax, hybrid |-> FALSE]
  <1>2. /\ Len(D!Writes) = 5 /\ D!Writes[1] = D!One(0, mbr) /\ D!Writes[2] = D!TableBlocks(D!Table, 2)
        /\ D!Writes[3] = D!TableBlocks(D!Table, D!End - 4)
        /\ D!Writes[4] = D!One(1, D!Header(1, D!End, 2))
        /\ D!Writes[5] = D!One(D!End, D!Header(D!End, 1, D!End - 4))
    BY DEF D!Writes
  <1>3. Present(n) \subseteq Present(n + 1) /\ Present(n + 1) \subseteq Present(5) /\ Present(n) \subseteq Present(5)
    BY DEF Present
  <1>4. CASE n = 0
    <2>1. Present(1) \ Present(0) = {0}
      BY <1>1 DEF Present
    <2> QED
      BY <1>2, <1>3, <1>4, <2>1 DEF D!One, LaidBlock
  <1>5. CASE n = 1
    <2>1. Present(2) \ Present(1) = 2..5
      BY <1>1 DEF Present
    <2>2. \A b \in 2..5 : LaidBlock(b) = [is |-> "table", records |-> D!Chunk(D!Table, b - 2)]
      BY <1>1 DEF LaidBlock
    <2>3. D!Writes[2] = [b \in 2..5 |-> [is |-> "table", records |-> D!Chunk(D!Table, b - 2)]]
      BY <1>2 DEF D!TableBlocks
    <2> QED
      BY <1>2, <1>3, <1>5, <2>1, <2>2, <2>3
  <1>6. CASE n = 2
    <2> DEFINE e == D!End - 4
    <2>1. Present(3) \ Present(2) = e..(e + 3)
      BY <1>1 DEF Present
    <2>2. \A b \in e..(e + 3) : LaidBlock(b) = [is |-> "table", records |-> D!Chunk(D!Table, b - e)]
      BY <1>1 DEF LaidBlock
    <2>3. D!Writes[3] = [b \in e..(e + 3) |-> [is |-> "table", records |-> D!Chunk(D!Table, b - e)]]
      BY <1>2 DEF D!TableBlocks
    <2> HIDE DEF e
    <2>4. DOMAIN D!Writes[3] = e..(e + 3) /\ \A b \in e..(e + 3) : D!Writes[3][b] = LaidBlock(b)
      BY <2>2, <2>3
    <2>5. n + 1 = 3
      BY <1>6
    <2> HIDE DEF Present
    <2> QED
      BY <1>2, <1>3, <1>6, <2>1, <2>4, <2>5
  <1>7. CASE n = 3
    <2>1. Present(4) \ Present(3) = {1}
      BY <1>1 DEF Present
    <2> QED
      BY <1>2, <1>3, <1>7, <2>1 DEF D!One, LaidBlock
  <1>8. CASE n = 4
    <2>1. Present(5) \ Present(4) = {D!End}
      BY <1>1 DEF Present
    <2>2. LaidBlock(D!End) = D!Header(D!End, 1, D!End - 4)
      BY <1>1 DEF LaidBlock
    <2> QED
      BY <1>2, <1>3, <1>8, <2>1, <2>2 DEF D!One
  <1> QED
    BY <1>4, <1>5, <1>6, <1>7, <1>8

-----------------------------------------------------------------------------
(* A disk: the inductive invariant *)

DiskTypes ==
  /\ plan \in [root : Nat, esp : Nat] /\ capacity \in Nat /\ written \in 0..5 /\ index \in Nat
  /\ phase \in {"layout", "write", "primary", "backup", "mbr", "tables", "read", "refused"}
  /\ changes \in Seq(SUBSET {"primary", "backup", "mbr"})
  /\ DOMAIN device \subseteq 0..(capacity - 1)
  /\ seen \in Seq(EntryType) /\ others \in Seq(EntryType) /\ Len(seen) = Len(others)

\* What was written so far, and what others left of it.
DeviceInv ==
  /\ Laid /\ DOMAIN device = Present(written)
  /\ \A b \in DOMAIN device : device[b] \in BlockType(b)
  /\ changes = <<>> => \A b \in DOMAIN device : device[b] = LaidBlock(b)
  /\ changes # <<>> => written = 5

Unread == index = 0 /\ seen = <<>> /\ others = <<>>

PrimaryRead == D!IsHeader(1) /\ D!Primary.current = 1 /\ D!Primary.backup \in 11..(capacity - 1)
BackupRead == D!IsHeader(D!Primary.backup) /\ D!HeadersAgree /\ ~D!Overlaps

\* The entries of the first blocks of a table, none behind the end of the device.
ReadFrom(entries, from, blocks) ==
  /\ from + blocks <= capacity
  /\ entries \in Seq(EntryType)
  /\ Len(entries) = IF blocks * PerBlock < D!Primary.count THEN blocks * PerBlock ELSE D!Primary.count
  /\ \A k \in Nat, j \in 1..PerBlock : k < blocks /\ k * PerBlock + j <= D!Primary.count
       => entries[k * PerBlock + j] = D!Entries(from + k)[j]

WithinDisk(e) == e.start <= e.end /\ D!Primary.first <= e.start /\ e.end <= D!Primary.last

TablesRead ==
  /\ index <= D!Length
  /\ ReadFrom(seen, D!Primary.start, index) /\ ReadFrom(others, D!Backup.start, index)
  /\ \A s \in DOMAIN seen : D!IsUsed(seen[s]) => WithinDisk(seen[s])

Found ==
  /\ index = D!Length /\ seen = others /\ D!Checksum(seen) = D!Primary.sum
  /\ ~D!OverlapIn(D!Used) /\ Cardinality(D!Roots) = 1 /\ Cardinality(D!Esps) <= 1
  /\ result = [is |-> "disk", root |-> D!Partition(CHOOSE s \in D!Roots : TRUE),
               esp |-> {D!Partition(s) : s \in D!Esps}]

DiskInv ==
  /\ DiskTypes
  /\ phase = "layout" => DOMAIN device = {} /\ written = 0 /\ changes = <<>> /\ Unread
  /\ phase \notin {"layout", "refused"} => DeviceInv
  /\ phase \in {"write", "primary", "backup", "mbr"} => Unread
  /\ phase \in {"backup", "mbr", "tables", "read"} => PrimaryRead
  /\ phase \in {"mbr", "tables", "read"} => BackupRead
  /\ phase \in {"tables", "read"} => TablesRead
  /\ phase = "read" => Found
  /\ phase = "refused" => ~(written = 5 /\ changes = <<>>)

-----------------------------------------------------------------------------
(* Its steps: layout and writes *)

LEMMA DiskStarts == ASSUME D!Init PROVE DiskInv
  <1>1. /\ plan \in [root : Sizes, esp : Sizes] /\ capacity \in DeviceSizes
        /\ device = [b \in {} |-> D!Nothing] /\ phase = "layout" /\ written = 0
        /\ index = 0 /\ seen = <<>> /\ others = <<>> /\ changes = <<>>
    BY DEF D!Init
  <1>2. plan \in [root : Nat, esp : Nat] /\ capacity \in Nat
    BY <1>1, DiskScale
  <1>3. DOMAIN device = {}
    BY <1>1
  <1>4. DiskTypes
    BY <1>1, <1>2, <1>3 DEF DiskTypes
  <1> QED
    BY <1>1, <1>3, <1>4 DEF DiskInv, Unread

\* The plan does not change, nor what it says of the blocks.
LEMMA PlanStays ==
  ASSUME UNCHANGED <<plan, capacity>>
  PROVE  /\ Laid' = Laid /\ D!End' = D!End
         /\ \A b, n : BlockType(b)' = BlockType(b) /\ LaidBlock(b)' = LaidBlock(b) /\ Present(n)' = Present(n)
  <1>1. D!End' = D!End /\ D!DiskSectors' = D!DiskSectors /\ D!Root' = D!Root /\ D!Esp' = D!Esp
    BY DEF D!End, D!DiskSectors, D!Root, D!Esp, D!NextMultiple
  <1>2. Laid' = Laid
    BY <1>1 DEF Laid, D!AcceptedSize
  <1>3. D!Table' = D!Table
    BY <1>1 DEF D!Table, D!Record, D!Unused, D!Slots
  <1>4. \A b, n : BlockType(b)' = BlockType(b) /\ Present(n)' = Present(n)
    BY <1>1 DEF BlockType, HeadType, MbrType, TableType, Entries, EntryType, D!Slots, Present
  <1>5. \A b : LaidBlock(b)' = LaidBlock(b)
    BY <1>1, <1>3 DEF LaidBlock, D!Header, D!Checksum, D!Slots, D!Chunk
  <1> QED
    BY <1>1, <1>2, <1>4, <1>5

\* What is said of the device depends on it, on what was written and on the plan.
LEMMA DeviceStays ==
  ASSUME DeviceInv, UNCHANGED <<plan, capacity, device, written, changes>>
  PROVE  DeviceInv'
  <1>1. /\ Laid' = Laid /\ D!End' = D!End
        /\ \A b, n : BlockType(b)' = BlockType(b) /\ LaidBlock(b)' = LaidBlock(b) /\ Present(n)' = Present(n)
    BY PlanStays
  <1>2. Present(written)' = Present(written)
    BY <1>1 DEF Present
  <1> QED
    BY <1>1, <1>2 DEF DeviceInv

LEMMA LayoutKeeps == ASSUME DiskInv, D!Layout PROVE DiskInv'
  <1>1. /\ phase = "layout" /\ DiskTypes /\ DOMAIN device = {} /\ written = 0 /\ changes = <<>> /\ Unread
        /\ UNCHANGED <<plan, capacity, device, written, index, seen, others, changes>>
        /\ phase' = "write" \/ phase' = "refused"
    BY DEF DiskInv, D!Layout
  <1>2. DiskTypes' /\ Unread'
    BY <1>1 DEF DiskTypes, Unread, EntryType
  <1>3. CASE phase' = "refused"
    BY <1>1, <1>2, <1>3 DEF DiskInv
  <1>4. CASE phase' = "write"
    <2>1. Laid
      BY <1>1, <1>4 DEF D!Layout, Laid, DiskTypes
    <2>2. Laid' /\ DOMAIN device' = {} /\ written' = 0 /\ changes' = <<>>
      BY <1>1, <2>1, PlanStays
    <2>3. Present(written)' = {}
      BY <2>2 DEF Present
    <2>4. DeviceInv'
      BY <2>2, <2>3 DEF DeviceInv
    <2> QED
      BY <1>2, <1>4, <2>4 DEF DiskInv
  <1> QED
    BY <1>1, <1>3, <1>4

LEMMA WriteKeeps == ASSUME DiskInv, D!Write PROVE DiskInv'
  <1>1. /\ phase = "write" /\ DiskTypes /\ DeviceInv /\ Unread
        /\ UNCHANGED <<plan, capacity, phase, index, seen, others, changes>>
        /\ written < Len(D!Writes) /\ written' = written + 1
        /\ device' = D!Over(D!Writes[written + 1], device)
    BY DEF DiskInv, D!Write
  <1>2. Laid /\ written \in 0..4
    <2>1. Len(D!Writes) = 5 /\ written \in 0..5 /\ Laid
      BY <1>1, WritesAre DEF DeviceInv, DiskTypes
    <2> QED
      BY <1>1, <2>1
  <1>3. /\ DOMAIN D!Writes[written + 1] = Present(written + 1) \ Present(written)
        /\ Present(written) \subseteq Present(written + 1) /\ Present(written + 1) \subseteq Present(5)
        /\ \A b \in DOMAIN D!Writes[written + 1] : D!Writes[written + 1][b] = LaidBlock(b)
    BY <1>2, WritesAre
  <1>4. changes = <<>>
    BY <1>1, <1>2 DEF DeviceInv
  <1>5. DOMAIN device' = Present(written + 1) /\ \A b \in DOMAIN device' : device'[b] = LaidBlock(b)
    BY <1>1, <1>3, <1>4 DEF DeviceInv, D!Over
  <1>6. \A b \in Present(written + 1) : LaidBlock(b) \in BlockType(b)
    BY <1>2, <1>3, LaidBlocks
  <1>7. /\ Laid' = Laid /\ D!End' = D!End
        /\ \A b, n : BlockType(b)' = BlockType(b) /\ LaidBlock(b)' = LaidBlock(b) /\ Present(n)' = Present(n)
    BY <1>1, PlanStays
  <1>8. Present(written)' = Present(written + 1)
    BY <1>1 DEF Present, D!End, D!DiskSectors, D!Root, D!Esp, D!NextMultiple
  <1>9. DeviceInv'
    BY <1>1, <1>2, <1>4, <1>5, <1>6, <1>7, <1>8 DEF DeviceInv
  <1>10. DOMAIN device' \subseteq 0..(capacity - 1)
    <2>1. D!End < capacity /\ D!End \in Nat /\ capacity \in Nat
      BY <1>2, Geometry DEF Laid
    <2> QED
      BY <1>5, <2>1 DEF Present
  <1>11. DiskTypes' /\ Unread'
    BY <1>1, <1>2, <1>10 DEF DiskTypes, Unread, EntryType
  <1> QED
    BY <1>1, <1>9, <1>11 DEF DiskInv

LEMMA StopKeeps == ASSUME DiskInv, D!Stop PROVE DiskInv'
  <1>1. /\ phase = "write" /\ phase' = "primary" /\ DiskTypes /\ DeviceInv /\ Unread
        /\ UNCHANGED <<plan, capacity, device, written, index, seen, others, result, changes>>
    BY DEF DiskInv, D!Stop
  <1>2. DeviceInv'
    BY <1>1, DeviceStays
  <1>3. DiskTypes' /\ Unread'
    BY <1>1 DEF DiskTypes, Unread, EntryType
  <1> QED
    BY <1>1, <1>2, <1>3 DEF DiskInv

-----------------------------------------------------------------------------
(* Its steps: changes *)

LEMMA Complete ==
  ASSUME DiskInv, D!Changeable
  PROVE  /\ DiskTypes /\ Laid /\ DeviceInv /\ Unread /\ phase = "primary" /\ written = 5
         /\ D!End \in Nat /\ D!End >= 11 /\ D!End < capacity
         /\ DOMAIN device = Present(5)
         /\ device[0] \in MbrType /\ device[1] \in HeadType /\ device[D!End] \in HeadType
         /\ {0, 1, D!End} \subseteq DOMAIN device
         /\ \A b \in 2..5 \cup (D!End - 4)..(D!End - 1) : b \in DOMAIN device /\ BlockType(b) = TableType
  <1>1. phase = "primary" /\ DiskTypes /\ DeviceInv /\ Laid /\ Unread
    BY DEF D!Changeable, DiskInv, DeviceInv
  <1>2. written = 5
    <2>1. Len(D!Writes) = 5
      BY <1>1, WritesAre
    <2> QED
      BY <2>1 DEF D!Changeable
  <1>3. D!End \in Nat /\ D!End >= 11 /\ D!End < capacity
    BY <1>1, Geometry
  <1>4. DOMAIN device = Present(5) /\ \A b \in DOMAIN device : device[b] \in BlockType(b)
    BY <1>1, <1>2 DEF DeviceInv
  <1>5. {0, 1, D!End} \subseteq Present(5)
    BY <1>3 DEF Present
  <1>6. \A b \in 2..5 \cup (D!End - 4)..(D!End - 1) : b \in Present(5) /\ BlockType(b) = TableType
    BY <1>3 DEF Present, BlockType
  <1>7. BlockType(0) = MbrType /\ BlockType(1) = HeadType /\ BlockType(D!End) = HeadType
    BY <1>3 DEF BlockType
  <1> QED
    BY <1>1, <1>2, <1>3, <1>4, <1>5, <1>6, <1>7

LEMMA ChangedKeeps ==
  ASSUME DiskInv, D!Changeable, NEW copies \in SUBSET {"primary", "backup", "mbr"}, D!Changed(copies),
         DOMAIN device' = DOMAIN device,
         \A b \in DOMAIN device : device'[b] = device[b] \/ device'[b] \in BlockType(b)
  PROVE  DiskInv'
  <1>1. /\ DiskTypes /\ DeviceInv /\ Unread /\ phase = "primary" /\ written = 5
    BY Complete
  <1>2. /\ changes' = Append(changes, copies)
        /\ UNCHANGED <<plan, capacity, phase, written, index, seen, others, result>>
    BY DEF D!Changed
  <1>3. /\ Laid' = Laid /\ D!End' = D!End
        /\ \A b, n : BlockType(b)' = BlockType(b) /\ LaidBlock(b)' = LaidBlock(b) /\ Present(n)' = Present(n)
    BY <1>2, PlanStays
  <1>4. Present(written)' = Present(written)
    BY <1>2, <1>3 DEF Present
  <1>5. changes' # <<>> /\ changes' \in Seq(SUBSET {"primary", "backup", "mbr"})
    <2>1. changes \in Seq(SUBSET {"primary", "backup", "mbr"})
      BY <1>1 DEF DiskTypes
    <2>2. Append(changes, copies) \in Seq(SUBSET {"primary", "backup", "mbr"})
      BY <2>1
    <2>3. Len(Append(changes, copies)) = Len(changes) + 1 /\ Len(changes) \in Nat
      BY <2>1
    <2> QED
      BY <1>2, <2>2, <2>3
  <1>6. DeviceInv'
    BY <1>1, <1>2, <1>3, <1>4, <1>5 DEF DeviceInv
  <1>7. DiskTypes' /\ Unread'
    BY <1>1, <1>2, <1>5 DEF DiskTypes, Unread, EntryType
  <1> QED
    BY <1>1, <1>2, <1>6, <1>7 DEF DiskInv

\* Blocks written over blocks of the disk.
LEMMA Overwritten ==
  ASSUME NEW blocks, NEW under, DOMAIN blocks \subseteq DOMAIN under
  PROVE  /\ DOMAIN D!Over(blocks, under) = DOMAIN under
         /\ \A b \in DOMAIN under : D!Over(blocks, under)[b] = IF b \in DOMAIN blocks THEN blocks[b] ELSE under[b]
  <1>1. DOMAIN blocks \cup DOMAIN under = DOMAIN under
    OBVIOUS
  <1> QED
    BY <1>1 DEF D!Over

LEMMA HeaderBlocks ==
  ASSUME DiskInv, D!Changeable, NEW copies \in D!Copies
  PROVE  /\ D!Headers(copies) \subseteq DOMAIN device /\ copies \in SUBSET {"primary", "backup", "mbr"}
         /\ \A b \in D!Headers(copies) : device[b] \in HeadType /\ BlockType(b) = HeadType
  <1>1. /\ D!End \in Nat /\ D!End >= 11
        /\ device[1] \in HeadType /\ device[D!End] \in HeadType /\ {0, 1, D!End} \subseteq DOMAIN device
    BY Complete
  <1>2. D!Headers(copies) \subseteq {1, D!End}
    BY DEF D!Headers
  <1>3. BlockType(1) = HeadType /\ BlockType(D!End) = HeadType
    BY <1>1 DEF BlockType
  <1>4. copies \in SUBSET {"primary", "backup", "mbr"}
    BY DEF D!Copies
  <1> QED
    BY <1>1, <1>2, <1>3, <1>4

LEMMA ChangeHeaderKeeps == ASSUME DiskInv, D!ChangeHeader PROVE DiskInv'
  <1>1. D!Changeable
    BY DEF D!ChangeHeader
  <1>2. PICK copies \in D!Copies, field \in {"current", "backup", "first", "last", "start", "count"} :
          \E value \in D!Near(device[1][field]) :
            /\ device' = D!Over([b \in D!Headers(copies) |-> [device[b] EXCEPT ![field] = value]], device)
            /\ D!Changed(copies)
    BY DEF D!ChangeHeader
  <1>3. PICK value \in D!Near(device[1][field]) :
            /\ device' = D!Over([b \in D!Headers(copies) |-> [device[b] EXCEPT ![field] = value]], device)
            /\ D!Changed(copies)
    BY <1>2
  <1>4. value \in Nat
    BY DiskScale DEF D!Near
  <1>5. /\ D!Headers(copies) \subseteq DOMAIN device /\ copies \in SUBSET {"primary", "backup", "mbr"}
        /\ \A b \in D!Headers(copies) : device[b] \in HeadType /\ BlockType(b) = HeadType
    BY <1>1, HeaderBlocks
  <1> DEFINE blocks == [b \in D!Headers(copies) |-> [device[b] EXCEPT ![field] = value]]
  <1>6. ASSUME NEW h \in HeadType PROVE [h EXCEPT ![field] = value] \in HeadType
    BY <1>4 DEF HeadType
  <1>7. DOMAIN blocks = D!Headers(copies) /\ \A b \in D!Headers(copies) : blocks[b] \in BlockType(b)
    BY <1>5, <1>6
  <1>8. device' = D!Over(blocks, device)
    BY <1>3
  <1> HIDE DEF blocks
  <1>9. DOMAIN device' = DOMAIN device /\ \A b \in DOMAIN device : device'[b] = device[b] \/ device'[b] \in BlockType(b)
    BY <1>5, <1>7, <1>8, Overwritten
  <1> QED
    BY <1>1, <1>3, <1>5, <1>9, ChangedKeeps

LEMMA ChangeIdentityKeeps == ASSUME DiskInv, D!ChangeIdentity PROVE DiskInv'
  <1>1. D!Changeable
    BY DEF D!ChangeIdentity
  <1>2. PICK copies \in D!Copies, valid \in BOOLEAN :
          /\ device' = D!Over([b \in D!Headers(copies) |-> [device[b] EXCEPT !.valid = valid, !.id = "other"]], device)
          /\ D!Changed(copies)
    BY DEF D!ChangeIdentity
  <1>3. /\ D!Headers(copies) \subseteq DOMAIN device /\ copies \in SUBSET {"primary", "backup", "mbr"}
        /\ \A b \in D!Headers(copies) : device[b] \in HeadType /\ BlockType(b) = HeadType
    BY <1>1, HeaderBlocks
  <1> DEFINE blocks == [b \in D!Headers(copies) |-> [device[b] EXCEPT !.valid = valid, !.id = "other"]]
  <1>4. ASSUME NEW h \in HeadType PROVE [h EXCEPT !.valid = valid, !.id = "other"] \in HeadType
    BY DEF HeadType
  <1>5. DOMAIN blocks = D!Headers(copies) /\ \A b \in D!Headers(copies) : blocks[b] \in BlockType(b)
    BY <1>3, <1>4
  <1>6. device' = D!Over(blocks, device)
    BY <1>2
  <1> HIDE DEF blocks
  <1>7. DOMAIN device' = DOMAIN device /\ \A b \in DOMAIN device : device'[b] = device[b] \/ device'[b] \in BlockType(b)
    BY <1>3, <1>5, <1>6, Overwritten
  <1> QED
    BY <1>1, <1>2, <1>3, <1>7, ChangedKeeps

LEMMA Half == ASSUME NEW k \in Nat \ {0} PROVE 1 \div k \in 0..1
  <1>1. 1 \div k \in Nat /\ 1 % k \in Nat /\ 1 = (1 \div k) * k + (1 % k)
    BY Divides
  <1>2. PICK q \in Nat : q = 1 \div k
    BY <1>1
  <1>3. q * k \in Nat /\ q * k <= 1
    BY <1>1, <1>2
  <1>4. ASSUME 1 < q PROVE FALSE
    <2>1. 1 * k + k <= q * k
      BY <1>4, <1>2, Grows
    <2> QED
      BY <1>3, <2>1
  <1> QED
    BY <1>2, <1>4

LEMMA ChangeRecordKeeps == ASSUME DiskInv, D!ChangeRecord PROVE DiskInv'
  <1>1. D!Changeable
    BY DEF D!ChangeRecord
  <1>2. PICK copies \in D!Copies, slot \in {2, D!Slots}, record \in D!Strange, fit \in BOOLEAN :
          LET table == [D!Table EXCEPT ![slot] = record]
              block == (slot - 1) \div PerBlock
              Where(c) == (IF c = "primary" THEN 2 ELSE D!End - 4) + block
          IN  /\ device' = D!Over([b \in {Where(c) : c \in copies} |-> [is |-> "table", records |-> D!Chunk(table, block)]],
                                D!Over([b \in D!Headers(copies) |->
                                          IF fit THEN [device[b] EXCEPT !.sum = D!Checksum(table)] ELSE device[b]],
                                       device))
              /\ D!Changed(copies)
    BY DEF D!ChangeRecord
  <1> DEFINE table == [D!Table EXCEPT ![slot] = record]
             block == (slot - 1) \div PerBlock
             Where(c) == (IF c = "primary" THEN 2 ELSE D!End - 4) + block
             tables == [b \in {Where(c) : c \in copies} |-> [is |-> "table", records |-> D!Chunk(table, block)]]
             headers == [b \in D!Headers(copies) |->
                           IF fit THEN [device[b] EXCEPT !.sum = D!Checksum(table)] ELSE device[b]]
  <1>3. device' = D!Over(tables, D!Over(headers, device)) /\ D!Changed(copies)
    BY <1>2
  <1>4. /\ D!Headers(copies) \subseteq DOMAIN device /\ copies \in SUBSET {"primary", "backup", "mbr"}
        /\ \A b \in D!Headers(copies) : device[b] \in HeadType /\ BlockType(b) = HeadType
    BY <1>1, HeaderBlocks
  <1>5. /\ Laid /\ D!End \in Nat /\ D!End >= 11
        /\ \A b \in 2..5 \cup (D!End - 4)..(D!End - 1) : b \in DOMAIN device /\ BlockType(b) = TableType
    BY <1>1, Complete
  <1>6. block \in 0..3
    <2>1. CASE slot = 2
      <3>1. PerBlock \in Nat \ {0} /\ block = 1 \div PerBlock
        BY <2>1, DiskScale
      <3>2. 1 \div PerBlock \in 0..1
        BY <3>1, Half
      <3> QED
        BY <3>1, <3>2
    <2>2. CASE slot = D!Slots
      <3>1. slot - 1 = 3 * PerBlock + (PerBlock - 1) /\ PerBlock - 1 \in 0..(PerBlock - 1)
        BY <2>2, DiskScale
      <3>2. (3 * PerBlock + (PerBlock - 1)) \div PerBlock = 3
        BY <3>1, DiskScale, Quotient
      <3> QED
        BY <3>1, <3>2
    <2> QED
      BY <2>1, <2>2
  <1>7. record \in EntryType
    <2>1. RootFrom \in Int /\ D!Unused \in EntryType
      BY <1>5, Geometry DEF D!Unused, EntryType
    <2>2. ASSUME NEW k \in {"root", "esp", "other"}, NEW a \in Int, NEW b \in Int
          PROVE  D!At(k, a, b) \in EntryType
      BY DEF EntryType, D!At
    <2>3. ASSUME NEW e \in EntryType
          PROVE  [e EXCEPT !.auto = FALSE] \in EntryType /\ [e EXCEPT !.name = "b"] \in EntryType
      BY DEF EntryType
    <2>4. D!Strange =
            {D!At("other", 6, 6), D!At("other", 5, 5), D!At("other", 6, RootFrom), D!At("other", 6, 5),
             D!At("other", D!End - 5, D!End - 4), D!At("root", 6, 6), [D!At("root", 6, 6) EXCEPT !.auto = FALSE],
             D!At("esp", 6, 6), [D!At("other", 6, 6) EXCEPT !.name = "b"], [D!Unused EXCEPT !.name = "b"]}
      BY DEF D!Strange, RootFrom
    <2>5. D!At("other", 6, 6) \in EntryType /\ D!At("root", 6, 6) \in EntryType /\ D!At("esp", 6, 6) \in EntryType
      BY <2>2
    <2>6. D!At("other", 5, 5) \in EntryType /\ D!At("other", 6, RootFrom) \in EntryType /\ D!At("other", 6, 5) \in EntryType
      BY <2>1, <2>2
    <2>7. D!At("other", D!End - 5, D!End - 4) \in EntryType
      BY <1>5, <2>2
    <2> QED
      BY <2>1, <2>3, <2>4, <2>5, <2>6, <2>7
  <1>8. table \in [1..D!Slots -> EntryType]
    BY <1>5, <1>7, LaidTable
  <1> HIDE DEF table, block
  <1>9. D!Chunk(table, block) \in Entries
    BY <1>6, <1>8, Chunks
  <1>10. D!Checksum(table) \in [1..D!Slots -> EntryType]
    <2>1. ASSUME NEW e \in EntryType PROVE [e EXCEPT !.name = "a"] \in EntryType
      BY DEF EntryType
    <2> QED
      BY <1>8, <2>1 DEF D!Checksum
  <1>11. /\ DOMAIN tables \subseteq DOMAIN device
         /\ \A b \in DOMAIN tables : tables[b] \in BlockType(b)
    <2>1. \A b \in DOMAIN tables : b \in 2..5 \cup (D!End - 4)..(D!End - 1)
      BY <1>5, <1>6
    <2>2. [is |-> "table", records |-> D!Chunk(table, block)] \in TableType
      BY <1>9 DEF TableType
    <2>3. \A b \in DOMAIN tables : tables[b] = [is |-> "table", records |-> D!Chunk(table, block)]
      OBVIOUS
    <2> HIDE DEF tables
    <2> QED
      BY <1>5, <2>1, <2>2, <2>3
  <1>12. /\ DOMAIN headers = D!Headers(copies)
         /\ \A b \in DOMAIN headers : headers[b] \in BlockType(b)
    <2>1. ASSUME NEW h \in HeadType PROVE [h EXCEPT !.sum = D!Checksum(table)] \in HeadType
      BY <1>10 DEF HeadType
    <2> QED
      BY <1>4, <2>1
  <1> HIDE DEF tables, headers
  <1>13. /\ DOMAIN D!Over(headers, device) = DOMAIN device
         /\ \A b \in DOMAIN device : D!Over(headers, device)[b] = IF b \in DOMAIN headers THEN headers[b] ELSE device[b]
    BY <1>4, <1>12, Overwritten
  <1>14. /\ DOMAIN device' = DOMAIN device
         /\ \A b \in DOMAIN device : device'[b] = IF b \in DOMAIN tables THEN tables[b] ELSE D!Over(headers, device)[b]
    BY <1>3, <1>11, <1>13, Overwritten
  <1>15. \A b \in DOMAIN device : device'[b] = device[b] \/ device'[b] \in BlockType(b)
    BY <1>11, <1>12, <1>13, <1>14
  <1> QED
    BY <1>1, <1>3, <1>4, <1>14, <1>15, ChangedKeeps

LEMMA ChangeMbrKeeps == ASSUME DiskInv, D!ChangeMbr PROVE DiskInv'
  <1>1. D!Changeable /\ D!Changed({"mbr"})
    BY DEF D!ChangeMbr
  <1>2. PICK size \in D!Near(device[0].size), hybrid \in BOOLEAN :
          device' = D!Over(D!One(0, [is |-> "mbr", size |-> size, hybrid |-> hybrid]), device)
    BY DEF D!ChangeMbr
  <1>3. size \in Nat
    BY DiskScale DEF D!Near
  <1>4. 0 \in DOMAIN device /\ BlockType(0) = MbrType
    BY <1>1, Complete DEF BlockType
  <1>5. [is |-> "mbr", size |-> size, hybrid |-> hybrid] \in MbrType
    BY <1>3 DEF MbrType
  <1>6. DOMAIN device' = DOMAIN device /\ \A b \in DOMAIN device : device'[b] = device[b] \/ device'[b] \in BlockType(b)
    <2>1. DOMAIN D!One(0, [is |-> "mbr", size |-> size, hybrid |-> hybrid]) = {0}
          /\ D!One(0, [is |-> "mbr", size |-> size, hybrid |-> hybrid])[0] = [is |-> "mbr", size |-> size, hybrid |-> hybrid]
      BY DEF D!One
    <2> QED
      BY <1>2, <1>4, <1>5, <2>1, Overwritten
  <1> QED
    BY <1>1, <1>6, ChangedKeeps

-----------------------------------------------------------------------------
(* Its steps: reading *)

LEMMA HeaderAt ==
  ASSUME DiskTypes, DeviceInv, NEW b \in Nat, D!IsHeader(b)
  PROVE  /\ b \in {1, D!End} /\ b \in DOMAIN device /\ D!Block(b) = device[b] /\ D!Block(b) \in HeadType
         /\ D!Block(b).count \in Nat /\ D!Block(b).count >= D!Slots /\ b < capacity
         /\ b = 1 => written >= 4
         /\ b = D!End => written = 5
  <1>1. D!Block(b).is = "header" /\ D!Block(b).count \in D!Slots..MaxSlots /\ b < capacity
    BY DEF D!IsHeader, D!Readable
  <1>2. b \in DOMAIN device /\ D!Block(b) = device[b]
    BY <1>1 DEF D!Block, D!Zero
  <1>3. device[b] \in BlockType(b) /\ b \in Present(written) /\ written \in 0..5
    BY <1>2 DEF DeviceInv, DiskTypes
  <1>4. b \in {1, D!End} /\ device[b] \in HeadType
    BY <1>1, <1>2, <1>3 DEF BlockType, MbrType, TableType
  <1>5. D!End \in Nat /\ D!End >= 11
    BY Geometry DEF DeviceInv
  <1>6. (b = 1 => written >= 4) /\ (b = D!End => written = 5)
    BY <1>3, <1>5 DEF Present
  <1>7. D!Block(b).count \in Nat /\ D!Block(b).count >= D!Slots
    BY <1>1, DiskScale
  <1> QED
    BY <1>1, <1>2, <1>4, <1>6, <1>7

LEMMA PrimaryIs ==
  ASSUME DiskTypes, DeviceInv, PrimaryRead
  PROVE  /\ D!Primary \in HeadType /\ D!Primary = device[1] /\ written >= 4
         /\ D!Primary.count \in Nat /\ D!Primary.count >= D!Slots
         /\ D!Primary.start \in Nat /\ D!Primary.backup \in Nat /\ D!Primary.backup >= 11 /\ D!Primary.backup < capacity
         /\ D!Primary.first \in Nat /\ D!Primary.last \in Nat /\ D!Primary.current = 1
  <1>1. D!IsHeader(1) /\ D!Primary.current = 1 /\ D!Primary.backup \in 11..(capacity - 1) /\ capacity \in Nat
    BY DEF PrimaryRead, DiskTypes
  <1>2. D!Block(1) \in HeadType /\ D!Block(1) = device[1] /\ written >= 4 /\ D!Block(1).count \in Nat /\ D!Block(1).count >= D!Slots
    BY <1>1, HeaderAt
  <1>3. D!Primary = D!Block(1)
    BY DEF D!Primary
  <1>4. D!Primary \in HeadType /\ D!Primary.start \in Nat /\ D!Primary.first \in Nat /\ D!Primary.last \in Nat
    BY <1>2, <1>3 DEF HeadType
  <1> QED
    BY <1>1, <1>2, <1>3, <1>4

\* The blocks of a table hold its entries, and the last block holds one at least.
LEMMA TableLength ==
  ASSUME NEW n \in Nat, NEW k \in Nat \ {0}, NEW d, d = (n + k - 1) \div k
  PROVE  /\ d \in Nat /\ d * k >= n
         /\ \A i \in Nat : i < d => i * k < n
  <1>1. n + k - 1 \in Nat
    OBVIOUS
  <1>2. d \in Nat /\ (n + k - 1) % k \in 0..(k - 1) /\ n + k - 1 = d * k + ((n + k - 1) % k)
    BY <1>1, Divides
  <1>3. d * k \in Nat
    BY <1>2
  <1>4. d * k >= n /\ d * k <= n + k - 1
    BY <1>2, <1>3
  <1>5. ASSUME NEW i \in Nat, i < d PROVE i * k < n
    <2>1. i * k + k <= d * k /\ i * k \in Nat
      BY <1>2, <1>5, Grows
    <2> QED
      BY <1>3, <1>4, <2>1
  <1> QED
    BY <1>2, <1>4, <1>5

\* Both headers: where they are, and what the checks of Disk::read leave of them.
LEMMA BackupIs ==
  ASSUME DiskTypes, DeviceInv, PrimaryRead, BackupRead
  PROVE  /\ D!Primary \in HeadType /\ D!Primary = device[1] /\ written = 5
         /\ D!Backup \in HeadType /\ D!Backup = device[D!End] /\ D!Primary.backup = D!End /\ D!Backup.current = D!End
         /\ D!Primary.count \in Nat /\ D!Primary.count >= D!Slots /\ D!Primary.first \in Nat /\ D!Primary.last \in Nat
         /\ D!Primary.start \in Nat /\ D!Primary.start >= 2 /\ D!Primary.start <= D!End
         /\ D!Backup.start \in Nat /\ D!Backup.start <= D!End
         /\ D!Backup.backup = 1 /\ D!Primary.current = 1
         /\ D!Backup.id = D!Primary.id /\ D!Backup.first = D!Primary.first /\ D!Backup.last = D!Primary.last
         /\ D!Backup.count = D!Primary.count /\ D!Backup.sum = D!Primary.sum
         /\ D!Primary.first <= D!Primary.last /\ D!Primary.last < D!Backup.start
         /\ D!Plus(D!Primary.start, D!Length) <= D!Primary.first /\ D!Plus(D!Backup.start, D!Length) <= D!End
         /\ D!Length \in Nat /\ D!End \in Nat /\ D!End >= 11 /\ D!End < capacity
         /\ D!Length * PerBlock >= D!Primary.count
         /\ \A i \in Nat : i < D!Length => i * PerBlock < D!Primary.count
  <1>1. /\ D!Primary \in HeadType /\ D!Primary = device[1] /\ written >= 4
        /\ D!Primary.count \in Nat /\ D!Primary.count >= D!Slots
        /\ D!Primary.start \in Nat /\ D!Primary.backup \in Nat /\ D!Primary.backup >= 11 /\ D!Primary.backup < capacity
        /\ D!Primary.first \in Nat /\ D!Primary.last \in Nat /\ D!Primary.current = 1
    BY PrimaryIs
  <1>2. /\ D!Primary.backup \in {1, D!End} /\ D!Block(D!Primary.backup) = device[D!Primary.backup]
        /\ D!Block(D!Primary.backup) \in HeadType /\ (D!Primary.backup = D!End => written = 5)
    BY <1>1, HeaderAt DEF BackupRead
  <1>3. D!Primary.backup = D!End /\ D!Backup = device[D!End] /\ D!Backup \in HeadType /\ written = 5
    BY <1>1, <1>2 DEF D!Backup
  <1>4. /\ D!Backup.current = D!Primary.backup /\ D!Backup.backup = D!Primary.current
        /\ D!Backup.id = D!Primary.id /\ D!Backup.first = D!Primary.first /\ D!Backup.last = D!Primary.last
        /\ D!Backup.count = D!Primary.count /\ D!Backup.sum = D!Primary.sum
    BY DEF BackupRead, D!HeadersAgree
  <1>5. /\ ~(D!Primary.start < 2) /\ ~(D!Primary.start > D!Backup.current)
        /\ ~(D!Plus(D!Primary.start, D!Length) > D!Primary.first)
        /\ ~(D!Primary.first > D!Primary.last) /\ ~(D!Primary.last >= D!Backup.start)
        /\ ~(D!Backup.start > D!Backup.current) /\ ~(D!Plus(D!Backup.start, D!Length) > D!Backup.current)
    BY DEF BackupRead, D!Overlaps
  <1>6. D!Backup.start \in Nat
    BY <1>3 DEF HeadType
  <1>7. D!End \in Nat /\ D!End >= 11 /\ D!End < capacity
    BY Geometry DEF DeviceInv
  <1>8. D!Length = (D!Primary.count + PerBlock - 1) \div PerBlock /\ PerBlock \in Nat \ {0}
    BY DiskScale DEF D!Length
  <1>9. /\ D!Length \in Nat /\ D!Length * PerBlock >= D!Primary.count
        /\ \A i \in Nat : i < D!Length => i * PerBlock < D!Primary.count
    BY <1>1, <1>8, TableLength
  <1>10. D!Plus(D!Primary.start, D!Length) \in Int /\ D!Plus(D!Backup.start, D!Length) \in Int
    <2>1. Word \in Nat \ {0} /\ D!Primary.start + D!Length \in Nat /\ D!Backup.start + D!Length \in Nat
      BY <1>1, <1>6, <1>9, DiskScale
    <2> QED
      BY <2>1, Divides DEF D!Plus
  <1>11. /\ D!Primary.start >= 2 /\ D!Primary.start <= D!End
         /\ D!Plus(D!Primary.start, D!Length) <= D!Primary.first
         /\ D!Primary.first <= D!Primary.last /\ D!Primary.last < D!Backup.start
         /\ D!Backup.start <= D!End /\ D!Plus(D!Backup.start, D!Length) <= D!End
    BY <1>1, <1>3, <1>4, <1>5, <1>6, <1>7, <1>10
  <1> QED
    BY <1>1, <1>3, <1>4, <1>6, <1>7, <1>9, <1>11

\* A sum that fits does not wrap.
LEMMA NoWrap == ASSUME NEW a \in Nat, NEW b \in Nat, a + b < Word PROVE D!Plus(a, b) = a + b
  <1>1. Word \in Nat \ {0} /\ a + b \in 0..(Word - 1)
    BY DiskScale
  <1>2. (0 * Word + (a + b)) % Word = a + b
    BY <1>1, Quotient
  <1>3. 0 * Word + (a + b) = a + b
    BY <1>1
  <1> QED
    BY <1>2, <1>3 DEF D!Plus

\* What is said of the headers depends on the device alone.
LEMMA HeadersStay ==
  ASSUME UNCHANGED <<device, capacity>>
  PROVE  /\ PrimaryRead' = PrimaryRead /\ BackupRead' = BackupRead
         /\ D!Primary' = D!Primary /\ D!Backup' = D!Backup /\ D!Length' = D!Length
         /\ \A b : D!Entries(b)' = D!Entries(b)
  <1>1. \A b : D!Block(b)' = D!Block(b) /\ D!Readable(b)' = D!Readable(b)
    BY DEF D!Block, D!Zero, D!Readable
  <1>2. \A b : D!IsHeader(b)' = D!IsHeader(b)
    BY <1>1 DEF D!IsHeader, D!Readable, D!Block, D!Zero, D!Slots
  <1>3. D!Primary' = D!Primary
    BY <1>1 DEF D!Primary
  <1>4. D!Backup' = D!Backup
    BY DEF D!Backup, D!Primary, D!Block, D!Zero
  <1>5. D!Length' = D!Length
    BY <1>3 DEF D!Length
  <1>6. PrimaryRead' = PrimaryRead
    BY <1>2, <1>3 DEF PrimaryRead
  <1>7. D!IsHeader(D!Primary.backup)' = D!IsHeader(D!Primary.backup)
    BY DEF D!IsHeader, D!Readable, D!Primary, D!Block, D!Zero, D!Slots
  <1>8. BackupRead' = BackupRead
    BY <1>3, <1>4, <1>5, <1>7 DEF BackupRead, D!HeadersAgree, D!Overlaps, D!Plus
  <1>9. \A b : D!Entries(b)' = D!Entries(b)
    BY <1>1 DEF D!Entries, D!Block, D!Zero, D!Unused, D!Garbage
  <1> QED
    BY <1>1, <1>3, <1>4, <1>5, <1>6, <1>8, <1>9

\* A disk that was written and left alone is accepted.
LEMMA CleanHeaders ==
  ASSUME DiskTypes, DeviceInv, written = 5, changes = <<>>
  PROVE  /\ PrimaryRead /\ D!Primary = D!Header(1, D!End, 2) /\ D!Block(D!End) = D!Header(D!End, 1, D!End - 4)
         /\ D!Block(0) = [is |-> "mbr", size |-> IF D!End <= MbrMax THEN D!End ELSE MbrMax, hybrid |-> FALSE]
         /\ \A k \in 0..3 :
              /\ D!Block(2 + k) = [is |-> "table", records |-> D!Chunk(D!Table, k)]
              /\ D!Block(D!End - 4 + k) = [is |-> "table", records |-> D!Chunk(D!Table, k)]
  <1>1. /\ Laid /\ DOMAIN device = Present(5) /\ \A b \in DOMAIN device : device[b] = LaidBlock(b)
        /\ capacity \in Nat
    BY DEF DeviceInv, DiskTypes
  <1>2. D!End \in Nat /\ D!End >= 11 /\ D!End < capacity
    BY <1>1, Geometry
  <1>3. \A b \in Present(5) : D!Block(b) = LaidBlock(b)
    BY <1>1 DEF D!Block
  <1>4. {0, 1, D!End} \subseteq Present(5) /\ \A k \in 0..3 : 2 + k \in Present(5) /\ D!End - 4 + k \in Present(5)
    BY <1>2 DEF Present
  <1>5. D!Primary = D!Header(1, D!End, 2)
    BY <1>3, <1>4 DEF D!Primary, LaidBlock
  <1>6. D!Block(D!End) = D!Header(D!End, 1, D!End - 4)
    BY <1>2, <1>3, <1>4 DEF LaidBlock
  <1>7. D!Block(0) = [is |-> "mbr", size |-> IF D!End <= MbrMax THEN D!End ELSE MbrMax, hybrid |-> FALSE]
    BY <1>3, <1>4 DEF LaidBlock
  <1>8. ASSUME NEW k \in 0..3
        PROVE  /\ D!Block(2 + k) = [is |-> "table", records |-> D!Chunk(D!Table, k)]
               /\ D!Block(D!End - 4 + k) = [is |-> "table", records |-> D!Chunk(D!Table, k)]
    <2>1. D!Block(2 + k) = LaidBlock(2 + k) /\ D!Block(D!End - 4 + k) = LaidBlock(D!End - 4 + k)
      BY <1>3, <1>4
    <2>2. 2 + k <= 5 /\ 2 + k \notin {0, 1, D!End} /\ (2 + k) - 2 = k
      BY <1>2
    <2>3. ~(D!End - 4 + k <= 5) /\ D!End - 4 + k \notin {0, 1, D!End} /\ (D!End - 4 + k) - (D!End - 4) = k
      BY <1>2
    <2>4. LaidBlock(2 + k) = [is |-> "table", records |-> D!Chunk(D!Table, k)]
      BY <2>2 DEF LaidBlock
    <2>5. LaidBlock(D!End - 4 + k) = [is |-> "table", records |-> D!Chunk(D!Table, k)]
      BY <2>3 DEF LaidBlock
    <2> QED
      BY <2>1, <2>4, <2>5
  <1>9. PrimaryRead
    <2>1. D!Block(1) = D!Header(1, D!End, 2)
      BY <1>5 DEF D!Primary
    <2>2. D!IsHeader(1)
      BY <1>1, <1>2, <2>1, DiskScale DEF D!IsHeader, D!Header, D!Readable
    <2>3. D!Primary.current = 1 /\ D!Primary.backup = D!End
      BY <1>5 DEF D!Header
    <2> QED
      BY <1>1, <1>2, <2>2, <2>3 DEF PrimaryRead
  <1> QED
    BY <1>5, <1>6, <1>7, <1>8, <1>9

LEMMA LaidLength == ASSUME D!Primary.count = D!Slots PROVE D!Length = 4
  <1>1. D!Length = (D!Slots + PerBlock - 1) \div PerBlock
    BY DEF D!Length
  <1>2. D!Slots + PerBlock - 1 = 4 * PerBlock + (PerBlock - 1) /\ PerBlock - 1 \in 0..(PerBlock - 1)
        /\ PerBlock \in Nat \ {0}
    BY DiskScale
  <1>3. (4 * PerBlock + (PerBlock - 1)) \div PerBlock = 4
    BY <1>2, Quotient
  <1> QED
    BY <1>1, <1>2, <1>3

LEMMA CleanBackup ==
  ASSUME DiskTypes, DeviceInv, written = 5, changes = <<>>
  PROVE  /\ BackupRead /\ D!Length = 4 /\ D!Primary.start = 2 /\ D!Backup.start = D!End - 4
         /\ D!Primary.count = D!Slots /\ D!Primary.first = 6 /\ D!Primary.last = D!End - 5 /\ D!Primary.backup = D!End
         /\ D!Primary.sum = D!Table
  <1>1. D!Primary = D!Header(1, D!End, 2) /\ D!Block(D!End) = D!Header(D!End, 1, D!End - 4)
    BY CleanHeaders
  <1>2. D!End \in Nat /\ D!End >= 11 /\ D!End < capacity /\ D!End + 5 < Word
    BY Geometry DEF DeviceInv
  <1>3. /\ D!Primary.start = 2 /\ D!Primary.count = D!Slots /\ D!Primary.first = 6 /\ D!Primary.last = D!End - 5
        /\ D!Primary.backup = D!End /\ D!Primary.current = 1 /\ D!Primary.id = "new" /\ D!Primary.sum = D!Checksum(D!Table)
    BY <1>1 DEF D!Header
  <1>4. D!Backup = D!Header(D!End, 1, D!End - 4)
    BY <1>1, <1>3 DEF D!Backup
  <1>5. /\ D!Backup.start = D!End - 4 /\ D!Backup.count = D!Slots /\ D!Backup.first = 6 /\ D!Backup.last = D!End - 5
        /\ D!Backup.backup = 1 /\ D!Backup.current = D!End /\ D!Backup.id = "new" /\ D!Backup.sum = D!Checksum(D!Table)
    BY <1>4 DEF D!Header
  <1>6. D!Length = 4
    BY <1>3, LaidLength
  <1>7. D!HeadersAgree
    BY <1>3, <1>5 DEF D!HeadersAgree
  <1>8. D!IsHeader(D!Primary.backup)
    BY <1>1, <1>2, <1>3, DiskScale DEF D!IsHeader, D!Header, D!Readable
  <1>9. D!Plus(2, 4) = 6 /\ D!Plus(D!End - 4, 4) = D!End
    <2>1. D!Plus(2, 4) = 2 + 4
      BY <1>2, NoWrap, DiskScale
    <2>2. D!End - 4 \in Nat /\ (D!End - 4) + 4 = D!End
      BY <1>2
    <2>3. D!Plus(D!End - 4, 4) = (D!End - 4) + 4
      BY <1>2, <2>2, NoWrap, DiskScale
    <2> QED
      BY <2>1, <2>2, <2>3
  <1>10. ~D!Overlaps
    BY <1>2, <1>3, <1>5, <1>6, <1>9 DEF D!Overlaps
  <1>11. D!Checksum(D!Table) = D!Table
    BY LaidTable DEF DeviceInv
  <1> QED
    BY <1>3, <1>5, <1>6, <1>7, <1>8, <1>10, <1>11 DEF BackupRead

LEMMA ReadPrimaryKeeps == ASSUME DiskInv, D!ReadPrimary PROVE DiskInv'
  <1>1. /\ phase = "primary" /\ DiskTypes /\ DeviceInv /\ Unread
        /\ UNCHANGED <<plan, capacity, device, written, index, seen, others, changes>>
        /\ \/ phase' = "backup" /\ PrimaryRead
           \/ phase' = "refused" /\ ~(capacity * 8 <= MaxSectors /\ capacity >= 12 /\ PrimaryRead)
    BY DEF DiskInv, D!ReadPrimary, D!Continue, D!Refused, PrimaryRead
  <1>2. DeviceInv' /\ PrimaryRead' = PrimaryRead
    BY <1>1, DeviceStays, HeadersStay
  <1>3. DiskTypes' /\ Unread'
    BY <1>1 DEF DiskTypes, Unread, EntryType
  <1>4. ~(written = 5 /\ changes = <<>>) \/ (capacity * 8 <= MaxSectors /\ capacity >= 12 /\ PrimaryRead)
    BY <1>1, CleanHeaders, Geometry DEF DeviceInv
  <1> QED
    BY <1>1, <1>2, <1>3, <1>4 DEF DiskInv

LEMMA ReadBackupKeeps == ASSUME DiskInv, D!ReadBackup PROVE DiskInv'
  <1>1. /\ phase = "backup" /\ DiskTypes /\ DeviceInv /\ Unread /\ PrimaryRead
        /\ UNCHANGED <<plan, capacity, device, written, index, seen, others, changes>>
        /\ (phase' = "mbr" /\ BackupRead) \/ (phase' = "refused" /\ ~BackupRead)
    BY DEF DiskInv, D!ReadBackup, D!Continue, D!Refused, BackupRead
  <1>2. DeviceInv' /\ PrimaryRead' = PrimaryRead /\ BackupRead' = BackupRead
    BY <1>1, DeviceStays, HeadersStay
  <1>3. DiskTypes' /\ Unread'
    BY <1>1 DEF DiskTypes, Unread, EntryType
  <1>4. ~(written = 5 /\ changes = <<>>) \/ BackupRead
    BY <1>1, CleanBackup
  <1> QED
    BY <1>1, <1>2, <1>3, <1>4 DEF DiskInv

LEMMA ReadMbrKeeps == ASSUME DiskInv, D!ReadMbr PROVE DiskInv'
  <1> DEFINE fits == /\ D!Block(0).is = "mbr" /\ ~D!Block(0).hybrid
                     /\ D!Protects(D!Block(0).size, D!Plus(D!Primary.backup, 1))
  <1>1. /\ phase = "mbr" /\ DiskTypes /\ DeviceInv /\ Unread /\ PrimaryRead /\ BackupRead
        /\ UNCHANGED <<plan, capacity, device, written, index, seen, others, changes>>
        /\ (phase' = "tables" /\ fits) \/ (phase' = "refused" /\ ~fits)
    BY DEF DiskInv, D!ReadMbr, D!Continue, D!Refused
  <1>2. /\ DeviceInv' /\ PrimaryRead' = PrimaryRead /\ BackupRead' = BackupRead
        /\ D!Primary' = D!Primary /\ D!Backup' = D!Backup /\ D!Length' = D!Length
    BY <1>1, DeviceStays, HeadersStay
  <1>3. DiskTypes' /\ Unread'
    BY <1>1 DEF DiskTypes, Unread, EntryType
  <1>4. ASSUME written = 5, changes = <<>> PROVE fits
    <2>1. D!Block(0) = [is |-> "mbr", size |-> IF D!End <= MbrMax THEN D!End ELSE MbrMax, hybrid |-> FALSE]
          /\ D!Primary.backup = D!End
      BY <1>1, <1>4, CleanHeaders, CleanBackup
    <2>2. D!End \in Nat /\ D!End + 1 < Word /\ MbrMax \in Nat
      BY <1>1, Geometry, DiskScale DEF DeviceInv
    <2>3. D!Plus(D!End, 1) = D!End + 1
      BY <2>2, NoWrap, DiskScale
    <2>4. (D!End + 1) - 1 = D!End
      BY <2>2
    <2> QED
      BY <2>1, <2>3, <2>4 DEF D!Protects
  <1> HIDE DEF fits
  <1>5. ReadFrom(<<>>, D!Primary.start, 0) /\ ReadFrom(<<>>, D!Backup.start, 0) /\ 0 <= D!Length
    <2>1. /\ D!Primary.start \in Nat /\ D!Primary.start <= capacity /\ D!Backup.start \in Nat /\ D!Backup.start <= capacity
          /\ D!Primary.count \in Nat /\ D!Primary.count > 0 /\ D!Length \in Nat
      <3>1. D!End < capacity /\ D!End \in Nat /\ capacity \in Nat
        BY <1>1, Geometry DEF DeviceInv, DiskTypes
      <3>2. /\ D!Primary.start \in Nat /\ D!Primary.start <= D!End /\ D!Backup.start \in Nat /\ D!Backup.start <= D!End
            /\ D!Primary.count \in Nat /\ D!Primary.count >= D!Slots /\ D!Length \in Nat
        BY <1>1, BackupIs
      <3> QED
        BY <3>1, <3>2, DiskScale
    <2>2. 0 * PerBlock = 0
      BY DiskScale
    <2>3. ASSUME NEW k \in Nat, k < 0 PROVE FALSE
      BY <2>3
    <2> QED
      BY <2>1, <2>2, <2>3 DEF ReadFrom
  <1>6. PrimaryRead' /\ BackupRead' /\ (phase' = "refused" => ~(written' = 5 /\ changes' = <<>>))
    BY <1>1, <1>2, <1>4
  <1>7. TablesRead'
    <2>1. index' = 0 /\ seen' = <<>> /\ others' = <<>>
      BY <1>3 DEF Unread
    <2>2. ReadFrom(seen, D!Primary.start, index)' /\ ReadFrom(others, D!Backup.start, index)'
      BY <1>1, <1>2, <1>5, <2>1, HeadersStay DEF ReadFrom, EntryType
    <2> QED
      BY <1>2, <1>5, <2>1, <2>2 DEF TablesRead
  <1> QED
    BY <1>1, <1>2, <1>3, <1>6, <1>7 DEF DiskInv

LEMMA EntriesAre == ASSUME DeviceInv, NEW b PROVE D!Entries(b) \in Entries
  <1>1. b \in DOMAIN device => D!Block(b) = device[b] /\ device[b] \in BlockType(b)
    BY DEF DeviceInv, D!Block
  <1>2. b \notin DOMAIN device => D!Block(b) = [is |-> "zero"]
    BY DEF D!Block, D!Zero
  <1>3. D!Unused \in EntryType /\ D!Garbage \in EntryType
    BY DEF D!Unused, D!Garbage, EntryType
  <1>4. [s \in 1..PerBlock |-> D!Unused] \in Entries /\ [s \in 1..PerBlock |-> D!Garbage] \in Entries
    BY <1>3 DEF Entries
  <1>5. CASE D!Block(b).is = "table"
    <2>1. D!Entries(b) = D!Block(b).records
      BY <1>5 DEF D!Entries
    <2>3. D!Block(b) \in MbrType \/ D!Block(b) \in HeadType \/ D!Block(b) \in TableType
      BY <1>1, <1>2, <1>5 DEF BlockType
    <2>2. D!Block(b) \in TableType
      BY <1>5, <2>3 DEF HeadType, MbrType
    <2> QED
      BY <2>1, <2>2 DEF TableType
  <1>6. CASE D!Block(b).is = "zero"
    BY <1>4, <1>6 DEF D!Entries
  <1>7. CASE D!Block(b).is \notin {"zero", "table"}
    BY <1>4, <1>7 DEF D!Entries
  <1> QED
    BY <1>5, <1>6, <1>7

\* The next block of a table is read behind the others.
LEMMA ReadOn ==
  ASSUME DiskTypes, DeviceInv, PrimaryRead, BackupRead, index < D!Length,
         NEW entries, NEW from \in Nat, ReadFrom(entries, from, index), from + index < capacity
  PROVE  LET more == D!Declared(D!Entries(from + index)) IN
         /\ ReadFrom(entries \o more, from, index + 1) /\ more \in Seq(EntryType) /\ entries \in Seq(EntryType)
         /\ \A j \in DOMAIN more : index * PerBlock + j <= D!Primary.count /\ j \in 1..PerBlock
                                   /\ more[j] = D!Entries(from + index)[j]
  <1> DEFINE found == D!Entries(from + index)
             n == index * PerBlock
             left == D!Primary.count - n
             m == IF left < PerBlock THEN left ELSE PerBlock
             more == D!Declared(found)
  <1>1. found \in Entries
    BY EntriesAre
  <1>2. index \in Nat /\ capacity \in Nat /\ D!Primary.count \in Nat /\ PerBlock \in Nat \ {0} /\ n < D!Primary.count /\ n \in Nat
    <2>1. index \in Nat /\ capacity \in Nat
      BY DEF DiskTypes
    <2>2. D!Primary.count \in Nat /\ \A i \in Nat : i < D!Length => i * PerBlock < D!Primary.count
      BY BackupIs
    <2>3. PerBlock \in Nat \ {0}
      BY DiskScale
    <2>4. n \in Nat
      BY <2>1, <2>3
    <2> QED
      BY <2>1, <2>2, <2>3, <2>4
  <1>3. /\ entries \in Seq(EntryType) /\ Len(entries) = n
        /\ \A k \in Nat, j \in 1..PerBlock : k < index /\ k * PerBlock + j <= D!Primary.count
             => entries[k * PerBlock + j] = D!Entries(from + k)[j]
    BY <1>2 DEF ReadFrom
  <1>4. m \in 1..PerBlock /\ n + m <= D!Primary.count
    BY <1>2
  <1>5. more = SubSeq(found, 1, m)
    BY DEF D!Declared
  <1>6. (index + 1) * PerBlock = n + PerBlock
    BY <1>2
  <1>7. n + m = IF (index + 1) * PerBlock < D!Primary.count THEN (index + 1) * PerBlock ELSE D!Primary.count
    BY <1>2, <1>6
  <1>16. ASSUME NEW j \in 1..PerBlock, n + j <= D!Primary.count PROVE j <= m
    BY <1>2, <1>16
  <1> HIDE DEF found, n, m, more
  <1>8. more \in Seq(EntryType) /\ Len(more) = m /\ \A j \in 1..m : more[j] = found[j]
    <2>1. found \in Seq(EntryType) /\ Len(found) = PerBlock
      BY <1>1, <1>2 DEF Entries
    <2>4. m \in Nat /\ m <= Len(found)
      BY <1>2, <1>4, <2>1
    <2>2. SubSeq(found, 1, m) = [j \in 1..m |-> found[j]] /\ \A j \in 1..m : found[j] \in EntryType
      BY <2>1, <2>4
    <2>3. SubSeq(found, 1, m) \in [1..m -> EntryType] /\ \A j \in 1..m : SubSeq(found, 1, m)[j] = found[j]
      BY <2>2, <2>4
    <2>5. more \in [1..m -> EntryType] /\ \A j \in 1..m : more[j] = found[j]
      BY <1>5, <2>3
    <2> QED
      BY <2>4, <2>5
  <1>9. /\ entries \o more \in Seq(EntryType) /\ Len(entries \o more) = n + m
        /\ \A i \in 1..n : (entries \o more)[i] = entries[i]
        /\ \A i \in 1..m : (entries \o more)[n + i] = more[i]
    BY <1>2, <1>3, <1>4, <1>8
  <1>10. ASSUME NEW k \in Nat, NEW j \in 1..PerBlock, k < index + 1, k * PerBlock + j <= D!Primary.count
         PROVE  (entries \o more)[k * PerBlock + j] = D!Entries(from + k)[j]
    <2>1. CASE k = index
      <3>1. k * PerBlock = n
        BY <2>1 DEF n
      <3>2. j \in 1..m
        BY <1>4, <1>10, <1>16, <3>1
      <3> QED
        BY <1>8, <1>9, <2>1, <3>1, <3>2 DEF found
    <2>2. CASE k < index
      <3>1. k * PerBlock + PerBlock <= n /\ k * PerBlock \in Nat
        BY <1>2, <2>2, Grows DEF n
      <3>2. k * PerBlock + j \in 1..n
        BY <1>2, <3>1
      <3> QED
        BY <1>3, <1>9, <1>10, <2>2, <3>2
    <2>3. k = index \/ k < index
      BY <1>2, <1>10
    <2> QED
      BY <2>1, <2>2, <2>3
  <1>11. ReadFrom(entries \o more, from, index + 1)
    <2> DEFINE longer == entries \o more
    <2>1. longer \in Seq(EntryType) /\ Len(longer) = n + m /\ from + (index + 1) <= capacity
      BY <1>2, <1>9
    <2>2. \A k \in Nat, j \in 1..PerBlock : k < index + 1 /\ k * PerBlock + j <= D!Primary.count
            => longer[k * PerBlock + j] = D!Entries(from + k)[j]
      BY <1>10
    <2> HIDE DEF longer
    <2>3. ReadFrom(longer, from, index + 1)
      BY <1>7, <2>1, <2>2 DEF ReadFrom
    <2> QED
      BY <2>3 DEF longer
  <1>12. \A j \in DOMAIN more : n + j <= D!Primary.count /\ j \in 1..PerBlock /\ more[j] = found[j]
    BY <1>2, <1>4, <1>8
  <1> QED
    BY <1>3, <1>8, <1>11, <1>12 DEF more, found, n

\* The blocks of a disk that was left alone hold the entries of the layout.
LEMMA CleanEntries ==
  ASSUME DiskTypes, DeviceInv, written = 5, changes = <<>>, NEW k \in 0..3, NEW j \in 1..PerBlock
  PROVE  /\ D!Entries(2 + k)[j] = D!Table[k * PerBlock + j] /\ D!Entries(D!End - 4 + k)[j] = D!Table[k * PerBlock + j]
         /\ k * PerBlock + j \in 1..D!Slots
  <1>1. /\ D!Block(2 + k) = [is |-> "table", records |-> D!Chunk(D!Table, k)]
        /\ D!Block(D!End - 4 + k) = [is |-> "table", records |-> D!Chunk(D!Table, k)]
    BY CleanHeaders
  <1>2. D!Entries(2 + k) = D!Chunk(D!Table, k) /\ D!Entries(D!End - 4 + k) = D!Chunk(D!Table, k)
    BY <1>1 DEF D!Entries
  <1>3. D!Table \in [1..D!Slots -> EntryType]
    BY LaidTable DEF DeviceInv
  <1>4. D!Chunk(D!Table, k)[j] = D!Table[k * PerBlock + j] /\ k * PerBlock + j \in 1..D!Slots
    BY <1>3, Chunks
  <1> QED
    BY <1>2, <1>4

LEMMA LaidInside ==
  ASSUME Laid, NEW s \in 1..D!Slots, D!IsUsed(D!Table[s])
  PROVE  D!Table[s].start <= D!Table[s].end /\ 6 <= D!Table[s].start /\ D!Table[s].end <= D!End - 5
  <1>1. s = 1 \/ (s = 2 /\ plan.esp # 0)
    BY LaidTable DEF D!IsUsed
  <1>2. CASE s = 1
    <2>1. D!Table[1] = [kind |-> "root", start |-> RootFrom, end |-> RootTo, auto |-> TRUE, name |-> "a"]
      BY LaidTable
    <2>2. 6 <= RootFrom /\ RootFrom <= RootTo /\ RootTo <= D!End - 5
      BY Geometry
    <2> QED
      BY <1>2, <2>1, <2>2
  <1>3. CASE s = 2 /\ plan.esp # 0
    <2>1. D!Table[2] = [kind |-> "esp", start |-> EspFrom, end |-> EspTo, auto |-> TRUE, name |-> "a"]
      BY <1>3, LaidTable
    <2>2. 6 <= EspFrom /\ EspFrom <= EspTo /\ EspTo <= D!End - 5
      <3>1. EspFrom \in Nat /\ EspTo \in Nat /\ 6 <= EspFrom /\ EspFrom <= EspTo /\ EspTo < RootFrom
        BY <1>3, Geometry
      <3>2. RootFrom \in Nat /\ RootTo \in Nat /\ RootFrom <= RootTo /\ RootTo <= D!End - 5 /\ D!End \in Nat
        BY Geometry
      <3> QED
        BY <3>1, <3>2
    <2> QED
      BY <1>3, <2>1, <2>2
  <1> QED
    BY <1>1, <1>2, <1>3

LEMMA ReadTablesKeeps == ASSUME DiskInv, D!ReadTables PROVE DiskInv'
  <1> DEFINE here == D!Plus(D!Primary.start, index)
             to == D!Plus(D!Backup.start, index)
             block == D!Declared(D!Entries(here))
             other == D!Declared(D!Entries(to))
             bad == \/ ~D!Readable(here) \/ ~D!Readable(to)
                    \/ \E s \in DOMAIN block :
                         /\ D!IsUsed(block[s])
                         /\ \/ block[s].start > block[s].end
                            \/ block[s].start < D!Primary.first \/ block[s].end > D!Primary.last
  <1>1. /\ phase = "tables" /\ index < D!Length /\ DiskTypes /\ DeviceInv /\ PrimaryRead /\ BackupRead /\ TablesRead
        /\ UNCHANGED <<plan, capacity, device, written, changes>>
    BY DEF DiskInv, D!ReadTables, D!Refused
  <1>2. \/ bad /\ phase' = "refused" /\ UNCHANGED <<index, seen, others>>
        \/ ~bad /\ phase' = "tables" /\ seen' = seen \o block /\ others' = others \o other /\ index' = index + 1
    BY <1>1 DEF D!ReadTables, D!Refused
  <1>3. /\ DeviceInv' /\ PrimaryRead' = PrimaryRead /\ BackupRead' = BackupRead
        /\ D!Primary' = D!Primary /\ D!Backup' = D!Backup /\ D!Length' = D!Length /\ \A b : D!Entries(b)' = D!Entries(b)
    BY <1>1, DeviceStays, HeadersStay
  <1>4. /\ D!Primary.start \in Nat /\ D!Backup.start \in Nat /\ index \in Nat /\ capacity \in Nat /\ Word \in Nat /\ capacity < Word
        /\ D!Primary.start + index <= capacity /\ D!Backup.start + index <= capacity /\ D!Length \in Nat
        /\ D!Primary.first \in Nat /\ D!Primary.last \in Nat
    <2>1. D!Primary.start \in Nat /\ D!Backup.start \in Nat /\ D!Length \in Nat /\ D!Primary.first \in Nat /\ D!Primary.last \in Nat
      BY <1>1, BackupIs
    <2>2. index \in Nat /\ capacity \in Nat /\ D!Primary.start + index <= capacity /\ D!Backup.start + index <= capacity
      BY <1>1 DEF TablesRead, ReadFrom, DiskTypes
    <2>3. capacity < Word /\ Word \in Nat
      BY <1>1, Geometry, DiskScale DEF DeviceInv
    <2> QED
      BY <2>1, <2>2, <2>3
  <1>5. here = D!Primary.start + index /\ to = D!Backup.start + index
    <2>1. D!Primary.start + index < Word /\ D!Backup.start + index < Word
      BY <1>4
    <2> QED
      BY <1>4, <2>1, NoWrap
  <1>6. CASE bad /\ phase' = "refused" /\ UNCHANGED <<index, seen, others>>
    <2>1. ASSUME written = 5, changes = <<>> PROVE FALSE
      <3>1. /\ D!Length = 4 /\ D!Primary.start = 2 /\ D!Backup.start = D!End - 4 /\ D!Primary.count = D!Slots
            /\ D!Primary.first = 6 /\ D!Primary.last = D!End - 5
        BY <1>1, <2>1, CleanBackup
      <3>2. index \in 0..3 /\ D!End \in Nat /\ D!End < capacity /\ D!End >= 11 /\ Laid
        BY <1>1, <1>4, <3>1, Geometry DEF DeviceInv
      <3>3. D!Readable(here) /\ D!Readable(to) /\ here = 2 + index /\ 2 + index < capacity
        BY <1>4, <1>5, <3>1, <3>2 DEF D!Readable
      <3>4. ASSUME NEW s \in DOMAIN block, D!IsUsed(block[s])
            PROVE  block[s].start <= block[s].end /\ 6 <= block[s].start /\ block[s].end <= D!End - 5
        <4>1. ReadFrom(seen, 2, index)
          BY <1>1, <3>1 DEF TablesRead
        <4>2. s \in 1..PerBlock /\ block[s] = D!Entries(2 + index)[s]
          BY <1>1, <1>4, <3>3, <3>4, <4>1, ReadOn
        <4>3. block[s] = D!Table[index * PerBlock + s] /\ index * PerBlock + s \in 1..D!Slots
          BY <1>1, <2>1, <3>2, <4>2, CleanEntries
        <4> HIDE DEF block
        <4>4. PICK i \in 1..D!Slots : i = index * PerBlock + s
          BY <4>3
        <4>5. block[s] = D!Table[i] /\ D!IsUsed(D!Table[i])
          BY <3>4, <4>3, <4>4
        <4> QED
          BY <3>2, <4>5, LaidInside
      <3>5. PICK s \in DOMAIN block : /\ D!IsUsed(block[s])
                                      /\ \/ block[s].start > block[s].end
                                         \/ block[s].start < 6 \/ block[s].end > D!End - 5
        BY <1>6, <3>1, <3>3
      <3>6. block[s] \in EntryType
        <4>1. ReadFrom(seen, 2, index)
          BY <1>1, <3>1 DEF TablesRead
        <4>2. block \in Seq(EntryType)
          BY <1>1, <1>4, <3>3, <4>1, ReadOn
        <4> QED
          BY <3>5, <4>2
      <3>7. block[s].start \in Int /\ block[s].end \in Int
        BY <3>6 DEF EntryType
      <3>8. block[s].start <= block[s].end /\ 6 <= block[s].start /\ block[s].end <= D!End - 5
        BY <3>4, <3>5
      <3> HIDE DEF block
      <3> QED
        BY <3>2, <3>5, <3>7, <3>8
    <2>2. DiskTypes'
      BY <1>1, <1>6 DEF DiskTypes, EntryType
    <2> QED
      BY <1>1, <1>6, <2>1, <2>2 DEF DiskInv
  <1>7. CASE ~bad /\ phase' = "tables" /\ seen' = seen \o block /\ others' = others \o other /\ index' = index + 1
    <2>1. /\ here < capacity /\ to < capacity
          /\ \A s \in DOMAIN block : D!IsUsed(block[s]) =>
               /\ ~(block[s].start > block[s].end)
               /\ ~(block[s].start < D!Primary.first) /\ ~(block[s].end > D!Primary.last)
      BY <1>7 DEF D!Readable
    <2>2. /\ ReadFrom(seen \o block, D!Primary.start, index + 1) /\ block \in Seq(EntryType) /\ seen \in Seq(EntryType)
      BY <1>1, <1>4, <1>5, <2>1, ReadOn DEF TablesRead
    <2>3. /\ ReadFrom(others \o other, D!Backup.start, index + 1) /\ other \in Seq(EntryType) /\ others \in Seq(EntryType)
      BY <1>1, <1>4, <1>5, <2>1, ReadOn DEF TablesRead
    <2> HIDE DEF block, other, here, to
    <2>4. Len(seen \o block) = Len(others \o other)
      BY <2>2, <2>3 DEF ReadFrom
    <2>5. ASSUME NEW s \in DOMAIN (seen \o block), D!IsUsed((seen \o block)[s]) PROVE WithinDisk((seen \o block)[s])
      <3>1. CASE s \in DOMAIN seen
        <4>1. (seen \o block)[s] = seen[s]
          BY <2>2, <3>1
        <4> QED
          BY <1>1, <2>5, <3>1, <4>1 DEF TablesRead
      <3>2. CASE s \notin DOMAIN seen
        <4>1. PICK i \in DOMAIN block : (seen \o block)[s] = block[i]
          <5>1. s - Len(seen) \in DOMAIN block /\ (seen \o block)[s] = block[s - Len(seen)]
            BY <2>2, <2>5, <3>2
          <5> QED
            BY <5>1
        <4>2. block[i] \in EntryType
          BY <2>2, <4>1
        <4>3. block[i].start \in Int /\ block[i].end \in Int
          BY <4>2 DEF EntryType
        <4>4. WithinDisk(block[i])
          BY <1>4, <2>1, <2>5, <4>1, <4>3 DEF WithinDisk
        <4> QED
          BY <4>1, <4>4
      <3> QED
        BY <3>1, <3>2
    <2>6. seen \o block \in Seq(EntryType) /\ others \o other \in Seq(EntryType)
      BY <2>2, <2>3
    <2>7. DiskTypes'
      BY <1>1, <1>4, <1>7, <2>4, <2>6 DEF DiskTypes, EntryType
    <2>8. TablesRead'
      <3>1. index' <= D!Length'
        BY <1>1, <1>3, <1>4, <1>7
      <3>2. ReadFrom(seen, D!Primary.start, index)'
        BY <1>1, <1>3, <1>7, <2>2 DEF ReadFrom, EntryType
      <3>3. ReadFrom(others, D!Backup.start, index)'
        BY <1>1, <1>3, <1>7, <2>3 DEF ReadFrom, EntryType
      <3>4. \A s \in DOMAIN seen' : (D!IsUsed(seen[s]) => WithinDisk(seen[s]))'
        <4>1. \A s \in DOMAIN seen' : D!IsUsed(seen'[s]) => WithinDisk(seen'[s])
          BY <1>7, <2>5
        <4>2. \A s : WithinDisk(seen[s])' = WithinDisk(seen'[s])
          BY <1>3 DEF WithinDisk
        <4> QED
          BY <4>1, <4>2 DEF D!IsUsed
      <3> QED
        BY <3>1, <3>2, <3>3, <3>4 DEF TablesRead
    <2> QED
      BY <1>1, <1>3, <1>7, <2>7, <2>8 DEF DiskInv
  <1> QED
    BY <1>2, <1>6, <1>7

\* Where an entry of a table is.
LEMMA PlaceOf ==
  ASSUME NEW n \in Nat, NEW k \in Nat \ {0}, NEW d \in Nat, n <= d * k, NEW s \in 1..n
  PROVE  \E i \in 0..(d - 1), j \in 1..k : s = i * k + j
  <1>1. s - 1 \in Nat
    OBVIOUS
  <1>2. PICK i \in Nat : i = (s - 1) \div k
    BY <1>1, Divides
  <1>3. PICK r \in 0..(k - 1) : r = (s - 1) % k
    BY <1>1, Divides
  <1>4. s - 1 = i * k + r
    BY <1>1, <1>2, <1>3, Divides
  <1>5. i * k \in Nat /\ d * k \in Nat
    OBVIOUS
  <1>6. i * k < d * k
    BY <1>4, <1>5
  <1>7. i < d
    <2>1. ASSUME d < i PROVE FALSE
      <3>1. d * k + k <= i * k
        BY <2>1, Grows
      <3> QED
        BY <1>5, <1>6, <3>1
    <2>2. d # i
      BY <1>5, <1>6
    <2> QED
      BY <2>1, <2>2
  <1>8. r + 1 \in 1..k /\ s = i * k + (r + 1) /\ i \in 0..(d - 1)
    BY <1>4, <1>5, <1>7
  <1> QED
    BY <1>8

\* A table whose blocks are the layout's is the layout's.
LEMMA ReadLaid ==
  ASSUME Laid, NEW entries, NEW from, ReadFrom(entries, from, 4), D!Primary.count = D!Slots,
         \A k \in 0..3, j \in 1..PerBlock : D!Entries(from + k)[j] = D!Table[k * PerBlock + j]
  PROVE  entries = D!Table
  <1>1. PerBlock \in Nat \ {0} /\ D!Slots = 4 * PerBlock /\ D!Slots \in Nat
    BY DiskScale
  <1>2. /\ entries \in Seq(EntryType) /\ Len(entries) = D!Slots
        /\ \A k \in Nat, j \in 1..PerBlock : k < 4 /\ k * PerBlock + j <= D!Slots
             => entries[k * PerBlock + j] = D!Entries(from + k)[j]
    BY <1>1 DEF ReadFrom
  <1>3. ASSUME NEW s \in 1..D!Slots PROVE entries[s] = D!Table[s]
    <2>1. PICK k \in 0..3, j \in 1..PerBlock : s = k * PerBlock + j
      <3>1. D!Slots <= 4 * PerBlock
        BY <1>1
      <3>2. \E k \in 0..(4 - 1), j \in 1..PerBlock : s = k * PerBlock + j
        BY <1>1, <3>1, PlaceOf
      <3> QED
        BY <3>2
    <2>2. entries[k * PerBlock + j] = D!Entries(from + k)[j]
      <3>1. k \in Nat /\ k < 4 /\ k * PerBlock + j <= D!Slots
        BY <1>1, <2>1
      <3> QED
        BY <1>2, <3>1
    <2> QED
      BY <2>1, <2>2
  <1>4. D!Table \in [1..D!Slots -> EntryType]
    BY LaidTable
  <1>5. entries = [s \in 1..D!Slots |-> entries[s]]
    BY <1>1, <1>2
  <1>6. D!Table = [s \in 1..D!Slots |-> D!Table[s]]
    BY <1>4
  <1> QED
    BY <1>3, <1>5, <1>6

\* What is read of a disk that was left alone.
LEMMA CleanRead ==
  ASSUME DiskTypes, DeviceInv, written = 5, changes = <<>>, TablesRead, index = D!Length
  PROVE  seen = D!Table /\ others = D!Table
  <1>1. D!Length = 4 /\ D!Primary.start = 2 /\ D!Backup.start = D!End - 4 /\ D!Primary.count = D!Slots
    BY CleanBackup
  <1>2. ReadFrom(seen, 2, 4) /\ ReadFrom(others, D!End - 4, 4) /\ Laid
    BY <1>1 DEF TablesRead, DeviceInv
  <1>3. \A k \in 0..3, j \in 1..PerBlock : /\ D!Entries(2 + k)[j] = D!Table[k * PerBlock + j]
                                           /\ D!Entries(D!End - 4 + k)[j] = D!Table[k * PerBlock + j]
    BY CleanEntries
  <1> QED
    BY <1>1, <1>2, <1>3, ReadLaid

\* The layout's partitions are apart, and are found.
LEMMA LaidSelected ==
  ASSUME Laid, seen = D!Table
  PROVE  /\ D!Roots = {1} /\ D!Esps = (IF plan.esp = 0 THEN {} ELSE {2}) /\ ~D!OverlapIn(D!Used)
         /\ D!Partition(1) = D!Root /\ (plan.esp # 0 => D!Partition(2) = D!Esp)
  <1> DEFINE root == [kind |-> "root", start |-> RootFrom, end |-> RootTo, auto |-> TRUE, name |-> "a"]
             esp == [kind |-> "esp", start |-> EspFrom, end |-> EspTo, auto |-> TRUE, name |-> "a"]
  <1>1. /\ DOMAIN seen = 1..D!Slots /\ D!Slots \in Nat /\ D!Slots >= 4
        /\ seen[1] = root /\ (plan.esp # 0 => seen[2] = esp)
        /\ \A s \in 1..D!Slots : ~(s = 1 \/ (s = 2 /\ plan.esp # 0)) => seen[s].kind = "none"
    BY LaidTable, DiskScale
  <1>2. /\ RootFrom \in Nat /\ RootTo \in Nat /\ RootFrom <= RootTo
        /\ D!Root.start = RootFrom * 8 /\ D!Root.sectors = (RootTo - RootFrom + 1) * 8
        /\ plan.esp # 0 => /\ EspFrom \in Nat /\ EspTo \in Nat /\ EspFrom <= EspTo /\ EspTo < RootFrom
                           /\ D!Esp.start = EspFrom * 8 /\ D!Esp.sectors = (EspTo - EspFrom + 1) * 8
    BY Geometry
  <1>3. /\ root.kind = "root" /\ root.auto = TRUE /\ root.start = RootFrom /\ root.end = RootTo
        /\ esp.kind = "esp" /\ esp.start = EspFrom /\ esp.end = EspTo
    OBVIOUS
  <1> HIDE DEF root, esp
  <1>4. D!Used = IF plan.esp = 0 THEN {1} ELSE {1, 2}
    BY <1>1, <1>3 DEF D!Used, D!IsUsed
  <1>5. D!Roots = {1}
    BY <1>1, <1>3, <1>4 DEF D!Roots
  <1>6. D!Esps = IF plan.esp = 0 THEN {} ELSE {2}
    BY <1>1, <1>3, <1>4 DEF D!Esps
  <1>7. ~D!OverlapIn(D!Used)
    BY <1>1, <1>2, <1>3, <1>4 DEF D!OverlapIn
  <1>8. D!Partition(1) = [start |-> RootFrom * 8, sectors |-> (RootTo - RootFrom + 1) * 8]
    BY <1>1, <1>3 DEF D!Partition
  <1>9. D!Root = [start |-> D!Root.start, sectors |-> D!Root.sectors]
    BY DEF D!Root
  <1>10. D!Esp = [start |-> D!Esp.start, sectors |-> D!Esp.sectors]
    BY DEF D!Esp
  <1>11. plan.esp # 0 => D!Partition(2) = [start |-> EspFrom * 8, sectors |-> (EspTo - EspFrom + 1) * 8]
    BY <1>1, <1>3 DEF D!Partition
  <1> QED
    BY <1>2, <1>5, <1>6, <1>7, <1>8, <1>9, <1>10, <1>11

LEMMA DiskCount == \A T : D!Cardinality(T) = Cardinality(T)
  BY DEF D!Cardinality, Cardinality

LEMMA SelectKeeps == ASSUME DiskInv, D!Select PROVE DiskInv'
  <1> DEFINE bad == \/ D!Checksum(seen) # D!Primary.sum \/ D!Checksum(others) # D!Backup.sum
                    \/ seen # others \/ D!OverlapIn(D!Used)
                    \/ D!Cardinality(D!Roots) # 1 \/ D!Cardinality(D!Esps) > 1
  <1>1. /\ phase = "tables" /\ index = D!Length /\ DiskTypes /\ DeviceInv /\ PrimaryRead /\ BackupRead /\ TablesRead
        /\ UNCHANGED <<plan, capacity, device, written, index, seen, others, changes>>
        /\ \/ bad /\ phase' = "refused"
           \/ /\ ~bad /\ phase' = "read"
              /\ result' = [is |-> "disk", root |-> D!Partition(CHOOSE s \in D!Roots : TRUE),
                            esp |-> {D!Partition(s) : s \in D!Esps}]
    BY DEF DiskInv, D!Select, D!Refused
  <1>2. DiskTypes'
    BY <1>1 DEF DiskTypes, EntryType
  <1>3. CASE bad /\ phase' = "refused"
    <2>1. ASSUME written = 5, changes = <<>> PROVE ~bad
      <3>1. seen = D!Table /\ others = D!Table /\ Laid
        BY <1>1, <2>1, CleanRead DEF DeviceInv
      <3>2. D!Primary.sum = D!Table /\ D!Backup.sum = D!Primary.sum /\ D!Checksum(D!Table) = D!Table
        BY <1>1, <2>1, <3>1, CleanBackup, BackupIs, LaidTable
      <3>3. D!Roots = {1} /\ D!Esps \in {{}, {2}} /\ ~D!OverlapIn(D!Used)
        BY <3>1, LaidSelected
      <3>4. Cardinality({1}) = 1 /\ Cardinality({2}) = 1 /\ Cardinality({}) = 0
        BY FS_Singleton, FS_EmptySet
      <3>5. D!Cardinality(D!Roots) = 1 /\ ~(D!Cardinality(D!Esps) > 1)
        BY <3>3, <3>4, DiskCount
      <3> QED
        BY <3>1, <3>2, <3>3, <3>5
    <2> QED
      BY <1>1, <1>2, <1>3, <2>1 DEF DiskInv
  <1>4. CASE ~bad /\ phase' = "read"
    <2>1. /\ seen = others /\ D!Checksum(seen) = D!Primary.sum /\ ~D!OverlapIn(D!Used)
          /\ Cardinality(D!Roots) = 1 /\ ~(Cardinality(D!Esps) > 1)
      BY <1>4, DiskCount
    <2>2. Cardinality(D!Esps) \in Nat
      <3>1. Len(seen) \in Nat /\ DOMAIN seen = 1..Len(seen)
        BY <1>1 DEF DiskTypes
      <3>2. IsFiniteSet(1..Len(seen))
        BY <3>1, FS_Interval
      <3>3. D!Esps \subseteq DOMAIN seen
        BY DEF D!Esps, D!Used
      <3> QED
        BY <3>1, <3>2, <3>3, FS_Subset, FS_CardinalityType
    <2>3. Found'
      <3>1. D!Length' = D!Length /\ D!Primary' = D!Primary
        BY <1>1, HeadersStay
      <3>2. D!Checksum(seen)' = D!Checksum(seen) /\ D!Used' = D!Used /\ D!OverlapIn(D!Used)' = D!OverlapIn(D!Used)
        BY <1>1 DEF D!Checksum, D!Used, D!IsUsed, D!OverlapIn
      <3>3. D!Roots' = D!Roots /\ D!Esps' = D!Esps
        BY <1>1, <3>2 DEF D!Roots, D!Esps
      <3>4. \A s : D!Partition(s)' = D!Partition(s)
        BY <1>1 DEF D!Partition
      <3> QED
        BY <1>1, <1>4, <2>1, <2>2, <3>1, <3>2, <3>3, <3>4 DEF Found
    <2>4. DeviceInv' /\ PrimaryRead' = PrimaryRead /\ BackupRead' = BackupRead
      BY <1>1, DeviceStays, HeadersStay
    <2>5. TablesRead'
      <3>1. /\ D!Primary' = D!Primary /\ D!Backup' = D!Backup /\ D!Length' = D!Length /\ \A b : D!Entries(b)' = D!Entries(b)
        BY <1>1, HeadersStay
      <3>2. ReadFrom(seen, D!Primary.start, index)' = ReadFrom(seen, D!Primary.start, index)
        BY <1>1, <3>1 DEF ReadFrom, EntryType
      <3>3. ReadFrom(others, D!Backup.start, index)' = ReadFrom(others, D!Backup.start, index)
        BY <1>1, <3>1 DEF ReadFrom, EntryType
      <3> QED
        BY <1>1, <3>1, <3>2, <3>3 DEF TablesRead, WithinDisk, D!IsUsed
    <2> QED
      BY <1>1, <1>2, <1>4, <2>3, <2>4, <2>5 DEF DiskInv
  <1> QED
    BY <1>1, <1>3, <1>4

LEMMA DiskStep == ASSUME DiskInv, D!Next PROVE DiskInv'
  <1>1. CASE D!Layout
    BY <1>1, LayoutKeeps
  <1>2. CASE D!Write
    BY <1>2, WriteKeeps
  <1>3. CASE D!Stop
    BY <1>3, StopKeeps
  <1>4. CASE D!Change
    BY <1>4, ChangeHeaderKeeps, ChangeIdentityKeeps, ChangeRecordKeeps, ChangeMbrKeeps DEF D!Change
  <1>5. CASE D!Reads
    BY <1>5, ReadPrimaryKeeps, ReadBackupKeeps, ReadMbrKeeps, ReadTablesKeeps, SelectKeeps DEF D!Reads
  <1> QED
    BY <1>1, <1>2, <1>3, <1>4, <1>5 DEF D!Next

LEMMA DiskIdle == ASSUME DiskInv, UNCHANGED <<layout, phase>> PROVE DiskInv'
  <1>1. UNCHANGED <<plan, capacity, device, phase, written, index, seen, others, result, changes>>
    BY DEF layout
  <1>2. /\ PrimaryRead' = PrimaryRead /\ BackupRead' = BackupRead
        /\ D!Primary' = D!Primary /\ D!Backup' = D!Backup /\ D!Length' = D!Length /\ \A b : D!Entries(b)' = D!Entries(b)
    BY <1>1, HeadersStay
  <1>3. DiskTypes' = DiskTypes /\ Unread' = Unread /\ (DeviceInv => DeviceInv')
    BY <1>1, DeviceStays DEF DiskTypes, Unread, EntryType
  <1>4. TablesRead' = TablesRead
    <2>1. ReadFrom(seen, D!Primary.start, index)' = ReadFrom(seen, D!Primary.start, index)
      BY <1>1, <1>2 DEF ReadFrom, EntryType
    <2>2. ReadFrom(others, D!Backup.start, index)' = ReadFrom(others, D!Backup.start, index)
      BY <1>1, <1>2 DEF ReadFrom, EntryType
    <2> QED
      BY <1>1, <1>2, <2>1, <2>2 DEF TablesRead, WithinDisk, D!IsUsed
  <1>5. Found' = Found
    <2>1. D!Checksum(seen)' = D!Checksum(seen) /\ D!Used' = D!Used /\ D!OverlapIn(D!Used)' = D!OverlapIn(D!Used)
      BY <1>1 DEF D!Checksum, D!Used, D!IsUsed, D!OverlapIn
    <2>2. D!Roots' = D!Roots /\ D!Esps' = D!Esps
      BY <1>1, <2>1 DEF D!Roots, D!Esps
    <2>3. \A s : D!Partition(s)' = D!Partition(s)
      BY <1>1 DEF D!Partition
    <2> QED
      BY <1>1, <1>2, <2>1, <2>2, <2>3 DEF Found
  <1> QED
    BY <1>1, <1>2, <1>3, <1>4, <1>5 DEF DiskInv

-----------------------------------------------------------------------------
(* What it says of a disk that is found *)

\* A root was found, an ESP at most, and both are entries of the table.
LEMMA Chosen ==
  ASSUME DiskTypes, TablesRead, Found
  PROVE  \E r \in D!Roots :
           /\ result.root = D!Partition(r)
           /\ D!Esps = {} \/ \E e \in D!Esps : D!Esps = {e}
           /\ D!Esps \subseteq D!Used /\ D!Roots = {r} /\ D!Roots \subseteq D!Used /\ D!Used \subseteq DOMAIN seen
           /\ result.esp = {D!Partition(s) : s \in D!Esps}
  <1>1. Len(seen) \in Nat /\ DOMAIN seen = 1..Len(seen)
    BY DEF DiskTypes
  <1>2. D!Roots \subseteq D!Used /\ D!Esps \subseteq D!Used /\ D!Used \subseteq DOMAIN seen
    BY DEF D!Roots, D!Esps, D!Used
  <1>3. IsFiniteSet(DOMAIN seen)
    BY <1>1, FS_Interval
  <1>4. IsFiniteSet(D!Roots) /\ IsFiniteSet(D!Esps)
    BY <1>2, <1>3, FS_Subset
  <1>5. PICK r : D!Roots = {r}
    BY <1>4, FS_Singleton DEF Found
  <1>6. D!Esps = {} \/ \E e \in D!Esps : D!Esps = {e}
    <2>1. Cardinality(D!Esps) \in Nat /\ Cardinality(D!Esps) <= 1
      BY <1>4, FS_CardinalityType DEF Found
    <2>2. Cardinality(D!Esps) = 0 \/ Cardinality(D!Esps) = 1
      BY <2>1
    <2> QED
      BY <1>4, <2>2, FS_Singleton, FS_EmptySet
  <1>7. (CHOOSE s \in D!Roots : TRUE) = r
    BY <1>5
  <1>8. result.root = D!Partition(r) /\ result.esp = {D!Partition(s) : s \in D!Esps}
    BY <1>7 DEF Found
  <1> QED
    BY <1>2, <1>5, <1>6, <1>8

\* The headers and tables of a disk that was found lie around its usable blocks.
LEMMA Around ==
  ASSUME DiskInv, phase = "read"
  PROVE  /\ D!Primary.start + D!Length <= D!Primary.first /\ D!Backup.start + D!Length <= D!End
         /\ D!Primary.start \in Nat /\ D!Backup.start \in Nat /\ D!Length \in Nat
  <1>1. DiskTypes /\ DeviceInv /\ PrimaryRead /\ BackupRead /\ TablesRead /\ Found
    BY DEF DiskInv
  <1>2. /\ D!Plus(D!Primary.start, D!Length) <= D!Primary.first /\ D!Plus(D!Backup.start, D!Length) <= D!End
        /\ D!Primary.start \in Nat /\ D!Backup.start \in Nat /\ D!Length \in Nat
    BY <1>1, BackupIs
  <1>3. D!Primary.start + D!Length <= capacity /\ D!Backup.start + D!Length <= capacity
    BY <1>1 DEF TablesRead, ReadFrom, Found
  <1>4. capacity \in Nat /\ capacity < Word /\ Word \in Nat
    BY <1>1, Geometry, DiskScale DEF DiskTypes, DeviceInv
  <1>5. D!Primary.start + D!Length < Word /\ D!Backup.start + D!Length < Word
    BY <1>2, <1>3, <1>4
  <1> QED
    BY <1>2, <1>5, NoWrap

LEMMA EntryExtent ==
  ASSUME DiskInv, phase = "read", NEW s \in D!Used
  PROVE  /\ s \in DOMAIN seen /\ seen[s].start \in Nat /\ seen[s].end \in Nat /\ seen[s].start <= seen[s].end
         /\ D!Primary.start + D!Length <= seen[s].start /\ D!Primary.start >= 2 /\ D!Length >= 1
         /\ seen[s].end < D!Backup.start /\ D!Backup.start + D!Length <= D!End
         /\ D!Partition(s).start \div 8 = seen[s].start
         /\ (D!Partition(s).start + D!Partition(s).sectors) \div 8 - 1 = seen[s].end
         /\ D!Partition(s).start = seen[s].start * 8
  <1>1. DiskTypes /\ DeviceInv /\ PrimaryRead /\ BackupRead /\ TablesRead
    BY DEF DiskInv
  <1>2. s \in DOMAIN seen /\ D!IsUsed(seen[s])
    BY DEF D!Used
  <1>3. seen[s].start \in Int /\ seen[s].end \in Int
    <2>1. seen[s] \in EntryType
      BY <1>1, <1>2 DEF DiskTypes
    <2> QED
      BY <2>1 DEF EntryType
  <1>4. seen[s].start <= seen[s].end /\ D!Primary.first <= seen[s].start /\ seen[s].end <= D!Primary.last
    BY <1>1, <1>2 DEF TablesRead, WithinDisk
  <1>5. /\ D!Primary.first \in Nat /\ D!Primary.last \in Nat /\ D!Primary.last < D!Backup.start /\ D!Primary.start >= 2
        /\ D!End \in Nat
    BY <1>1, BackupIs
  <1>6. /\ D!Primary.start + D!Length <= D!Primary.first /\ D!Backup.start + D!Length <= D!End
        /\ D!Primary.start \in Nat /\ D!Backup.start \in Nat /\ D!Length \in Nat
    BY Around
  <1>7. D!Length >= 1
    <2>1. D!Length * PerBlock >= D!Primary.count /\ D!Primary.count >= D!Slots /\ D!Primary.count \in Nat
      BY <1>1, BackupIs
    <2>2. D!Slots > 0 /\ D!Slots \in Nat /\ 0 * PerBlock = 0
      BY DiskScale
    <2> QED
      BY <1>6, <2>1, <2>2
  <1>8. D!Partition(s) = [start |-> seen[s].start * 8, sectors |-> (seen[s].end - seen[s].start + 1) * 8]
    BY DEF D!Partition
  <1>9. PICK a \in Nat, b \in Nat : a = seen[s].start /\ b = seen[s].end
    BY <1>3, <1>4, <1>5
  <1>10. (a * 8) \div 8 = a /\ (a * 8 + (b - a + 1) * 8) \div 8 - 1 = b
    OBVIOUS
  <1>11. D!Partition(s).start = a * 8 /\ D!Partition(s).sectors = (b - a + 1) * 8
    BY <1>8, <1>9
  <1> QED
    BY <1>2, <1>4, <1>5, <1>6, <1>7, <1>9, <1>10, <1>11

LEMMA SoundlyFound == ASSUME DiskInv PROVE D!FoundIsSound
  <1> SUFFICES ASSUME phase = "read" PROVE D!FoundIsSound
    BY DEF D!FoundIsSound
  <1> DEFINE Extent(q) == (q.start \div 8)..((q.start + q.sectors) \div 8 - 1)
             tabled == {0, 1, D!Primary.backup} \cup (D!Primary.start..(D!Primary.start + D!Length - 1))
                       \cup (D!Backup.start..(D!Backup.start + D!Length - 1))
             found == {result.root} \cup result.esp
  <1>1. DiskTypes /\ DeviceInv /\ PrimaryRead /\ BackupRead /\ TablesRead /\ Found
    BY DEF DiskInv
  <1>2. PICK r \in D!Roots :
          /\ result.root = D!Partition(r)
          /\ D!Esps = {} \/ \E e \in D!Esps : D!Esps = {e}
          /\ D!Esps \subseteq D!Used /\ D!Roots = {r} /\ D!Roots \subseteq D!Used /\ D!Used \subseteq DOMAIN seen
          /\ result.esp = {D!Partition(s) : s \in D!Esps}
    BY <1>1, Chosen
  <1>3. D!Primary.backup = D!End /\ D!End \in Nat /\ D!End < capacity
    BY <1>1, BackupIs
  <1>4. D!Primary.start \in Nat /\ D!Backup.start \in Nat /\ D!Length \in Nat
    BY Around
  <1>5. \A q \in found : \E s \in D!Used : q = D!Partition(s)
    BY <1>2
  <1>6. ASSUME NEW s \in D!Used PROVE Extent(D!Partition(s)) = seen[s].start..seen[s].end
    BY EntryExtent
  <1>7. ASSUME NEW q \in found
        PROVE  Extent(q) # {} /\ Extent(q) \cap tabled = {} /\ Extent(q) \subseteq 0..D!Primary.backup
    <2>1. PICK s \in D!Used : q = D!Partition(s)
      BY <1>5
    <2>2. Extent(q) = seen[s].start..seen[s].end
      BY <1>6, <2>1
    <2>3. /\ seen[s].start \in Nat /\ seen[s].end \in Nat /\ seen[s].start <= seen[s].end
          /\ D!Primary.start + D!Length <= seen[s].start /\ D!Primary.start >= 2 /\ D!Length >= 1
          /\ seen[s].end < D!Backup.start /\ D!Backup.start + D!Length <= D!End
      BY EntryExtent
    <2> HIDE DEF Extent
    <2> QED
      BY <1>3, <1>4, <2>2, <2>3
  <1>8. ASSUME NEW s \in DOMAIN seen, D!IsUsed(seen[s]), NEW q \in found
        PROVE  q = D!Partition(s) \/ Extent(q) \cap (seen[s].start..seen[s].end) = {}
    <2>1. PICK t \in D!Used : q = D!Partition(t)
      BY <1>5
    <2>2. s \in D!Used
      BY <1>8 DEF D!Used
    <2>3. CASE s = t
      BY <2>1, <2>3
    <2>4. CASE s # t
      <3>1. ~(seen[s].start <= seen[t].start /\ seen[s].end >= seen[t].start)
            /\ ~(seen[t].start <= seen[s].start /\ seen[t].end >= seen[s].start)
        BY <1>1, <2>2, <2>4 DEF Found, D!OverlapIn
      <3>2. seen[s].start \in Nat /\ seen[s].end \in Nat /\ seen[t].start \in Nat /\ seen[t].end \in Nat
        BY <2>2, EntryExtent
      <3>3. Extent(q) = seen[t].start..seen[t].end
        BY <1>6, <2>1
      <3> HIDE DEF Extent
      <3> QED
        BY <3>1, <3>2, <3>3
    <2> QED
      BY <2>3, <2>4
  <1>9. D!Cardinality(found) = 1 + D!Cardinality(result.esp)
    <2>1. CASE D!Esps = {}
      <3>1. result.esp = {} /\ found = {D!Partition(r)}
        BY <1>2, <2>1
      <3>2. Cardinality(found) = 1 /\ Cardinality(result.esp) = 0
        BY <3>1, FS_Singleton, FS_EmptySet
      <3> QED
        BY <3>2, DiskCount
    <2>2. CASE \E e \in D!Esps : D!Esps = {e}
      <3>1. PICK e \in D!Esps : D!Esps = {e}
        BY <2>2
      <3>2. result.esp = {D!Partition(e)} /\ found = {D!Partition(e)} \cup {D!Partition(r)}
        BY <1>2, <3>1
      <3>3. r # e /\ r \in D!Used /\ e \in D!Used
        BY <1>2, <3>1 DEF D!Roots, D!Esps
      <3>4. D!Partition(r) # D!Partition(e)
        <4>1. ~(seen[r].start <= seen[e].start /\ seen[r].end >= seen[e].start)
          BY <1>1, <3>3 DEF Found, D!OverlapIn
        <4>2. /\ seen[r].start \in Nat /\ seen[r].end \in Nat /\ seen[e].start \in Nat /\ seen[r].start <= seen[r].end
              /\ D!Partition(r).start = seen[r].start * 8 /\ D!Partition(e).start = seen[e].start * 8
          BY <3>3, EntryExtent
        <4>3. seen[r].start # seen[e].start
          BY <4>1, <4>2
        <4>4. seen[r].start * 8 # seen[e].start * 8
          BY <4>2, <4>3
        <4> QED
          BY <4>2, <4>4
      <3>5. IsFiniteSet(result.esp) /\ Cardinality(result.esp) = 1
        BY <3>2, FS_Singleton
      <3>6. Cardinality(result.esp \cup {D!Partition(r)}) = Cardinality(result.esp) + 1
        BY <3>2, <3>4, <3>5, FS_AddElement
      <3>7. Cardinality(found) = 1 + Cardinality(result.esp)
        BY <3>2, <3>5, <3>6
      <3> QED
        BY <3>7, DiskCount
    <2> QED
      BY <1>2, <2>1, <2>2
  <1>10. D!Primary.backup < capacity
    BY <1>3
  <1> QED
    BY <1>7, <1>8, <1>9, <1>10 DEF D!FoundIsSound

LEMMA RoundTrips == ASSUME DiskInv PROVE D!RoundTrip
  <1> SUFFICES ASSUME written = 5, changes = <<>>
      PROVE /\ phase # "refused"
            /\ phase = "read" => /\ result.root = D!Root /\ result.esp = (IF plan.esp = 0 THEN {} ELSE {D!Esp})
                                 /\ D!Root.start % Alignment = 0 /\ D!DiskSectors % Alignment = 0
    BY DEF D!RoundTrip
  <1>1. phase # "refused"
    BY DEF DiskInv
  <1>2. ASSUME phase = "read"
        PROVE  /\ result.root = D!Root /\ result.esp = (IF plan.esp = 0 THEN {} ELSE {D!Esp})
               /\ D!Root.start % Alignment = 0 /\ D!DiskSectors % Alignment = 0
    <2>1. DiskTypes /\ DeviceInv /\ PrimaryRead /\ BackupRead /\ TablesRead /\ Found /\ Laid
      BY <1>2 DEF DiskInv, DeviceInv
    <2>2. seen = D!Table
      BY <2>1, CleanRead DEF Found
    <2>3. /\ D!Roots = {1} /\ D!Esps = (IF plan.esp = 0 THEN {} ELSE {2})
          /\ D!Partition(1) = D!Root /\ (plan.esp # 0 => D!Partition(2) = D!Esp)
      BY <2>1, <2>2, LaidSelected
    <2>4. PICK r \in D!Roots : result.root = D!Partition(r) /\ result.esp = {D!Partition(s) : s \in D!Esps}
      BY <2>1, Chosen
    <2>5. result.root = D!Root /\ result.esp = (IF plan.esp = 0 THEN {} ELSE {D!Esp})
      BY <2>3, <2>4
    <2> QED
      BY <2>1, <2>5, Geometry
  <1> QED
    BY <1>1, <1>2

LEMMA TornIsRefused == ASSUME DiskInv PROVE D!TornIsNoDisk
  <1> SUFFICES ASSUME phase = "read" PROVE written = 5
    BY DEF D!TornIsNoDisk, DiskInv, DiskTypes
  <1> QED
    BY BackupIs DEF DiskInv

LEMMA DiskTyped == ASSUME DiskInv PROVE D!TypeOK
  <1>1. /\ phase \in {"layout", "write", "primary", "backup", "mbr", "tables", "read", "refused"}
        /\ written \in 0..5 /\ Len(seen) = Len(others) /\ DOMAIN device \subseteq 0..(capacity - 1) /\ index \in Nat
    BY DEF DiskInv, DiskTypes
  <1>2. ASSUME phase \in {"tables", "read"} PROVE index \in 0..D!Length
    <2>1. DiskTypes /\ DeviceInv /\ PrimaryRead /\ BackupRead /\ TablesRead
      BY <1>2 DEF DiskInv
    <2>2. D!Length \in Nat /\ index <= D!Length
      BY <2>1, BackupIs DEF TablesRead
    <2> QED
      BY <1>1, <2>2
  <1> QED
    BY <1>1, <1>2 DEF D!TypeOK

\* Blocks of the layout over others of it.
LEMMA Layered ==
  ASSUME NEW upper, NEW under,
         \A c \in DOMAIN upper : upper[c] = LaidBlock(c), \A c \in DOMAIN under : under[c] = LaidBlock(c)
  PROVE  /\ DOMAIN D!Over(upper, under) = DOMAIN upper \cup DOMAIN under
         /\ \A c \in DOMAIN D!Over(upper, under) : D!Over(upper, under)[c] = LaidBlock(c)
  BY DEF D!Over

\* All five writes fill the blocks of the layout.
LEMMA WrittenWhole ==
  ASSUME Laid, NEW b \in Present(5)
  PROVE  D!Over(D!Writes[1], D!Over(D!Writes[2], D!Over(D!Writes[3], D!Over(D!Writes[4], D!Writes[5]))))[b] = LaidBlock(b)
  <1>1. ASSUME NEW n \in 0..4
        PROVE  /\ DOMAIN D!Writes[n + 1] = Present(n + 1) \ Present(n)
               /\ \A c \in DOMAIN D!Writes[n + 1] : D!Writes[n + 1][c] = LaidBlock(c)
    BY WritesAre
  <1>3. DOMAIN D!Writes[1] = Present(1) \ Present(0) /\ \A c \in DOMAIN D!Writes[1] : D!Writes[1][c] = LaidBlock(c)
    <2>1. DOMAIN D!Writes[0 + 1] = Present(0 + 1) \ Present(0) /\ \A c \in DOMAIN D!Writes[0 + 1] : D!Writes[0 + 1][c] = LaidBlock(c)
      BY <1>1
    <2> QED
      BY <2>1
  <1>4. DOMAIN D!Writes[2] = Present(2) \ Present(1) /\ \A c \in DOMAIN D!Writes[2] : D!Writes[2][c] = LaidBlock(c)
    <2>1. DOMAIN D!Writes[1 + 1] = Present(1 + 1) \ Present(1) /\ \A c \in DOMAIN D!Writes[1 + 1] : D!Writes[1 + 1][c] = LaidBlock(c)
      BY <1>1
    <2> QED
      BY <2>1
  <1>5. DOMAIN D!Writes[3] = Present(3) \ Present(2) /\ \A c \in DOMAIN D!Writes[3] : D!Writes[3][c] = LaidBlock(c)
    <2>1. DOMAIN D!Writes[2 + 1] = Present(2 + 1) \ Present(2) /\ \A c \in DOMAIN D!Writes[2 + 1] : D!Writes[2 + 1][c] = LaidBlock(c)
      BY <1>1
    <2> QED
      BY <2>1
  <1>6. DOMAIN D!Writes[4] = Present(4) \ Present(3) /\ \A c \in DOMAIN D!Writes[4] : D!Writes[4][c] = LaidBlock(c)
    <2>1. DOMAIN D!Writes[3 + 1] = Present(3 + 1) \ Present(3) /\ \A c \in DOMAIN D!Writes[3 + 1] : D!Writes[3 + 1][c] = LaidBlock(c)
      BY <1>1
    <2> QED
      BY <2>1
  <1>7. DOMAIN D!Writes[5] = Present(5) \ Present(4) /\ \A c \in DOMAIN D!Writes[5] : D!Writes[5][c] = LaidBlock(c)
    <2>1. DOMAIN D!Writes[4 + 1] = Present(4 + 1) \ Present(4) /\ \A c \in DOMAIN D!Writes[4 + 1] : D!Writes[4 + 1][c] = LaidBlock(c)
      BY <1>1
    <2> QED
      BY <2>1
  <1> DEFINE w4 == D!Over(D!Writes[4], D!Writes[5])
             w3 == D!Over(D!Writes[3], w4)
             w2 == D!Over(D!Writes[2], w3)
             w1 == D!Over(D!Writes[1], w2)
  <1>8. DOMAIN w4 = DOMAIN D!Writes[4] \cup DOMAIN D!Writes[5] /\ \A c \in DOMAIN w4 : w4[c] = LaidBlock(c)
    BY Layered, <1>6, <1>7
  <1> HIDE DEF w4
  <1>9. DOMAIN w3 = DOMAIN D!Writes[3] \cup DOMAIN w4 /\ \A c \in DOMAIN w3 : w3[c] = LaidBlock(c)
    <2> DEFINE u == D!Writes[3]
    <2>1. (\A c \in DOMAIN u : u[c] = LaidBlock(c)) /\ \A c \in DOMAIN w4 : w4[c] = LaidBlock(c)
      BY <1>5, <1>8
    <2>2. w3 = D!Over(u, w4)
      OBVIOUS
    <2> HIDE DEF u, w3
    <2>3. DOMAIN w3 = DOMAIN u \cup DOMAIN w4 /\ \A c \in DOMAIN w3 : w3[c] = LaidBlock(c)
      BY <2>1, <2>2, Layered
    <2> QED
      BY <2>3 DEF u
  <1> HIDE DEF w3
  <1>10. DOMAIN w2 = DOMAIN D!Writes[2] \cup DOMAIN w3 /\ \A c \in DOMAIN w2 : w2[c] = LaidBlock(c)
    <2> DEFINE u == D!Writes[2]
    <2>1. (\A c \in DOMAIN u : u[c] = LaidBlock(c)) /\ \A c \in DOMAIN w3 : w3[c] = LaidBlock(c)
      BY <1>4, <1>9
    <2>2. w2 = D!Over(u, w3)
      OBVIOUS
    <2> HIDE DEF u, w2
    <2>3. DOMAIN w2 = DOMAIN u \cup DOMAIN w3 /\ \A c \in DOMAIN w2 : w2[c] = LaidBlock(c)
      BY <2>1, <2>2, Layered
    <2> QED
      BY <2>3 DEF u
  <1> HIDE DEF w2
  <1>11. DOMAIN w1 = DOMAIN D!Writes[1] \cup DOMAIN w2 /\ \A c \in DOMAIN w1 : w1[c] = LaidBlock(c)
    BY Layered, <1>3, <1>10
  <1> HIDE DEF w1
  <1>12. Present(0) = {}
    BY DEF Present
  <1>13. b \in DOMAIN w1
    BY <1>3, <1>4, <1>5, <1>6, <1>7, <1>8, <1>9, <1>10, <1>11, <1>12
  <1>14. w1[b] = LaidBlock(b)
    BY <1>11, <1>13
  <1> QED
    BY <1>14 DEF w1, w2, w3, w4

\* A header is all its fields.
LEMMA HeadIs ==
  ASSUME NEW h \in HeadType
  PROVE  h = [is |-> "header", valid |-> h.valid, id |-> h.id, current |-> h.current, backup |-> h.backup,
              first |-> h.first, last |-> h.last, start |-> h.start, count |-> h.count, sum |-> h.sum]
  BY DEF HeadType

\* The blocks of the layout's table, read back.
LEMMA BlocksAreLaid ==
  ASSUME DiskTypes, DeviceInv, NEW from \in Nat, ReadFrom(D!Table, from, 4), D!Primary.count = D!Slots, NEW k \in 0..3,
         from + k \in DOMAIN device, BlockType(from + k) = TableType
  PROVE  device[from + k] = [is |-> "table", records |-> D!Chunk(D!Table, k)]
  <1>1. device[from + k] \in TableType /\ D!Block(from + k) = device[from + k]
    BY DEF DeviceInv, D!Block
  <1>2. device[from + k] = [is |-> "table", records |-> device[from + k].records] /\ device[from + k].records \in Entries
    BY <1>1 DEF TableType
  <1>3. D!Entries(from + k) = device[from + k].records
    BY <1>1, <1>2 DEF D!Entries
  <1>4. D!Table \in [1..D!Slots -> EntryType]
    BY LaidTable DEF DeviceInv
  <1>5. D!Chunk(D!Table, k) \in Entries
    BY <1>4, Chunks
  <1>6. ASSUME NEW j \in 1..PerBlock PROVE device[from + k].records[j] = D!Chunk(D!Table, k)[j]
    <2>1. D!Chunk(D!Table, k)[j] = D!Table[k * PerBlock + j] /\ k * PerBlock + j \in 1..D!Slots
      BY <1>4, Chunks
    <2>2. D!Table[k * PerBlock + j] = D!Entries(from + k)[j]
      <3>1. k \in Nat /\ k < 4 /\ k * PerBlock + j <= D!Primary.count
        BY <2>1, DiskScale
      <3> QED
        BY <3>1 DEF ReadFrom
    <2> QED
      BY <1>3, <2>1, <2>2
  <1>7. device[from + k].records = D!Chunk(D!Table, k)
    <2> DEFINE f == device[from + k].records
               g == D!Chunk(D!Table, k)
    <2>1. f \in [1..PerBlock -> EntryType] /\ g \in [1..PerBlock -> EntryType] /\ \A j \in 1..PerBlock : f[j] = g[j]
      BY <1>2, <1>5, <1>6 DEF Entries
    <2> HIDE DEF f, g
    <2>2. f = [j \in 1..PerBlock |-> f[j]] /\ g = [j \in 1..PerBlock |-> g[j]]
      BY <2>1
    <2>3. f = g
      BY <2>1, <2>2
    <2> QED
      BY <2>3 DEF f, g
  <1> QED
    BY <1>2, <1>7

LEMMA LaidEntries ==
  ASSUME Laid, NEW b \in DOMAIN device, NEW k \in 0..3, NEW j \in 1..PerBlock,
         device[b] = [is |-> "table", records |-> D!Chunk(D!Table, k)]
  PROVE  D!Entries(b)[j] = D!Table[k * PerBlock + j]
  <1>1. D!Entries(b) = D!Chunk(D!Table, k)
    BY DEF D!Entries, D!Block
  <1>2. D!Table \in [1..D!Slots -> EntryType]
    BY LaidTable
  <1> QED
    BY <1>1, <1>2, Chunks

\* Blocks of the layout's tables.
LEMMA LaidTableBlocks ==
  ASSUME Laid, NEW k \in 0..3
  PROVE  /\ LaidBlock(2 + k) = [is |-> "table", records |-> D!Chunk(D!Table, k)]
         /\ LaidBlock(D!End - 4 + k) = [is |-> "table", records |-> D!Chunk(D!Table, k)]
         /\ 2 + k \in Present(5) /\ D!End - 4 + k \in Present(5)
         /\ BlockType(2 + k) = TableType /\ BlockType(D!End - 4 + k) = TableType
         /\ 2 + k \in 1..5 /\ D!End - 4 + k \in (D!End - 4)..D!End
  <1>1. D!End \in Nat /\ D!End >= 11
    BY Geometry
  <1>2. 2 + k <= 5 /\ 2 + k \notin {0, 1, D!End} /\ (2 + k) - 2 = k
    BY <1>1
  <1>3. ~(D!End - 4 + k <= 5) /\ D!End - 4 + k \notin {0, 1, D!End} /\ (D!End - 4 + k) - (D!End - 4) = k
    BY <1>1
  <1>4. LaidBlock(2 + k) = [is |-> "table", records |-> D!Chunk(D!Table, k)]
    BY <1>2 DEF LaidBlock
  <1>5. LaidBlock(D!End - 4 + k) = [is |-> "table", records |-> D!Chunk(D!Table, k)]
    BY <1>3 DEF LaidBlock
  <1>6. 2 + k \in Present(5) /\ D!End - 4 + k \in Present(5)
    BY <1>1 DEF Present
  <1>7. BlockType(2 + k) = TableType /\ BlockType(D!End - 4 + k) = TableType
    BY <1>2, <1>3 DEF BlockType
  <1> QED
    BY <1>1, <1>4, <1>5, <1>6, <1>7

\* What both copies of a disk that was found say.
LEMMA BothSay ==
  ASSUME DiskInv, phase = "read"
  PROVE  /\ DiskTypes /\ DeviceInv /\ Laid /\ PrimaryRead /\ BackupRead /\ DOMAIN device = Present(5)
         /\ D!Primary = device[1] /\ D!Backup = device[D!End] /\ D!Primary \in HeadType /\ D!Backup \in HeadType
         /\ D!Primary.valid = TRUE /\ D!Backup.valid = TRUE
         /\ D!Primary.current = 1 /\ D!Backup.current = D!End /\ D!Primary.backup = D!End /\ D!Backup.backup = 1
         /\ D!Backup.id = D!Primary.id /\ D!Backup.first = D!Primary.first /\ D!Backup.last = D!Primary.last
         /\ D!Backup.count = D!Primary.count /\ D!Backup.sum = D!Primary.sum
         /\ ReadFrom(seen, D!Primary.start, D!Length) /\ ReadFrom(others, D!Backup.start, D!Length) /\ seen = others
  <1>1. DiskTypes /\ DeviceInv /\ Laid /\ PrimaryRead /\ BackupRead /\ TablesRead /\ Found
    BY DEF DiskInv, DeviceInv
  <1>2. /\ written = 5
        /\ D!Primary = device[1] /\ D!Backup = device[D!End] /\ D!Primary \in HeadType /\ D!Backup \in HeadType
        /\ D!Primary.current = 1 /\ D!Backup.current = D!End /\ D!Primary.backup = D!End /\ D!Backup.backup = 1
        /\ D!Backup.id = D!Primary.id /\ D!Backup.first = D!Primary.first /\ D!Backup.last = D!Primary.last
        /\ D!Backup.count = D!Primary.count /\ D!Backup.sum = D!Primary.sum
    BY <1>1, BackupIs
  <1>3. D!Primary.valid = TRUE
    <2>1. D!Block(1).valid /\ D!Primary = D!Block(1)
      BY <1>1 DEF PrimaryRead, D!IsHeader, D!Primary
    <2> QED
      BY <1>2, <2>1 DEF HeadType
  <1>4. D!Backup.valid = TRUE
    <2>1. D!Block(D!Primary.backup).valid
      BY <1>1 DEF BackupRead, D!IsHeader
    <2> QED
      BY <1>2, <2>1 DEF HeadType, D!Backup
  <1>5. DOMAIN device = Present(5)
    BY <1>1, <1>2 DEF DeviceInv
  <1> QED
    BY <1>1, <1>2, <1>3, <1>4, <1>5 DEF TablesRead, Found

\* A copy that is the layout's makes the other one the layout's.
LEMMA PrimaryCounts ==
  ASSUME DiskInv, phase = "read", \A b \in 1..5 : device[b] = LaidBlock(b)
  PROVE  \A b \in (D!End - 4)..D!End : device[b] = LaidBlock(b)
  <1>1. /\ DiskTypes /\ DeviceInv /\ Laid /\ PrimaryRead /\ BackupRead /\ DOMAIN device = Present(5)
        /\ D!Primary = device[1] /\ D!Backup = device[D!End] /\ D!Primary \in HeadType /\ D!Backup \in HeadType
        /\ D!Primary.valid = TRUE /\ D!Backup.valid = TRUE
        /\ D!Primary.current = 1 /\ D!Backup.current = D!End /\ D!Primary.backup = D!End /\ D!Backup.backup = 1
        /\ D!Backup.id = D!Primary.id /\ D!Backup.first = D!Primary.first /\ D!Backup.last = D!Primary.last
        /\ D!Backup.count = D!Primary.count /\ D!Backup.sum = D!Primary.sum
        /\ ReadFrom(seen, D!Primary.start, D!Length) /\ ReadFrom(others, D!Backup.start, D!Length) /\ seen = others
    BY BothSay
  <1>2. D!End \in Nat /\ D!End >= 11
    BY <1>1, Geometry
  <1>3. D!Primary = D!Header(1, D!End, 2)
    BY <1>1 DEF LaidBlock
  <1>4. /\ D!Primary.id = "new" /\ D!Primary.first = 6 /\ D!Primary.last = D!End - 5 /\ D!Primary.start = 2
        /\ D!Primary.count = D!Slots /\ D!Primary.sum = D!Checksum(D!Table)
    BY <1>3 DEF D!Header
  <1>5. D!Length = 4
    BY <1>4, LaidLength
  <1>6. D!Backup.start = D!End - 4
    <2>1. D!Backup.start + 4 <= D!End /\ D!Backup.start \in Nat
      BY <1>5, Around
    <2>2. D!Primary.last < D!Backup.start
      BY <1>1, BackupIs
    <2> QED
      BY <1>2, <1>4, <2>1, <2>2
  <1>7. device[D!End] = LaidBlock(D!End)
    <2>1. D!Backup = [is |-> "header", valid |-> TRUE, id |-> "new", current |-> D!End, backup |-> 1, first |-> 6,
                      last |-> D!End - 5, start |-> D!End - 4, count |-> D!Slots, sum |-> D!Checksum(D!Table)]
      <3>1. /\ D!Backup.id = "new" /\ D!Backup.first = 6 /\ D!Backup.last = D!End - 5 /\ D!Backup.count = D!Slots
            /\ D!Backup.sum = D!Checksum(D!Table)
        BY <1>1, <1>4
      <3>2. PICK h \in HeadType : h = D!Backup
        BY <1>1
      <3>3. h = [is |-> "header", valid |-> h.valid, id |-> h.id, current |-> h.current, backup |-> h.backup,
                 first |-> h.first, last |-> h.last, start |-> h.start, count |-> h.count, sum |-> h.sum]
        BY HeadIs
      <3> QED
        BY <1>1, <1>6, <3>1, <3>2, <3>3
    <2>2. LaidBlock(D!End) = D!Header(D!End, 1, D!End - 4)
      BY <1>2 DEF LaidBlock
    <2> QED
      BY <1>1, <2>1, <2>2 DEF D!Header
  <1>8. seen = D!Table
    <2>1. ASSUME NEW k \in 0..3, NEW j \in 1..PerBlock PROVE D!Entries(2 + k)[j] = D!Table[k * PerBlock + j]
      <3>1. 2 + k \in DOMAIN device /\ device[2 + k] = [is |-> "table", records |-> D!Chunk(D!Table, k)]
        BY <1>1, LaidTableBlocks
      <3>2. PICK b \in DOMAIN device : b = 2 + k
        BY <3>1
      <3>3. D!Entries(b)[j] = D!Table[k * PerBlock + j]
        BY <1>1, <3>1, <3>2, LaidEntries
      <3> QED
        BY <3>2, <3>3
    <2> QED
      BY <1>1, <1>4, <1>5, <2>1, ReadLaid
  <1>9. ASSUME NEW k \in 0..3 PROVE device[D!End - 4 + k] = LaidBlock(D!End - 4 + k)
    <2>1. D!End - 4 \in Nat /\ ReadFrom(D!Table, D!End - 4, 4)
      BY <1>1, <1>2, <1>5, <1>6, <1>8
    <2>2. /\ D!End - 4 + k \in DOMAIN device /\ BlockType(D!End - 4 + k) = TableType
          /\ LaidBlock(D!End - 4 + k) = [is |-> "table", records |-> D!Chunk(D!Table, k)]
      BY <1>1, LaidTableBlocks
    <2> QED
      BY <1>1, <1>4, <2>1, <2>2, BlocksAreLaid
  <1>10. ASSUME NEW b \in (D!End - 4)..D!End PROVE b = D!End \/ \E k \in 0..3 : b = D!End - 4 + k
    <2>1. b = D!End \/ b - (D!End - 4) \in 0..3
      BY <1>2
    <2>2. b = D!End - 4 + (b - (D!End - 4))
      BY <1>2
    <2> QED
      BY <2>1, <2>2
  <1> QED
    BY <1>7, <1>9, <1>10

LEMMA BackupCounts ==
  ASSUME DiskInv, phase = "read", \A b \in (D!End - 4)..D!End : device[b] = LaidBlock(b)
  PROVE  \A b \in 1..5 : device[b] = LaidBlock(b)
  <1>1. /\ DiskTypes /\ DeviceInv /\ Laid /\ PrimaryRead /\ BackupRead /\ DOMAIN device = Present(5)
        /\ D!Primary = device[1] /\ D!Backup = device[D!End] /\ D!Primary \in HeadType /\ D!Backup \in HeadType
        /\ D!Primary.valid = TRUE /\ D!Backup.valid = TRUE
        /\ D!Primary.current = 1 /\ D!Backup.current = D!End /\ D!Primary.backup = D!End /\ D!Backup.backup = 1
        /\ D!Backup.id = D!Primary.id /\ D!Backup.first = D!Primary.first /\ D!Backup.last = D!Primary.last
        /\ D!Backup.count = D!Primary.count /\ D!Backup.sum = D!Primary.sum
        /\ ReadFrom(seen, D!Primary.start, D!Length) /\ ReadFrom(others, D!Backup.start, D!Length) /\ seen = others
    BY BothSay
  <1>2. D!End \in Nat /\ D!End >= 11
    BY <1>1, Geometry
  <1>3. D!Backup = D!Header(D!End, 1, D!End - 4)
    <2>1. D!End \in (D!End - 4)..D!End
      BY <1>2
    <2>2. LaidBlock(D!End) = D!Header(D!End, 1, D!End - 4)
      BY <1>2 DEF LaidBlock
    <2> QED
      BY <1>1, <2>1, <2>2
  <1>4. /\ D!Primary.id = "new" /\ D!Primary.first = 6 /\ D!Primary.last = D!End - 5 /\ D!Backup.start = D!End - 4
        /\ D!Primary.count = D!Slots /\ D!Primary.sum = D!Checksum(D!Table)
    BY <1>1, <1>3 DEF D!Header
  <1>5. D!Length = 4
    BY <1>4, LaidLength
  <1>6. D!Primary.start = 2
    <2>1. D!Primary.start + 4 <= 6 /\ D!Primary.start \in Nat
      BY <1>4, <1>5, Around
    <2>2. D!Primary.start >= 2
      BY <1>1, BackupIs
    <2> QED
      BY <2>1, <2>2
  <1>7. device[1] = LaidBlock(1)
    <2>1. D!Primary = [is |-> "header", valid |-> TRUE, id |-> "new", current |-> 1, backup |-> D!End, first |-> 6,
                       last |-> D!End - 5, start |-> 2, count |-> D!Slots, sum |-> D!Checksum(D!Table)]
      <3>1. PICK h \in HeadType : h = D!Primary
        BY <1>1
      <3>2. h = [is |-> "header", valid |-> h.valid, id |-> h.id, current |-> h.current, backup |-> h.backup,
                 first |-> h.first, last |-> h.last, start |-> h.start, count |-> h.count, sum |-> h.sum]
        BY HeadIs
      <3> QED
        BY <1>1, <1>4, <1>6, <3>1, <3>2
    <2>2. LaidBlock(1) = D!Header(1, D!End, 2)
      BY DEF LaidBlock
    <2> QED
      BY <1>1, <2>1, <2>2 DEF D!Header
  <1>8. seen = D!Table
    <2>1. ASSUME NEW k \in 0..3, NEW j \in 1..PerBlock PROVE D!Entries(D!End - 4 + k)[j] = D!Table[k * PerBlock + j]
      <3>1. D!End - 4 + k \in DOMAIN device /\ device[D!End - 4 + k] = [is |-> "table", records |-> D!Chunk(D!Table, k)]
        BY <1>1, LaidTableBlocks
      <3>2. PICK b \in DOMAIN device : b = D!End - 4 + k
        BY <3>1
      <3>3. D!Entries(b)[j] = D!Table[k * PerBlock + j]
        BY <1>1, <3>1, <3>2, LaidEntries
      <3> QED
        BY <3>2, <3>3
    <2>2. PICK from : from = D!Backup.start
      OBVIOUS
    <2>3. \A k \in 0..3, j \in 1..PerBlock : D!Entries(from + k)[j] = D!Table[k * PerBlock + j]
      BY <1>4, <2>1, <2>2
    <2>4. ReadFrom(seen, from, 4)
      BY <1>1, <1>5, <2>2
    <2>5. Laid /\ D!Primary.count = D!Slots
      BY <1>1, <1>4
    <2> QED
      BY <2>3, <2>4, <2>5, ReadLaid
  <1>9. ASSUME NEW k \in 0..3 PROVE device[2 + k] = LaidBlock(2 + k)
    <2>1. ReadFrom(D!Table, 2, 4)
      BY <1>1, <1>5, <1>6, <1>8
    <2>2. /\ 2 + k \in DOMAIN device /\ BlockType(2 + k) = TableType
          /\ LaidBlock(2 + k) = [is |-> "table", records |-> D!Chunk(D!Table, k)]
      BY <1>1, LaidTableBlocks
    <2> QED
      BY <1>1, <1>4, <2>1, <2>2, BlocksAreLaid
  <1>10. ASSUME NEW b \in 1..5 PROVE b = 1 \/ \E k \in 0..3 : b = 2 + k
    <2>1. b = 1 \/ b - 2 \in 0..3
      OBVIOUS
    <2>2. b = 2 + (b - 2)
      OBVIOUS
    <2> QED
      BY <2>1, <2>2
  <1> QED
    BY <1>7, <1>9, <1>10

LEMMA BothCount == ASSUME DiskInv PROVE D!BothCopiesCount
  <1> DEFINE Wrote5 == D!Over(D!Writes[1], D!Over(D!Writes[2], D!Over(D!Writes[3], D!Over(D!Writes[4], D!Writes[5]))))
  <1>1. ASSUME phase = "read"
        PROVE (\E b \in 1..5 : device[b] # Wrote5[b]) <=> (\E b \in (D!End - 4)..D!End : device[b] # Wrote5[b])
    <2>1. Laid /\ D!End \in Nat /\ D!End >= 11
      BY <1>1, BothSay, Geometry
    <2>2. 1..5 \subseteq Present(5) /\ (D!End - 4)..D!End \subseteq Present(5)
      BY <2>1 DEF Present
    <2>3. \A b \in Present(5) : Wrote5[b] = LaidBlock(b)
      BY <2>1, WrittenWhole
    <2> HIDE DEF Wrote5
    <2>4. (\E b \in 1..5 : device[b] # Wrote5[b]) <=> ~(\A b \in 1..5 : device[b] = LaidBlock(b))
      BY <2>2, <2>3
    <2>5. (\E b \in (D!End - 4)..D!End : device[b] # Wrote5[b]) <=> ~(\A b \in (D!End - 4)..D!End : device[b] = LaidBlock(b))
      BY <2>2, <2>3
    <2>6. (\A b \in 1..5 : device[b] = LaidBlock(b)) <=> (\A b \in (D!End - 4)..D!End : device[b] = LaidBlock(b))
      BY <1>1, PrimaryCounts, BackupCounts
    <2> QED
      BY <2>4, <2>5, <2>6
  <1> QED
    BY <1>1 DEF D!BothCopiesCount

-----------------------------------------------------------------------------
(* The theorem *)

LEMMA DiskRuns == FormatsSpec => [](machine = "disk" => DiskInv)
  <1>1. FormatsInit => (machine = "disk" => DiskInv)
    BY DiskStarts DEF FormatsInit
  <1>2. (machine = "disk" => DiskInv) /\ [FormatsNext]_all => (machine = "disk" => DiskInv)'
    <2> SUFFICES ASSUME machine = "disk" => DiskInv, [FormatsNext]_all, machine' = "disk" PROVE DiskInv'
      OBVIOUS
    <2>1. CASE Disk /\ D!Next
      BY <2>1, DiskStep DEF Disk
    <2>2. CASE (Sealing /\ S!Next) \/ (Syntax /\ B!Next)
      BY <2>2 DEF Sealing, Syntax
    <2>3. CASE UNCHANGED all
      BY <2>3, DiskIdle DEF all, layout
    <2> QED
      BY <2>1, <2>2, <2>3 DEF FormatsNext
  <1> QED
    BY <1>1, <1>2, PTL DEF FormatsSpec

\* Whatever the sizes asked for, the device and the blocks that were changed,
\* with checksums that fit or not: a disk that was written and left alone is
\* found as it was laid out, one whose writing stopped is never found, neither
\* copy is preferred to the other, and the partitions that are found are apart
\* from each other and from the headers and tables (Disk::write, Disk::read).
THEOREM DiskFound == FormatsSpec => []DiskIsFound
  <1>1. (machine = "disk" => DiskInv) => DiskIsFound
    BY DiskTyped, RoundTrips, TornIsRefused, BothCount, SoundlyFound DEF DiskIsFound, D!DiskIsFound
  <1> QED
    BY <1>1, DiskRuns, PTL


-----------------------------------------------------------------------------
(* Publication: the names of the selected items *)

LEMMA ItemsOfSelection ==
    ASSUME sel \in Selections \cup {NoSelection}
    PROVE  /\ sel.items \in Seq(Blobs \cup Scutes)
           /\ Len(sel.items) \in Nat
           /\ \A i \in 1..Len(sel.items) : sel.items[i] \in Blobs \cup Scutes
  <1>1. sel.items \in Seq(Blobs \cup Scutes)
    <2>1. CASE sel \in Selections
      BY <2>1, SelectionsAssumption
    <2>2. CASE sel = NoSelection
      <3>1. sel.items = << >>
        BY <2>2 DEF NoSelection
      <3> QED
        BY <3>1
    <2> QED
      BY <2>1, <2>2
  <1> QED
    BY <1>1

LEMMA NamesAreBlobs ==
    ASSUME sel \in Selections \cup {NoSelection}, NEW n \in Nat, n <= Len(sel.items) + 1
    PROVE  Names(n) \subseteq Blobs
  <1>1. ASSUME NEW i \in 1..(n - 1) PROVE NameOf(sel.items[i]) \in Blobs
    <2>1. i \in 1..Len(sel.items) /\ sel.items[i] \in Blobs \cup Scutes
      BY ItemsOfSelection
    <2> QED
      BY <2>1, NamesAssumption DEF NameOf
  <1> QED
    BY <1>1 DEF Names

LEMMA ItemsAreBlobs == sel \in Selections \cup {NoSelection} => Items \subseteq Blobs
  <1> SUFFICES ASSUME sel \in Selections \cup {NoSelection} PROVE Items \subseteq Blobs
    OBVIOUS
  <1>1. Len(sel.items) + 1 \in Nat
    BY ItemsOfSelection
  <1> QED
    BY <1>1, NamesAreBlobs DEF Items

LEMMA NextName ==
    ASSUME sel \in Selections \cup {NoSelection}, NEW n \in Nat \ {0}
    PROVE  Names(n + 1) = Names(n) \cup {NameOf(sel.items[n])}
  <1>1. 1..((n + 1) - 1) = (1..(n - 1)) \cup {n}
    OBVIOUS
  <1> QED
    BY <1>1 DEF Names

LEMMA NoNames == Names(1) = {}
  BY DEF Names

LEMMA SameNames == ASSUME sel' = sel, NEW n PROVE Names(n)' = Names(n)
  BY DEF Names, NameOf

LEMMA SameItems == sel' = sel => Items' = Items
  BY DEF Items, Names, NameOf

LEMMA SameExpected == sel' = sel /\ final' = final => Expected' = Expected
  BY SameItems DEF Expected

-----------------------------------------------------------------------------
(* Types *)

LEMMA InitInv == Init => Inv
  <1> SUFFICES ASSUME Init PROVE Inv
    OBVIOUS
  <1>1. TypeOK
    BY DEF Init, TypeOK, Manifests, NoSelection, FileNames
  <1>2. StagedSoFar
    BY DEF Init, StagedSoFar, Moving
  <1>3. MovedSoFar
    BY DEF Init, MovedSoFar, Staged, Top
  <1>4. Reported
    BY DEF Init, Reported, Staged, Moving
  <1> QED
    BY <1>1, <1>2, <1>3, <1>4 DEF Inv

\* The actions that leave the staged content alone.
Outside ==
    \/ CreateSibling \/ CreateInside \/ RejectDestination
    \/ CheckNames \/ RenameDirectory \/ RenameFails
    \/ MoveEntry \/ MoveFails \/ MoveBack \/ RolledBack \/ Close \/ Drop
    \/ Crash \/ Foreign

\* The actions inside the staging directory.
Inside ==
    \/ (\E s \in Scutes : Seal(s)) \/ Select
    \/ StoreBlob \/ InstallScute \/ StoredAll
    \/ WriteManifest \/ WriteLookup \/ WriteIndex \/ WriteMarker
    \/ Validate \/ Unlist \/ Replace \/ Release \/ StagingFails

LEMMA NextSplits == Next => Inside \/ Outside
  BY DEF Next, Stage, Publish, Inside, Outside

LEMMA OutsideKeepsContent == Outside => content' = content /\ round' = round
  BY DEF Outside, CreateSibling, CreateInside, StageIn, RejectDestination, CheckNames,
         RenameDirectory, RenameFails, MoveEntry, MoveFails, MoveBack, RolledBack, Close,
         Drop, Crash, Foreign, TakeName, TakeEntry, OthersUnchanged, content

LEMMA InsideKeepsPlace ==
    Inside => UNCHANGED <<there, entry, mode, staging, litter, verdict>>
  BY DEF Inside, Seal, Select, StoreBlob, InstallScute, StoredAll, WriteManifest,
         WriteLookup, WriteIndex, WriteMarker, Write, Validate, Unlist, Replace, Release,
         StagingFails, content, place

LEMMA TypesStep == TypeOK /\ Next => TypeOK'
  <1> SUFFICES ASSUME TypeOK, Next PROVE TypeOK'
    OBVIOUS
  <1>1. CASE Inside
    <2>1. UNCHANGED <<there, entry, mode, staging, litter, verdict>>
      BY <1>1, InsideKeepsPlace
    <2>2. /\ at' \in Staged \cup Moving \cup {"create", "release", "drop", "done"}
          /\ round' \in {"assemble", "bind"}
          /\ final' \in Manifests
          /\ named' \in Manifests \cup {"none"}
          /\ sel' \in Selections \cup {NoSelection}
      BY <1>1 DEF Inside, TypeOK, Seal, Select, StoreBlob, InstallScute, StoredAll,
                  WriteManifest, WriteLookup, WriteIndex, WriteMarker, Write, Open, Keep,
                  Validate, Unlist, Replace, Release, StagingFails, content, place,
                  Staged, Current, Manifests
    <2>3. pos' \in Nat \ {0}
      BY <1>1 DEF Inside, TypeOK, Seal, Select, StoreBlob, InstallScute, StoredAll,
                  WriteManifest, WriteLookup, WriteIndex, WriteMarker, Write, Open, Keep,
                  Validate, Unlist, Replace, Release, StagingFails, content, place
    <2>4. temps' \subseteq Scutes \X {"work", "blob"}
      BY <1>1 DEF Inside, TypeOK, Seal, Select, StoreBlob, InstallScute, StoredAll,
                  WriteManifest, WriteLookup, WriteIndex, WriteMarker, Write, Open, Keep,
                  Validate, Unlist, Replace, Release, StagingFails, content, place, TempsOf
    <2>5. files' \subseteq FileNames /\ pending' \in FileNames \cup {"none"}
      <3>1. CASE InstallScute
        <4>1. pos \in 1..Len(sel.items) /\ sel.items[pos] \in Scutes
          BY <3>1, ItemsOfSelection DEF InstallScute, Unstored, TypeOK
        <4>2. BlobOf[sel.items[pos]] \in FileNames
          BY <4>1, NamesAssumption DEF FileNames
        <4> QED
          BY <3>1, <4>2 DEF InstallScute, TypeOK
      <3>2. CASE StoreBlob
        BY <3>2 DEF StoreBlob, Open, Keep, TypeOK, FileNames
      <3>3. CASE WriteManifest \/ WriteLookup \/ WriteIndex \/ WriteMarker
        BY <3>3 DEF WriteManifest, WriteLookup, WriteIndex, WriteMarker, Write, Open, Keep,
                    TypeOK, FileNames, Current, Manifests
      <3>4. CASE \/ (\E s \in Scutes : Seal(s)) \/ Select \/ StoredAll
                 \/ Validate \/ Unlist \/ Replace \/ Release \/ StagingFails
        BY <3>4 DEF Seal, Select, StoredAll, Validate, Unlist, Replace, Release,
                    StagingFails, content, TypeOK
      <3> QED
        BY <1>1, <3>1, <3>2, <3>3, <3>4 DEF Inside
    <2> QED
      BY <2>1, <2>2, <2>3, <2>4, <2>5 DEF TypeOK
  <1>2. CASE Outside
    <2>1. UNCHANGED <<sel, final, files, pending, named, temps, round>>
      BY <1>2, OutsideKeepsContent DEF content
    <2>2. /\ at' \in Staged \cup Moving \cup {"create", "release", "drop", "done"}
          /\ mode' \in {"none", "rename", "children"}
          /\ staging' \in {"none", "made", "gone"}
          /\ litter' \in {"no", "yes"}
          /\ verdict' \in {"pending", "ok", "failed", "crashed"}
          /\ there' \in {"absent", "directory", "occupied", "ours"}
      BY <1>2 DEF Outside, TypeOK, CreateSibling, CreateInside, StageIn, RejectDestination,
                  CheckNames, RenameDirectory, RenameFails, MoveEntry, MoveFails, MoveBack,
                  RolledBack, Close, Drop, Crash, Foreign, TakeName, TakeEntry,
                  OthersUnchanged, content, place, Staged, Moving
    <2>3. pos' \in Nat \ {0} /\ entry' \in [Top -> {"none", "foreign", "ours"}]
      BY <1>2 DEF Outside, TypeOK, CreateSibling, CreateInside, StageIn, RejectDestination,
                  CheckNames, RenameDirectory, RenameFails, MoveEntry, MoveFails, MoveBack,
                  RolledBack, Close, Drop, Crash, Foreign, TakeName, TakeEntry,
                  OthersUnchanged, content, place
    <2> QED
      BY <2>1, <2>2, <2>3 DEF TypeOK
  <1> QED
    BY <1>1, <1>2, NextSplits
-----------------------------------------------------------------------------
(* The staged files *)

LEMMA SameCurrent == round' = round /\ final' = final => Current' = Current
  BY DEF Current

LEMMA SameBefore == round' = round => Before' = Before
  BY DEF Before

\* What is not a blob is not among the names of the selected items.
LEMMA Apart ==
    ASSUME TypeOK
    PROVE  /\ Items \cap {"unbound", "bound", "lookup", "index.json", "oci-layout", "none"} = {}
           /\ Current \in {"unbound", "bound"} /\ final \in {"unbound", "bound"}
  <1>1. Items \subseteq Blobs
    BY ItemsAreBlobs DEF TypeOK
  <1> QED
    BY <1>1, NamesAssumption DEF Manifests, Current, TypeOK

LEMMA StoringStep ==
    ASSUME TypeOK, StagedSoFar, StoreBlob \/ InstallScute \/ StoredAll
    PROVE  StagedSoFar'
  <1> USE DEF TypeOK, Unstored
  <1>1. at = "store" /\ sel' = sel /\ round' = round /\ round = "assemble"
    BY DEF StoreBlob, InstallScute, StoredAll, StagedSoFar, content
  <1>2. Len(sel.items) \in Nat /\ pos \in Nat \ {0} /\ Names(pos) \subseteq Blobs
    BY <1>1, ItemsOfSelection, NamesAreBlobs DEF StagedSoFar
  <1>3. Names(pos)' = Names(pos')
    BY <1>1 DEF Names, NameOf
  <1>4. Names(pos + 1) = Names(pos) \cup {NameOf(sel.items[pos])}
    BY <1>2, NextName
  <1>5. files = Names(pos) \ {pending}
    BY <1>1 DEF StagedSoFar
  <1>6. CASE StoreBlob
    <2>1. at' = "store" /\ pos <= Len(sel.items) /\ sel.items[pos] \in Blobs
      BY <1>6 DEF StoreBlob, Open, Keep
    <2>2. NameOf(sel.items[pos]) = sel.items[pos] /\ sel.items[pos] # "none"
      BY <2>1, NamesAssumption DEF NameOf
    <2>3. CASE Open(sel.items[pos])
      BY <1>1, <1>2, <1>3, <1>5, <2>1, <2>2, <2>3, NamesAssumption
      DEF Open, StagedSoFar, Moving
    <2>4. CASE Keep(sel.items[pos]) /\ pos' = pos + 1
      <3>1. files' = Names(pos + 1) /\ pending' = "none"
        BY <1>4, <1>5, <2>2, <2>4 DEF Keep
      <3>2. "none" \notin Names(pos + 1)
        BY <1>2, <1>4, <2>1, <2>2, NamesAssumption
      <3> QED
        BY <1>1, <1>2, <1>3, <2>1, <2>4, <3>1, <3>2 DEF StagedSoFar, Moving
    <2> QED
      BY <1>6, <2>3, <2>4 DEF StoreBlob
  <1>7. CASE InstallScute
    <2>1. /\ at' = "store" /\ pos <= Len(sel.items) /\ sel.items[pos] \in Scutes
          /\ pos' = pos + 1 /\ pending' = pending
      BY <1>1, <1>7 DEF InstallScute
    <2>2. pending = "none"
      BY <1>1, <2>1, NamesAssumption DEF StagedSoFar
    <2>3. NameOf(sel.items[pos]) = BlobOf[sel.items[pos]] /\ BlobOf[sel.items[pos]] # "none"
      BY <2>1, NamesAssumption DEF NameOf
    <2>4. files' = Names(pos + 1) /\ "none" \notin Names(pos + 1)
      BY <1>2, <1>4, <1>5, <1>7, <2>2, <2>3, NamesAssumption DEF InstallScute
    <2> QED
      BY <1>1, <1>2, <1>3, <2>1, <2>2, <2>4 DEF StagedSoFar, Moving
  <1>8. CASE StoredAll
    <2>1. pos = Len(sel.items) + 1 /\ at' = "manifest" /\ UNCHANGED <<files, pending, final>>
      BY <1>1, <1>2, <1>8 DEF StoredAll, StagedSoFar, content
    <2>2. pending = "none"
      BY <1>1, <1>2, <2>1 DEF StagedSoFar
    <2>3. files' = Items' /\ Before' = {} /\ "none" \notin Items'
      BY <1>1, <1>5, <2>1, <2>2, SameItems, Apart DEF Items, Before
    <2> QED
      BY <2>1, <2>2, <2>3 DEF StagedSoFar, Moving
  <1> QED
    BY <1>6, <1>7, <1>8

LEMMA WritingStep ==
    ASSUME TypeOK, StagedSoFar,
           WriteManifest \/ WriteLookup \/ WriteIndex \/ WriteMarker
    PROVE  StagedSoFar'
  <1>1. UNCHANGED <<sel, final, round, temps>>
    BY DEF WriteManifest, WriteLookup, WriteIndex, WriteMarker, Write
  <1>2. Items' = Items /\ Before' = Before /\ Current' = Current
    BY <1>1, SameItems, SameBefore, SameCurrent
  <1>3. /\ Items \cap {"unbound", "bound", "lookup", "index.json", "oci-layout", "none"} = {}
        /\ Current \in {"unbound", "bound"}
    BY Apart
  <1>4. Before \subseteq {"unbound", "index.json", "oci-layout"}
    BY DEF Before
  <1>5. CASE WriteManifest
    BY <1>2, <1>3, <1>4, <1>5 DEF WriteManifest, Write, Open, Keep, StagedSoFar, Moving
  <1>6. CASE WriteLookup
    BY <1>2, <1>3, <1>4, <1>6 DEF WriteLookup, Write, Open, Keep, StagedSoFar, Moving
  <1>7. CASE WriteIndex
    BY <1>2, <1>3, <1>4, <1>7 DEF WriteIndex, Open, Keep, StagedSoFar, Moving
  <1>8. CASE WriteMarker
    BY <1>2, <1>3, <1>4, <1>8 DEF WriteMarker, Write, Open, Keep, StagedSoFar, Moving
  <1> QED
    BY <1>5, <1>6, <1>7, <1>8

LEMMA FinishingStep ==
    ASSUME TypeOK, StagedSoFar, Validate \/ Unlist \/ Replace \/ Release \/ StagingFails
    PROVE  StagedSoFar'
  <1>1. UNCHANGED <<sel, final>>
    BY DEF Validate, Unlist, Replace, Release, StagingFails, content
  <1>2. Items' = Items /\ Expected' = Expected
    BY <1>1, SameItems, SameExpected
  <1>3. /\ Items \cap {"unbound", "bound", "lookup", "index.json", "oci-layout", "none"} = {}
        /\ final \in {"unbound", "bound"}
    BY Apart
  <1>4. CASE Validate
    BY <1>2, <1>4, SameBefore, SameCurrent DEF Validate, content, StagedSoFar, Moving
  <1>5. CASE Unlist
    <2>1. /\ files = Items \cup Before \cup {Current, "lookup", "index.json", "oci-layout"}
          /\ files' = files \ {"lookup"} /\ round' = "bind"
          /\ pending = "none" /\ pending' = "none" /\ named' = named /\ named = Current
      BY <1>5 DEF Unlist, StagedSoFar
    <2>2. Before' = {"unbound", "index.json", "oci-layout"}
      BY <2>1 DEF Before
    <2>3. CASE round = "assemble"
      <3>1. files' = Items' \cup Before'
        BY <1>2, <1>3, <2>1, <2>2, <2>3 DEF Before, Current
      <3>2. at' = "manifest" /\ "none" \notin files'
        BY <1>2, <1>3, <1>5, <2>1, <2>2, <2>3, <3>1 DEF Unlist
      <3> QED
        BY <2>1, <3>1, <3>2 DEF StagedSoFar, Moving
    <2>4. CASE round = "bind"
      <3>1. files' = Expected' \cup {"unbound"}
        BY <1>2, <1>3, <2>1, <2>4 DEF Before, Current, Expected
      <3>2. at' = "replace" /\ named' = final'
        BY <1>1, <1>5, <2>1, <2>4 DEF Unlist, Current
      <3> QED
        BY <2>1, <3>1, <3>2 DEF StagedSoFar, Moving
    <2> QED
      BY <2>3, <2>4 DEF TypeOK
  <1>6. CASE Replace
    <2>1. files' = Expected'
      BY <1>2, <1>3, <1>6 DEF Replace, StagedSoFar, Expected
    <2> QED
      BY <1>1, <1>6, <2>1 DEF Replace, StagedSoFar, Moving
  <1>7. CASE Release
    BY <1>2, <1>7 DEF Release, StagedSoFar, Moving
  <1>8. CASE StagingFails
    BY <1>8 DEF StagingFails, StagedSoFar, Moving
  <1> QED
    BY <1>4, <1>5, <1>6, <1>7, <1>8

LEMMA StagedStep ==
    ASSUME TypeOK, StagedSoFar, Reported, Next
    PROVE  StagedSoFar'
  <1>1. CASE \E s \in Scutes : Seal(s)
    <2>1. at = "execute" /\ UNCHANGED <<at, files, pending, round, pos>>
      BY <1>1 DEF Seal
    <2> QED
      BY <2>1 DEF StagedSoFar, Moving
  <1>2. CASE Select
    <2>1. /\ at = "execute" /\ at' = "store"
          /\ files = {} /\ pending = "none" /\ round = "assemble" /\ pos = 1
          /\ UNCHANGED <<files, pending, round, pos>>
          /\ sel' \in Selections
      BY <1>2 DEF Select, StagedSoFar
    <2>2. Len(sel'.items) \in Nat
      BY <2>1, SelectionsAssumption
    <2>3. Names(pos)' = {}
      BY <2>1 DEF Names
    <2> QED
      BY <2>1, <2>2, <2>3 DEF StagedSoFar, Moving
  <1>3. CASE StoreBlob \/ InstallScute \/ StoredAll
    BY <1>3, StoringStep
  <1>4. CASE WriteManifest \/ WriteLookup \/ WriteIndex \/ WriteMarker
    BY <1>4, WritingStep
  <1>5. CASE Validate \/ Unlist \/ Replace \/ Release \/ StagingFails
    BY <1>5, FinishingStep
  <1>6. CASE Outside
    <2>1. UNCHANGED <<sel, final, files, pending, named, temps, round>>
      BY <1>6, OutsideKeepsContent DEF content
    <2>2. /\ Items' = Items /\ Expected' = Expected /\ Current' = Current /\ Before' = Before
          /\ pos' = pos => Names(pos)' = Names(pos)
      BY <2>1, SameItems, SameExpected, SameCurrent, SameBefore DEF Names, NameOf
    <2>3. \/ at' = at /\ pos' = pos
          \/ at = "create" /\ at' = "execute" /\ pos' = pos
          \/ at = "check" /\ at' \in Moving /\ temps = {}
          \/ at \in Moving /\ at' \in Moving
          \/ at' \in {"drop", "done"}
      BY <1>6 DEF Outside, CreateSibling, CreateInside, StageIn, RejectDestination,
                  CheckNames, RenameDirectory, RenameFails, MoveEntry, MoveFails, MoveBack,
                  RolledBack, Close, Drop, Crash, Foreign, TakeName, TakeEntry,
                  OthersUnchanged, content, place, Moving
    <2>4. CASE at' = at /\ pos' = pos
      BY <2>1, <2>2, <2>4 DEF StagedSoFar
    <2>5. CASE at = "create" /\ at' = "execute" /\ pos' = pos
      BY <2>1, <2>5 DEF StagedSoFar, Moving
    <2>6. CASE \/ at = "check" /\ at' \in Moving /\ temps = {}
               \/ at \in Moving /\ at' \in Moving
      BY <2>1, <2>2, <2>6 DEF StagedSoFar, Moving
    <2>7. CASE at' \in {"drop", "done"}
      BY <2>7 DEF StagedSoFar, Moving
    <2> QED
      BY <2>3, <2>4, <2>5, <2>6, <2>7
  <1> QED
    BY <1>1, <1>2, <1>3, <1>4, <1>5, <1>6, NextSplits DEF Inside

-----------------------------------------------------------------------------
(* The destination, and what the build reports *)

LEMMA InsideAt ==
    Inside => at \in Staged \cup {"release"} /\ at' \in Staged \cup {"release", "drop"}
  BY DEF Inside, Seal, Select, StoreBlob, InstallScute, StoredAll, WriteManifest,
         WriteLookup, WriteIndex, WriteMarker, Write, Open, Keep, Validate, Unlist,
         Replace, Release, StagingFails, Unstored, content, place, Staged

LEMMA ExactWhenMoving ==
    StagedSoFar /\ at \in Moving => Exact
  BY DEF StagedSoFar, Exact

LEMMA SameExact == content' = content => Exact' = Exact
  BY SameExpected DEF Exact, content

LEMMA LayoutNames ==
    /\ Len(Layout) = 3
    /\ Layout[1] = "blobs" /\ Layout[2] = "index.json" /\ Layout[3] = "oci-layout"
    /\ \A i \in 1..3 : Layout[i] \in Top
    /\ \A e \in Top : \E i \in 1..3 : e = Layout[i]
    /\ \A i, j \in 1..3 : Layout[i] = Layout[j] => i = j
  BY DEF Layout, Top

LEMMA ForeignStep ==
    ASSUME TypeOK, Foreign
    PROVE  /\ UNCHANGED <<at, mode, staging, pos, litter, verdict>>
           /\ there' = "ours" <=> there = "ours"
           /\ \A e \in Top : entry'[e] = "ours" <=> entry[e] = "ours"
  <1>1. CASE TakeName
    BY <1>1 DEF TakeName, OthersUnchanged
  <1>2. ASSUME NEW f \in Top, TakeEntry(f)
        PROVE  /\ UNCHANGED <<at, mode, staging, pos, litter, verdict>>
               /\ there' = there
               /\ \A e \in Top : entry'[e] = "ours" <=> entry[e] = "ours"
    BY <1>2 DEF TakeEntry, OthersUnchanged, TypeOK
  <1> QED
    BY <1>1, <1>2 DEF Foreign

LEMMA MovedStep ==
    ASSUME Inv, Next
    PROVE  MovedSoFar'
  <1> USE DEF Inv
  <1>1. CASE Inside
    <2>1. UNCHANGED <<there, entry, mode, staging, litter, verdict>>
      BY <1>1, InsideKeepsPlace
    <2>2. at \in Staged \cup {"release"} /\ at' \in Staged \cup {"release", "drop"}
      BY <1>1, InsideAt
    <2>3. litter = "no" /\ there # "ours" /\ \A e \in Top : entry[e] # "ours"
      BY <2>2 DEF MovedSoFar, Staged
    <2> QED
      BY <2>1, <2>2, <2>3 DEF MovedSoFar, Staged, Top
  <1>2. CASE Outside
    <2>1. content' = content /\ Exact' = Exact
      BY <1>2, OutsideKeepsContent, SameExact
    <2>2. CASE CreateSibling \/ CreateInside \/ RejectDestination
      BY <2>1, <2>2 DEF CreateSibling, CreateInside, StageIn, RejectDestination, place,
                        MovedSoFar, Staged, Top
    <2>3. CASE CheckNames
      <3>1. at = "check" /\ UNCHANGED <<there, entry, mode, staging, litter>> /\ pos' = 1
            /\ at' = IF mode = "rename" THEN "rename" ELSE "move"
        BY <2>3 DEF CheckNames, place
      <3>2. mode # "rename" => mode = "children"
        BY <3>1 DEF Reported, TypeOK, Staged
      <3> QED
        BY <2>1, <3>1, <3>2, LayoutNames DEF MovedSoFar, Staged, Top
    <2>4. CASE RenameDirectory
      <3>1. /\ at = "rename" /\ at' = "done" /\ there' = "ours" /\ staging' = "gone"
            /\ UNCHANGED <<entry, mode, litter>> /\ mode = "rename"
        BY <2>4 DEF RenameDirectory, Reported
      <3>2. Exact /\ \A e \in Top : entry[e] # "ours"
        BY <3>1, ExactWhenMoving DEF MovedSoFar, Moving
      <3> QED
        BY <2>1, <3>1, <3>2 DEF MovedSoFar, Staged, Top
    <2>5. CASE RenameFails
      BY <2>1, <2>5 DEF RenameFails, place, MovedSoFar, Staged, Top
    <2>6. CASE MoveEntry
      <3>1. /\ at = "move" /\ pos \in 1..3 /\ pos' = pos + 1 /\ at' = "move"
            /\ entry' = [entry EXCEPT ![Layout[pos]] = "ours"]
            /\ UNCHANGED <<there, mode, staging, litter>>
        BY <2>6, LayoutNames DEF MoveEntry, TypeOK
      <3>2. Exact /\ mode = "children" /\ litter = "no" /\ there # "ours"
        BY <3>1, ExactWhenMoving DEF MovedSoFar, Moving
      <3>3. \A i \in 1..3 : entry[Layout[i]] = "ours" <=> i < pos
        BY <3>1 DEF MovedSoFar
      <3>4. \A i \in 1..3 : entry'[Layout[i]] = "ours" <=> i < pos'
        BY <3>1, <3>3, LayoutNames DEF TypeOK
      <3>5. entry'["oci-layout"] = "ours" => \A e \in Top : entry'[e] = "ours"
        BY <3>1, <3>4, LayoutNames
      <3> QED
        BY <2>1, <3>1, <3>2, <3>4, <3>5 DEF MovedSoFar, Staged
    <2>7. CASE MoveFails
      BY <2>1, <2>7, LayoutNames DEF MoveFails, place, MovedSoFar, Staged, Top
    <2>8. CASE MoveBack
      <3>1. /\ at = "rollback" /\ pos \in 2..4 /\ pos' = pos - 1 /\ at' = "rollback"
            /\ \/ entry' = [entry EXCEPT ![Layout[pos - 1]] = "none"] /\ litter' = litter
               \/ litter' = "yes" /\ entry' = entry
            /\ UNCHANGED <<there, mode, staging>>
        BY <2>8 DEF MoveBack, MovedSoFar
      <3>2. /\ mode = "children" /\ there # "ours" /\ entry["oci-layout"] # "ours"
            /\ \A i \in 1..3 : i < pos => entry[Layout[i]] = "ours"
            /\ litter = "no" => \A i \in 1..3 : entry[Layout[i]] = "ours" => i < pos
        BY <3>1 DEF MovedSoFar
      <3>3. \A e \in Top : entry'[e] = "ours" => entry[e] = "ours"
        BY <3>1 DEF TypeOK
      <3>4. /\ \A i \in 1..3 : i < pos' => entry'[Layout[i]] = "ours"
            /\ litter' = "no" => \A i \in 1..3 : entry'[Layout[i]] = "ours" => i < pos'
        BY <3>1, <3>2, LayoutNames DEF TypeOK
      <3>5. entry'["oci-layout"] # "ours"
        BY <3>2, <3>3 DEF Top
      <3>6. (\E e \in Top : entry'[e] = "ours") => Exact
        BY <3>3 DEF MovedSoFar
      <3> QED
        BY <2>1, <3>1, <3>2, <3>4, <3>5, <3>6 DEF MovedSoFar, Staged
    <2>9. CASE RolledBack
      <3>1. at = "rollback" /\ pos = 1 /\ at' = "drop"
            /\ UNCHANGED <<there, entry, mode, staging, litter>>
        BY <2>9 DEF RolledBack, place
      <3>2. litter = "no" => \A e \in Top : entry[e] # "ours"
        BY <3>1, LayoutNames DEF MovedSoFar
      <3> QED
        BY <2>1, <3>1, <3>2 DEF MovedSoFar, Staged
    <2>10. CASE Close \/ Drop \/ Crash
      <3>1. at' = "done" /\ UNCHANGED <<there, entry, mode>> /\ at # "done"
        BY <2>10 DEF Close, Drop, Crash, place
      <3> QED
        BY <2>1, <3>1 DEF MovedSoFar, Staged
    <2>11. CASE Foreign
      <3>1. /\ UNCHANGED <<at, mode, staging, pos, litter>>
            /\ there' = "ours" <=> there = "ours"
            /\ \A e \in Top : entry'[e] = "ours" <=> entry[e] = "ours"
        BY <2>11, ForeignStep DEF Inv
      <3> QED
        BY <2>1, <3>1, LayoutNames DEF MovedSoFar, Top
    <2> QED
      BY <1>2, <2>2, <2>3, <2>4, <2>5, <2>6, <2>7, <2>8, <2>9, <2>10, <2>11 DEF Outside
  <1> QED
    BY <1>1, <1>2, NextSplits

LEMMA ReportedStep ==
    ASSUME Inv, Next
    PROVE  Reported'
  <1> USE DEF Inv
  <1>1. CASE Inside
    <2>1. UNCHANGED <<there, entry, mode, staging, litter, verdict>>
      BY <1>1, InsideKeepsPlace
    <2>2. at \in Staged \cup {"release"} /\ at' \in Staged \cup {"release", "drop"}
      BY <1>1, InsideAt
    <2> QED
      BY <2>1, <2>2 DEF Reported, Staged, Visible, Moving
  <1>2. CASE CreateSibling \/ CreateInside \/ RejectDestination
    BY <1>2 DEF CreateSibling, CreateInside, StageIn, RejectDestination, place,
                Reported, MovedSoFar, Staged, Moving, Visible
  <1>3. CASE CheckNames
    BY <1>3 DEF CheckNames, place, Reported, Staged, Moving, Visible
  <1>4. CASE RenameDirectory \/ RenameFails
    BY <1>4 DEF RenameDirectory, RenameFails, place, Reported, MovedSoFar, Staged, Moving,
                Visible
  <1>5. CASE MoveEntry \/ MoveFails \/ MoveBack \/ RolledBack
    <2>1. /\ at \in {"move", "rollback"} /\ at' \in {"move", "rollback", "drop"}
          /\ UNCHANGED <<there, mode, staging, verdict>>
      BY <1>5 DEF MoveEntry, MoveFails, MoveBack, RolledBack, place
    <2> QED
      BY <2>1 DEF Reported, Staged, Moving
  <1>6. CASE Close
    <2>1. /\ at = "move" /\ pos = 4 /\ at' = "done" /\ UNCHANGED <<there, entry, mode>>
          /\ litter = "no"
          /\ \/ staging' = "gone" /\ verdict' = "ok" /\ litter' = litter
             \/ verdict' = "failed" /\ litter' = "yes"
      BY <1>6, LayoutNames DEF Close, MovedSoFar, place
    <2>2. entry["oci-layout"] = "ours"
      BY <2>1, LayoutNames DEF MovedSoFar
    <2> QED
      BY <2>1, <2>2 DEF Reported, Staged, Moving, Visible
  <1>7. CASE Drop
    BY <1>7 DEF Drop, place, Reported, MovedSoFar, Staged, Moving
  <1>8. CASE Crash
    BY <1>8 DEF Crash, place, Reported, Staged, Moving
  <1>9. CASE Foreign
    <2>1. /\ UNCHANGED <<at, mode, staging, litter, verdict>>
          /\ there' = "ours" <=> there = "ours"
          /\ \A e \in Top : entry'[e] = "ours" <=> entry[e] = "ours"
      BY <1>9, ForeignStep DEF Inv
    <2> QED
      BY <2>1 DEF Reported, Visible, Top
  <1> QED
    BY <1>1, <1>2, <1>3, <1>4, <1>5, <1>6, <1>7, <1>8, <1>9, NextSplits DEF Outside

LEMMA StutterStep == ASSUME Inv, UNCHANGED vars PROVE Inv'
  <1>1. /\ UNCHANGED <<there, entry, mode, staging, at, round, sel, final, pos, files,
                       pending, named, temps, litter, verdict>>
        /\ content' = content
    BY DEF vars, place, content
  <1>2. Items' = Items /\ Expected' = Expected /\ Exact' = Exact /\ Names(pos)' = Names(pos)
    BY <1>1, SameItems, SameExpected, SameExact DEF Names, NameOf
  <1>3. Current' = Current /\ Before' = Before /\ Visible' = Visible
    BY <1>1, SameCurrent, SameBefore DEF Visible
  <1>4. TypeOK'
    BY <1>1 DEF Inv, TypeOK
  <1>5. StagedSoFar'
    BY <1>1, <1>2, <1>3 DEF Inv, StagedSoFar
  <1>6. MovedSoFar'
    BY <1>1, <1>2 DEF Inv, MovedSoFar
  <1>7. Reported'
    BY <1>1, <1>3 DEF Inv, Reported
  <1> QED
    BY <1>4, <1>5, <1>6, <1>7 DEF Inv

-----------------------------------------------------------------------------
(* Theorems *)

\* The inductive invariant: the publisher's position fixes the staged files,
\* whose the entries at the destination are, and what has been reported.
THEOREM Inductive == Spec => []Inv
  <1>1. Init => Inv
    BY InitInv
  <1>2. Inv /\ [Next]_vars => Inv'
    BY TypesStep, StagedStep, MovedStep, ReportedStep, StutterStep DEF Inv
  <1> QED
    BY <1>1, <1>2, PTL DEF Spec

LEMMA InvImpliesComplete == Inv => LayoutComplete
  BY DEF Inv, MovedSoFar, LayoutComplete, Visible, Whole, Top

\* Whatever failed and whoever died, a reader that finds the marker at the
\* destination finds the whole image, exactly (publish, publish_children).
THEOREM Completeness == Spec => []LayoutComplete
  BY Inductive, InvImpliesComplete, PTL

\* A reported success means a whole image, and nothing left beside it.
THEOREM Success == Spec => []SuccessIsWhole
  <1>1. Inv => SuccessIsWhole
    BY InvImpliesComplete DEF Inv, Reported, SuccessIsWhole, LayoutComplete
  <1> QED
    BY <1>1, Inductive, PTL

\* A reported failure leaves nothing, unless a cleanup failed with it: the
\* rollback of moved entries is complete, and the staging directory is gone.
THEOREM Failure == Spec => []CleanFailure
  <1>1. Inv => CleanFailure
    BY DEF Inv, Reported, CleanFailure
  <1> QED
    BY <1>1, Inductive, PTL

\* What the publisher reports is true, of a success and of a failure.
THEOREM Verdict == Spec => []HonestVerdict
  BY Success, Failure, PTL DEF HonestVerdict

\* Neither a rename, nor a move, nor the rollback touches what somebody else
\* put at the destination.
THEOREM Foreigners == Spec => ForeignKept
  <1> DEFINE Kept == /\ there \in {"directory", "occupied"} => there' = there
                     /\ \A e \in Top : entry[e] = "foreign" => entry'[e] = "foreign"
  <1>1. Inv /\ [Next]_vars => [Kept]_vars
    <2> SUFFICES ASSUME Inv, Next PROVE Kept
      OBVIOUS
    <2>1. CASE Inside
      BY <2>1, InsideKeepsPlace
    <2>2. CASE MoveEntry
      BY <2>2 DEF MoveEntry, Inv, TypeOK
    <2>3. CASE MoveBack
      <3>1. pos - 1 \in 1..3 /\ entry[Layout[pos - 1]] = "ours"
        BY <2>3 DEF MoveBack, Inv, MovedSoFar
      <3> QED
        BY <2>3, <3>1 DEF MoveBack, Inv, TypeOK
    <2>4. CASE \/ CreateSibling \/ CreateInside \/ RejectDestination \/ CheckNames
               \/ RenameDirectory \/ RenameFails \/ MoveFails \/ RolledBack
               \/ Close \/ Drop \/ Crash
      BY <2>4 DEF CreateSibling, CreateInside, StageIn, RejectDestination, CheckNames,
                  RenameDirectory, RenameFails, MoveFails, RolledBack, Close, Drop, Crash,
                  place
    <2>5. CASE Foreign
      BY <2>5 DEF Foreign, TakeName, TakeEntry, Inv, TypeOK
    <2> QED
      BY <2>1, <2>2, <2>3, <2>4, <2>5, NextSplits DEF Outside
  <1> QED
    BY <1>1, Inductive, PTL DEF Spec, ForeignKept

-----------------------------------------------------------------------------
(* Refinement of AtomicPublication *)

LEMMA ImageOfInv == Inv => Image = IF Visible THEN "whole" ELSE "none"
  BY InvImpliesComplete DEF Image, LayoutComplete

\* What a step of the publisher is to the reader.
ReaderStep ==
    \/ (Visible' <=> Visible) /\ verdict' = verdict
    \/ verdict = "pending" /\ ~Visible /\ Visible' /\ verdict' \in {"pending", "ok"}
    \/ verdict = "pending" /\ Visible /\ Visible' /\ verdict' = "ok"
    \/ verdict = "pending" /\ (Visible' <=> Visible) /\ verdict' \in {"failed", "crashed"}

LEMMA StepToReader == ASSUME Inv, Next PROVE ReaderStep
  <1> USE DEF ReaderStep
  <1>1. CASE Inside
    BY <1>1, InsideKeepsPlace DEF Visible
  <1>2. CASE CreateSibling \/ CreateInside \/ CheckNames \/ RenameFails \/ MoveFails \/ RolledBack
    BY <1>2 DEF CreateSibling, CreateInside, StageIn, CheckNames, RenameFails, MoveFails,
                RolledBack, place, Visible
  <1>3. CASE RejectDestination \/ Drop \/ Crash
    BY <1>3 DEF RejectDestination, Drop, Crash, place, Visible, Inv, Reported,
                Staged, Moving
  <1>4. CASE RenameDirectory
    <2>1. at = "rename" /\ there' = "ours" /\ verdict' = "ok" /\ there # "ours" /\ Visible'
      BY <1>4 DEF RenameDirectory, Visible
    <2>2. ~Visible /\ verdict = "pending"
      BY <2>1 DEF Visible, Inv, MovedSoFar, Reported, Staged, Top
    <2> QED
      BY <2>1, <2>2
  <1>5. CASE MoveEntry
    <2>1. at = "move" /\ verdict' = verdict /\ there' = there
      BY <1>5 DEF MoveEntry
    <2>2. verdict = "pending"
      BY <2>1 DEF Inv, Reported
    <2>3. entry["oci-layout"] = "ours" => entry'["oci-layout"] = "ours"
      BY <1>5 DEF MoveEntry, Inv, TypeOK, Top
    <2>4. Visible => Visible'
      BY <2>1, <2>3 DEF Visible
    <2> QED
      BY <2>1, <2>2, <2>4
  <1>6. CASE MoveBack
    <2>1. at = "rollback" /\ there' = there /\ verdict' = verdict
      BY <1>6 DEF MoveBack
    <2>2. entry["oci-layout"] # "ours" /\ entry'["oci-layout"] # "ours"
      BY <1>6, <2>1 DEF MoveBack, Inv, MovedSoFar, TypeOK, Top
    <2> QED
      BY <2>1, <2>2 DEF Visible
  <1>7. CASE Close
    <2>1. /\ at = "move" /\ pos = 4 /\ UNCHANGED <<there, entry>>
          /\ verdict' \in {"ok", "failed"}
      BY <1>7, LayoutNames DEF Close, Inv, MovedSoFar, place
    <2>2. Visible /\ verdict = "pending"
      BY <2>1, LayoutNames DEF Visible, Inv, MovedSoFar, Reported
    <2> QED
      BY <2>1, <2>2 DEF Visible
  <1>8. CASE Foreign
    BY <1>8, ForeignStep DEF Inv, Visible, Top
  <1> QED
    BY <1>1, <1>2, <1>3, <1>4, <1>5, <1>6, <1>7, <1>8, NextSplits DEF Outside

\* To a reader of the destination, publishing is one step: the image is never
\* seen in parts, never withdrawn, and there when the build reports success.
THEOREM Refinement == Spec => PublishesAtomically
  <1>1. Init => Reader!Init
    BY InitInv, ImageOfInv DEF Init, Reader!Init, Visible, Top
  <1>2. Inv /\ Inv' /\ [Next]_vars => [Reader!Next]_(Reader!vars)
    <2> SUFFICES ASSUME Inv, Inv', [Next]_vars PROVE [Reader!Next]_(Reader!vars)
      OBVIOUS
    <2>0. (Image = IF Visible THEN "whole" ELSE "none")'
      BY ImageOfInv, PTL
    <2>1. /\ Image = IF Visible THEN "whole" ELSE "none"
          /\ Image' = IF Visible' THEN "whole" ELSE "none"
      BY <2>0, ImageOfInv
    <2>2. ReaderStep
      <3>1. CASE UNCHANGED vars
        BY <3>1 DEF vars, place, Visible, ReaderStep
      <3> QED
        BY <3>1, StepToReader
    <2>3. CASE (Visible' <=> Visible) /\ verdict' = verdict
      BY <2>1, <2>3 DEF Reader!vars
    <2>4. CASE /\ verdict = "pending" /\ ~Visible /\ Visible'
               /\ verdict' \in {"pending", "ok"}
      BY <2>1, <2>4 DEF Reader!Next, Reader!Expose
    <2>5. CASE verdict = "pending" /\ Visible /\ Visible' /\ verdict' = "ok"
      BY <2>1, <2>5 DEF Reader!Next, Reader!Succeed
    <2>6. CASE /\ verdict = "pending" /\ (Visible' <=> Visible)
               /\ verdict' \in {"failed", "crashed"}
      BY <2>1, <2>6 DEF Reader!Next, Reader!GiveUp
    <2> QED
      BY <2>2, <2>3, <2>4, <2>5, <2>6 DEF ReaderStep
  <1> QED
    BY <1>1, <1>2, Inductive, PTL DEF Spec, PublishesAtomically, Reader!Spec

=============================================================================
