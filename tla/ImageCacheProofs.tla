--------------------------- MODULE ImageCacheProofs ---------------------------
(***************************************************************************)
(* Proofs about one resolution, for every cache, reference and document,   *)
(* and whatever others write to the cache meanwhile: it returns and copies *)
(* what its pin leads to, and a cache that holds that serves it.           *)
(*                                                                         *)
(* The invariant follows the resolution: how the captured documents hang   *)
(* together, which blobs are still owed a receipt, what is known of the    *)
(* chain, and, for a sound cache nobody writes to, why the next read       *)
(* succeeds.                                                               *)
(***************************************************************************)
EXTENDS ImageCache, FiniteSetTheorems, SequenceTheorems, WellFoundedInduction, TLAPS

-----------------------------------------------------------------------------
(* Recursive functions *)

LEMMA LeastNumber == ASSUME NEW S, S \subseteq Nat, S # {} PROVE \E m \in S : \A k \in S : m <= k
<1> DEFINE R == {ss \in Nat \X Nat : ss[1] < ss[2]}
<1>1. R = OpToRel(<, Nat)
  BY DEF OpToRel
<1> HIDE DEF R
<1>2. IsWellFoundedOn(R, Nat)
  BY <1>1, NatLessThanWellFounded
<1>3. \E x \in S : \A y \in S : ~(<<y, x>> \in R)
  BY <1>2, WFMin
<1>4. \A x, y \in S : ~(<<y, x>> \in R) => x <= y
  BY DEF R
<1> QED
  BY <1>3, <1>4

\* What holds at 0, and one further whenever it holds, holds up to n.
LEMMA Climbs ==
  ASSUME NEW n \in Nat, NEW P, 0 \in P, \A k \in 0..(n - 1) : k \in P => k + 1 \in P
  PROVE  0..n \subseteq P
<1> SUFFICES ASSUME (0..n) \ P # {} PROVE FALSE
  OBVIOUS
<1>1. PICK m \in (0..n) \ P : \A k \in (0..n) \ P : m <= k
  <2>1. (0..n) \ P \subseteq Nat
    OBVIOUS
  <2> QED
    BY <2>1, LeastNumber
<1>2. m # 0 /\ m - 1 \in 0..(n - 1) /\ (m - 1) + 1 = m /\ m - 1 \in 0..n
  OBVIOUS
<1>3. m - 1 \in P
  BY <1>1, <1>2
<1> QED
  BY <1>2, <1>3

\* Filtering, as its definition says it.
Filters(f, s, T, n) ==
  f = [i \in 0..n |-> IF i = 0 THEN <<>> ELSE IF i \in T THEN Append(f[i - 1], s[i]) ELSE f[i - 1]]

LEMMA FilterExists ==
  ASSUME NEW s, NEW T, NEW n \in Nat
  PROVE  \E f : Filters(f, s, T, n)
<1> DEFINE P == {k \in 0..n : \E f : Filters(f, s, T, k)}
<1>1. 0 \in P
  <2>1. Filters([i \in 0..0 |-> <<>>], s, T, 0)
    BY DEF Filters
  <2> QED
    BY <2>1
<1>2. ASSUME NEW k \in 0..(n - 1), k \in P PROVE k + 1 \in P
  <2>1. PICK f : Filters(f, s, T, k)
    BY <1>2
  <2> DEFINE e == IF k + 1 \in T THEN Append(f[k], s[k + 1]) ELSE f[k]
             g == [i \in 0..(k + 1) |-> IF i = k + 1 THEN e ELSE f[i]]
             h == [i \in 0..(k + 1) |-> IF i = 0 THEN <<>> ELSE IF i \in T THEN Append(g[i - 1], s[i]) ELSE g[i - 1]]
  <2>2. g[k + 1] = e /\ \A i \in 0..k : g[i] = f[i]
    OBVIOUS
  <2>3. \A i \in 0..k : f[i] = IF i = 0 THEN <<>> ELSE IF i \in T THEN Append(f[i - 1], s[i]) ELSE f[i - 1]
    BY <2>1 DEF Filters
  <2>4. DOMAIN g = 0..(k + 1) /\ DOMAIN h = 0..(k + 1) /\ g = [i \in DOMAIN g |-> g[i]] /\ h = [i \in DOMAIN h |-> h[i]]
    OBVIOUS
  <2>5. \A i \in 0..(k + 1) : h[i] = IF i = 0 THEN <<>> ELSE IF i \in T THEN Append(g[i - 1], s[i]) ELSE g[i - 1]
    OBVIOUS
  <2>a. (k + 1) - 1 = k
    OBVIOUS
  <2> HIDE DEF g, h
  <2>6. ASSUME NEW i \in 0..(k + 1) PROVE g[i] = h[i]
    <3>1. CASE i = k + 1
      BY <2>2, <2>5, <2>a, <3>1
    <3>2. CASE i # k + 1
      <4>1. i \in 0..k /\ (i # 0 => i - 1 \in 0..k)
        BY <3>2
      <4> QED
        BY <2>2, <2>3, <2>5, <4>1
    <3> QED
      BY <3>1, <3>2
  <2>7. g = h
    BY <2>4, <2>6
  <2>8. Filters(g, s, T, k + 1)
    BY <2>7 DEF Filters, h
  <2>9. k + 1 \in 0..n
    OBVIOUS
  <2> QED
    BY <2>8, <2>9
<1> HIDE DEF P
<1>3. 0..n \subseteq P
  BY <1>1, <1>2, Climbs
<1>4. n \in P
  BY <1>3
<1> QED
  BY <1>4 DEF P

\* The members at the given positions, no more of them than there are, and one
\* if there is a position.
LEMMA FilteredHas ==
  ASSUME NEW S, NEW s \in Seq(S), NEW T \in SUBSET DOMAIN s
  PROVE  /\ Filtered(s, T) \in Seq(S) /\ Len(Filtered(s, T)) <= Len(s)
         /\ \A i \in T : \E j \in DOMAIN Filtered(s, T) : Filtered(s, T)[j] = s[i]
         /\ \A j \in DOMAIN Filtered(s, T) : \E i \in T : Filtered(s, T)[j] = s[i]
<1> DEFINE n == Len(s)
           f == CHOOSE g : Filters(g, s, T, n)
           P == {k \in 0..n : /\ f[k] \in Seq(S) /\ Len(f[k]) <= k
                              /\ \A i \in T : i <= k => \E j \in 1..Len(f[k]) : f[k][j] = s[i]
                              /\ \A j \in 1..Len(f[k]) : \E i \in T : f[k][j] = s[i]}
<1>1. n \in Nat /\ DOMAIN s = 1..n
  OBVIOUS
<1>2. Filters(f, s, T, n)
  BY <1>1, FilterExists
<1>3. Filtered(s, T) = f[n]
  BY DEF Filtered, Filters
<1> HIDE DEF f, n
<1>4. \A i \in 0..n : f[i] = IF i = 0 THEN <<>> ELSE IF i \in T THEN Append(f[i - 1], s[i]) ELSE f[i - 1]
  BY <1>2 DEF Filters
<1>5. 0 \in P
  <2>1. 0 \in 0..n /\ f[0] = <<>>
    BY <1>1, <1>4
  <2>2. f[0] \in Seq(S) /\ Len(f[0]) = 0
    BY <2>1
  <2>3. \A i \in T : ~(i <= 0)
    BY <1>1
  <2>4. 1..Len(f[0]) = {} /\ Len(f[0]) <= 0
    BY <2>2
  <2>5. \A j \in 1..Len(f[0]) : \E i \in T : f[0][j] = s[i]
    BY <2>4
  <2>6. \A i \in T : i <= 0 => \E j \in 1..Len(f[0]) : f[0][j] = s[i]
    BY <2>3
  <2> QED
    BY <2>1, <2>2, <2>4, <2>5, <2>6, Zenon
<1>6. ASSUME NEW k \in 0..(n - 1), k \in P PROVE k + 1 \in P
  <2>1. /\ f[k] \in Seq(S) /\ Len(f[k]) <= k
        /\ \A i \in T : i <= k => \E j \in 1..Len(f[k]) : f[k][j] = s[i]
        /\ \A j \in 1..Len(f[k]) : \E i \in T : f[k][j] = s[i]
    BY <1>6
  <2>2. k + 1 \in 0..n /\ k + 1 \in DOMAIN s /\ (k + 1) - 1 = k /\ k + 1 # 0 /\ k \in Nat
    BY <1>1
  <2>3. CASE k + 1 \in T
    <3>1. f[k + 1] = Append(f[k], s[k + 1])
      BY <1>4, <2>2, <2>3
    <3>2. PICK c \in S : c = s[k + 1]
      BY <2>2
    <3>3. PICK q \in Seq(S) : q = f[k]
      BY <2>1
    <3>4. /\ Append(q, c) \in Seq(S) /\ Len(Append(q, c)) = Len(q) + 1 /\ Append(q, c)[Len(q) + 1] = c
          /\ \A j \in 1..Len(q) : Append(q, c)[j] = q[j]
      BY AppendProperties
    <3>5. ASSUME NEW i \in T, i <= k + 1 PROVE \E j \in 1..(Len(q) + 1) : Append(q, c)[j] = s[i]
      <4>1. CASE i = k + 1
        <5>1. Len(q) + 1 \in 1..(Len(q) + 1)
          OBVIOUS
        <5> QED
          BY <3>2, <3>4, <4>1, <5>1
      <4>2. CASE i # k + 1
        <5>1. i <= k
          BY <1>1, <2>2, <3>5, <4>2
        <5>2. PICK j \in 1..Len(q) : q[j] = s[i]
          BY <2>1, <3>3, <5>1
        <5> QED
          BY <3>4, <5>2
      <4> QED
        BY <4>1, <4>2
    <3>6. ASSUME NEW j \in 1..(Len(q) + 1) PROVE \E i \in T : Append(q, c)[j] = s[i]
      <4>1. CASE j = Len(q) + 1
        BY <2>3, <3>2, <3>4, <4>1
      <4>2. CASE j # Len(q) + 1
        BY <2>1, <3>3, <3>4, <4>2
      <4> QED
        BY <4>1, <4>2
    <3>7. Len(q) + 1 <= k + 1
      BY <2>1, <2>2, <3>3
    <3>8. f[k + 1] = Append(q, c)
      BY <3>1, <3>2, <3>3
    <3>9. f[k + 1] \in Seq(S) /\ Len(f[k + 1]) = Len(q) + 1
      BY <3>4, <3>8
    <3>10. \A i \in T : i <= k + 1 => \E j \in 1..Len(f[k + 1]) : f[k + 1][j] = s[i]
      BY <3>5, <3>8, <3>9, Zenon
    <3>11. \A j \in 1..Len(f[k + 1]) : \E i \in T : f[k + 1][j] = s[i]
      BY <3>6, <3>8, <3>9, Zenon
    <3> QED
      BY <2>2, <3>7, <3>9, <3>10, <3>11
  <2>4. CASE k + 1 \notin T
    <3>1. f[k + 1] = f[k]
      BY <1>4, <2>2, <2>4
    <3>2. \A i \in T : i <= k + 1 => i <= k
      BY <1>1, <2>2, <2>4
    <3>3. Len(f[k]) <= k + 1
      BY <2>1, <2>2
    <3> QED
      BY <2>1, <2>2, <3>1, <3>2, <3>3
  <2> QED
    BY <2>3, <2>4
<1> HIDE DEF P
<1>7. n \in P
  <2>1. 0..n \subseteq P
    BY <1>1, <1>5, <1>6, Climbs
  <2> QED
    BY <1>1, <2>1
<1>8. /\ f[n] \in Seq(S) /\ Len(f[n]) <= n
      /\ \A i \in T : i <= n => \E j \in 1..Len(f[n]) : f[n][j] = s[i]
      /\ \A j \in 1..Len(f[n]) : \E i \in T : f[n][j] = s[i]
  BY <1>7 DEF P
<1>9. \A i \in T : i <= n
  BY <1>1
<1>10. DOMAIN f[n] = 1..Len(f[n])
  BY <1>8
<1> QED
  BY <1>3, <1>8, <1>9, <1>10 DEF n

\* What the chain commits to, as its definition says it.
Commits(f, m, n) ==
  f = [i \in 1..n |-> IF i = 1 THEN m.root ELSE IF f[i - 1] = Zero THEN Zero ELSE f[i - 1][1]]

LEMMA CommittedIs ==
  ASSUME NEW m, Len(m.layers) \in Nat
  PROVE  \A i \in 1..(Len(m.layers) + 1) : Committed(m)[i] =
           IF i = 1 THEN m.root ELSE IF Committed(m)[i - 1] = Zero THEN Zero ELSE Committed(m)[i - 1][1]
<1> DEFINE n == Len(m.layers) + 1
           P == {k \in 0..n : \E f : Commits(f, m, k)}
<1>1. n \in Nat
  OBVIOUS
<1>2. Committed(m) = CHOOSE f : Commits(f, m, n)
  BY DEF Committed, Commits
<1> HIDE DEF n
<1>3. 0 \in P
  <2>1. Commits([i \in 1..0 |-> Zero], m, 0)
    BY DEF Commits
  <2> QED
    BY <1>1, <2>1
<1>4. ASSUME NEW k \in 0..(n - 1), k \in P PROVE k + 1 \in P
  <2>1. PICK f : Commits(f, m, k)
    BY <1>4
  <2> DEFINE Next1(g, i) == IF i = 1 THEN m.root ELSE IF g[i - 1] = Zero THEN Zero ELSE g[i - 1][1]
             g == [i \in 1..(k + 1) |-> IF i = k + 1 THEN Next1(f, i) ELSE f[i]]
             h == [i \in 1..(k + 1) |-> Next1(g, i)]
  <2>2. g[k + 1] = Next1(f, k + 1) /\ \A i \in 1..k : g[i] = f[i]
    BY <1>1
  <2>3. \A i \in 1..k : f[i] = Next1(f, i)
    BY <2>1 DEF Commits
  <2>4. DOMAIN g = 1..(k + 1) /\ DOMAIN h = 1..(k + 1) /\ g = [i \in DOMAIN g |-> g[i]] /\ h = [i \in DOMAIN h |-> h[i]]
    OBVIOUS
  <2>5. \A i \in 1..(k + 1) : h[i] = Next1(g, i)
    OBVIOUS
  <2>6. k + 1 \in 0..n /\ k \in Nat
    BY <1>1
  <2> HIDE DEF g, h
  <2>7. ASSUME NEW i \in 1..(k + 1) PROVE g[i] = h[i]
    <3>1. i # 1 => g[i - 1] = f[i - 1]
      <4>1. i # 1 => i - 1 \in 1..k
        BY <2>6
      <4> QED
        BY <2>2, <4>1
    <3>2. Next1(g, i) = Next1(f, i)
      BY <3>1
    <3>3. g[i] = Next1(f, i)
      <4>1. i # k + 1 => i \in 1..k
        BY <2>6
      <4> QED
        BY <2>2, <2>3, <4>1
    <3> QED
      BY <2>5, <3>2, <3>3
  <2>8. g = h
    BY <2>4, <2>7
  <2>9. Commits(g, m, k + 1)
    BY <2>8 DEF Commits, h
  <2> QED
    BY <2>6, <2>9
<1> HIDE DEF P
<1>5. n \in P
  <2>1. 0..n \subseteq P
    BY <1>1, <1>3, <1>4, Climbs
  <2> QED
    BY <1>1, <2>1
<1>6. Commits(Committed(m), m, n)
  BY <1>2, <1>5 DEF P
<1> QED
  BY <1>6 DEF Commits, n

-----------------------------------------------------------------------------
(***************************************************************************)
(* The invariant                                                           *)
(***************************************************************************)

\* What a file may hold.
Bytes == UNION {UNION {{n, Twin(n)} : n \in DOMAIN w.store} : w \in Worlds}

Fetching == phase \in {"index", "manifest"}
Held == phase \in {"verify", "copy"}

Types ==
  /\ world \in Worlds
  /\ phase \in {"reference", "index", "manifest", "verify", "discover", "copy", "done", "failed"}
  /\ changes \in 0..world.limit
  /\ \A n \in DOMAIN store : n[2] \in 1..2 /\ n \in Bytes /\ Twin(n) \in Bytes /\ store[n] \in Seq(Bytes)
  /\ file # None => file \in [name : Bytes, content : Seq(Bytes), size : Nat] /\ file.name[2] \in 1..2
  /\ phase \in {"reference", "discover", "done"} => file = None
  /\ got \in Seq(Bytes)
  /\ Fetching /\ file # None => file.size <= MaxMetadata
  /\ image = None => Len(got) <= MaxMetadata + 1
  /\ header # None => choice # None /\ header.v \in todo /\ header.record.salt # Malformed
  /\ choice \notin {None, <<>>} => choice = <<choice[1]>> /\ choice[1].salt # Malformed

\* The documents that were captured hang together.
Chosen ==
  /\ pin \in DOMAIN world.indexes
  /\ \E i \in DOMAIN world.indexes[pin] : Candidates(world.indexes[pin]) = {i} /\ selected = world.indexes[pin][i]

Pinned(m) ==
  \E i \in DOMAIN world.indexes[pin] :
    /\ pin \in DOMAIN world.indexes /\ Candidates(world.indexes[pin]) = {i}
    /\ world.indexes[pin][i].digest \in DOMAIN world.manifests
    /\ m = world.manifests[world.indexes[pin][i].digest]

Documents ==
  /\ phase \in {"reference", "index", "manifest"} => image = None
  /\ phase \in {"verify", "discover", "copy", "done"} => image # None
  /\ phase = "index" /\ file # None => file.name = pin
  /\ phase = "manifest" => Chosen
  /\ phase = "manifest" /\ file # None => file.name = selected.digest
  /\ image # None => Pinned(image) /\ Validate(image)

\* What is copied, what was received, and what is still in the queue.
Blobs(m) == Range(m.layers) \cup {m.config}
Digests(s) == {s[i].digest : i \in DOMAIN s}
Received(n, use) == \E r \in receipts : r.name = n /\ r.for = use

Copies ==
  /\ ReceiptsAreReal
  /\ Held /\ file # None => queue # <<>> /\ file.name = Head(queue).digest
  /\ Held => queue \in Seq(Blobs(image)) /\ \A n \in Digests(Small(image)) : n \in Digests(queue) \/ Received(n, phase)
  /\ phase \in {"discover", "copy", "done"} => \A n \in Digests(Small(image)) : Received(n, "verify")
  /\ phase = "done" => \A n \in Digests(Small(image)) : Received(n, "copy")

\* The chain, from its tip down to where it has been found.
Linked ==
  /\ IsSequence(found)
  /\ \A i \in 1..Len(found) : <<found[i].salt, found[i].block>> = IF i = 1 THEN image.root ELSE found[i - 1].salt

Descending ==
  /\ Linked /\ image.root # None
  /\ left \in Seq(Blobs(image)) /\ Len(found) + Len(left) = Len(Scutes(image))
  /\ \A j \in 1..Len(left) : left[j] = Scutes(image)[Len(left) + 1 - j]
  /\ parent = IF Len(found) = 0 THEN image.root ELSE found[Len(found)].salt
  /\ choice \notin {None, <<>>} => <<choice[1].salt, choice[1].block>> = parent

Chained ==
  /\ phase \in {"reference", "index", "manifest", "verify"} => found = <<>> /\ choice = None /\ header = None
  /\ phase = "discover" => Descending
  /\ phase \in {"copy", "done"} /\ image.root # None =>
       Linked /\ Len(found) = Len(Scutes(image)) /\ Len(found) > 0 /\ found[Len(found)].salt = Zero

\* A cache that holds what the pin leads to, as long as nobody writes to it.
SoundPin(p) ==
  /\ p \in DOMAIN world.indexes /\ Holds(p, Len(world.store[p]))
  /\ \E i \in DOMAIN world.indexes[p] :
       LET d == world.indexes[p][i]
       IN  /\ Candidates(world.indexes[p]) = {i} /\ d.manifest /\ d.digest \in DOMAIN world.manifests
           /\ Holds(d.digest, d.size) /\ SoundImage(world.manifests[d.digest])

\* What the bytes and the hash of a prepared variant are.
Decoded(layer, v) ==
  IF layer.kind = "scute" /\ layer.size = v.size THEN Whole(layer.digest)
  ELSE world.prepared[layer.digest].deflated[v.size]
HashOf(layer, v) == <<v.salt, IF v.single THEN Decoded(layer, v)[1] ELSE v.block>>
Variants == world.prepared[Layer.digest].variants
Right == {v \in DOMAIN Variants : Variants[v].sha256 /\ HashOf(Layer, Variants[v]) = parent}

Discovering ==
  /\ parent = Committed(image)[Len(found) + 1]
  /\ left # <<>> /\ choice # None =>
       /\ todo \subseteq DOMAIN Variants
       /\ header # None => header.v \in todo /\ header.record = Variants[header.v] /\ Variants[header.v].sha256
       /\ choice = <<>> => Right \subseteq todo
       /\ choice # <<>> => Right \cap todo = {}

Serves ==
  /\ store = world.store /\ prepared = world.prepared /\ phase # "failed"
  /\ phase # "reference" => SoundPin(pin)
  /\ file # None => file.content = Whole(file.name) /\ file.size = 2
  /\ Held => \A i \in DOMAIN queue : Holds(queue[i].digest, queue[i].size)
  /\ Held /\ file # None => Len(got) <= 2 /\ \A k \in 1..Len(got) : got[k] = file.name
  /\ phase = "discover" => Discovering

Inv == Types /\ Documents /\ Copies /\ Chained /\ (Sound /\ changes = 0 => Serves)

-----------------------------------------------------------------------------
(* What documents are *)

LEMMA WorldIs ==
  ASSUME world \in Worlds
  PROVE  /\ IsSequence(world.tags) /\ \A n \in DOMAIN world.indexes : IsSequence(world.indexes[n])
         /\ \A n \in DOMAIN world.manifests : world.manifests[n] # None /\ IsSequence(world.manifests[n].layers)
         /\ \A n \in DOMAIN world.store :
              n[2] \in 1..2 /\ n \in Bytes /\ Twin(n) \in Bytes /\ world.store[n] \in Seq(Bytes)
         /\ \A s \in DOMAIN world.prepared : IsSequence(world.prepared[s].variants)
         /\ world.limit \in Nat /\ MaxMetadata \in Nat /\ MaxMetadata >= 2
  <1>1. DOMAIN world.store \subseteq Bytes
    BY DEF Bytes
  <1>2. \A n \in DOMAIN world.store : n \in Bytes /\ Twin(n) \in Bytes
    BY DEF Bytes
  <1>3. \A n \in DOMAIN world.store : n[2] \in 1..2 /\ world.store[n] \in Seq(DOMAIN world.store)
    BY WorldsAssumption DEF WorldsAssumption
  <1>4. \A n \in DOMAIN world.store : world.store[n] \in Seq(Bytes)
    BY <1>1, <1>3
  <1>5. /\ IsSequence(world.tags) /\ \A n \in DOMAIN world.indexes : IsSequence(world.indexes[n])
        /\ \A n \in DOMAIN world.manifests : world.manifests[n] # None /\ IsSequence(world.manifests[n].layers)
        /\ \A s \in DOMAIN world.prepared : IsSequence(world.prepared[s].variants)
    BY WorldsAssumption DEF WorldsAssumption
  <1>6. world.limit \in Nat /\ MaxMetadata \in Nat /\ MaxMetadata >= 2
    BY SizesAssumption DEF SizesAssumption
  <1> QED
    BY <1>2, <1>3, <1>4, <1>5, <1>6

LEMMA SequenceIs == ASSUME NEW s, IsSequence(s)
                    PROVE  Len(s) \in Nat /\ DOMAIN s = 1..Len(s) /\ s \in Seq(Range(s)) /\ \A i \in DOMAIN s : s[i] \in Range(s)
  <1>1. s \in Seq(Range(s))
    BY DEF IsSequence
  <1> QED
    BY <1>1 DEF Range

LEMMA ExtendedSequence ==
  ASSUME NEW s, NEW c, IsSequence(s)
  PROVE  /\ IsSequence(Append(s, c)) /\ Len(Append(s, c)) = Len(s) + 1 /\ Append(s, c)[Len(s) + 1] = c
         /\ \A i \in 1..Len(s) : Append(s, c)[i] = s[i]
  <1> DEFINE S == Range(s) \cup {c}
             a == Append(s, c)
  <1>1. s \in Seq(S) /\ c \in S
    BY SequenceIs
  <1> HIDE DEF S
  <1>2. /\ a \in Seq(S) /\ Len(a) = Len(s) + 1 /\ a[Len(s) + 1] = c
        /\ \A i \in 1..Len(s) : a[i] = s[i]
    BY <1>1, AppendProperties
  <1> HIDE DEF a
  <1>3. Len(a) \in Nat /\ DOMAIN a = 1..Len(a) /\ \A i \in 1..Len(a) : a[i] \in Range(a)
    BY <1>2 DEF Range
  <1>4. a \in Seq(Range(a))
    <2>1. a = [i \in 1..Len(a) |-> a[i]]
      BY <1>2
    <2> QED
      BY <1>3, <2>1
  <1> QED
    BY <1>2, <1>4 DEF IsSequence, a

LEMMA ManifestIs ==
  ASSUME NEW m, IsSequence(m.layers)
  PROVE  /\ Len(m.layers) \in Nat
         /\ Scutes(m) \in Seq(Blobs(m)) /\ Len(Scutes(m)) <= Len(m.layers) /\ Len(Scutes(m)) \in Nat
         /\ HasScutes(m) => Len(Scutes(m)) > 0
         /\ \A j \in DOMAIN Scutes(m) : \E i \in DOMAIN m.layers : Scutes(m)[j] = m.layers[i]
         /\ Small(m) \in Seq(Blobs(m))
         /\ m.config.kind # "empty" => \E j \in DOMAIN Small(m) : Small(m)[j] = m.config
         /\ \A i \in DOMAIN m.layers : ~IsScute(m.layers[i]) => \E j \in DOMAIN Small(m) : Small(m)[j] = m.layers[i]
         /\ \A j \in DOMAIN Small(m) :
              (m.config.kind # "empty" /\ Small(m)[j] = m.config) \/ \E i \in DOMAIN m.layers : Small(m)[j] = m.layers[i]
  <1> DEFINE S == Range(m.layers)
             T == {i \in DOMAIN m.layers : IsScute(m.layers[i])}
             U == {i \in DOMAIN m.layers : ~IsScute(m.layers[i])}
             c == IF m.config.kind = "empty" THEN <<>> ELSE <<m.config>>
             rest == Filtered(m.layers, U)
  <1>1. m.layers \in Seq(S) /\ Len(m.layers) \in Nat
    BY SequenceIs
  <1>2. T \in SUBSET DOMAIN m.layers /\ U \in SUBSET DOMAIN m.layers /\ S \subseteq Blobs(m) /\ m.config \in Blobs(m)
    BY DEF Blobs
  <1>3. Scutes(m) = Filtered(m.layers, T) /\ Small(m) = c \o rest
    BY DEF Scutes, Small
  <1>4. HasScutes(m) => T # {}
    BY DEF HasScutes
  <1>5. \A i \in DOMAIN m.layers : ~IsScute(m.layers[i]) => i \in U
    OBVIOUS
  <1> HIDE DEF S, T, U, rest
  <1>6. /\ Scutes(m) \in Seq(S) /\ Len(Scutes(m)) <= Len(m.layers)
        /\ \A i \in T : \E j \in DOMAIN Scutes(m) : Scutes(m)[j] = m.layers[i]
        /\ \A j \in DOMAIN Scutes(m) : \E i \in T : Scutes(m)[j] = m.layers[i]
    BY <1>1, <1>2, <1>3, FilteredHas
  <1>7. /\ rest \in Seq(S)
        /\ \A i \in U : \E j \in DOMAIN rest : rest[j] = m.layers[i]
        /\ \A j \in DOMAIN rest : \E i \in U : rest[j] = m.layers[i]
    BY <1>1, <1>2, FilteredHas DEF rest
  <1>8. Scutes(m) \in Seq(Blobs(m)) /\ Len(Scutes(m)) \in Nat
    BY <1>2, <1>6
  <1>9. HasScutes(m) => Len(Scutes(m)) > 0
    BY <1>4, <1>6, <1>8
  <1>10. c \in Seq(Blobs(m)) /\ rest \in Seq(Blobs(m)) /\ Len(c) \in {0, 1}
    BY <1>2, <1>7
  <1>11. m.config.kind # "empty" => c = <<m.config>> /\ Len(c) = 1 /\ c[1] = m.config
    OBVIOUS
  <1>12. m.config.kind = "empty" => Len(c) = 0
    OBVIOUS
  <1> HIDE DEF c
  <1>13. /\ c \o rest \in Seq(Blobs(m)) /\ Len(c \o rest) = Len(c) + Len(rest)
         /\ \A i \in 1..Len(c) : (c \o rest)[i] = c[i]
         /\ \A i \in 1..Len(rest) : (c \o rest)[Len(c) + i] = rest[i]
    BY <1>10
  <1>14. PICK small : small = c \o rest
    OBVIOUS
  <1>15. /\ small \in Seq(Blobs(m)) /\ DOMAIN small = 1..(Len(c) + Len(rest))
         /\ \A i \in 1..Len(c) : small[i] = c[i]
         /\ \A i \in 1..Len(rest) : small[Len(c) + i] = rest[i]
         /\ Len(rest) \in Nat /\ DOMAIN rest = 1..Len(rest)
    BY <1>10, <1>13, <1>14
  <1>16. m.config.kind # "empty" => \E j \in DOMAIN small : small[j] = m.config
    <2> SUFFICES ASSUME m.config.kind # "empty" PROVE \E j \in DOMAIN small : small[j] = m.config
      OBVIOUS
    <2>a. PICK k \in Nat : k = Len(rest)
      BY <1>15
    <2>b. 1 \in 1..(1 + k)
      OBVIOUS
    <2>1. 1 \in DOMAIN small /\ 1 \in 1..Len(c)
      <3>1. Len(c) = 1
        BY <1>11
      <3>2. DOMAIN small = 1..(Len(c) + Len(rest))
        BY <1>15
      <3> QED
        BY <2>a, <2>b, <3>1, <3>2
    <2> QED
      BY <1>11, <1>15, <2>1
  <1>17. ASSUME NEW i \in U PROVE \E j \in DOMAIN small : small[j] = m.layers[i]
    <2>1. PICK j \in 1..Len(rest) : rest[j] = m.layers[i]
      BY <1>7, <1>15
    <2>2. Len(c) + j \in DOMAIN small
      BY <1>10, <1>15
    <2> QED
      BY <1>15, <2>1, <2>2
  <1>18. ASSUME NEW j \in DOMAIN small
         PROVE  (m.config.kind # "empty" /\ small[j] = m.config) \/ \E i \in DOMAIN m.layers : small[j] = m.layers[i]
    <2>1. CASE j <= Len(c)
      <3>1. m.config.kind # "empty" /\ j = 1
        BY <1>10, <1>11, <1>12, <1>15, <2>1
      <3> QED
        BY <1>11, <1>15, <3>1
    <2>2. CASE ~(j <= Len(c))
      <3> DEFINE k == j - Len(c)
      <3>1. k \in 1..Len(rest) /\ Len(c) + k = j
        BY <1>10, <1>15, <2>2
      <3> HIDE DEF k
      <3>2. small[j] = rest[k] /\ k \in DOMAIN rest
        BY <1>15, <3>1
      <3>3. PICK i \in U : rest[k] = m.layers[i]
        BY <1>7, <3>2
      <3> QED
        BY <1>2, <3>2, <3>3
    <2> QED
      BY <2>1, <2>2
  <1>19. \A j \in DOMAIN Scutes(m) : \E i \in DOMAIN m.layers : Scutes(m)[j] = m.layers[i]
    BY <1>2, <1>6
  <1>20. Small(m) = small
    BY <1>3, <1>14
  <1>21. \A i \in DOMAIN m.layers : ~IsScute(m.layers[i]) => \E j \in DOMAIN small : small[j] = m.layers[i]
    BY <1>5, <1>17
  <1>22. Len(m.layers) \in Nat /\ Scutes(m) \in Seq(Blobs(m)) /\ Len(Scutes(m)) <= Len(m.layers) /\ Len(Scutes(m)) \in Nat
    BY <1>1, <1>6, <1>8
  <1>23. small \in Seq(Blobs(m))
    BY <1>15
  <1> HIDE DEF U
  <1> QED
    BY <1>9, <1>16, <1>18, <1>19, <1>20, <1>21, <1>22, <1>23, Zenon

-----------------------------------------------------------------------------
(* Its steps: types *)

LEMMA Starts == ASSUME Init PROVE Inv
  <1>1. world \in Worlds
    BY DEF Init
  <1>2. Types
    <2>1. \A n \in DOMAIN store : n[2] \in 1..2 /\ n \in Bytes /\ Twin(n) \in Bytes /\ store[n] \in Seq(Bytes)
      BY <1>1, WorldIs DEF Init
    <2>2. changes \in 0..world.limit /\ got \in Seq(Bytes) /\ Len(got) <= MaxMetadata + 1
      BY <1>1, WorldIs DEF Init
    <2> QED
      BY <1>1, <2>1, <2>2 DEF Init, Types, Fetching
  <1>3. Documents
    BY DEF Init, Documents
  <1>4. Copies
    BY DEF Init, Copies, ReceiptsAreReal, Held
  <1>5. Chained
    BY DEF Init, Chained
  <1>6. Serves
    BY DEF Init, Serves, Held
  <1> QED
    BY <1>2, <1>3, <1>4, <1>5, <1>6 DEF Inv

\* What a file is overwritten with are its bytes and its twin's.
LEMMA ContentsTyped ==
  ASSUME NEW n, n \in Bytes, Twin(n) \in Bytes
  PROVE  \A c \in Contents(n) : c \in Seq(Bytes)
  <1>1. PICK t \in Bytes : t = Twin(n)
    OBVIOUS
  <1>2. \A a, b \in Bytes : /\ <<a>> \in Seq(Bytes) /\ <<a, b>> \in Seq(Bytes) /\ <<a, a, a>> \in Seq(Bytes)
                          /\ <<a, a, a, a>> \in Seq(Bytes)
    OBVIOUS
  <1>3. Contents(n) = {<<n>>, <<n, t>>, <<t, t>>, <<n, n, n>>, <<n, n, n, n>>, <<n, n>>}
    BY <1>1 DEF Contents, Whole
  <1> QED
    BY <1>1, <1>2, <1>3

\* What is captured of a file, and how much of it.
LEMMA CaptureTyped ==
  ASSUME file \in [name : Bytes, content : Seq(Bytes), size : Nat]
  PROVE  Capture \in Seq(Bytes) /\ Len(Capture) <= file.size + 1
  <1>1. PICK s \in Seq(Bytes), k \in Nat : s = file.content /\ k = Least(file.size + 1, Len(s)) /\ k <= Len(s) /\ k <= file.size + 1
    BY DEF Least
  <1>2. Capture = SubSeq(s, 1, k)
    BY <1>1 DEF Capture
  <1>3. SubSeq(s, 1, k) \in Seq(Bytes) /\ Len(SubSeq(s, 1, k)) = k
    BY <1>1
  <1> QED
    BY <1>1, <1>2, <1>3

LEMMA OpenTyped ==
  ASSUME Types, NEW n \in DOMAIN store, NEW size, size = Len(store[n])
  PROVE  LET f == [name |-> n, content |-> store[n], size |-> size]
         IN  f \in [name : Bytes, content : Seq(Bytes), size : Nat] /\ f.name[2] \in 1..2
  BY DEF Types

LEMMA TypesKept == ASSUME Types, Documents, [Next]_vars PROVE Types'
  <1>1. CASE UNCHANGED vars
    BY <1>1 DEF Types, vars, others, reading, metadata, blobs, chain, Fetching
  <1>2. CASE Change
    <2>a. PICK n \in DOMAIN store : \E c \in Contents(n) :
            /\ store' = [store EXCEPT ![n] = c]
            /\ \/ file # None /\ file.name = n /\ file' = [file EXCEPT !.content = c]
               \/ UNCHANGED file
      BY <1>2 DEF Change
    <2>1. PICK c \in Contents(n) :
            /\ store' = [store EXCEPT ![n] = c]
            /\ \/ file # None /\ file.name = n /\ file' = [file EXCEPT !.content = c]
               \/ UNCHANGED file
      BY <2>a
    <2>2. c \in Seq(Bytes)
      BY <2>1, ContentsTyped DEF Types
    <2>3. \A m \in DOMAIN store' : m[2] \in 1..2 /\ m \in Bytes /\ Twin(m) \in Bytes /\ store'[m] \in Seq(Bytes)
      BY <2>1, <2>2 DEF Types
    <2>4. file' # None => file' \in [name : Bytes, content : Seq(Bytes), size : Nat] /\ file'.name[2] \in 1..2
                          /\ file # None /\ file'.size = file.size
      BY <2>1, <2>2 DEF Types
    <2>5. file = None => file' = None
      BY <2>1
    <2>6. changes' \in 0..world.limit
      BY <1>2, WorldIs DEF Change, Types
    <2> QED
      BY <1>2, <2>3, <2>4, <2>5, <2>6 DEF Change, Types, metadata, blobs, chain, Fetching
  <1>3. CASE Unlink
    <2>1. changes' \in 0..world.limit
      BY <1>3, WorldIs DEF Unlink, Types
    <2>2. \A m \in DOMAIN store' : m \in DOMAIN store /\ store'[m] = store[m]
      BY <1>3 DEF Unlink
    <2> QED
      BY <1>3, <2>1, <2>2 DEF Unlink, Types, reading, metadata, blobs, chain, Fetching
  <1>4. CASE Prepare
    <2>1. changes' \in 0..world.limit
      BY <1>4, WorldIs DEF Prepare, Types
    <2> QED
      BY <1>4, <2>1 DEF Prepare, Types, reading, metadata, blobs, chain, Fetching
  <1>5. CASE Refuse
    BY <1>5 DEF Refuse, Types, others, reading, metadata, blobs, chain, Fetching
  <1>6. CASE CachedIndex
    BY <1>5, <1>6 DEF CachedIndex, Types, others, reading, blobs, chain, Fetching
  <1>7. CASE OpenIndex \/ OpenManifest
    <2>1. PICK n, e : OpenMetadata(n, e)
      BY <1>7 DEF OpenIndex, OpenManifest
    <2>2. CASE ~Refuse
      <3>1. /\ n \in DOMAIN store /\ Len(store[n]) <= MaxMetadata
            /\ file' = [name |-> n, content |-> store[n], size |-> Len(store[n])] /\ got' = <<>>
            /\ UNCHANGED <<world, others, phase, metadata, blobs, chain>>
        BY <2>1, <2>2, WorldIs DEF OpenMetadata, Types
      <3>2. file' \in [name : Bytes, content : Seq(Bytes), size : Nat] /\ file'.name[2] \in 1..2 /\ file'.size <= MaxMetadata
        BY <3>1, OpenTyped
      <3>3. Len(got') <= MaxMetadata + 1 /\ got' \in Seq(Bytes)
        BY <3>1, WorldIs DEF Types
      <3>4. phase \in {"index", "manifest"}
        BY <1>7 DEF OpenIndex, OpenManifest
      <3> QED
        BY <3>1, <3>2, <3>3, <3>4 DEF Types, others, metadata, blobs, chain, Fetching
    <2> QED
      BY <1>5, <2>2
  <1>8. CASE ReadIndex \/ ReadManifest
    <2>1. /\ got' = Capture /\ file' = None /\ file # None /\ Fetching
          /\ phase' \in {"manifest", "verify", "failed"}
          /\ UNCHANGED <<world, others, chain>>
      BY <1>8 DEF ReadIndex, ReadManifest, Fetching
    <2>2. got' \in Seq(Bytes) /\ Len(got') <= MaxMetadata + 1
      <3>1. Capture \in Seq(Bytes) /\ Len(Capture) <= file.size + 1
        BY <2>1, CaptureTyped DEF Types
      <3>2. file.size \in Nat /\ file.size <= MaxMetadata /\ MaxMetadata \in Nat
        BY <2>1, WorldIs DEF Types
      <3>3. Len(Capture) \in Nat
        BY <3>1
      <3> QED
        BY <2>1, <3>1, <3>2, <3>3
    <2> QED
      BY <2>1, <2>2 DEF Types, others, chain, Fetching
  <1>9. CASE OpenBlob
    <2>2. CASE ~Refuse
      <3>1. PICK n : /\ n \in DOMAIN store /\ file' = [name |-> n, content |-> store[n], size |-> Len(store[n])]
                     /\ got' = <<>> /\ UNCHANGED <<world, others, phase, metadata, blobs, chain>>
        BY <1>9, <2>2 DEF OpenBlob
      <3>2. file' \in [name : Bytes, content : Seq(Bytes), size : Nat] /\ file'.name[2] \in 1..2
        BY <3>1, OpenTyped
      <3>3. Len(got') <= MaxMetadata + 1 /\ got' \in Seq(Bytes)
        BY <3>1, WorldIs DEF Types
      <3>4. phase \in {"verify", "copy"}
        BY <1>9 DEF OpenBlob, Copying
      <3> QED
        BY <3>1, <3>2, <3>3, <3>4 DEF Types, others, metadata, blobs, chain, Fetching
    <2> QED
      BY <1>5, <2>2
  <1>10. CASE CopyChunk
    <2>1. CASE ~Refuse
      <3>1. /\ phase \in {"verify", "copy"} /\ file # None /\ ~(Len(file.content) <= Len(got))
            /\ got' = Append(got, file.content[Len(got) + 1])
            /\ UNCHANGED <<world, others, phase, file, metadata, blobs, chain>>
        BY <1>10, <2>1 DEF CopyChunk, Copying
      <3>2. got' \in Seq(Bytes)
        <4>1. PICK s \in Seq(Bytes) : s = file.content
          BY <3>1 DEF Types
        <4>2. got \in Seq(Bytes)
          BY DEF Types
        <4>3. Len(got) + 1 \in 1..Len(s)
          BY <3>1, <4>1, <4>2
        <4>4. s[Len(got) + 1] \in Bytes
          BY <4>1, <4>3
        <4> QED
          BY <3>1, <4>1, <4>2, <4>4
      <3>3. image # None
        BY <3>1 DEF Documents
      <3> QED
        BY <3>1, <3>2, <3>3 DEF Types, others, metadata, blobs, chain, Fetching
    <2> QED
      BY <1>5, <2>1
  <1>11. CASE EndCopy
    <2>1. CASE ~Refuse
      BY <1>11, <2>1 DEF EndCopy, Copying, Types, others, metadata, chain, Fetching
    <2> QED
      BY <1>5, <2>1
  <1>12. CASE Verified
    BY <1>12 DEF Verified, Types, others, metadata, reading, chain, Fetching
  <1>13. CASE Copied
    BY <1>13 DEF Copied, Types, others, metadata, reading, blobs, chain, Fetching
  <1>14. CASE OpenPrepared
    <2>1. CASE ~Refuse
      <3> QED
        BY <1>14, <2>1 DEF OpenPrepared, Types, others, metadata, reading, blobs, Fetching
    <2> QED
      BY <1>5, <2>1

  <1>15. CASE ReadHeader
    <2>1. CASE ~Refuse
      <3>1. PICK v \in todo :
              LET h == prepared[Layer.digest].variants[v]
              IN  IF ~h.sha256 THEN Foreign(v)
                  ELSE IF h.salt = Malformed \/ ~h.extent \/ Len(Data(h)) # h.size \/ h.size = 0
                  THEN phase' = "failed" /\ UNCHANGED <<todo, header>>
                  ELSE header' = [v |-> v, record |-> h] /\ UNCHANGED <<phase, todo>>
        BY <1>15, Zenon DEF ReadHeader
      <3>2. choice # None /\ phase = "discover" /\ UNCHANGED <<world, others, reading, metadata, blobs, left, parent, choice, found>>
        BY <1>15 DEF ReadHeader, Reads
      <3>3. phase' \in {"discover", "failed"}
        BY <3>1, <3>2 DEF Foreign
      <3>4. header' # None => header'.v \in todo' /\ header'.record.salt # Malformed
        BY <3>1, <3>2 DEF Foreign, Skip, Types
      <3> QED
        BY <3>2, <3>3, <3>4 DEF Types, others, metadata, reading, blobs, Fetching
    <2> QED
      BY <1>5, <2>1
  <1>16. CASE ReadRoot
    <2>1. choice # None /\ header # None /\ phase = "discover" /\ UNCHANGED <<world, others, reading, metadata, blobs, left, parent, found>>
      BY <1>16 DEF ReadRoot, Reads
    <2>2. CASE UNCHANGED choice
      BY <1>16, <2>1, <2>2 DEF ReadRoot, Types, Foreign, Skip, others, metadata, reading, blobs, Fetching
    <2>3. CASE ~ UNCHANGED choice
      <3>1. choice' = <<[salt |-> Salt, block |-> RootBlock]>> /\ header' = None /\ phase' = phase
        BY <1>16, <2>3 DEF ReadRoot, Foreign, Skip
      <3>2. choice'[1].salt = header.record.salt
        BY <3>1 DEF Salt
      <3> QED
        BY <2>1, <3>1, <3>2 DEF Types, others, metadata, reading, blobs, Fetching
    <2> QED
      BY <2>2, <2>3
  <1>17. CASE EndLayer
    <2>1. CASE ~Refuse
      BY <1>17, <2>1 DEF EndLayer, Reads, Types, others, metadata, reading, blobs, Fetching
    <2> QED
      BY <1>5, <2>1
  <1>18. CASE EndChain
    <2>1. CASE ~Refuse
      BY <1>18, <2>1 DEF EndChain, Types, others, metadata, reading, chain, Fetching
    <2> QED
      BY <1>5, <2>1
  <1> QED
    BY <1>1, <1>2, <1>3, <1>4, <1>6, <1>7, <1>8, <1>9, <1>10, <1>11, <1>12, <1>13, <1>14, <1>15, <1>16, <1>17, <1>18
       DEF Next, Read

-----------------------------------------------------------------------------
(* Its steps: documents *)

\* Documents that were captured stay what they are.
LEMMA StillPinned ==
  ASSUME UNCHANGED <<world, pin, image>>
  PROVE  (image # None => Pinned(image) /\ Validate(image))' <=> (image # None => Pinned(image) /\ Validate(image))
  BY DEF Pinned, Candidates, Matches

LEMMA StillChosen == ASSUME UNCHANGED <<world, pin, selected>> PROVE Chosen' <=> Chosen
  BY DEF Chosen, Candidates, Matches

\* A step that captures nothing, and opens none but the expected document.
LEMMA DocumentsStay ==
  ASSUME Documents, UNCHANGED <<world, metadata>>, phase' = phase \/ phase' = "failed" \/ phase \in {"verify", "discover", "copy"},
         phase \in {"verify", "discover", "copy"} => phase' \in {"verify", "discover", "copy", "done", "failed"},
         Fetching => (file' = None \/ (file' # None /\ file # None /\ file'.name = file.name))
  PROVE  Documents'
  <1>1. UNCHANGED <<world, pin, selected, image>>
    BY DEF metadata
  <1>2. (image # None => Pinned(image) /\ Validate(image))'
    BY <1>1, StillPinned DEF Documents
  <1>3. Chosen' <=> Chosen
    BY <1>1, StillChosen
  <1> QED
    BY <1>1, <1>2, <1>3 DEF Documents, Fetching

LEMMA WholeNames == ASSUME NEW m, NEW n PROVE Whole(m) = Whole(n) <=> m = n
  BY DEF Whole

\* A file that was authenticated is the one document of its name.
LEMMA NamesOne == ASSUME NEW D, NEW n, Authentic(got'), n \in Names(D) PROVE n = file.name /\ n \in DOMAIN D
  BY WholeNames DEF Names, Authentic

LEMMA DocumentsKept == ASSUME Types, Documents, [Next]_vars PROVE Documents'
  <1>1. CASE UNCHANGED vars
    <2>1. UNCHANGED <<world, metadata, phase, file>>
      BY <1>1 DEF vars, reading
    <2> QED
      BY <2>1, DocumentsStay
  <1>2. CASE Change \/ Unlink \/ Prepare
    <2>1. UNCHANGED <<world, metadata, phase>>
      BY <1>2 DEF Change, Unlink, Prepare
    <2>2. file' = None \/ (file' # None /\ file # None /\ file'.name = file.name)
      <3>1. CASE UNCHANGED file
        BY <3>1
      <3>2. CASE ~ UNCHANGED file
        <4>1. PICK c : file # None /\ file' = [file EXCEPT !.content = c]
          BY <1>2, <3>2 DEF Change, Unlink, Prepare, reading
        <4> QED
          BY <4>1 DEF Types
      <3> QED
        BY <3>1, <3>2
    <2> QED
      BY <2>1, <2>2, DocumentsStay
  <1>3. CASE Refuse
    <2>1. UNCHANGED <<world, metadata, file>> /\ phase' = "failed"
      BY <1>3 DEF Refuse, reading
    <2> QED
      BY <2>1, DocumentsStay DEF Documents, metadata
  <1>4. CASE CachedIndex
    <2>1. CASE ~Refuse
      BY <1>4, <2>1 DEF CachedIndex, Documents, Types, reading
    <2> QED
      BY <1>3, <2>1
  <1>5. CASE OpenIndex \/ OpenManifest
    <2>1. CASE ~Refuse
      <3>1. PICK n, e : OpenMetadata(n, e) /\ (phase = "index" => n = pin) /\ (phase = "manifest" => n = selected.digest)
        BY <1>5 DEF OpenIndex, OpenManifest
      <3>2. file'.name = n /\ UNCHANGED <<world, others, phase, metadata, blobs, chain>>
        BY <2>1, <3>1 DEF OpenMetadata
      <3>3. UNCHANGED <<world, pin, selected, image>>
        BY <3>2 DEF metadata
      <3>4. (image # None => Pinned(image) /\ Validate(image))' /\ (Chosen' <=> Chosen)
        BY <3>3, StillPinned, StillChosen DEF Documents
      <3> QED
        BY <3>1, <3>2, <3>3, <3>4 DEF Documents
    <2> QED
      BY <1>3, <2>1
  <1>6. CASE ReadIndex
    <2>1. phase = "index" /\ file # None /\ file.name = pin /\ image = None /\ file' = None /\ UNCHANGED <<world, pin, image>>
      BY <1>6 DEF ReadIndex, Documents
    <2>2. CASE phase' = "failed"
      BY <2>1, <2>2 DEF Documents
    <2>3. CASE phase' # "failed"
      <3>1. /\ Authentic(got') /\ phase' = "manifest"
            /\ \E n \in Names(world.indexes) : \E i \in DOMAIN world.indexes[n] :
                 Selects(world.indexes[n], i) /\ selected' = world.indexes[n][i]
        BY <1>6, <2>3 DEF ReadIndex
      <3>2. PICK n \in Names(world.indexes) : \E i \in DOMAIN world.indexes[n] :
                   Selects(world.indexes[n], i) /\ selected' = world.indexes[n][i]
        BY <3>1
      <3>3. n = pin /\ pin \in DOMAIN world.indexes
        BY <2>1, <3>1, <3>2, NamesOne
      <3>4. Chosen'
        <4>1. PICK i \in DOMAIN world.indexes[pin] : Candidates(world.indexes[pin]) = {i} /\ selected' = world.indexes[pin][i]
          BY <3>2, <3>3 DEF Selects
        <4>2. Candidates(world.indexes[pin])' = Candidates(world.indexes[pin])
          BY <2>1 DEF Candidates, Matches
        <4> QED
          BY <2>1, <3>3, <4>1, <4>2 DEF Chosen
      <3> QED
        BY <2>1, <3>1, <3>4 DEF Documents
    <2> QED
      BY <2>2, <2>3
  <1>7. CASE ReadManifest
    <2>1. /\ phase = "manifest" /\ file # None /\ file.name = selected.digest /\ image = None /\ Chosen
          /\ file' = None /\ UNCHANGED <<world, pin, selected>>
      BY <1>7 DEF ReadManifest, Documents
    <2>2. CASE phase' = "failed"
      BY <1>7, <2>1, <2>2 DEF ReadManifest, Documents
    <2>3. CASE phase' # "failed"
      <3>1. /\ Authentic(got') /\ phase' = "verify" /\ \E n \in Names(world.manifests) : Validate(world.manifests[n])
            /\ \E n \in Names(world.manifests) : image' = world.manifests[n]
        BY <1>7, <2>3 DEF ReadManifest
      <3>2. PICK n \in Names(world.manifests) : Validate(world.manifests[n])
        BY <3>1
      <3>3. PICK k \in Names(world.manifests) : image' = world.manifests[k]
        BY <3>1
      <3>4. n = selected.digest /\ k = n /\ n \in DOMAIN world.manifests
        BY <2>1, <3>1, <3>2, <3>3, NamesOne
      <3>5. image' # None /\ Validate(image)'
        BY <3>2, <3>3, <3>4, WorldIs DEF Types
      <3>6. Pinned(image)'
        BY <2>1, <3>3, <3>4 DEF Chosen, Pinned, Candidates, Matches
      <3> QED
        BY <2>1, <3>1, <3>5, <3>6 DEF Documents
    <2> QED
      BY <2>2, <2>3
  <1>8. CASE OpenBlob \/ CopyChunk \/ EndCopy \/ Verified \/ Copied \/ OpenPrepared \/ ReadHeader \/ ReadRoot \/ EndLayer \/ EndChain
    <2>1. phase \in {"verify", "discover", "copy"} /\ UNCHANGED <<world, metadata>>
      BY <1>8 DEF OpenBlob, CopyChunk, EndCopy, Verified, Copied, OpenPrepared, ReadHeader, ReadRoot, EndLayer, EndChain,
                  Refuse, Copying, Reads
    <2>2. phase' \in {"verify", "discover", "copy", "done", "failed"}
      BY <1>8, TypesKept DEF OpenBlob, CopyChunk, EndCopy, Verified, Copied, OpenPrepared, ReadHeader, ReadRoot, EndLayer, EndChain,
                  Refuse, Copying, Reads, Foreign
    <2> QED
      BY <2>1, <2>2, DocumentsStay DEF Fetching
  <1> QED
    BY <1>1, <1>2, <1>4, <1>5, <1>6, <1>7, <1>8 DEF Next, Read

-----------------------------------------------------------------------------
(* Its steps: copies *)

LEMMA ImageIs ==
  ASSUME Types, Documents, image # None
  PROVE  IsSequence(image.layers) /\ Small(image) \in Seq(Blobs(image)) /\ Scutes(image) \in Seq(Blobs(image))
  <1>1. IsSequence(image.layers)
    BY WorldIs DEF Types, Documents, Pinned
  <1> QED
    BY <1>1, ManifestIs

LEMMA FirstDigest ==
  ASSUME NEW S, NEW s \in Seq(S), s # <<>>
  PROVE  Tail(s) \in Seq(S) /\ Digests(s) \subseteq {Head(s).digest} \cup Digests(Tail(s))
  <1>1. Tail(s) \in Seq(S) /\ Len(s) \in Nat /\ Len(s) # 0 /\ Len(Tail(s)) = Len(s) - 1 /\ DOMAIN s = 1..Len(s)
    BY EmptySeq
  <1>2. DOMAIN Tail(s) = 1..(Len(s) - 1)
    BY <1>1
  <1>3. ASSUME NEW i \in DOMAIN s, i # 1 PROVE s[i].digest \in Digests(Tail(s))
    <2>1. i - 1 \in DOMAIN Tail(s) /\ Tail(s)[i - 1] = s[i]
      BY <1>1, <1>2, <1>3
    <2> QED
      BY <2>1 DEF Digests
  <1>4. Head(s) = s[1]
    OBVIOUS
  <1> QED
    BY <1>1, <1>3, <1>4 DEF Digests

LEMMA JoinedDigests ==
  ASSUME NEW S, NEW s \in Seq(S), NEW t \in Seq(S)
  PROVE  s \o t \in Seq(S) /\ Digests(s) \subseteq Digests(s \o t)
  <1>1. PICK u : u = s \o t
    OBVIOUS
  <1>2. u \in Seq(S) /\ Len(u) = Len(s) + Len(t) /\ \A i \in 1..Len(s) : u[i] = s[i]
    BY <1>1
  <1>3. \A i \in DOMAIN s : i \in DOMAIN u /\ u[i] = s[i]
    BY <1>2
  <1> QED
    BY <1>1, <1>2, <1>3 DEF Digests

LEMMA CopiesStay ==
  ASSUME Copies, UNCHANGED <<image, blobs>>, phase' = phase \/ phase' = "failed",
         file' = None \/ (file' # None /\ file # None /\ file'.name = file.name)
  PROVE  Copies'
  <1>1. UNCHANGED <<image, queue, receipts>>
    BY DEF blobs
  <1>2. \A n, use : Received(n, use)' <=> Received(n, use)
    BY <1>1 DEF Received
  <1> QED
    BY <1>1, <1>2 DEF Copies, ReceiptsAreReal, Held

LEMMA CopiesKept == ASSUME Types, Documents, Copies, [Next]_vars PROVE Copies'
  <1>1. CASE UNCHANGED vars
    <2>1. UNCHANGED <<image, blobs, phase, file>>
      BY <1>1 DEF vars, reading, metadata
    <2> QED
      BY <2>1, CopiesStay
  <1>2. CASE Change \/ Unlink \/ Prepare
    <2>1. UNCHANGED <<image, blobs, phase>>
      BY <1>2 DEF Change, Unlink, Prepare, metadata
    <2>2. file' = None \/ (file' # None /\ file # None /\ file'.name = file.name)
      <3>1. CASE UNCHANGED file
        BY <3>1
      <3>2. CASE ~ UNCHANGED file
        <4>1. PICK c : file # None /\ file' = [file EXCEPT !.content = c]
          BY <1>2, <3>2 DEF Change, Unlink, Prepare, reading
        <4> QED
          BY <4>1 DEF Types
      <3> QED
        BY <3>1, <3>2
    <2> QED
      BY <2>1, <2>2, CopiesStay
  <1>3. CASE Refuse
    <2>1. UNCHANGED <<image, blobs, file>> /\ phase' = "failed"
      BY <1>3 DEF Refuse, reading, metadata
    <2> QED
      BY <2>1, CopiesStay
  <1>4. CASE CachedIndex \/ OpenIndex \/ OpenManifest \/ ReadIndex
    <2>1. UNCHANGED receipts /\ phase' \in {"index", "manifest", "failed"}
      BY <1>4 DEF CachedIndex, OpenIndex, OpenManifest, ReadIndex, OpenMetadata, Refuse, blobs
    <2> QED
      BY <2>1 DEF Copies, ReceiptsAreReal, Held
  <1>5. CASE ReadManifest
    <2>1. UNCHANGED receipts /\ file' = None /\ phase' \in {"verify", "failed"}
      BY <1>5 DEF ReadManifest
    <2>2. CASE phase' = "failed"
      BY <2>1, <2>2 DEF Copies, ReceiptsAreReal, Held
    <2>3. CASE phase' = "verify"
      <3>1. PICK n \in Names(world.manifests) : image' = world.manifests[n] /\ queue' = Small(image')
        BY <1>5, <2>3 DEF ReadManifest
      <3>2. IsSequence(image'.layers)
        BY <3>1, WorldIs DEF Names, Types
      <3>3. queue' \in Seq(Blobs(image'))
        BY <3>1, <3>2, ManifestIs
      <3> QED
        BY <2>1, <2>3, <3>1, <3>3 DEF Copies, ReceiptsAreReal, Held
    <2> QED
      BY <2>1, <2>2, <2>3
  <1>6. CASE OpenBlob
    <2>1. CASE ~Refuse
      <3>1. /\ queue # <<>> /\ file'.name = Head(queue).digest /\ UNCHANGED <<phase, metadata, blobs>>
        BY <1>6, <2>1 DEF OpenBlob
      <3>2. UNCHANGED <<image, queue, receipts>>
        BY <3>1 DEF metadata, blobs
      <3>3. \A n, use : Received(n, use)' <=> Received(n, use)
        BY <3>2 DEF Received
      <3> QED
        BY <3>1, <3>2, <3>3 DEF Copies, ReceiptsAreReal, Held
    <2> QED
      BY <1>3, <2>1
  <1>7. CASE CopyChunk
    <2>1. CASE ~Refuse
      <3>1. UNCHANGED <<phase, file, metadata, blobs>>
        BY <1>7, <2>1 DEF CopyChunk
      <3> QED
        BY <3>1, CopiesStay DEF metadata
    <2> QED
      BY <1>3, <2>1
  <1>8. CASE EndCopy
    <2>1. CASE ~Refuse
      <3>1. /\ Held /\ file # None /\ got = Whole(file.name) /\ file' = None
            /\ receipts' = receipts \cup {[name |-> file.name, bytes |-> got, for |-> phase]}
            /\ queue' = Tail(queue) /\ UNCHANGED <<phase, image>>
        BY <1>8, <2>1 DEF EndCopy, Copying, Held, SoundCopy, metadata
      <3>2. queue \in Seq(Blobs(image)) /\ queue # <<>> /\ file.name = Head(queue).digest
        BY <3>1 DEF Copies
      <3>3. queue' \in Seq(Blobs(image)) /\ Digests(queue) \subseteq {file.name} \cup Digests(queue')
        BY <3>1, <3>2, FirstDigest
      <3>a. PICK f, u : f = file.name /\ u = phase
        OBVIOUS
      <3>4. Received(f, u)' /\ \A n, use : Received(n, use) => Received(n, use)'
        <4> DEFINE r == [name |-> f, bytes |-> got, for |-> u]
        <4>1. r \in receipts' /\ r.name = f /\ r.for = u
          BY <3>1, <3>a
        <4>2. receipts \subseteq receipts'
          BY <3>1
        <4> HIDE DEF r
        <4>3. Received(f, u)'
          BY <4>1 DEF Received
        <4> QED
          BY <4>2, <4>3 DEF Received
      <3>5. ReceiptsAreReal'
        BY <3>1 DEF Copies, ReceiptsAreReal
      <3>6. \A n \in Digests(Small(image)) : n \in Digests(queue') \/ Received(n, u)'
        BY <3>1, <3>3, <3>4, <3>a DEF Copies
      <3>7. phase \in {"verify", "copy"} /\ (phase = "copy" => \A n \in Digests(Small(image)) : Received(n, "verify")')
        BY <3>1, <3>4 DEF Copies, Held
      <3> QED
        BY <3>1, <3>3, <3>5, <3>6, <3>7, <3>a DEF Copies, Held
    <2> QED
      BY <1>3, <2>1
  <1>9. CASE Verified
    <2>1. phase = "verify" /\ queue = <<>> /\ file' = None /\ UNCHANGED <<image, receipts>> /\ image # None
      BY <1>9 DEF Verified, reading, metadata, Documents
    <2>2. \A n \in Digests(Small(image)) : Received(n, "verify")'
      <3>1. Digests(queue) = {}
        BY <2>1 DEF Digests
      <3> QED
        BY <2>1, <3>1 DEF Copies, Received, Held
    <2>3. phase' = "discover" \/ (phase' = "copy" /\ queue' = Small(image))
      BY <1>9 DEF Verified
    <2>4. Small(image) \in Seq(Blobs(image))
      BY <2>1, ImageIs
    <2> QED
      BY <2>1, <2>2, <2>3, <2>4 DEF Copies, ReceiptsAreReal, Held
  <1>10. CASE Copied
    <2>1. phase = "copy" /\ queue = <<>> /\ phase' = "done" /\ UNCHANGED <<image, receipts>>
      BY <1>10 DEF Copied, blobs, metadata
    <2>2. Digests(queue) = {}
      BY <2>1 DEF Digests
    <2>3. \A n \in Digests(Small(image)) : Received(n, "verify")' /\ Received(n, "copy")'
      BY <2>1, <2>2 DEF Copies, Received, Held
    <2> QED
      BY <2>1, <2>3 DEF Copies, ReceiptsAreReal, Held
  <1>11. CASE OpenPrepared \/ ReadHeader \/ ReadRoot \/ EndLayer
    <2>1. phase = "discover" /\ UNCHANGED <<image, queue, receipts, file>>
      BY <1>11 DEF OpenPrepared, ReadHeader, ReadRoot, EndLayer, Refuse, Reads, reading, metadata, blobs
    <2>2. phase' \in {"discover", "failed"}
      BY <1>11, <2>1 DEF OpenPrepared, ReadHeader, ReadRoot, EndLayer, Refuse, Foreign
    <2>3. UNCHANGED <<image, blobs>>
      BY <2>1 DEF blobs
    <2> QED
      BY <2>1, <2>2, <2>3, CopiesStay
  <1>12. CASE EndChain
    <2>1. CASE ~Refuse
      <3>1. /\ phase = "discover" /\ phase' = "copy" /\ queue' = Small(image) \o Scutes(image) /\ file' = None
            /\ image # None /\ UNCHANGED <<image, receipts>>
        BY <1>12, <2>1 DEF EndChain, reading, metadata, Types, Documents
      <3>2. queue' \in Seq(Blobs(image)) /\ Digests(Small(image)) \subseteq Digests(queue')
        BY <3>1, ImageIs, JoinedDigests
      <3> QED
        BY <3>1, <3>2 DEF Copies, ReceiptsAreReal, Received, Held
    <2> QED
      BY <1>3, <2>1
  <1> QED
    BY <1>1, <1>2, <1>4, <1>5, <1>6, <1>7, <1>8, <1>9, <1>10, <1>11, <1>12 DEF Next, Read

-----------------------------------------------------------------------------
(* Its steps: the chain *)

LEMMA ChainStays ==
  ASSUME Chained, UNCHANGED <<image, found>>, UNCHANGED chain,
         phase' = phase \/ phase' = "failed"
                \/ (phase \in {"reference", "index", "manifest"} /\ phase' \in {"index", "manifest", "verify"})
                \/ (phase = "copy" /\ phase' = "done")
  PROVE  Chained'
  <1>1. (Linked' <=> Linked) /\ (Descending' <=> Descending)
    BY DEF Linked, Descending, chain
  <1> QED
    BY <1>1 DEF Chained, chain

\* A chain that is being read has scutes.
LEMMA HasChain ==
  ASSUME Types, Documents, image # None, image.root # None
  PROVE  Len(Scutes(image)) > 0
  <1>1. IsSequence(image.layers) /\ HasScutes(image)
    BY ImageIs DEF Documents, Validate, RootIsWellFormed
  <1> QED
    BY <1>1, ManifestIs

LEMMA ChainedKept == ASSUME Types, Documents, Chained, [Next]_vars PROVE Chained'
  <1>0. ASSUME UNCHANGED <<image, chain>>,
               phase' = phase \/ phase' = "failed"
                 \/ (phase \in {"reference", "index", "manifest"} /\ phase' \in {"index", "manifest", "verify"})
                 \/ (phase = "copy" /\ phase' = "done")
        PROVE  Chained'
    BY <1>0, ChainStays DEF chain
  <1>1. CASE UNCHANGED vars \/ Change \/ Unlink \/ Prepare
    BY <1>0, <1>1 DEF vars, Change, Unlink, Prepare, metadata
  <1>2. CASE Refuse
    BY <1>0, <1>2 DEF Refuse, metadata
  <1>3. CASE CachedIndex
    BY <1>0, <1>2, <1>3 DEF CachedIndex
  <1>4. CASE OpenIndex \/ OpenManifest \/ OpenBlob
    BY <1>0, <1>2, <1>4 DEF OpenIndex, OpenManifest, OpenMetadata, OpenBlob, metadata
  <1>5. CASE ReadIndex
    BY <1>0, <1>5 DEF ReadIndex
  <1>6. CASE ReadManifest
    <2>1. phase = "manifest" /\ UNCHANGED chain /\ phase' \in {"verify", "failed"}
      BY <1>6 DEF ReadManifest
    <2> QED
      BY <2>1 DEF Chained, chain
  <1>7. CASE CopyChunk \/ EndCopy \/ Copied
    BY <1>0, <1>2, <1>7 DEF CopyChunk, EndCopy, Copied, metadata
  <1>8. CASE Verified
    <2>1. phase = "verify" /\ UNCHANGED <<image, choice, header, found>> /\ found = <<>> /\ choice = None /\ image # None
      BY <1>8 DEF Verified, metadata, Chained, Documents, chain
    <2>2. CASE image.root = None
      BY <1>8, <2>1, <2>2 DEF Verified, Chained
    <2>3. CASE image.root # None
      <3>1. phase' = "discover" /\ left' = Reverse(Scutes(image)) /\ parent' = image.root
        BY <1>8, <2>3 DEF Verified
      <3>2. PICK S, s : s \in Seq(S) /\ s = Scutes(image) /\ S = Blobs(image)
        BY <2>1, ImageIs
      <3>3. Reverse(s) \in Seq(S) /\ Len(Reverse(s)) = Len(s) /\ \A j \in 1..Len(s) : Reverse(s)[j] = s[Len(s) + 1 - j]
        <4>1. Reverse(s) = [i \in 1..Len(s) |-> s[Len(s) - i + 1]]
          BY DEF Reverse
        <4>2. Len(s) \in Nat /\ \A i \in 1..Len(s) : Len(s) - i + 1 \in 1..Len(s) /\ Len(s) - i + 1 = Len(s) + 1 - i
          BY <3>2
        <4>3. \A i \in 1..Len(s) : s[Len(s) - i + 1] \in S
          BY <3>2, <4>2
        <4> QED
          BY <4>1, <4>2, <4>3
      <3>4. IsSequence(<<>>) /\ Len(<<>>) = 0
        BY DEF IsSequence
      <3>5. Linked'
        BY <2>1, <3>4 DEF Linked
      <3>6. Len(found') = 0 /\ Len(left') \in Nat
        BY <2>1, <3>1, <3>2, <3>3, <3>4
      <3>7. left' \in Seq(Blobs(image')) /\ Len(found') + Len(left') = Len(Scutes(image'))
        BY <2>1, <3>1, <3>2, <3>3, <3>6
      <3>8. \A j \in 1..Len(left') : left'[j] = Scutes(image')[Len(left') + 1 - j]
        BY <2>1, <3>1, <3>2, <3>3
      <3>9. Descending'
        BY <2>1, <2>3, <3>1, <3>5, <3>6, <3>7, <3>8 DEF Descending
      <3> QED
        BY <2>1, <3>1, <3>9 DEF Chained
    <2> QED
      BY <2>2, <2>3
  <1>9. CASE OpenPrepared
    <2>1. CASE ~Refuse
      <3>1. phase = "discover" /\ choice' = <<>> /\ UNCHANGED <<phase, image, left, parent, found>>
        BY <1>9, <2>1 DEF OpenPrepared, metadata
      <3>2. Descending'
        BY <3>1 DEF Chained, Descending, Linked
      <3> QED
        BY <3>1, <3>2 DEF Chained
    <2> QED
      BY <1>2, <2>1
  <1>10. CASE ReadHeader
    <2>1. phase = "discover" /\ UNCHANGED <<image, left, parent, choice, found>> /\ phase' \in {"discover", "failed"}
      BY <1>10 DEF ReadHeader, Reads, Foreign, metadata
    <2>2. Descending'
      BY <2>1 DEF Chained, Descending, Linked
    <2> QED
      BY <2>1, <2>2 DEF Chained
  <1>11. CASE ReadRoot
    <2>1. phase = "discover" /\ UNCHANGED <<image, left, parent, found>> /\ phase' \in {"discover", "failed"}
      BY <1>11 DEF ReadRoot, Reads, Foreign, metadata
    <2>2. UNCHANGED choice \/ (<<header.record.salt, RootBlock>> = parent /\ choice' = <<[salt |-> Salt, block |-> RootBlock]>>)
      BY <1>11 DEF ReadRoot
    <2>3. choice' \notin {None, <<>>} => <<choice'[1].salt, choice'[1].block>> = parent
      BY <2>1, <2>2 DEF Chained, Descending, Salt
    <2>4. Descending'
      BY <2>1, <2>3 DEF Chained, Descending, Linked
    <2> QED
      BY <2>1, <2>4 DEF Chained
  <1>12. CASE EndLayer
    <2>1. CASE ~Refuse
      <3>1. /\ phase = "discover" /\ left # <<>> /\ choice # None /\ choice # <<>>
            /\ found' = Append(found, choice[1]) /\ parent' = choice[1].salt
            /\ choice' = None /\ left' = Tail(left) /\ UNCHANGED <<phase, image>>
        BY <1>12, <2>1 DEF EndLayer, Reads, metadata
      <3>2. Descending
        BY <3>1 DEF Chained
      <3>3. /\ IsSequence(found') /\ Len(found') = Len(found) + 1 /\ found'[Len(found) + 1] = choice[1]
            /\ \A i \in 1..Len(found) : found'[i] = found[i]
        BY <3>1, <3>2, ExtendedSequence DEF Descending, Linked
      <3>4. Len(found) \in Nat
        BY <3>2, SequenceIs DEF Descending, Linked
      <3>5. Linked'
        <4>1. ASSUME NEW i \in 1..(Len(found) + 1)
              PROVE  <<found'[i].salt, found'[i].block>> = IF i = 1 THEN image.root ELSE found'[i - 1].salt
          <5>1. CASE i = Len(found) + 1
            <6>1. <<found'[i].salt, found'[i].block>> = parent
              BY <3>1, <3>2, <3>3, <5>1 DEF Descending
            <6>2. CASE Len(found) = 0
              BY <3>2, <5>1, <6>1, <6>2 DEF Descending
            <6>3. CASE Len(found) # 0
              <7>1. i - 1 = Len(found) /\ i # 1 /\ Len(found) \in 1..Len(found)
                BY <3>4, <5>1, <6>3
              <7> QED
                BY <3>2, <3>3, <6>1, <7>1 DEF Descending
            <6> QED
              BY <6>2, <6>3
          <5>2. CASE i # Len(found) + 1
            <6>1. i \in 1..Len(found) /\ (i # 1 => i - 1 \in 1..Len(found))
              BY <3>4, <5>2
            <6> QED
              BY <3>2, <3>3, <6>1 DEF Descending, Linked
          <5> QED
            BY <5>1, <5>2
        <4> QED
          BY <3>1, <3>3, <4>1 DEF Linked
      <3>6. /\ left' \in Seq(Blobs(image)) /\ Len(left') = Len(left) - 1 /\ Len(left) \in Nat \ {0}
            /\ \A j \in 1..(Len(left) - 1) : left'[j] = left[j + 1]
        <4>1. PICK S, s : s \in Seq(S) /\ S = Blobs(image) /\ s = left
          BY <3>2 DEF Descending
        <4>2. /\ Tail(s) \in Seq(S) /\ Len(Tail(s)) = Len(s) - 1 /\ Len(s) \in Nat \ {0}
              /\ \A j \in 1..(Len(s) - 1) : Tail(s)[j] = s[j + 1]
          BY <3>1, <4>1, EmptySeq
        <4> QED
          BY <3>1, <4>1, <4>2
      <3>7. \A j \in 1..Len(left') : left'[j] = Scutes(image)[Len(left') + 1 - j]
        <4>1. ASSUME NEW j \in 1..Len(left') PROVE left'[j] = Scutes(image)[Len(left') + 1 - j]
          <5>1. j + 1 \in 1..Len(left) /\ j \in 1..(Len(left) - 1) /\ Len(left) + 1 - (j + 1) = Len(left') + 1 - j
            BY <3>6
          <5> QED
            BY <3>2, <3>6, <5>1 DEF Descending
        <4> QED
          BY <4>1
      <3>8. Len(found') + Len(left') = Len(Scutes(image)) /\ Len(found') # 0
        <4>1. PICK a \in Nat, b \in Nat \ {0} : a = Len(found) /\ b = Len(left)
          BY <3>4, <3>6
        <4>2. Len(found') = a + 1 /\ Len(left') = b - 1 /\ a + b = Len(Scutes(image))
          BY <3>2, <3>3, <3>6, <4>1 DEF Descending
        <4> QED
          BY <4>1, <4>2
      <3>9. parent' = found'[Len(found')].salt
        BY <3>1, <3>3
      <3>10. Descending'
        BY <3>1, <3>2, <3>5, <3>6, <3>7, <3>8, <3>9 DEF Descending
      <3> QED
        BY <3>1, <3>10 DEF Chained
    <2> QED
      BY <1>2, <2>1
  <1>13. CASE EndChain
    <2>1. CASE ~Refuse
      <3>1. phase = "discover" /\ phase' = "copy" /\ left = <<>> /\ parent = Zero /\ UNCHANGED <<image, found>>
        BY <1>13, <2>1 DEF EndChain, metadata, chain
      <3>2. Descending /\ image # None
        BY <3>1 DEF Chained, Documents
      <3>3. Len(found) = Len(Scutes(image))
        <4>1. Len(left) = 0 /\ Len(found) \in Nat
          BY <3>1, <3>2, SequenceIs DEF Descending, Linked
        <4> QED
          BY <3>2, <4>1 DEF Descending
      <3>4. Len(found) > 0
        BY <3>2, <3>3, HasChain DEF Descending
      <3>5. found[Len(found)].salt = Zero
        BY <3>1, <3>2, <3>4 DEF Descending
      <3>6. Linked'
        BY <3>1, <3>2 DEF Descending, Linked
      <3> QED
        BY <3>1, <3>3, <3>4, <3>5, <3>6 DEF Chained
    <2> QED
      BY <1>2, <2>1
  <1> QED
    BY <1>1, <1>3, <1>4, <1>5, <1>6, <1>7, <1>8, <1>9, <1>10, <1>11, <1>12, <1>13 DEF Next, Read

-----------------------------------------------------------------------------
(* Its steps: a sound cache *)

LEMMA SoundStays ==
  ASSUME UNCHANGED world
  PROVE  /\ \A d, s : Holds(d, s)' <=> Holds(d, s)
         /\ \A x : Candidates(x)' = Candidates(x)
         /\ \A m : SoundImage(m)' <=> SoundImage(m)
         /\ \A p : SoundPin(p)' <=> SoundPin(p)
         /\ Sound' <=> Sound
  <1>1. \A d, s : Holds(d, s)' <=> Holds(d, s)
    BY DEF Holds
  <1>2. \A x : Candidates(x)' = Candidates(x) /\ Offered(x)' = Offered(x)
    BY DEF Candidates, Matches, Offered
  <1>3. \A l, r : PreparedFor(l, r)' <=> PreparedFor(l, r)
    BY DEF PreparedFor
  <1>4. \A m : SoundImage(m)' <=> SoundImage(m)
    BY <1>1, <1>3 DEF SoundImage
  <1>5. \A p : SoundPin(p)' <=> SoundPin(p)
    BY <1>1, <1>2, <1>4 DEF SoundPin
  <1>6. Sound' <=> Sound
    BY <1>1, <1>2, <1>4 DEF Sound
  <1> QED
    BY <1>1, <1>2, <1>4, <1>5, <1>6

LEMMA WorldStays == [Next]_vars => UNCHANGED world /\ (Read \/ UNCHANGED vars \/ changes' = changes + 1)
  BY DEF Next, Read, vars, Change, Unlink, Prepare, CachedIndex, OpenIndex, OpenMetadata, ReadIndex, OpenManifest, ReadManifest,
         OpenBlob, CopyChunk, EndCopy, Verified, Copied, OpenPrepared, ReadHeader, ReadRoot, EndLayer, EndChain, Refuse

LEMMA Single ==
  ASSUME NEW s, IsSequence(s), NEW T, T \subseteq DOMAIN s, Cardinality(T) = 1
  PROVE  \E i \in DOMAIN s : T = {i}
  <1>1. IsFiniteSet(1..Len(s)) /\ DOMAIN s = 1..Len(s)
    BY SequenceIs, FS_Interval
  <1>2. IsFiniteSet(T)
    BY <1>1, FS_Subset
  <1> QED
    BY <1>2, FS_Singleton

LEMMA OfferedIs == \A x : Offered(x) = Candidates(x)
  BY DEF Offered, Candidates, Matches

\* What is pinned in a sound cache.
LEMMA SoundPins ==
  ASSUME world \in Worlds, Sound
  PROVE  IF world.reference.digest # None THEN SoundPin(world.reference.digest)
         ELSE \E i \in DOMAIN world.tags : Tagged = {i} /\ SoundPin(world.tags[i].digest)
  <1> DEFINE pins == IF world.reference.digest # None THEN {world.reference.digest} ELSE {world.tags[j].digest : j \in Tagged}
  <1>1. world.reference.digest = None => Cardinality(Tagged) = 1
    BY DEF Sound, Tagged
  <1>2. PICK p \in pins :
          /\ p \in DOMAIN world.indexes /\ Holds(p, Len(world.store[p])) /\ Cardinality(Offered(world.indexes[p])) = 1
          /\ \A k \in Offered(world.indexes[p]) :
               LET d == world.indexes[p][k]
               IN  /\ d.manifest /\ d.digest \in DOMAIN world.manifests /\ Holds(d.digest, d.size)
                   /\ SoundImage(world.manifests[d.digest])
    BY DEF Sound, Tagged
  <1>3. PICK k \in DOMAIN world.indexes[p] : Offered(world.indexes[p]) = {k}
    <2>1. IsSequence(world.indexes[p]) /\ Offered(world.indexes[p]) \subseteq DOMAIN world.indexes[p]
      BY <1>2, WorldIs DEF Offered
    <2> QED
      BY <1>2, <2>1, Single
  <1>4. SoundPin(p)
    <2>1. Candidates(world.indexes[p]) = {k}
      BY <1>3, OfferedIs
    <2> QED
      BY <1>2, <1>3, <2>1 DEF SoundPin
  <1>5. CASE world.reference.digest # None
    BY <1>4, <1>5
  <1>6. CASE world.reference.digest = None
    <2>1. PICK i \in DOMAIN world.tags : Tagged = {i}
      <3>1. IsSequence(world.tags) /\ Tagged \subseteq DOMAIN world.tags
        BY WorldIs DEF Tagged
      <3> QED
        BY <1>1, <1>6, <3>1, Single
    <2>2. p = world.tags[i].digest
      BY <1>6, <2>1
    <2> QED
      BY <1>4, <1>6, <2>1, <2>2
  <1> QED
    BY <1>5, <1>6

\* What is held is whole, and small enough for a document.
LEMMA HoldsIs ==
  ASSUME NEW d, NEW size, Holds(d, size), store = world.store, world \in Worlds
  PROVE  d \in DOMAIN store /\ store[d] = Whole(d) /\ size = 2 /\ Len(store[d]) = 2 /\ Len(store[d]) <= MaxMetadata
  <1>1. Len(Whole(d)) = 2
    BY DEF Whole
  <1> QED
    BY <1>1, WorldIs DEF Holds

LEMMA WholeCapture ==
  ASSUME file.content = Whole(file.name), file.size = 2
  PROVE  Capture = Whole(file.name) /\ Len(Whole(file.name)) = 2
  <1>1. PICK n : n = file.name
    OBVIOUS
  <1>2. Len(<<n, n>>) = 2 /\ SubSeq(<<n, n>>, 1, 2) = <<n, n>>
    <2> DEFINE s == <<n, n>>
    <2>1. s \in Seq({n}) /\ Len(s) = 2
      OBVIOUS
    <2> HIDE DEF s
    <2>2. SubSeq(s, 1, Len(s)) = s
      BY <2>1, SubSeqFull
    <2> QED
      BY <2>1, <2>2 DEF s
  <1>3. Least(3, 2) = 2
    BY DEF Least
  <1> QED
    BY <1>1, <1>2, <1>3 DEF Capture, Whole

LEMMA PreparedIs ==
  ASSUME world \in Worlds, NEW layer, NEW root, PreparedFor(layer, root)
  PROVE  LET vs == world.prepared[layer.digest].variants
             decoded == world.prepared[layer.digest].deflated
         IN  /\ layer.digest \in DOMAIN world.prepared
             /\ \A v \in DOMAIN vs : vs[v].sha256 =>
                  /\ vs[v].salt # Malformed /\ vs[v].extent /\ vs[v].size > 0
                  /\ (layer.kind = "scute" /\ layer.size = vs[v].size) \/ vs[v].size \in DOMAIN decoded
                  /\ Len(Decoded(layer, vs[v])) = vs[v].size
             /\ \E v \in DOMAIN vs : {u \in DOMAIN vs : vs[u].sha256 /\ HashOf(layer, vs[u]) = root} = {v}
  <1> DEFINE vs == world.prepared[layer.digest].variants
             T == {u \in DOMAIN vs : vs[u].sha256 /\ HashOf(layer, vs[u]) = root}
  <1>1. layer.digest \in DOMAIN world.prepared
    BY DEF PreparedFor
  <1>2. \A v \in DOMAIN vs : vs[v].sha256 =>
                  /\ vs[v].salt # Malformed /\ vs[v].extent /\ vs[v].size > 0
                  /\ (layer.kind = "scute" /\ layer.size = vs[v].size)
                     \/ vs[v].size \in DOMAIN world.prepared[layer.digest].deflated
                  /\ Len(Decoded(layer, vs[v])) = vs[v].size
    BY DEF PreparedFor, Decoded
  <1>3. Cardinality(T) = 1
    BY DEF PreparedFor, HashOf, Decoded
  <1>4. \E v \in DOMAIN vs : T = {v}
    <2>1. IsSequence(vs) /\ T \subseteq DOMAIN vs
      BY <1>1, WorldIs
    <2> HIDE DEF T, vs
    <2> QED
      BY <1>3, <2>1, Single
  <1> QED
    BY <1>1, <1>2, <1>4

LEMMA ImageIsSound == ASSUME Documents, SoundPin(pin), image # None PROVE SoundImage(image)
  BY DEF Documents, Pinned, SoundPin

LEMMA BlobsHeld ==
  ASSUME NEW m, IsSequence(m.layers), SoundImage(m)
  PROVE  /\ \A j \in DOMAIN Small(m) : Holds(Small(m)[j].digest, Small(m)[j].size)
         /\ \A j \in DOMAIN Scutes(m) : Holds(Scutes(m)[j].digest, Scutes(m)[j].size)
  <1>1. /\ m.config.kind = "empty" \/ Holds(m.config.digest, m.config.size)
        /\ \A i \in DOMAIN m.layers : Holds(m.layers[i].digest, m.layers[i].size)
    BY DEF SoundImage
  <1>2. /\ \A j \in DOMAIN Small(m) :
             (m.config.kind # "empty" /\ Small(m)[j] = m.config) \/ \E i \in DOMAIN m.layers : Small(m)[j] = m.layers[i]
        /\ \A j \in DOMAIN Scutes(m) : \E i \in DOMAIN m.layers : Scutes(m)[j] = m.layers[i]
    BY ManifestIs
  <1> QED
    BY <1>1, <1>2

\* The layer that is being looked up has one variant with the root its child
\* names, and every variant of this hash can be read.
LEMMA LayerIs ==
  ASSUME Types, Documents, Descending, Serves, phase = "discover", left # <<>>
  PROVE  /\ Layer.digest \in DOMAIN prepared /\ Layer = left[1] /\ Len(left) \in Nat \ {0}
         /\ Len(found) \in Nat /\ Len(found) + 1 \in 1..Len(image.layers)
         /\ parent # Zero
         /\ \E v \in DOMAIN Variants : Right = {v}
         /\ \A v \in DOMAIN Variants : Variants[v].sha256 =>
              /\ Variants[v].salt # Malformed /\ Variants[v].extent /\ Variants[v].size > 0
              /\ Len(Data(Variants[v])) = Variants[v].size /\ Data(Variants[v]) = Decoded(Layer, Variants[v])
  <1> DEFINE n == Len(Scutes(image))
             k == Len(found) + 1
  <1>1. image # None /\ SoundImage(image) /\ IsSequence(image.layers)
    BY ImageIsSound, ImageIs DEF Documents, Serves
  <1>2. Len(left) \in Nat \ {0} /\ Layer = left[1]
    <2>1. left \in Seq(Blobs(image))
      BY DEF Descending
    <2> QED
      BY <2>1, EmptySeq DEF Layer
  <1>3. Len(found) \in Nat
    BY SequenceIs DEF Descending, Linked
  <1>4. n \in Nat /\ n <= Len(image.layers) /\ Len(image.layers) \in Nat
    BY <1>1, ManifestIs
  <1>5. k \in 1..n /\ n + 1 - k = Len(left) /\ k \in 1..Len(image.layers) /\ Len(left) \in 1..n
    BY <1>2, <1>3, <1>4 DEF Descending
  <1>6. Layer = Scutes(image)[n + 1 - k]
    <2>1. 1 \in 1..Len(left) /\ Len(left) + 1 - 1 = Len(left)
      BY <1>2
    <2> QED
      BY <1>2, <1>5, <2>1 DEF Descending
  <1> HIDE DEF n, k
  <1>7. PreparedFor(Layer, parent)
    <2>1. PreparedFor(Scutes(image)[n + 1 - k], Committed(image)[k])
      BY <1>1, <1>5 DEF SoundImage, n
    <2>2. parent = Committed(image)[k]
      BY DEF Serves, Discovering, k
    <2> QED
      BY <1>6, <2>1, <2>2
  <1>8. prepared = world.prepared /\ store = world.store /\ world \in Worlds
    BY DEF Serves, Types
  <1>9. Layer.digest \in DOMAIN prepared /\ \E v \in DOMAIN Variants : Right = {v}
    BY <1>7, <1>8, PreparedIs DEF Variants, Right
  <1>10. PICK one \in DOMAIN Variants : HashOf(Layer, Variants[one]) = parent
    <2>1. PICK v \in DOMAIN Variants : Right = {v}
      BY <1>9
    <2> QED
      BY <2>1 DEF Right
  <1>11. parent # Zero
    BY <1>10 DEF HashOf, Zero
  <1>12. Layer.digest \in DOMAIN store /\ store[Layer.digest] = Whole(Layer.digest)
    <2>1. Scutes(image) \in Seq(Blobs(image))
      BY <1>1, ManifestIs
    <2>2. n + 1 - k \in DOMAIN Scutes(image)
      BY <1>5, <2>1 DEF n
    <2>3. Holds(Layer.digest, Layer.size)
      BY <1>1, <1>6, <2>2, BlobsHeld
    <2> QED
      BY <1>8, <2>3, HoldsIs
  <1>13. ASSUME NEW v \in DOMAIN Variants, Variants[v].sha256
         PROVE  /\ Variants[v].salt # Malformed /\ Variants[v].extent /\ Variants[v].size > 0
                /\ Len(Data(Variants[v])) = Variants[v].size /\ Data(Variants[v]) = Decoded(Layer, Variants[v])
    <2>1. /\ Variants[v].salt # Malformed /\ Variants[v].extent /\ Variants[v].size > 0
          /\ (Layer.kind = "scute" /\ Layer.size = Variants[v].size)
             \/ Variants[v].size \in DOMAIN world.prepared[Layer.digest].deflated
          /\ Len(Decoded(Layer, Variants[v])) = Variants[v].size
      BY <1>7, <1>8, <1>13, PreparedIs DEF Variants
    <2>2. Data(Variants[v]) = Decoded(Layer, Variants[v])
      BY <1>8, <1>12, <2>1 DEF Data, Decoded
    <2> QED
      BY <2>1, <2>2
  <1>14. k \in 1..Len(image.layers) /\ k = Len(found) + 1
    BY <1>5 DEF k
  <1> QED
    BY <1>2, <1>3, <1>9, <1>11, <1>13, <1>14

\* The next root, below a scute that was found.
LEMMA NextRoot ==
  ASSUME Types, Documents, Descending, Serves, phase = "discover", left # <<>>, choice \notin {None, <<>>}
  PROVE  Committed(image)[Len(found) + 2] = choice[1].salt
  <1>1. PICK k \in Nat : k = Len(found) + 1
    BY LayerIs
  <1>2. k \in 1..Len(image.layers) /\ parent # Zero /\ parent = Committed(image)[k]
    BY <1>1, LayerIs DEF Serves, Discovering
  <1>3. Len(image.layers) \in Nat /\ k + 1 \in 1..(Len(image.layers) + 1) /\ (k + 1) - 1 = k /\ k + 1 # 1
    BY <1>1, <1>2
  <1>4. Committed(image)[k + 1] = Committed(image)[k][1]
    BY <1>2, <1>3, CommittedIs
  <1>5. parent[1] = choice[1].salt
    BY DEF Descending
  <1>6. k + 1 = Len(found) + 2
    BY <1>1, LayerIs
  <1> QED
    BY <1>2, <1>4, <1>5, <1>6

\* The pin and the documents of a sound cache are captured.
LEMMA ServesDocuments ==
  ASSUME Types, Documents, Chained, Sound, Serves, UNCHANGED world,
         CachedIndex \/ OpenIndex \/ ReadIndex \/ OpenManifest \/ ReadManifest
  PROVE  Serves'
  <1>0. world \in Worlds /\ store = world.store /\ prepared = world.prepared
    BY DEF Types, Serves
  <1>1. UNCHANGED <<store, prepared>>
    BY DEF CachedIndex, OpenIndex, ReadIndex, OpenManifest, ReadManifest, OpenMetadata, Refuse, others
  <1>2. \A p : SoundPin(p)' <=> SoundPin(p)
    BY SoundStays
  <1>3. CASE CachedIndex
    <2>1. IF world.reference.digest # None THEN SoundPin(world.reference.digest)
          ELSE \E i \in DOMAIN world.tags : Tagged = {i} /\ SoundPin(world.tags[i].digest)
      BY <1>0, SoundPins
    <2>2. ~(world.reference.digest = None /\ Cardinality(Tagged) # 1)
      BY <2>1, FS_Singleton
    <2>3. /\ IF world.reference.digest # None THEN pin' = world.reference.digest
             ELSE \E i \in Tagged : pin' = world.tags[i].digest
          /\ phase' = "index" /\ file' = None
      BY <1>3, <2>2 DEF CachedIndex, Types, reading
    <2>4. PICK p : p = pin' /\ SoundPin(p)
      BY <2>1, <2>3
    <2>5. SoundPin(pin)'
      BY <1>2, <2>4
    <2> QED
      BY <1>0, <1>1, <2>3, <2>5 DEF Serves, Held
  <1>4. CASE OpenIndex
    <2>1. phase = "index" /\ OpenMetadata(pin, Nat)
      BY <1>4 DEF OpenIndex
    <2>2. SoundPin(pin) /\ Holds(pin, Len(world.store[pin]))
      BY <2>1 DEF Serves, SoundPin
    <2>3. pin \in DOMAIN store /\ store[pin] = Whole(pin) /\ Len(store[pin]) = 2 /\ Len(store[pin]) <= MaxMetadata
      BY <1>0, <2>2, HoldsIs
    <2>4. /\ file' = [name |-> pin, content |-> store[pin], size |-> Len(store[pin])]
          /\ UNCHANGED <<phase, metadata>>
      BY <2>1, <2>3, SizesAssumption DEF OpenMetadata, SizesAssumption
    <2>5. file'.content = Whole(file'.name) /\ file'.size = 2
      BY <2>3, <2>4
    <2>6. pin' = pin /\ SoundPin(pin)'
      BY <1>2, <2>2, <2>4 DEF metadata
    <2> QED
      BY <1>0, <1>1, <2>1, <2>4, <2>5, <2>6 DEF Serves, Held
  <1>5. CASE ReadIndex
    <2>1. phase = "index" /\ file # None /\ got' = Capture /\ file' = None /\ pin' = pin /\ file.name = pin
      BY <1>5 DEF ReadIndex, Documents
    <2>2. got' = Whole(pin) /\ Authentic(got')
      BY <2>1, WholeCapture DEF Serves, Authentic
    <2>3. SoundPin(pin)
      BY <2>1 DEF Serves
    <2>4. pin \in Names(world.indexes)
      BY <2>2, <2>3 DEF Names, SoundPin
    <2>5. \E i \in DOMAIN world.indexes[pin] : Selects(world.indexes[pin], i)
      BY <2>3 DEF SoundPin, Selects
    <2>6. phase' = "manifest"
      BY <1>5, <2>2, <2>4, <2>5 DEF ReadIndex
    <2>7. SoundPin(pin)'
      BY <1>2, <2>1, <2>3
    <2> QED
      BY <1>0, <1>1, <2>1, <2>6, <2>7 DEF Serves, Held
  <1>6. CASE OpenManifest
    <2>1. phase = "manifest" /\ OpenMetadata(selected.digest, {selected.size}) /\ Chosen
      BY <1>6 DEF OpenManifest, Documents
    <2>2. SoundPin(pin) /\ Holds(selected.digest, selected.size)
      BY <2>1 DEF Serves, SoundPin, Chosen
    <2>a. PICK n, e : n = selected.digest /\ e = selected.size
      OBVIOUS
    <2>3. n \in DOMAIN store /\ store[n] = Whole(n) /\ Len(store[n]) = 2 /\ Len(store[n]) <= MaxMetadata /\ e = 2
      BY <1>0, <2>2, <2>a, HoldsIs
    <2>b. OpenMetadata(n, {e})
      BY <2>1, <2>a
    <2>c. ~(n \notin DOMAIN store \/ Len(store[n]) > MaxMetadata \/ Len(store[n]) \notin {e})
      BY <2>3, SizesAssumption DEF SizesAssumption
    <2>4. /\ file' = [name |-> n, content |-> store[n], size |-> Len(store[n])]
          /\ UNCHANGED <<phase, metadata>>
      BY <2>b, <2>c DEF OpenMetadata
    <2>5. file'.content = Whole(file'.name) /\ file'.size = 2
      BY <2>3, <2>4
    <2>6. pin' = pin /\ SoundPin(pin)'
      BY <1>2, <2>2, <2>4 DEF metadata
    <2> QED
      BY <1>0, <1>1, <2>1, <2>4, <2>5, <2>6 DEF Serves, Held
  <1>7. CASE ReadManifest
    <2>1. /\ phase = "manifest" /\ file # None /\ got' = Capture /\ file' = None /\ pin' = pin
          /\ file.name = selected.digest /\ Chosen
      BY <1>7 DEF ReadManifest, Documents
    <2>2. got' = Whole(file.name) /\ Authentic(got')
      BY <2>1, WholeCapture DEF Serves, Authentic
    <2>3. SoundPin(pin)
      BY <2>1 DEF Serves
    <2>4. selected.digest \in DOMAIN world.manifests /\ SoundImage(world.manifests[selected.digest])
      BY <2>1, <2>3 DEF SoundPin, Chosen
    <2>5. selected.digest \in Names(world.manifests) /\ Validate(world.manifests[selected.digest])
      BY <2>1, <2>2, <2>4 DEF Names, SoundImage
    <2>6. /\ phase' = "verify"
          /\ \E n \in Names(world.manifests) : image' = world.manifests[n] /\ queue' = Small(image')
      BY <1>7, <2>2, <2>5 DEF ReadManifest
    <2>7. PICK n \in Names(world.manifests) : image' = world.manifests[n] /\ queue' = Small(image')
      BY <2>6
    <2>8. n = selected.digest
      BY <2>1, <2>2, <2>7, NamesOne
    <2>9. IsSequence(image'.layers) /\ SoundImage(image')
      BY <1>0, <2>4, <2>7, <2>8, WorldIs
    <2>10. \A i \in DOMAIN queue' : Holds(queue'[i].digest, queue'[i].size)
      BY <2>7, <2>9, BlobsHeld
    <2>11. \A i \in DOMAIN queue' : Holds(queue[i].digest, queue[i].size)'
      BY <2>10, SoundStays DEF Holds
    <2>12. SoundPin(pin)'
      BY <1>2, <2>1, <2>3
    <2> QED
      BY <1>0, <1>1, <2>1, <2>6, <2>11, <2>12 DEF Serves, Held
  <1> QED
    BY <1>3, <1>4, <1>5, <1>6, <1>7

\* The blobs of a sound cache are verified and copied.
LEMMA ServesBlobs ==
  ASSUME Types, Documents, Copies, Chained, Serves, UNCHANGED world,
         OpenBlob \/ CopyChunk \/ EndCopy \/ Verified \/ Copied
  PROVE  Serves'
  <1>0. world \in Worlds /\ store = world.store /\ prepared = world.prepared
    BY DEF Types, Serves
  <1>1. UNCHANGED <<store, prepared>>
    BY DEF OpenBlob, CopyChunk, EndCopy, Verified, Copied, Refuse, others
  <1>2. Held /\ image # None /\ queue \in Seq(Blobs(image)) /\ SoundPin(pin)
    BY DEF OpenBlob, CopyChunk, EndCopy, Verified, Copied, Copying, Held, Copies, Documents, Serves
  <1>3. UNCHANGED metadata
    BY DEF OpenBlob, CopyChunk, EndCopy, Verified, Copied, Refuse
  <1>4. pin' = pin /\ SoundPin(pin)'
    BY <1>2, <1>3, SoundStays DEF metadata
  <1>5. \A d, s : Holds(d, s)' <=> Holds(d, s)
    BY SoundStays
  <1>6. CASE OpenBlob
    <2>1. file = None /\ queue # <<>>
      BY <1>6 DEF OpenBlob
    <2>2. PICK blob : blob = Head(queue) /\ Holds(blob.digest, blob.size)
      <3>1. 1 \in DOMAIN queue /\ Head(queue) = queue[1]
        BY <1>2, <2>1, EmptySeq
      <3> QED
        BY <1>2, <3>1 DEF Serves
    <2>3. /\ blob.digest \in DOMAIN store /\ store[blob.digest] = Whole(blob.digest)
          /\ blob.size = 2 /\ Len(store[blob.digest]) = 2
      BY <1>0, <2>2, HoldsIs
    <2>4. /\ file' = [name |-> blob.digest, content |-> store[blob.digest], size |-> blob.size] /\ got' = <<>>
          /\ UNCHANGED <<phase, blobs>>
      BY <1>6, <2>2, <2>3 DEF OpenBlob
    <2>5. file'.content = Whole(file'.name) /\ file'.size = 2 /\ Len(got') = 0 /\ 1..Len(got') = {}
      BY <2>3, <2>4
    <2>6. phase' \in {"verify", "copy"} /\ \A i \in DOMAIN queue' : Holds(queue[i].digest, queue[i].size)'
      BY <1>2, <1>5, <2>4 DEF blobs, Serves, Held
    <2> QED
      BY <1>0, <1>1, <1>4, <2>5, <2>6 DEF Serves, Held
  <1>7. CASE CopyChunk
    <2>1. /\ file # None /\ Len(got) < file.size /\ file.content = Whole(file.name) /\ file.size = 2
          /\ \A k \in 1..Len(got) : got[k] = file.name
      BY <1>2, <1>7 DEF CopyChunk, Serves
    <2>2. PICK n : n = file.name
      OBVIOUS
    <2>3. Len(file.content) = 2 /\ \A k \in 1..2 : file.content[k] = n
      BY <2>1, <2>2 DEF Whole
    <2>4. got \in Seq(Bytes) /\ file.content \in Seq(Bytes) /\ Len(got) + 1 \in 1..2
      BY <2>1 DEF Types
    <2>5. /\ got' = Append(got, n) /\ UNCHANGED <<phase, file, blobs>>
      BY <1>7, <2>1, <2>3, <2>4 DEF CopyChunk
    <2>6. n \in Bytes
      BY <2>1, <2>2 DEF Types
    <2>7. /\ Len(got') = Len(got) + 1 /\ \A k \in 1..Len(got) : got'[k] = got[k]
          /\ got'[Len(got) + 1] = n
      BY <2>4, <2>5, <2>6, AppendProperties
    <2>8. Len(got') <= 2 /\ \A k \in 1..Len(got') : got'[k] = file'.name
      BY <2>1, <2>2, <2>4, <2>5, <2>7
    <2>9. phase' \in {"verify", "copy"} /\ \A i \in DOMAIN queue' : Holds(queue[i].digest, queue[i].size)'
      BY <1>2, <1>5, <2>5 DEF blobs, Serves, Held
    <2> QED
      BY <1>0, <1>1, <1>4, <2>1, <2>5, <2>8, <2>9 DEF Serves, Held
  <1>8. CASE EndCopy
    <2>1. /\ file # None /\ Len(got) = file.size /\ file.content = Whole(file.name) /\ file.size = 2
          /\ \A k \in 1..Len(got) : got[k] = file.name
      BY <1>2, <1>8 DEF EndCopy, Serves
    <2>2. got \in Seq(Bytes) /\ Len(got) = 2
      BY <2>1 DEF Types
    <2>3. SoundCopy
      <3>1. PICK g, n : g = got /\ n = file.name
        OBVIOUS
      <3>2. g = <<n, n>>
        BY <2>1, <2>2, <3>1
      <3>3. Len(file.content) = 2
        BY <2>1 DEF Whole
      <3> QED
        BY <2>1, <3>1, <3>2, <3>3 DEF SoundCopy, Whole
    <2>4. queue' = Tail(queue) /\ file' = None /\ phase' = phase
      BY <1>8, <2>3 DEF EndCopy
    <2>5. queue # <<>>
      BY <1>2, <2>1 DEF Copies
    <2>6. \A i \in DOMAIN queue' : i + 1 \in DOMAIN queue /\ queue'[i] = queue[i + 1]
      BY <1>2, <2>4, <2>5, EmptySeq
    <2>7. \A i \in DOMAIN queue' : Holds(queue[i].digest, queue[i].size)'
      BY <1>2, <1>5, <2>6 DEF Serves
    <2> QED
      BY <1>0, <1>1, <1>2, <1>4, <2>4, <2>7 DEF Serves, Held
  <1>9. CASE Verified
    <2>1. phase = "verify" /\ file' = None /\ image' = image /\ found' = found /\ choice' = choice /\ found = <<>> /\ choice = None
      BY <1>9 DEF Verified, reading, metadata, Chained, chain
    <2>2. SoundImage(image) /\ IsSequence(image.layers)
      BY <1>2, ImageIsSound, ImageIs
    <2>3. CASE image.root = None
      <3>1. phase' = "copy" /\ queue' = Small(image)
        BY <1>9, <2>3 DEF Verified
      <3>2. \A i \in DOMAIN queue' : Holds(queue'[i].digest, queue'[i].size)
        BY <2>2, <3>1, BlobsHeld
      <3>3. \A i \in DOMAIN queue' : Holds(queue[i].digest, queue[i].size)'
        BY <1>5, <3>2
      <3> QED
        BY <1>0, <1>1, <1>4, <2>1, <3>1, <3>3 DEF Serves, Held
    <2>4. CASE image.root # None
      <3>1. phase' = "discover" /\ parent' = image.root
        BY <1>9, <2>4 DEF Verified
      <3>2. Len(image.layers) \in Nat /\ 1 \in 1..(Len(image.layers) + 1)
        BY <2>2, SequenceIs
      <3>3. Committed(image)[1] = image.root
        BY <3>2, CommittedIs
      <3>4. Len(found') + 1 = 1
        BY <2>1
      <3>5. Discovering'
        BY <2>1, <3>1, <3>3, <3>4 DEF Discovering
      <3> QED
        BY <1>0, <1>1, <1>4, <2>1, <3>1, <3>5 DEF Serves, Held
    <2> QED
      BY <2>3, <2>4
  <1>10. CASE Copied
    <2>1. phase' = "done" /\ file' = None
      BY <1>10 DEF Copied, reading
    <2> QED
      BY <1>0, <1>1, <1>4, <2>1 DEF Serves, Held
  <1> QED
    BY <1>6, <1>7, <1>8, <1>9, <1>10

\* What holds of all of two sequences holds of one after the other.
LEMMA JoinedHeld ==
  ASSUME NEW S, NEW s \in Seq(S), NEW t \in Seq(S),
         \A i \in DOMAIN s : Holds(s[i].digest, s[i].size), \A i \in DOMAIN t : Holds(t[i].digest, t[i].size)
  PROVE  \A i \in DOMAIN (s \o t) : Holds((s \o t)[i].digest, (s \o t)[i].size)
  <1>1. PICK u : u = s \o t
    OBVIOUS
  <1>2. /\ DOMAIN u = 1..(Len(s) + Len(t)) /\ \A i \in 1..Len(s) : u[i] = s[i]
        /\ \A i \in 1..Len(t) : u[Len(s) + i] = t[i]
    BY <1>1
  <1>3. ASSUME NEW i \in DOMAIN u PROVE Holds(u[i].digest, u[i].size)
    <2>1. CASE i <= Len(s)
      <3>1. i \in DOMAIN s /\ u[i] = s[i]
        BY <1>2, <2>1
      <3> QED
        BY <3>1
    <2>2. CASE ~(i <= Len(s))
      <3> DEFINE k == i - Len(s)
      <3>1. k \in 1..Len(t) /\ Len(s) + k = i
        BY <1>2, <2>2
      <3> HIDE DEF k
      <3>2. k \in DOMAIN t /\ u[i] = t[k]
        BY <1>2, <3>1
      <3> QED
        BY <3>2
    <2> QED
      BY <2>1, <2>2
  <1> QED
    BY <1>1, <1>3

\* The chain of a sound cache is found down to its end.
LEMMA ServesChain ==
  ASSUME Types, Documents, Chained, Serves, UNCHANGED world,
         OpenPrepared \/ ReadHeader \/ ReadRoot \/ EndLayer \/ EndChain
  PROVE  Serves'
  <1>0. /\ world \in Worlds /\ store = world.store /\ prepared = world.prepared
        /\ phase = "discover" /\ Descending /\ Discovering /\ file = None /\ SoundPin(pin)
    BY DEF Types, Serves, OpenPrepared, ReadHeader, ReadRoot, EndLayer, EndChain, Reads, Chained
  <1>1. UNCHANGED <<store, prepared, file, pin, image>>
    BY DEF OpenPrepared, ReadHeader, ReadRoot, EndLayer, EndChain, Refuse, others, reading, metadata
  <1>2. SoundPin(pin)'
    BY <1>0, <1>1, SoundStays
  <1>3. ASSUME phase' = "discover", Discovering' PROVE Serves'
    BY <1>0, <1>1, <1>2, <1>3 DEF Serves, Held
  <1>4. UNCHANGED <<left, parent>> => /\ Layer' = Layer /\ Variants' = Variants /\ Right' = Right
    BY DEF Layer, Variants, Right, HashOf, Decoded
  <1>5. CASE OpenPrepared
    <2>1. left # <<>> /\ choice = None /\ header = None
      BY <1>5 DEF OpenPrepared, Types
    <2>2. parent # Zero /\ Layer.digest \in DOMAIN prepared
      BY <1>0, <2>1, LayerIs
    <2>3. /\ todo' = DOMAIN prepared[Layer.digest].variants /\ choice' = <<>>
          /\ UNCHANGED <<phase, left, parent, header, found>>
      BY <1>5, <2>2 DEF OpenPrepared
    <2>4. todo' = DOMAIN Variants /\ Right \subseteq todo'
      BY <1>0, <2>3 DEF Variants, Right
    <2>5. Discovering'
      BY <1>0, <1>1, <1>4, <2>1, <2>3, <2>4 DEF Discovering
    <2> QED
      BY <1>0, <1>3, <2>3, <2>5
  <1>6. CASE ReadHeader
    <2>1. left # <<>> /\ choice # None /\ header = None /\ UNCHANGED <<left, parent, choice, found>>
      BY <1>6 DEF ReadHeader, Reads
    <2>2. PICK v \in todo :
            IF ~Variants[v].sha256 THEN Foreign(v)
            ELSE IF \/ Variants[v].salt = Malformed \/ ~Variants[v].extent
                    \/ Len(Data(Variants[v])) # Variants[v].size \/ Variants[v].size = 0
            THEN phase' = "failed" /\ UNCHANGED <<todo, header>>
            ELSE header' = [v |-> v, record |-> Variants[v]] /\ UNCHANGED <<phase, todo>>
      BY <1>0, <1>6 DEF ReadHeader, Variants
    <2>3. todo \subseteq DOMAIN Variants /\ v \in DOMAIN Variants
      BY <1>0, <2>1 DEF Discovering
    <2>4. CASE ~Variants[v].sha256
      <3>1. todo' = todo \ {v} /\ header' = None /\ phase' = phase
        BY <2>2, <2>4 DEF Foreign, Skip
      <3>2. v \notin Right
        BY <2>4 DEF Right
      <3>3. Discovering'
        BY <1>0, <1>1, <1>4, <2>1, <2>3, <3>1, <3>2 DEF Discovering
      <3> QED
        BY <1>0, <1>3, <3>1, <3>3
    <2>5. CASE Variants[v].sha256
      <3>1. /\ Variants[v].salt # Malformed /\ Variants[v].extent /\ Variants[v].size > 0
            /\ Len(Data(Variants[v])) = Variants[v].size
        BY <1>0, <2>1, <2>3, <2>5, LayerIs
      <3>2. Variants[v].size # 0
        BY <3>1
      <3>3. header' = [v |-> v, record |-> Variants[v]] /\ UNCHANGED <<phase, todo>>
        BY <2>2, <2>5, <3>1, <3>2
      <3>4. header'.v = v /\ header'.record = Variants[v]
        BY <3>3
      <3>5. Discovering'
        BY <1>0, <1>1, <1>4, <2>1, <2>3, <2>5, <3>3, <3>4 DEF Discovering
      <3> QED
        BY <1>0, <1>3, <3>3, <3>5
    <2> QED
      BY <2>4, <2>5
  <1>7. CASE ReadRoot
    <2>1. left # <<>> /\ choice # None /\ header # None /\ UNCHANGED <<left, parent, found>>
      BY <1>7 DEF ReadRoot, Reads
    <2>2. PICK v : v = header.v
      OBVIOUS
    <2>3. v \in todo /\ todo \subseteq DOMAIN Variants /\ header.record = Variants[v] /\ Variants[v].sha256
      BY <1>0, <2>1, <2>2 DEF Discovering
    <2>4. Variants[v].size > 0 /\ Len(Data(Variants[v])) = Variants[v].size /\ Data(Variants[v]) = Decoded(Layer, Variants[v])
      BY <1>0, <2>1, <2>3, LayerIs
    <2>5. <<header.record.salt, RootBlock>> = HashOf(Layer, Variants[v])
      <3>1. Data(header.record) # <<>>
        BY <2>3, <2>4
      <3> QED
        BY <1>0, <2>2, <2>3, <2>4, <3>1 DEF RootBlock, HashOf, Variants
    <2>6. CASE HashOf(Layer, Variants[v]) # parent
      <3>1. todo' = todo \ {v} /\ header' = None /\ UNCHANGED <<phase, choice>>
        BY <1>7, <2>2, <2>5, <2>6 DEF ReadRoot, Foreign, Skip
      <3>2. v \notin Right
        BY <2>6 DEF Right
      <3>3. Discovering'
        BY <1>0, <1>1, <1>4, <2>1, <2>3, <3>1, <3>2 DEF Discovering
      <3> QED
        BY <1>0, <1>3, <3>1, <3>3
    <2>7. CASE HashOf(Layer, Variants[v]) = parent
      <3>1. v \in Right
        BY <2>3, <2>7 DEF Right
      <3>2. choice = <<>>
        BY <1>0, <2>1, <2>3, <3>1 DEF Discovering
      <3>3. /\ todo' = todo \ {v} /\ header' = None /\ UNCHANGED phase
            /\ choice' = <<[salt |-> Salt, block |-> RootBlock]>>
        BY <1>7, <2>2, <2>5, <2>7, <3>2 DEF ReadRoot, Skip
      <3>4. Right \cap todo' = {}
        <4>1. PICK u : Right = {u}
          BY <1>0, <2>1, LayerIs
        <4> QED
          BY <3>1, <3>3, <4>1
      <3>5. choice' # <<>>
        BY <3>3
      <3>6. Discovering'
        BY <1>0, <1>1, <1>4, <2>1, <2>3, <3>3, <3>4, <3>5 DEF Discovering
      <3> QED
        BY <1>0, <1>3, <3>3, <3>6
    <2> QED
      BY <2>6, <2>7
  <1>8. CASE EndLayer
    <2>1. left # <<>> /\ choice # None /\ header = None /\ todo = {}
      BY <1>8 DEF EndLayer, Reads
    <2>2. choice # <<>>
      <3>1. Right # {}
        BY <1>0, <2>1, LayerIs
      <3> QED
        BY <1>0, <2>1, <3>1 DEF Discovering
    <2>3. found' = Append(found, choice[1]) /\ parent' = choice[1].salt /\ choice' = None /\ phase' = phase
      BY <1>8, <2>2 DEF EndLayer
    <2>4. Committed(image)[Len(found) + 2] = choice[1].salt
      BY <1>0, <2>1, <2>2, NextRoot
    <2>5. Len(found') = Len(found) + 1 /\ Len(found) \in Nat
      BY <1>0, <2>3, ExtendedSequence, SequenceIs DEF Descending, Linked
    <2>6. Len(found') + 1 = Len(found) + 2
      BY <2>5
    <2>7. Discovering'
      BY <1>1, <2>3, <2>4, <2>6 DEF Discovering
    <2> QED
      BY <1>0, <1>3, <2>3, <2>7
  <1>9. CASE EndChain
    <2>1. left = <<>> /\ image # None
      BY <1>0, <1>9 DEF EndChain, Documents
    <2>2. SoundImage(image) /\ IsSequence(image.layers) /\ image.root # None
      BY <1>0, <2>1, ImageIsSound, ImageIs DEF Descending
    <2>3. Len(found) = Len(Scutes(image))
      <3>1. Len(left) = 0 /\ Len(found) \in Nat
        BY <1>0, <2>1, SequenceIs DEF Descending, Linked
      <3> QED
        BY <1>0, <3>1 DEF Descending
    <2>4. parent = Zero
      BY <1>0, <2>2, <2>3 DEF SoundImage, Discovering
    <2>5. phase' = "copy" /\ queue' = Small(image) \o Scutes(image)
      BY <1>9, <2>4 DEF EndChain
    <2>6. \A i \in DOMAIN queue' : Holds(queue'[i].digest, queue'[i].size)
      BY <2>1, <2>2, <2>5, ImageIs, BlobsHeld, JoinedHeld
    <2>7. \A i \in DOMAIN queue' : Holds(queue[i].digest, queue[i].size)'
      BY <2>6, SoundStays
    <2> QED
      BY <1>0, <1>1, <1>2, <2>5, <2>7 DEF Serves, Held
  <1> QED
    BY <1>5, <1>6, <1>7, <1>8, <1>9

LEMMA SoundKept == ASSUME Inv, [Next]_vars PROVE Sound' /\ changes' = 0 => Serves'
  <1> SUFFICES ASSUME Sound', changes' = 0 PROVE Serves'
    OBVIOUS
  <1>1. UNCHANGED world /\ (Read \/ UNCHANGED vars \/ changes' = changes + 1)
    BY WorldStays
  <1>2. changes \in Nat
    BY WorldIs DEF Inv, Types
  <1>3. UNCHANGED vars \/ (Read /\ UNCHANGED changes)
    <2>1. changes' # changes + 1
      BY <1>2
    <2>2. Read => UNCHANGED changes
      BY DEF Read, CachedIndex, OpenIndex, OpenMetadata, ReadIndex, OpenManifest, ReadManifest, OpenBlob, CopyChunk, EndCopy,
             Verified, Copied, OpenPrepared, ReadHeader, ReadRoot, EndLayer, EndChain, Refuse, others
    <2> QED
      BY <1>1, <2>1, <2>2
  <1>4. Types /\ Documents /\ Copies /\ Chained /\ Sound /\ Serves
    <2>1. Sound /\ changes = 0
      BY <1>1, <1>3, SoundStays DEF vars, others
    <2> QED
      BY <2>1 DEF Inv
  <1>5. CASE UNCHANGED vars
    <2>1. UNCHANGED <<world, store, prepared, phase, file, got, pin, queue, image, left, parent, todo, header, choice, found>>
      BY <1>5 DEF vars, others, reading, metadata, blobs, chain
    <2>2. (SoundPin(pin)' <=> SoundPin(pin)) /\ \A i : Holds(queue[i].digest, queue[i].size)' <=> Holds(queue[i].digest, queue[i].size)
      BY <2>1 DEF SoundPin, Holds, Candidates, Matches, SoundImage, PreparedFor
    <2>3. Discovering' <=> Discovering
      BY <2>1 DEF Discovering, Right, Variants, Layer, HashOf, Decoded
    <2> QED
      BY <1>4, <2>1, <2>2, <2>3 DEF Serves, Held
  <1>6. CASE Read
    BY <1>1, <1>4, <1>6, ServesDocuments, ServesBlobs, ServesChain DEF Read
  <1> QED
    BY <1>3, <1>5, <1>6

LEMMA Inductive == ASSUME Inv, [Next]_vars PROVE Inv'
  <1>1. Types' /\ Documents' /\ Copies' /\ Chained'
    BY TypesKept, DocumentsKept, CopiesKept, ChainedKept DEF Inv
  <1>2. (Sound /\ changes = 0 => Serves)'
    BY SoundKept
  <1> QED
    BY <1>1, <1>2 DEF Inv

-----------------------------------------------------------------------------
(* What the invariant says *)

LEMMA Resolves == ASSUME Inv PROVE ResolvesSoundly
  <1>0. Types /\ Documents /\ Copies /\ Chained /\ (Sound /\ changes = 0 => Serves)
    BY DEF Inv
  <1>1. TypeOK
    BY <1>0 DEF Types, TypeOK
  <1>2. ResolvedAsPinned
    <2> SUFFICES ASSUME image # None
                 PROVE  /\ Cardinality(Offered(world.indexes[pin])) = 1
                        /\ \A i \in Offered(world.indexes[pin]) : image = world.manifests[world.indexes[pin][i].digest]
      BY DEF ResolvedAsPinned
    <2>1. PICK i \in DOMAIN world.indexes[pin] :
            Candidates(world.indexes[pin]) = {i} /\ image = world.manifests[world.indexes[pin][i].digest]
      BY <1>0 DEF Documents, Pinned
    <2>2. Offered(world.indexes[pin]) = {i}
      BY <2>1, OfferedIs
    <2>3. Cardinality({i}) = 1
      BY FS_Singleton
    <2> QED
      BY <2>1, <2>2, <2>3
  <1>3. ReceiptsAreReal
    BY <1>0 DEF Copies
  <1>4. EverythingCopied
    <2> SUFFICES ASSUME phase = "done" PROVE EverythingCopied
      BY DEF EverythingCopied
    <2>1. image # None /\ Validate(image) /\ IsSequence(image.layers)
      BY <1>0, ImageIs DEF Documents
    <2>2. \A n \in Digests(Small(image)) : Received(n, "verify") /\ Received(n, "copy")
      BY <1>0 DEF Copies
    <2>3. image.config.kind = "config" => image.config.digest \in Digests(Small(image))
      <3>1. image.config.kind # "empty" => \E j \in DOMAIN Small(image) : Small(image)[j] = image.config
        BY <2>1, ManifestIs
      <3> QED
        BY <3>1 DEF Digests
    <2>4. \A i \in DOMAIN image.layers : image.layers[i].kind \in {"pmi", "boot"} => image.layers[i].digest \in Digests(Small(image))
      <3>1. \A i \in DOMAIN image.layers : ~IsScute(image.layers[i]) => \E j \in DOMAIN Small(image) : Small(image)[j] = image.layers[i]
        BY <2>1, ManifestIs
      <3>2. \A i \in DOMAIN image.layers : image.layers[i].kind \in {"pmi", "boot"} => ~IsScute(image.layers[i])
        BY DEF IsScute
      <3> QED
        BY <3>1, <3>2 DEF Digests
    <2> QED
      BY <2>2, <2>3, <2>4 DEF EverythingCopied, Received
  <1>5. ChainCommitted
    <2> SUFFICES ASSUME phase \in {"copy", "done"}, image.root # None PROVE ChainCommitted
      BY DEF ChainCommitted
    <2>1. Linked /\ Len(found) = Len(Scutes(image)) /\ found[Len(found)].salt = Zero
      BY <1>0 DEF Chained
    <2>2. DOMAIN found = 1..Len(found)
      BY <2>1, SequenceIs DEF Linked
    <2> QED
      BY <2>1, <2>2 DEF ChainCommitted, Linked
  <1>6. CaptureBounded
    BY <1>0 DEF Types, CaptureBounded
  <1>7. SoundCacheServes
    BY <1>0 DEF Serves, SoundCacheServes
  <1> QED
    BY <1>1, <1>2, <1>3, <1>4, <1>5, <1>6, <1>7 DEF ResolvesSoundly

\* A resolution trusts nothing but digests, whatever others write to the cache:
\* the image is the one entry that the pinned index has for this host, what was
\* verified and copied are the bytes its digests name, the chain is the one the
\* manifest commits to, and a cache that holds all of it is never refused
\* (Cache::resolve, Chain::from_index).
THEOREM ImageResolved == Spec => []ResolvesSoundly
  <1>1. Spec => []Inv
    BY Starts, Inductive, PTL DEF Spec
  <1> QED
    BY <1>1, Resolves, PTL
=============================================================================
