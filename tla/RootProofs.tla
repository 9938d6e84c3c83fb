----------------------------- MODULE RootProofs ------------------------------
(***************************************************************************)
(* Proofs about the root of a command, for every image, kernel and         *)
(* appliance, and every number of links a lookup follows.  RootInv is      *)
(* inductive, and holds while this machine is the one that was chosen.     *)
(* A lookup is a recursion over locations and paths: first such recursions *)
(* and lookups, then the trees and what mounts do to them, the mount       *)
(* points, the private shell, the steps, and what follows.                 *)
(***************************************************************************)
EXTENDS MCStages, FiniteSetTheorems, SequenceTheorems, WellFoundedInduction, TLAPS

\* A set of numbers that is not empty has a least one.
LEMMA LeastNumber == ASSUME NEW S, S \subseteq Nat, S # {} PROVE \E m \in S : \A k \in S : m <= k
<1> DEFINE R == {ss \in Nat \X Nat : ss[1] < ss[2]}
<1>1. R = OpToRel(<, Nat)
  BY DEF OpToRel
<1> HIDE DEF R
<1>2. IsWellFoundedOn(R, Nat)
  BY <1>1, NatLessThanWellFounded
<1>3. \E x \in S : \A y \in S : ~(<<y, x>> \in R)
  BY <1>2, WFMin
<1>4. \A x, y \in S : ~(<<y, x>> \in R) => x <= y
  BY DEF R
<1> QED
  BY <1>3, <1>4

-----------------------------------------------------------------------------
(* Functions that are defined by recursion *)

\* f on D, where x in T has a value of its own and any other one that of up[x], combined.
Recurs(T, up, val, comb, f, D) ==
  /\ \A x \in D \ T : up[x] \in D
  /\ f = [x \in D |-> IF x \in T THEN val[x] ELSE comb[<<x, f[up[x]]>>]]

\* The recursion ends, and its values are of a kind.
Ends(X, T, up, V, val, comb) ==
  /\ \A x \in X \cap T : val[x] \in V
  /\ \A x \in X \ T : up[x] \in X /\ \A v \in V : comb[<<x, v>>] \in V
  /\ \A S \in SUBSET X : S # {} => \E x \in S : x \in T \/ up[x] \notin S

\* Two such functions agree where both are defined.
LEMMA RecursionsAgree ==
  ASSUME NEW X, NEW T, NEW up, NEW V, NEW val, NEW comb, Ends(X, T, up, V, val, comb),
         NEW f, NEW D \in SUBSET X, Recurs(T, up, val, comb, f, D),
         NEW g, NEW E \in SUBSET X, Recurs(T, up, val, comb, g, E)
  PROVE  \A x \in D \cap E : f[x] = g[x]
<1> DEFINE S == {x \in D \cap E : f[x] # g[x]}
<1> SUFFICES ASSUME S # {} PROVE FALSE
  OBVIOUS
<1>1. PICK x \in S : x \in T \/ up[x] \notin S
  <2>1. S \in SUBSET X
    OBVIOUS
  <2> QED
    BY <2>1 DEF Ends
<1>2. x \in D /\ x \in E
  OBVIOUS
<1>3. f[x] = (IF x \in T THEN val[x] ELSE comb[<<x, f[up[x]]>>])
  BY <1>2 DEF Recurs
<1>4. g[x] = (IF x \in T THEN val[x] ELSE comb[<<x, g[up[x]]>>])
  BY <1>2 DEF Recurs
<1>5. x \notin T => up[x] \in D /\ up[x] \in E
  BY <1>2 DEF Recurs
<1>6. x \notin T => f[up[x]] = g[up[x]]
  BY <1>1, <1>5
<1> QED
  BY <1>3, <1>4, <1>6

\* Each argument is in the domain of one.
LEMMA RecursionReaches ==
  ASSUME NEW X, NEW T, NEW up, NEW V, NEW val, NEW comb, Ends(X, T, up, V, val, comb), NEW y \in X
  PROVE  \E D \in SUBSET X : \E f : y \in D /\ Recurs(T, up, val, comb, f, D) /\ f[y] \in V
<1> DEFINE P == {x \in X : \E D \in SUBSET X : \E f : x \in D /\ Recurs(T, up, val, comb, f, D) /\ f[x] \in V}
<1> SUFFICES ASSUME X \ P # {} PROVE FALSE
  OBVIOUS
<1>1. PICK x \in X \ P : x \in T \/ up[x] \notin X \ P
  <2>1. X \ P \in SUBSET X
    OBVIOUS
  <2> HIDE DEF P
  <2> QED
    BY <2>1 DEF Ends
<1>2. CASE x \in T
  <2> DEFINE f == [z \in {x} |-> val[z]]
  <2>1. Recurs(T, up, val, comb, f, {x}) /\ f[x] \in V
    BY <1>1, <1>2 DEF Recurs, Ends
  <2> QED
    BY <1>1, <2>1
<1>3. CASE x \notin T
  <2>1. up[x] \in P
    BY <1>1, <1>3 DEF Ends
  <2>2. PICK D, f : D \in SUBSET X /\ up[x] \in D /\ Recurs(T, up, val, comb, f, D) /\ f[up[x]] \in V
    BY <2>1
  <2> DEFINE U == D \cup {x}
             g == [z \in U |-> IF z \in D THEN f[z] ELSE comb[<<x, f[up[x]]>>]]
  <2>3. comb[<<x, f[up[x]]>>] \in V
    BY <1>1, <1>3, <2>2 DEF Ends
  <2>4. x \notin D
    <3> SUFFICES ASSUME x \in D PROVE FALSE
      OBVIOUS
    <3>1. f[x] = comb[<<x, f[up[x]]>>]
      BY <1>3, <2>2 DEF Recurs
    <3> QED
      BY <1>1, <2>2, <2>3, <3>1
  <2>5. (\A z \in D : g[z] = f[z]) /\ g[x] = comb[<<x, f[up[x]]>>] /\ g[up[x]] = f[up[x]]
    BY <2>2, <2>4
  <2>6. g = [z \in U |-> g[z]] /\ U \in SUBSET X
    BY <1>1, <2>2
  <2> HIDE DEF g
  <2>7. \A z \in U \ T : up[z] \in U
    BY <2>2 DEF Recurs
  <2>8. ASSUME NEW z \in U PROVE g[z] = IF z \in T THEN val[z] ELSE comb[<<z, g[up[z]]>>]
    <3>1. CASE z \in D
      <4>1. f[z] = IF z \in T THEN val[z] ELSE comb[<<z, f[up[z]]>>]
        BY <2>2, <3>1 DEF Recurs
      <4>2. z \notin T => g[up[z]] = f[up[z]]
        BY <2>2, <2>5, <3>1 DEF Recurs
      <4> QED
        BY <2>5, <3>1, <4>1, <4>2
    <3>2. CASE z = x
      BY <1>3, <2>5, <3>2
    <3> QED
      BY <3>1, <3>2
  <2>9. g = [z \in U |-> IF z \in T THEN val[z] ELSE comb[<<z, g[up[z]]>>]]
    BY <2>6, <2>8
  <2>10. Recurs(T, up, val, comb, g, U)
    BY <2>7, <2>9 DEF Recurs
  <2> QED
    BY <1>1, <2>3, <2>5, <2>6, <2>10
<1> QED
  BY <1>2, <1>3

\* So there is one for all of them.
LEMMA RecursionExists ==
  ASSUME NEW X, NEW T, NEW up, NEW V, NEW val, NEW comb, Ends(X, T, up, V, val, comb)
  PROVE  \E f \in [X -> V] : f = [x \in X |-> IF x \in T THEN val[x] ELSE comb[<<x, f[up[x]]>>]]
<1> DEFINE Serves(D, f, x) == x \in D /\ Recurs(T, up, val, comb, f, D)
           F == [x \in X |-> CHOOSE v : \E D \in SUBSET X : \E f : Serves(D, f, x) /\ v = f[x]]
<1>1. ASSUME NEW D \in SUBSET X, NEW f, NEW x, Serves(D, f, x) PROVE F[x] = f[x]
  <2>1. PICK E, g : E \in SUBSET X /\ Serves(E, g, x) /\ F[x] = g[x]
    BY <1>1
  <2> QED
    BY <1>1, <2>1, RecursionsAgree
<1>2. F = [x \in X |-> F[x]]
  OBVIOUS
<1> HIDE DEF F
<1>3. ASSUME NEW x \in X
      PROVE  F[x] \in V /\ F[x] = IF x \in T THEN val[x] ELSE comb[<<x, F[up[x]]>>]
  <2>1. PICK D, f : D \in SUBSET X /\ Serves(D, f, x) /\ f[x] \in V
    BY RecursionReaches
  <2>2. F[x] = f[x]
    BY <1>1, <2>1
  <2>3. x \notin T => Serves(D, f, up[x])
    BY <2>1 DEF Recurs
  <2>4. x \notin T => F[up[x]] = f[up[x]]
    BY <1>1, <2>1, <2>3
  <2>5. f[x] = IF x \in T THEN val[x] ELSE comb[<<x, f[up[x]]>>]
    BY <2>1 DEF Recurs
  <2> QED
    BY <2>1, <2>2, <2>4, <2>5
<1>4. F = [x \in X |-> IF x \in T THEN val[x] ELSE comb[<<x, F[up[x]]>>]]
  BY <1>2, <1>3
<1>5. F \in [X -> V]
  BY <1>2, <1>3
<1> QED
  BY <1>4, <1>5

-----------------------------------------------------------------------------
(* Lookups *)

\* Nodes, and what is mounted on them.
Image(d, o) ==
  /\ C!TreeOf(d) /\ Len(d) \in Nat /\ DOMAIN d = 1..Len(d) /\ Len(d) >= 2
  /\ \A n \in 1..2 : d[n].up = 0 /\ d[n].kind = "dir"
  /\ DOMAIN o \subseteq C!Views \X DOMAIN d
  /\ \A l \in DOMAIN o : o[l] \in C!Views \X DOMAIN d /\ d[l[2]].kind = "dir" /\ d[o[l][2]].kind = "dir"

\* Where a lookup may be, what it may give, and what it gives if it is at its end.
Ways(d) == [at : C!Views \X DOMAIN d, path : Seq(STRING), links : 0..MaxLinks]
Answers == {"ok", "NOTDIR", "NOENT", "LOOP", "XDEV"}
Results(d) == [err : Answers, at : (C!Views \X DOMAIN d) \cup {<<"root", 0>>}]
Over(d, o, root, flags) == {w \in Ways(d) : w.path = <<>> \/ C!OneName(d, o, root, flags, w).err # "ok"}
Final(d, o, root, flags) ==
  [w \in Ways(d) |-> IF w.path = <<>> THEN C!Found(w.at) ELSE C!Error(C!OneName(d, o, root, flags, w).err)]

LEMMA Links == MaxLinks \in Nat
  BY RootIsSound DEF C!RootAssumption

\* A path that is not empty has a first name and a rest.
LEMMA Split ==
  ASSUME NEW S, NEW p \in Seq(S), p # <<>>
  PROVE  /\ Head(p) \in S /\ Tail(p) \in Seq(S) /\ Len(Tail(p)) = Len(p) - 1 /\ Len(p) \in Nat \ {0}
         /\ Head(p) = p[1] /\ \A i \in 1..(Len(p) - 1) : Tail(p)[i] = p[i + 1]
  OBVIOUS

LEMMA SplitMore ==
  ASSUME NEW S, NEW p \in Seq(S), p # <<>>, NEW x \in S
  PROVE  /\ p \o <<x>> \in Seq(S) /\ p \o <<x>> # <<>>
         /\ Head(p \o <<x>>) = Head(p) /\ Tail(p \o <<x>>) = Tail(p) \o <<x>>
<1>1. <<x>> \in Seq(S) /\ Len(p) \in Nat \ {0}
  BY Split
<1>0. \A r \in Seq(S) : r \o <<x>> \in Seq(S)
  BY <1>1
<1>2. PICK q \in Seq(S) : q = p \o <<x>>
  BY <1>0
<1>3. Len(q) = Len(p) + 1 /\ q[1] = p[1] /\ q # <<>> /\ \A i \in 1..Len(q) : q[i] = IF i <= Len(p) THEN p[i] ELSE x
  BY <1>1, <1>2
<1>4. PICK t \in Seq(S) : t = Tail(p)
  BY Split
<1>5. Len(t) = Len(p) - 1 /\ \A i \in 1..(Len(p) - 1) : t[i] = p[i + 1]
  BY <1>4, Split
<1>6. PICK u \in Seq(S) : u = t \o <<x>>
  BY <1>0
<1>7. Len(u) = Len(p) /\ \A i \in 1..Len(u) : u[i] = IF i <= Len(p) - 1 THEN t[i] ELSE x
  BY <1>1, <1>5, <1>6
<1>8. PICK v \in Seq(S) : v = Tail(q)
  BY <1>3, Split
<1>9. Len(v) = Len(p) /\ \A i \in 1..Len(p) : v[i] = q[i + 1]
  BY <1>1, <1>3, <1>8, Split
<1>10. u = v
  <2>1. ASSUME NEW i \in 1..Len(p) PROVE u[i] = v[i]
    <3>1. v[i] = q[i + 1] /\ i + 1 \in 1..Len(q)
      BY <1>1, <1>3, <1>9
    <3>2. v[i] = IF i + 1 <= Len(p) THEN p[i + 1] ELSE x
      BY <1>3, <3>1
    <3>3. u[i] = IF i <= Len(p) - 1 THEN t[i] ELSE x
      BY <1>7
    <3>4. CASE i + 1 <= Len(p)
      <4>1. i <= Len(p) - 1 /\ i \in 1..(Len(p) - 1)
        BY <1>1, <3>4
      <4> QED
        BY <1>5, <3>2, <3>3, <3>4, <4>1
    <3>5. CASE ~(i + 1 <= Len(p))
      <4>1. ~(i <= Len(p) - 1)
        BY <1>1, <3>5
      <4> QED
        BY <3>2, <3>3, <3>5, <4>1
    <3> QED
      BY <3>4, <3>5
  <2> QED
    BY <1>7, <1>9, <2>1
<1>11. Head(q) = q[1] /\ Head(p) = p[1]
  BY <1>3, Split
<1> QED
  BY <1>2, <1>3, <1>4, <1>6, <1>8, <1>10, <1>11

LEMMA JoinIs ==
  ASSUME NEW S, NEW p \in Seq(S), NEW q \in Seq(S)
  PROVE  /\ p \o q \in Seq(S) /\ Len(p \o q) = Len(p) + Len(q) /\ DOMAIN (p \o q) = 1..(Len(p) + Len(q))
         /\ Len(p) \in Nat /\ Len(q) \in Nat /\ DOMAIN p = 1..Len(p) /\ DOMAIN q = 1..Len(q)
         /\ \A i \in 1..(Len(p) + Len(q)) : (p \o q)[i] = IF i <= Len(p) THEN p[i] ELSE q[i - Len(p)]
  OBVIOUS

LEMMA Regroup ==
  ASSUME NEW S, NEW p \in Seq(S), NEW q \in Seq(S), NEW r \in Seq(S)
  PROVE  (p \o q) \o r = p \o (q \o r)
  OBVIOUS

\* What the next name of a lookup leads to.
Onto1(d, o, w, n, f) == f = [at |-> C!Cross(o, <<w.at[1], n>>), path |-> Tail(w.path), links |-> w.links]
Next1(d, o, root, flags, w, f) ==
  \E n \in DOMAIN d :
    /\ d[w.at[2]].kind = "dir" /\ d[n].up = w.at[2] /\ d[n].name = Head(w.path)
    /\ \/ /\ d[n].kind = "link" /\ "links" \in flags /\ w.links # 0
          /\ f = [at |-> root, path |-> d[n].to \o Tail(w.path), links |-> w.links - 1]
       \/ /\ d[n].kind # "link"
          /\ <<w.at[1], n>> \in DOMAIN o => "mounts" \in flags
          /\ Onto1(d, o, w, n, f)

\* A lookup that goes on took one name that is there.
LEMMA GoesOn ==
  ASSUME NEW d, NEW o, Image(d, o), NEW root, NEW flags, NEW w \in Ways(d),
         C!OneName(d, o, root, flags, w).err = "ok"
  PROVE  Next1(d, o, root, flags, w, C!OneName(d, o, root, flags, w).on)
<1> DEFINE entry == C!EntryOf(d, w.at, Head(w.path))
           n == CHOOSE n \in entry : TRUE
<1>1. entry # {} /\ d[w.at[2]].kind = "dir"
  BY DEF C!OneName, C!Stops
<1>2. n \in DOMAIN d /\ d[n].up = w.at[2] /\ d[n].name = Head(w.path)
  BY <1>1 DEF C!EntryOf
<1>3. PICK m : m = n
  OBVIOUS
<1>4. CASE d[m].kind = "link"
  <2>1. "links" \in flags /\ w.links # 0
    BY <1>1, <1>3, <1>4 DEF C!OneName, C!Stops
  <2>2. C!OneName(d, o, root, flags, w).on = [at |-> root, path |-> d[m].to \o Tail(w.path), links |-> w.links - 1]
    BY <1>1, <1>3, <1>4, <2>1 DEF C!OneName, C!Goes
  <2> QED
    BY <1>1, <1>2, <1>3, <1>4, <2>1, <2>2 DEF Next1
<1>5. CASE d[m].kind # "link"
  <2>1. <<w.at[1], m>> \in DOMAIN o => "mounts" \in flags
    BY <1>1, <1>3, <1>5 DEF C!OneName, C!Stops
  <2>2. C!OneName(d, o, root, flags, w).on = [at |-> C!Cross(o, <<w.at[1], m>>), path |-> Tail(w.path), links |-> w.links]
    BY <1>1, <1>3, <1>5, <2>1 DEF C!OneName, C!Goes
  <2> QED
    BY <1>1, <1>2, <1>3, <1>5, <2>1, <2>2 DEF Next1, Onto1
<1> QED
  BY <1>4, <1>5

\* What one name may give.
LEMMA Outcomes ==
  ASSUME NEW d, NEW o, NEW root, NEW flags, NEW w
  PROVE  C!OneName(d, o, root, flags, w).err \in Answers
<1> DEFINE entry == C!EntryOf(d, w.at, Head(w.path))
           n == <<w.at[1], CHOOSE n \in entry : TRUE>>
<1>1. \A e, v : C!Stops(e, v).err = e /\ C!Goes(v).err = "ok"
  BY DEF C!Stops, C!Goes
<1>2. CASE d[w.at[2]].kind # "dir"
  BY <1>1, <1>2 DEF C!OneName, Answers
<1>3. CASE d[w.at[2]].kind = "dir" /\ entry = {}
  BY <1>1, <1>3 DEF C!OneName, Answers
<1>4. CASE d[w.at[2]].kind = "dir" /\ entry # {} /\ d[n[2]].kind = "link"
  BY <1>1, <1>4 DEF C!OneName, Answers
<1>5. CASE d[w.at[2]].kind = "dir" /\ entry # {} /\ d[n[2]].kind # "link"
  <2>1. CASE n \in DOMAIN o /\ "mounts" \notin flags
    BY <1>1, <1>5, <2>1 DEF C!OneName, Answers
  <2>2. CASE ~(n \in DOMAIN o /\ "mounts" \notin flags)
    BY <1>1, <1>5, <2>2 DEF C!OneName, Answers
  <2> QED
    BY <2>1, <2>2
<1> QED
  BY <1>2, <1>3, <1>4, <1>5

\* It is somewhere again, with fewer links or the same and a shorter path.
LEMMA Shorter ==
  ASSUME NEW d, NEW o, Image(d, o), NEW root \in C!Views \X DOMAIN d, NEW flags, NEW w \in Ways(d), w.path # <<>>,
         NEW f, Next1(d, o, root, flags, w, f)
  PROVE  /\ f \in Ways(d)
         /\ f.links < w.links \/ (f.links = w.links /\ Len(f.path) < Len(w.path))
<1>1. PICK n \in DOMAIN d :
         \/ /\ d[n].kind = "link" /\ w.links # 0
            /\ f = [at |-> root, path |-> d[n].to \o Tail(w.path), links |-> w.links - 1]
         \/ Onto1(d, o, w, n, f)
  BY DEF Next1
<1>2. w.at \in C!Views \X DOMAIN d /\ w.path \in Seq(STRING) /\ w.links \in 0..MaxLinks /\ w.at[1] \in C!Views
  BY DEF Ways
<1>3. Tail(w.path) \in Seq(STRING) /\ Len(Tail(w.path)) < Len(w.path)
  <2>1. PICK p \in Seq(STRING) : p = w.path
    BY <1>2
  <2>2. Tail(p) \in Seq(STRING) /\ Len(Tail(p)) = Len(p) - 1 /\ Len(p) \in Nat
    BY <2>1, Split
  <2>3. Len(Tail(p)) < Len(p)
    BY <2>2
  <2> QED
    BY <2>1, <2>2, <2>3
<1>4. d[n].to \in Seq(STRING)
  BY DEF Image, C!TreeOf
<1>5. ASSUME w.links # 0, f = [at |-> root, path |-> d[n].to \o Tail(w.path), links |-> w.links - 1]
      PROVE  f \in Ways(d) /\ f.links < w.links
  <2>1. w.links - 1 \in 0..MaxLinks /\ w.links - 1 < w.links
    BY <1>2, <1>5, Links
  <2>2. d[n].to \o Tail(w.path) \in Seq(STRING)
    BY <1>3, <1>4
  <2> QED
    BY <1>5, <2>1, <2>2 DEF Ways
<1>6. ASSUME Onto1(d, o, w, n, f)
      PROVE  f \in Ways(d) /\ f.links = w.links /\ Len(f.path) < Len(w.path)
  <2>1. C!Cross(o, <<w.at[1], n>>) \in C!Views \X DOMAIN d
    BY <1>2 DEF C!Cross, Image
  <2> QED
    BY <1>2, <1>3, <1>6, <2>1 DEF Onto1, Ways
<1> QED
  BY <1>1, <1>5, <1>6

\* Among lookups there is one none of the others is a later part of.
LEMMA Latest ==
  ASSUME NEW d, NEW S \in SUBSET Ways(d), S # {}
  PROVE  \E w \in S : \A v \in S : ~(v.links < w.links \/ (v.links = w.links /\ Len(v.path) < Len(w.path)))
<1> DEFINE K == {w.links : w \in S}
<1>1. PICK k \in K : \A j \in K : k <= j
  <2>1. K # {} /\ K \subseteq Nat
    BY DEF Ways
  <2> QED
    BY <2>1, LeastNumber
<1> DEFINE M == {Len(w.path) : w \in {v \in S : v.links = k}}
<1>2. PICK m \in M : \A j \in M : m <= j
  <2>1. \A v \in S : Len(v.path) \in Nat
    BY DEF Ways
  <2>2. M # {}
    BY <1>1
  <2>3. M \subseteq Nat
    BY <2>1
  <2> QED
    BY <2>2, <2>3, LeastNumber
<1>3. PICK w \in S : w.links = k /\ Len(w.path) = m
  BY <1>2
<1>4. ASSUME NEW v \in S PROVE ~(v.links < w.links \/ (v.links = w.links /\ Len(v.path) < Len(w.path)))
  <2>1. k <= v.links /\ v.links \in Nat /\ w.links \in Nat /\ Len(v.path) \in Nat /\ Len(w.path) \in Nat
    BY <1>1 DEF Ways
  <2>2. v.links = k => m <= Len(v.path)
    BY <1>2
  <2> QED
    BY <1>3, <2>1, <2>2
<1> QED
  BY <1>4

\* So a lookup ends: it is what its equation says.
LEMMA LookupIs ==
  ASSUME NEW d, NEW o, Image(d, o), NEW root \in C!Views \X DOMAIN d, NEW flags
  PROVE  /\ C!Lookup(d, o, root, flags) \in [Ways(d) -> Results(d)]
         /\ \A w \in Ways(d) :
              C!Lookup(d, o, root, flags)[w] =
                IF w.path = <<>> THEN C!Found(w.at)
                ELSE IF C!OneName(d, o, root, flags, w).err # "ok" THEN C!Error(C!OneName(d, o, root, flags, w).err)
                ELSE C!Lookup(d, o, root, flags)[C!OneName(d, o, root, flags, w).on]
<1> DEFINE X == Ways(d)
           V == Results(d)
           T == Over(d, o, root, flags)
           val == Final(d, o, root, flags)
           up == [w \in X |-> C!OneName(d, o, root, flags, w).on]
           comb == [xv \in X \X V |-> xv[2]]
<1>1. \A x \in X \cap T : val[x] \in V
  <2>1. ASSUME NEW x \in X, x.path = <<>> PROVE val[x] \in V
    <3>1. val[x] = C!Found(x.at)
      BY <2>1 DEF Final
    <3>2. x.at \in C!Views \X DOMAIN d
      BY DEF Ways
    <3>3. C!Found(x.at) \in V
      BY <3>2 DEF C!Found, Results, Answers
    <3> QED
      BY <3>1, <3>3
  <2>2. ASSUME NEW x \in X, x.path # <<>> PROVE val[x] \in V
    <3>1. C!OneName(d, o, root, flags, x).err \in Answers
      BY Outcomes
    <3>2. val[x] = C!Error(C!OneName(d, o, root, flags, x).err)
      BY <2>2 DEF Final
    <3>3. \A e \in Answers : C!Error(e) \in V
      BY DEF C!Error, Results
    <3> QED
      BY <3>1, <3>2, <3>3
  <2> QED
    BY <2>1, <2>2
<1>2. ASSUME NEW x \in X \ T PROVE x.path # <<>> /\ Next1(d, o, root, flags, x, up[x])
  BY GoesOn DEF Over
<1>3. \A x \in X \ T : up[x] \in X /\ \A v \in V : comb[<<x, v>>] \in V
  <2>1. \A x \in X \ T : up[x] \in X
    BY <1>2, Shorter
  <2> QED
    BY <2>1
<1>4. ASSUME NEW S \in SUBSET X, S # {} PROVE \E x \in S : x \in T \/ up[x] \notin S
  <2>1. PICK w \in S : \A v \in S : ~(v.links < w.links \/ (v.links = w.links /\ Len(v.path) < Len(w.path)))
    BY <1>4, Latest
  <2>2. w \notin T => up[w] \notin S
    BY <1>2, <2>1, Shorter
  <2> QED
    BY <2>2
<1>5. Ends(X, T, up, V, val, comb)
  BY <1>1, <1>3, <1>4 DEF Ends
<1>6. PICK f \in [X -> V] : f = [x \in X |-> IF x \in T THEN val[x] ELSE comb[<<x, f[up[x]]>>]]
  BY <1>5, RecursionExists
<1> DEFINE body(g, w) ==
      IF w.path = <<>> THEN C!Found(w.at)
      ELSE IF C!OneName(d, o, root, flags, w).err # "ok" THEN C!Error(C!OneName(d, o, root, flags, w).err)
      ELSE g[C!OneName(d, o, root, flags, w).on]
<1>7. ASSUME NEW w \in X PROVE f[w] = body(f, w)
  <2>1. w \in T <=> w.path = <<>> \/ C!OneName(d, o, root, flags, w).err # "ok"
    BY DEF Over
  <2>2. CASE w \in T
    <3>1. f[w] = val[w]
      BY <1>6, <2>2
    <3> QED
      BY <2>1, <2>2, <3>1 DEF Final
  <2>3. CASE w \notin T
    <3>1. f[w] = comb[<<w, f[up[w]]>>]
      BY <1>6, <2>3
    <3>2. up[w] \in X
      BY <1>3, <2>3
    <3>3. f[w] = f[up[w]]
      BY <3>1, <3>2
    <3> QED
      BY <2>1, <2>3, <3>3
  <2> QED
    BY <2>2, <2>3
<1>8. f = [w \in X |-> body(f, w)]
  BY <1>7
<1> DEFINE L == C!Lookup(d, o, root, flags)
<1>9. L = CHOOSE g : g = [w \in X |-> body(g, w)]
  BY DEF C!Lookup, Ways
<1> HIDE DEF L, body
<1>10. L = [w \in X |-> body(L, w)]
  BY <1>8, <1>9
<1>11. L = [w \in X |-> L[w]] /\ \A w \in X : L[w] = body(L, w)
  BY <1>10
<1>12. \A w \in X : L[w] \in V
  <2> DEFINE S == {w \in X : L[w] \notin V}
  <2> SUFFICES ASSUME S # {} PROVE FALSE
    OBVIOUS
  <2>1. PICK x \in S : x \in T \/ up[x] \notin S
    <3>1. S \in SUBSET X
      OBVIOUS
    <3> HIDE DEF S
    <3> QED
      BY <3>1, <1>4
  <2>2. x \in T => L[x] = val[x]
    BY <1>11 DEF body, Over, Final
  <2>3. x \notin T => L[x] = L[up[x]]
    BY <1>11 DEF body, Over
  <2>4. x \notin T => up[x] \in X
    BY <1>3
  <2> QED
    BY <1>1, <2>1, <2>2, <2>3, <2>4
<1>13. L \in [X -> V]
  BY <1>11, <1>12
<1> QED
  BY <1>11, <1>13 DEF L, body

\* A lookup that succeeds is at its end, or goes on to one that succeeds.
LEMMA Onwards ==
  ASSUME NEW d, NEW o, Image(d, o), NEW root \in C!Views \X DOMAIN d, NEW flags, NEW w \in Ways(d),
         C!Lookup(d, o, root, flags)[w].err = "ok", w.path # <<>>
  PROVE  \E f \in Ways(d) :
           /\ Next1(d, o, root, flags, w, f) /\ C!Lookup(d, o, root, flags)[w] = C!Lookup(d, o, root, flags)[f]
           /\ f.links < w.links \/ (f.links = w.links /\ Len(f.path) < Len(w.path))
<1> DEFINE s == C!OneName(d, o, root, flags, w)
<1>1. s.err = "ok"
  <2> SUFFICES ASSUME s.err # "ok" PROVE FALSE
    OBVIOUS
  <2>1. C!Lookup(d, o, root, flags)[w] = C!Error(s.err)
    BY LookupIs
  <2> QED
    BY <2>1 DEF C!Error
<1>2. Next1(d, o, root, flags, w, s.on)
  BY <1>1, GoesOn
<1>3. C!Lookup(d, o, root, flags)[w] = C!Lookup(d, o, root, flags)[s.on]
  BY <1>1, LookupIs
<1> HIDE DEF s
<1> QED
  BY <1>2, <1>3, Shorter

LEMMA AtTheEnd ==
  ASSUME NEW d, NEW o, Image(d, o), NEW root \in C!Views \X DOMAIN d, NEW flags, NEW w \in Ways(d), w.path = <<>>
  PROVE  C!Lookup(d, o, root, flags)[w] = C!Found(w.at)
  BY LookupIs

\* Names are unique: a name leads to the node that has it.
LEMMA OnlyEntry ==
  ASSUME NEW d, NEW o, Image(d, o), NEW l, l[2] \in DOMAIN d, NEW n \in DOMAIN d, d[n].up = l[2]
  PROVE  C!EntryOf(d, l, d[n].name) = {n}
<1>1. d[n].up # 0
  BY DEF Image
<1>2. \A m \in DOMAIN d : d[m].up = d[n].up /\ d[m].name = d[n].name => m = n
  BY <1>1 DEF Image, C!TreeOf
<1> QED
  BY <1>2 DEF C!EntryOf

LEMMA NextGives ==
  ASSUME NEW d, NEW o, Image(d, o), NEW root \in C!Views \X DOMAIN d, NEW flags, NEW w \in Ways(d), w.path # <<>>,
         NEW f, Next1(d, o, root, flags, w, f)
  PROVE  C!Lookup(d, o, root, flags)[w] = C!Lookup(d, o, root, flags)[f]
<1>1. PICK n \in DOMAIN d :
        /\ d[w.at[2]].kind = "dir" /\ d[n].up = w.at[2] /\ d[n].name = Head(w.path)
        /\ \/ /\ d[n].kind = "link" /\ "links" \in flags /\ w.links # 0
              /\ f = [at |-> root, path |-> d[n].to \o Tail(w.path), links |-> w.links - 1]
           \/ /\ d[n].kind # "link"
              /\ <<w.at[1], n>> \in DOMAIN o => "mounts" \in flags
              /\ Onto1(d, o, w, n, f)
  BY DEF Next1
<1>2. w.at[2] \in DOMAIN d
  BY DEF Ways
<1>3. C!EntryOf(d, w.at, Head(w.path)) = {n}
  <2>1. PICK l : l = w.at
    OBVIOUS
  <2>2. l[2] \in DOMAIN d /\ d[n].up = l[2]
    BY <1>1, <1>2, <2>1
  <2>3. C!EntryOf(d, l, d[n].name) = {n}
    BY <2>2, OnlyEntry
  <2> QED
    BY <1>1, <2>1, <2>3
<1>4. (CHOOSE m \in C!EntryOf(d, w.at, Head(w.path)) : TRUE) = n
  BY <1>3
<1>5. C!OneName(d, o, root, flags, w) = C!Goes(f)
  <2>1. CASE d[n].kind = "link"
    BY <1>1, <1>3, <1>4, <2>1 DEF C!OneName
  <2>2. CASE d[n].kind # "link"
    BY <1>1, <1>3, <1>4, <2>2 DEF C!OneName, Onto1
  <2> QED
    BY <2>1, <2>2
<1>6. C!Goes(f).err = "ok" /\ C!Goes(f).on = f
  BY DEF C!Goes
<1> QED
  BY <1>5, <1>6, LookupIs

\* d is a part of e.
Extends(d, e) == Len(d) <= Len(e) /\ \A n \in DOMAIN d : e[n] = d[n]

\* New nodes do not change where a lookup leads.
LEMMA Persists ==
  ASSUME NEW d, NEW e, NEW o, Image(d, o), Image(e, o), Extends(d, e),
         NEW root \in C!Views \X DOMAIN d, NEW flags, NEW w \in Ways(d), C!Lookup(d, o, root, flags)[w].err = "ok"
  PROVE  C!Lookup(e, o, root, flags)[w] = C!Lookup(d, o, root, flags)[w]
<1> DEFINE A == C!Lookup(d, o, root, flags)
           B == C!Lookup(e, o, root, flags)
           S == {v \in Ways(d) : A[v].err = "ok" /\ A[v] # B[v]}
<1> SUFFICES ASSUME S # {} PROVE FALSE
  OBVIOUS
<1>0. DOMAIN d \subseteq DOMAIN e
  BY DEF Image, Extends
<1>1. PICK v \in S : \A u \in S : ~(u.links < v.links \/ (u.links = v.links /\ Len(u.path) < Len(v.path)))
  <2>1. S \in SUBSET Ways(d)
    OBVIOUS
  <2> HIDE DEF S
  <2> QED
    BY <2>1, Latest
<1>2. v \in Ways(d) /\ v \in Ways(e) /\ A[v].err = "ok" /\ A[v] # B[v]
  <2>1. v \in Ways(d)
    OBVIOUS
  <2>2. C!Views \X DOMAIN d \subseteq C!Views \X DOMAIN e
    BY <1>0
  <2>3. Ways(d) \subseteq Ways(e)
    BY <2>2 DEF Ways
  <2> QED
    BY <2>1, <2>3
<1>3. root \in C!Views \X DOMAIN e
  BY <1>0
<1>4. v.path # <<>>
  <2> SUFFICES ASSUME v.path = <<>> PROVE A[v] = B[v]
    BY <1>2
  <2> QED
    BY <1>2, <1>3, AtTheEnd
<1>5. PICK f \in Ways(d) :
           /\ Next1(d, o, root, flags, v, f) /\ A[v] = A[f]
           /\ f.links < v.links \/ (f.links = v.links /\ Len(f.path) < Len(v.path))
  BY <1>2, <1>4, Onwards
<1>6. v.at[2] \in DOMAIN d
  BY DEF Ways
<1>7. Next1(e, o, root, flags, v, f)
  BY <1>0, <1>5, <1>6 DEF Next1, Onto1, Extends
<1>8. B[v] = B[f]
  BY <1>2, <1>3, <1>4, <1>7, NextGives
<1>9. f \notin S /\ A[f].err = "ok"
  BY <1>1, <1>2, <1>5
<1> QED
  BY <1>2, <1>5, <1>8, <1>9

\* Places L that nothing leads out of: a child of one is no link, and is another one or covered by another one.
Shut(d, o, L) ==
  \A l \in L, n \in DOMAIN d : d[n].up = l[2] => d[n].kind # "link" /\ C!Cross(o, <<l[1], n>>) \in L

LEMMA Within ==
  ASSUME NEW d, NEW o, Image(d, o), NEW L, Shut(d, o, L),
         NEW root \in C!Views \X DOMAIN d, NEW flags, NEW w \in Ways(d), w.at \in L,
         C!Lookup(d, o, root, flags)[w].err = "ok"
  PROVE  C!Lookup(d, o, root, flags)[w].at \in L
<1> DEFINE A == C!Lookup(d, o, root, flags)
           S == {v \in Ways(d) : v.at \in L /\ A[v].err = "ok" /\ A[v].at \notin L}
<1> SUFFICES ASSUME S # {} PROVE FALSE
  OBVIOUS
<1>1. PICK v \in S : \A u \in S : ~(u.links < v.links \/ (u.links = v.links /\ Len(u.path) < Len(v.path)))
  <2>1. S \in SUBSET Ways(d)
    OBVIOUS
  <2> HIDE DEF S
  <2> QED
    BY <2>1, Latest
<1>2. v \in Ways(d) /\ v.at \in L /\ A[v].err = "ok" /\ A[v].at \notin L
  OBVIOUS
<1>3. v.path # <<>>
  <2> SUFFICES ASSUME v.path = <<>> PROVE FALSE
    OBVIOUS
  <2>1. A[v] = C!Found(v.at)
    BY <1>2, AtTheEnd
  <2> QED
    BY <1>2, <2>1 DEF C!Found
<1>4. PICK f \in Ways(d) :
           /\ Next1(d, o, root, flags, v, f) /\ A[v] = A[f]
           /\ f.links < v.links \/ (f.links = v.links /\ Len(f.path) < Len(v.path))
  BY <1>2, <1>3, Onwards
<1>5. PICK n \in DOMAIN d : d[n].up = v.at[2] /\ (d[n].kind = "link" \/ Onto1(d, o, v, n, f))
  BY <1>4 DEF Next1
<1>6. Onto1(d, o, v, n, f) /\ C!Cross(o, <<v.at[1], n>>) \in L
  BY <1>2, <1>5 DEF Shut
<1>7. f.at \in L
  BY <1>6 DEF Onto1
<1> QED
  BY <1>1, <1>2, <1>4, <1>7

\* A lookup that crosses nothing stays in its filesystem, and meets nothing that is mounted.
LEMMA Outside ==
  ASSUME NEW d, NEW o, Image(d, o), NEW Q, \A n \in DOMAIN d : d[n].up \in Q => n \in Q,
         NEW root \in C!Views \X DOMAIN d, root[2] \in Q, NEW flags, "mounts" \notin flags,
         NEW w \in Ways(d), w.at[2] \in Q, w.at[1] = root[1], w.at = root \/ w.at \notin DOMAIN o,
         C!Lookup(d, o, root, flags)[w].err = "ok"
  PROVE  LET t == C!Lookup(d, o, root, flags)[w].at
         IN  t \in C!Views \X DOMAIN d /\ t[2] \in Q /\ t[1] = root[1] /\ (t = root \/ t \notin DOMAIN o)
<1> DEFINE A == C!Lookup(d, o, root, flags)
           Here(l) == l[2] \in Q /\ l[1] = root[1] /\ (l = root \/ l \notin DOMAIN o)
           S == {v \in Ways(d) : Here(v.at) /\ A[v].err = "ok" /\ ~(A[v].at \in C!Views \X DOMAIN d /\ Here(A[v].at))}
<1> SUFFICES ASSUME S # {} PROVE FALSE
  OBVIOUS
<1>1. PICK v \in S : \A u \in S : ~(u.links < v.links \/ (u.links = v.links /\ Len(u.path) < Len(v.path)))
  <2>1. S \in SUBSET Ways(d)
    OBVIOUS
  <2> HIDE DEF S
  <2> QED
    BY <2>1, Latest
<1>2. v \in Ways(d) /\ Here(v.at) /\ A[v].err = "ok" /\ ~(A[v].at \in C!Views \X DOMAIN d /\ Here(A[v].at))
  OBVIOUS
<1>3. v.path # <<>>
  <2> SUFFICES ASSUME v.path = <<>> PROVE FALSE
    OBVIOUS
  <2>1. A[v] = C!Found(v.at)
    BY <1>2, AtTheEnd
  <2>2. v.at \in C!Views \X DOMAIN d
    BY <1>2 DEF Ways
  <2> QED
    BY <1>2, <2>1, <2>2 DEF C!Found
<1>4. PICK f \in Ways(d) :
           /\ Next1(d, o, root, flags, v, f) /\ A[v] = A[f]
           /\ f.links < v.links \/ (f.links = v.links /\ Len(f.path) < Len(v.path))
  BY <1>2, <1>3, Onwards
<1>5. PICK n \in DOMAIN d :
         /\ d[n].up = v.at[2]
         /\ f.at = root \/ (<<v.at[1], n>> \notin DOMAIN o /\ Onto1(d, o, v, n, f))
  <2>1. PICK n \in DOMAIN d :
          /\ d[n].up = v.at[2]
          /\ \/ f = [at |-> root, path |-> d[n].to \o Tail(v.path), links |-> v.links - 1]
             \/ (<<v.at[1], n>> \in DOMAIN o => "mounts" \in flags) /\ Onto1(d, o, v, n, f)
    BY <1>4 DEF Next1
  <2>2. f = [at |-> root, path |-> d[n].to \o Tail(v.path), links |-> v.links - 1] => f.at = root
    OBVIOUS
  <2> QED
    BY <2>1, <2>2
<1>6. Here(f.at)
  <2>1. CASE f.at = root
    BY <2>1
  <2>2. CASE <<v.at[1], n>> \notin DOMAIN o /\ Onto1(d, o, v, n, f)
    <3>1. f.at = <<v.at[1], n>>
      BY <2>2 DEF Onto1, C!Cross
    <3>2. n \in Q
      BY <1>2, <1>5
    <3>3. f.at[2] = n /\ f.at[1] = v.at[1] /\ f.at \notin DOMAIN o
      BY <2>2, <3>1
    <3> QED
      BY <1>2, <3>2, <3>3
  <2> QED
    BY <1>5, <2>1, <2>2
<1> HIDE DEF Here
<1> QED
  BY <1>1, <1>2, <1>4, <1>6

\* What was mounted since lies on the way, and is what is found, or leads away for good.
Overlays(o, q, L) == DOMAIN o \subseteq DOMAIN q /\ (\A l \in DOMAIN o : q[l] = o[l]) /\ \A l \in DOMAIN q \ DOMAIN o : q[l] \in L
EndsThere(d, o, q, L, root, w) ==
  LET t == C!Lookup(d, o, root, {"links"})[w].at
      r == C!Lookup(d, q, root, {"links", "mounts"})[w].at
  IN  t # root => r = C!Cross(q, t) \/ r \in L
LEMMA Covering ==
  ASSUME NEW d, NEW o, Image(d, o), NEW q, Image(d, q),
         NEW L, Shut(d, q, L), Overlays(o, q, L),
         NEW root \in C!Views \X DOMAIN d,
         NEW w \in Ways(d), w.at = root \/ w.at \notin DOMAIN q,
         C!Lookup(d, o, root, {"links"})[w].err = "ok",
         C!Lookup(d, q, root, {"links", "mounts"})[w].err = "ok"
  PROVE  EndsThere(d, o, q, L, root, w)
<1> USE DEF Overlays, EndsThere
<1> DEFINE A == C!Lookup(d, o, root, {"links"})
           B == C!Lookup(d, q, root, {"links", "mounts"})
           Lands(v) == A[v].at # root => B[v].at = C!Cross(q, A[v].at) \/ B[v].at \in L
           Here(l) == l = root \/ l \notin DOMAIN q
           S == {v \in Ways(d) : Here(v.at) /\ A[v].err = "ok" /\ B[v].err = "ok" /\ ~Lands(v)}
<1> SUFFICES ASSUME S # {} PROVE FALSE
  OBVIOUS
<1>1. PICK v \in S : \A u \in S : ~(u.links < v.links \/ (u.links = v.links /\ Len(u.path) < Len(v.path)))
  <2>1. S \in SUBSET Ways(d)
    OBVIOUS
  <2> HIDE DEF S
  <2> QED
    BY <2>1, Latest
<1>2. v \in Ways(d) /\ Here(v.at) /\ A[v].err = "ok" /\ B[v].err = "ok" /\ ~Lands(v)
  OBVIOUS
<1>3. v.path # <<>>
  <2> SUFFICES ASSUME v.path = <<>> PROVE FALSE
    OBVIOUS
  <2>1. A[v] = C!Found(v.at) /\ B[v] = C!Found(v.at)
    BY <1>2, AtTheEnd
  <2> QED
    BY <1>2, <2>1 DEF C!Found, C!Cross
<1>4. PICK f \in Ways(d) :
           /\ Next1(d, o, root, {"links"}, v, f) /\ A[v] = A[f]
           /\ f.links < v.links \/ (f.links = v.links /\ Len(f.path) < Len(v.path))
  BY <1>2, <1>3, Onwards
<1>5. PICK n \in DOMAIN d :
        /\ d[v.at[2]].kind = "dir" /\ d[n].up = v.at[2] /\ d[n].name = Head(v.path)
        /\ \/ /\ d[n].kind = "link" /\ "links" \in {"links"} /\ v.links # 0
              /\ f = [at |-> root, path |-> d[n].to \o Tail(v.path), links |-> v.links - 1]
           \/ /\ d[n].kind # "link"
              /\ <<v.at[1], n>> \in DOMAIN o => "mounts" \in {"links"}
              /\ Onto1(d, o, v, n, f)
  BY <1>4 DEF Next1
<1>6. CASE d[n].kind = "link" \/ <<v.at[1], n>> \notin DOMAIN q
  <2>1. Next1(d, q, root, {"links", "mounts"}, v, f)
    BY <1>5, <1>6 DEF Next1, Onto1, C!Cross
  <2>2. B[v] = B[f]
    BY <1>2, <1>3, <2>1, NextGives
  <2>3. Here(f.at)
    <3>1. CASE f = [at |-> root, path |-> d[n].to \o Tail(v.path), links |-> v.links - 1]
      BY <3>1
    <3>2. CASE <<v.at[1], n>> \notin DOMAIN q /\ Onto1(d, o, v, n, f)
      <4>1. f.at = <<v.at[1], n>>
        BY <3>2 DEF Onto1, C!Cross
      <4> QED
        BY <3>2, <4>1
    <3> QED
      BY <1>5, <1>6, <3>1, <3>2
  <2>4. ~Lands(f)
    BY <1>2, <1>4, <2>2
  <2> HIDE DEF Lands, Here
  <2> QED
    BY <1>1, <1>2, <1>4, <2>2, <2>3, <2>4
<1>7. CASE d[n].kind # "link" /\ <<v.at[1], n>> \in DOMAIN q
  <2> DEFINE g == [at |-> q[<<v.at[1], n>>], path |-> Tail(v.path), links |-> v.links]
  <2>1. Next1(d, q, root, {"links", "mounts"}, v, g)
    BY <1>5, <1>7 DEF Next1, Onto1, C!Cross
  <2>2. B[v] = B[g] /\ g \in Ways(d)
    BY <1>2, <1>3, <2>1, NextGives, Shorter
  <2>3. <<v.at[1], n>> \notin DOMAIN o /\ Onto1(d, o, v, n, f)
    BY <1>5, <1>7
  <2>4. g.at \in L
    BY <1>7, <2>3
  <2>5. B[g].at \in L
    BY <1>2, <2>2, <2>4, Within
  <2> QED
    BY <1>2, <2>2, <2>5
<1> QED
  BY <1>6, <1>7

\* One name more: from where the lookup leads, on to that name.
NameMore(d, o, root, flags, x, w) ==
  \E k \in 0..MaxLinks :
    C!Lookup(d, o, root, flags)[[at |-> w.at, path |-> w.path \o <<x>>, links |-> w.links]]
      = C!Lookup(d, o, root, flags)[[at |-> C!Lookup(d, o, root, flags)[w].at, path |-> <<x>>, links |-> k]]
LEMMA OneNameMore ==
  ASSUME NEW d, NEW o, Image(d, o), NEW root \in C!Views \X DOMAIN d, NEW flags, NEW x \in STRING,
         NEW w \in Ways(d), C!Lookup(d, o, root, flags)[w].err = "ok"
  PROVE  NameMore(d, o, root, flags, x, w)
<1> DEFINE A == C!Lookup(d, o, root, flags)
           More(v) == [at |-> v.at, path |-> v.path \o <<x>>, links |-> v.links]
           S == {v \in Ways(d) : A[v].err = "ok" /\ ~\E k \in 0..MaxLinks : A[More(v)] = A[[at |-> A[v].at, path |-> <<x>>, links |-> k]]}
<1> SUFFICES ASSUME S # {} PROVE FALSE
  BY DEF NameMore
<1>1. PICK v \in S : \A u \in S : ~(u.links < v.links \/ (u.links = v.links /\ Len(u.path) < Len(v.path)))
  <2>1. S \in SUBSET Ways(d)
    OBVIOUS
  <2> HIDE DEF S
  <2> QED
    BY <2>1, Latest
<1>2. v \in Ways(d) /\ A[v].err = "ok" /\ ~\E k \in 0..MaxLinks : A[More(v)] = A[[at |-> A[v].at, path |-> <<x>>, links |-> k]]
  OBVIOUS
<1>3. v.at \in C!Views \X DOMAIN d /\ v.path \in Seq(STRING) /\ v.links \in 0..MaxLinks
  BY <1>2 DEF Ways
<1>4. v.path # <<>>
  <2> SUFFICES ASSUME v.path = <<>> PROVE FALSE
    OBVIOUS
  <2>1. A[v] = C!Found(v.at)
    BY <1>2, AtTheEnd
  <2>2. v.path \o <<x>> = <<x>>
    OBVIOUS
  <2>3. More(v) = [at |-> A[v].at, path |-> <<x>>, links |-> v.links]
    BY <2>1, <2>2 DEF C!Found
  <2> QED
    BY <1>2, <1>3, <2>3
<1>5. PICK f \in Ways(d) :
           /\ Next1(d, o, root, flags, v, f) /\ A[v] = A[f]
           /\ f.links < v.links \/ (f.links = v.links /\ Len(f.path) < Len(v.path))
  BY <1>2, <1>4, Onwards
<1>6. PICK p \in Seq(STRING) : p = v.path
  BY <1>3
<1>7. Head(p \o <<x>>) = Head(p) /\ Tail(p \o <<x>>) = Tail(p) \o <<x>> /\ p \o <<x>> # <<>> /\ p \o <<x>> \in Seq(STRING)
  BY <1>4, <1>6, SplitMore
<1>8. More(v) \in Ways(d)
  BY <1>3, <1>6, <1>7 DEF Ways
<1>9. Next1(d, o, root, flags, More(v), More(f))
  <2>1. PICK n \in DOMAIN d :
        /\ d[v.at[2]].kind = "dir" /\ d[n].up = v.at[2] /\ d[n].name = Head(v.path)
        /\ \/ /\ d[n].kind = "link" /\ "links" \in flags /\ v.links # 0
              /\ f = [at |-> root, path |-> d[n].to \o Tail(v.path), links |-> v.links - 1]
           \/ /\ d[n].kind # "link"
              /\ <<v.at[1], n>> \in DOMAIN o => "mounts" \in flags
              /\ Onto1(d, o, v, n, f)
    BY <1>5 DEF Next1
  <2>2. PICK g : g = More(v)
    OBVIOUS
  <2>3. g.at = v.at /\ g.links = v.links /\ g.path = p \o <<x>>
    BY <1>6, <2>2
  <2>4. Head(g.path) = Head(v.path) /\ Tail(g.path) = Tail(v.path) \o <<x>>
    BY <1>6, <1>7, <2>3
  <2>5. d[n].to \in Seq(STRING) /\ Tail(v.path) \in Seq(STRING)
    BY <1>3, <1>4, <1>6, Split DEF Image, C!TreeOf
  <2>6. (d[n].to \o Tail(v.path)) \o <<x>> = d[n].to \o (Tail(v.path) \o <<x>>)
    <3>1. PICK t \in Seq(STRING) : t = d[n].to
      BY <2>5
    <3>2. PICK u \in Seq(STRING) : u = Tail(v.path)
      BY <2>5
    <3>3. <<x>> \in Seq(STRING)
      OBVIOUS
    <3>4. (t \o u) \o <<x>> = t \o (u \o <<x>>)
      BY <3>3, Regroup
    <3> QED
      BY <3>1, <3>2, <3>4
  <2>7. CASE d[n].kind = "link" /\ f = [at |-> root, path |-> d[n].to \o Tail(v.path), links |-> v.links - 1]
    <3>1. More(f) = [at |-> root, path |-> d[n].to \o Tail(g.path), links |-> g.links - 1]
      BY <2>3, <2>4, <2>6, <2>7
    <3> QED
      BY <2>1, <2>2, <2>3, <2>4, <2>7, <3>1 DEF Next1
  <2>8. CASE d[n].kind # "link" /\ Onto1(d, o, v, n, f)
    <3>1. Onto1(d, o, g, n, More(f))
      BY <2>3, <2>4, <2>8 DEF Onto1
    <3> QED
      BY <2>1, <2>2, <2>3, <2>4, <2>8, <3>1 DEF Next1
  <2> QED
    BY <2>1, <2>7, <2>8
<1>10. A[More(v)] = A[More(f)]
  <2>1. More(v).path # <<>>
    BY <1>6, <1>7
  <2> HIDE DEF More
  <2> QED
    BY <1>8, <1>9, <2>1, NextGives
<1>11. f \notin S /\ A[f].err = "ok"
  BY <1>1, <1>2, <1>5
<1>12. PICK k \in 0..MaxLinks : A[More(f)] = A[[at |-> A[f].at, path |-> <<x>>, links |-> k]]
  BY <1>11
<1> HIDE DEF More, A, S
<1> QED
  BY <1>2, <1>5, <1>10, <1>12

\* What one name gives from a place l.
OneIs(d, o, top, flags, l, x, k, r) == C!Lookup(d, o, top, flags)[[at |-> l, path |-> <<x>>, links |-> k]] = r
LEMMA OneStep ==
  ASSUME NEW d, NEW o, Image(d, o), NEW top \in C!Views \X DOMAIN d, NEW flags, NEW l \in C!Views \X DOMAIN d,
         NEW x \in STRING, NEW k \in 0..MaxLinks
  PROVE  /\ d[l[2]].kind # "dir" => OneIs(d, o, top, flags, l, x, k, C!Error("NOTDIR"))
         /\ d[l[2]].kind = "dir" /\ C!EntryOf(d, l, x) = {} => OneIs(d, o, top, flags, l, x, k, C!Error("NOENT"))
         /\ \A n \in DOMAIN d : d[n].up = l[2] /\ d[n].name = x /\ d[l[2]].kind = "dir" =>
              /\ d[n].kind = "link" /\ "links" \notin flags => OneIs(d, o, top, flags, l, x, k, C!Error("LOOP"))
              /\ d[n].kind # "link" /\ <<l[1], n>> \in DOMAIN o /\ "mounts" \notin flags =>
                   OneIs(d, o, top, flags, l, x, k, C!Error("XDEV"))
              /\ d[n].kind # "link" /\ (<<l[1], n>> \in DOMAIN o => "mounts" \in flags) =>
                   OneIs(d, o, top, flags, l, x, k, C!Found(C!Cross(o, <<l[1], n>>)))
<1>1. PICK w : w = [at |-> l, path |-> <<x>>, links |-> k]
  OBVIOUS
<1>2. w \in Ways(d) /\ w.at = l /\ w.links = k /\ w.path = <<x>> /\ w.path # <<>> /\ Head(w.path) = x /\ Tail(w.path) = <<>>
  BY <1>1 DEF Ways
<1>3. C!Lookup(d, o, top, flags)[w] =
        IF C!OneName(d, o, top, flags, w).err # "ok" THEN C!Error(C!OneName(d, o, top, flags, w).err)
        ELSE C!Lookup(d, o, top, flags)[C!OneName(d, o, top, flags, w).on]
  BY <1>2, LookupIs
<1>4. \A e : C!Stops(e, w).err = e
  BY DEF C!Stops
<1>5. ASSUME NEW e \in {"NOTDIR", "NOENT", "LOOP", "XDEV"}, C!OneName(d, o, top, flags, w) = C!Stops(e, w)
      PROVE  OneIs(d, o, top, flags, l, x, k, C!Error(e))
  BY <1>1, <1>3, <1>4, <1>5 DEF OneIs
<1>6. ASSUME d[l[2]].kind # "dir" PROVE OneIs(d, o, top, flags, l, x, k, C!Error("NOTDIR"))
  <2>1. C!OneName(d, o, top, flags, w) = C!Stops("NOTDIR", w)
    BY <1>2, <1>6 DEF C!OneName
  <2> QED
    BY <1>5, <2>1
<1>7. ASSUME d[l[2]].kind = "dir", C!EntryOf(d, l, x) = {} PROVE OneIs(d, o, top, flags, l, x, k, C!Error("NOENT"))
  <2>1. C!OneName(d, o, top, flags, w) = C!Stops("NOENT", w)
    BY <1>2, <1>7 DEF C!OneName
  <2> QED
    BY <1>5, <2>1
<1>8. ASSUME NEW n \in DOMAIN d, d[n].up = l[2], d[n].name = x, d[l[2]].kind = "dir"
      PROVE  /\ d[n].kind = "link" /\ "links" \notin flags => OneIs(d, o, top, flags, l, x, k, C!Error("LOOP"))
             /\ d[n].kind # "link" /\ <<l[1], n>> \in DOMAIN o /\ "mounts" \notin flags =>
                  OneIs(d, o, top, flags, l, x, k, C!Error("XDEV"))
             /\ d[n].kind # "link" /\ (<<l[1], n>> \in DOMAIN o => "mounts" \in flags) =>
                  OneIs(d, o, top, flags, l, x, k, C!Found(C!Cross(o, <<l[1], n>>)))
  <2>1. C!EntryOf(d, l, x) = {n}
    <3>1. l[2] \in DOMAIN d
      OBVIOUS
    <3> QED
      BY <1>8, <3>1, OnlyEntry
  <2>2. C!EntryOf(d, w.at, Head(w.path)) = {n} /\ (CHOOSE m \in C!EntryOf(d, w.at, Head(w.path)) : TRUE) = n
    BY <1>2, <2>1
  <2>3. ASSUME d[n].kind = "link", "links" \notin flags PROVE C!OneName(d, o, top, flags, w) = C!Stops("LOOP", w)
    BY <1>2, <1>8, <2>2, <2>3 DEF C!OneName
  <2>4. ASSUME d[n].kind # "link", <<l[1], n>> \in DOMAIN o, "mounts" \notin flags
        PROVE  C!OneName(d, o, top, flags, w) = C!Stops("XDEV", w)
    BY <1>2, <1>8, <2>2, <2>4 DEF C!OneName
  <2>5. ASSUME d[n].kind # "link", <<l[1], n>> \in DOMAIN o => "mounts" \in flags
        PROVE  OneIs(d, o, top, flags, l, x, k, C!Found(C!Cross(o, <<l[1], n>>)))
    <3>1. PICK f : Onto1(d, o, w, n, f)
      BY DEF Onto1
    <3>2. f.at = C!Cross(o, <<l[1], n>>) /\ f.path = <<>>
      BY <1>2, <3>1 DEF Onto1
    <3>3. Next1(d, o, top, flags, w, f)
      BY <1>2, <1>8, <2>5, <3>1 DEF Next1
    <3>4. f \in Ways(d) /\ C!Lookup(d, o, top, flags)[w] = C!Lookup(d, o, top, flags)[f]
      BY <1>2, <3>3, NextGives, Shorter
    <3>5. C!Lookup(d, o, top, flags)[f] = C!Found(f.at)
      BY <3>2, <3>4, AtTheEnd
    <3> QED
      BY <1>1, <3>2, <3>4, <3>5 DEF OneIs
  <2> QED
    BY <1>5, <2>3, <2>4, <2>5
<1> QED
  BY <1>6, <1>7, <1>8

-----------------------------------------------------------------------------
(* What is left of the setup *)

Names3 == {"dev", "proc", "sys"}
All(g) == C!Tools \o g.libraries
Wanted(g) == {All(g)[i] : i \in DOMAIN All(g)}

\* The steps there are.
Use(g) == IF g.bootstrap THEN C!Views ELSE {"root"}
Legal(g) ==
  {"directory"} \X Use(g) \X Names3 \cup {"check"} \X Use(g) \X {"targets"} \cup {"attach"} \X Use(g) \X {"proc", "sys"}
  \cup {<<"attach", "root", "dev">>, <<"below", "root", "pts">>, <<"below", "root", "shm">>}
  \cup (IF g.bootstrap THEN {<<"clone", "output", "dev">>} ELSE {})
  \cup {<<"shell", "root", "sh">>, <<"pivot", "root", "tree">>, <<"start", "root", "command">>}
  \cup {"place"} \X {"root"} \X Wanted(g)

\* All of the steps but the placing of files.
Steps3(g) == {op \in Legal(g) : op[1] # "place"}

\* When each is taken.
Rank(op) ==
  IF op[1] \in {"directory", "check"}
  THEN (IF op[2] = "output" THEN 0 ELSE 10) + (IF op[3] = "dev" THEN 1 ELSE IF op[3] = "proc" THEN 2 ELSE IF op[3] = "sys" THEN 3 ELSE 4)
  ELSE IF op[1] = "attach" THEN (IF op[3] = "dev" THEN 25 ELSE (IF op[2] = "root" THEN 20 ELSE 22) + (IF op[3] = "proc" THEN 1 ELSE 2))
  ELSE IF op[1] = "below" THEN (IF op[3] = "pts" THEN 26 ELSE 27)
  ELSE IF op[1] = "clone" THEN 28
  ELSE IF op[1] = "shell" THEN 30
  ELSE IF op[1] = "place" THEN 31
  ELSE IF op[1] = "pivot" THEN 32
  ELSE 33

Holds(p, op) == \E i \in DOMAIN p : p[i] = op
Earlier(a, b) == Rank(a) < Rank(b) \/ (Rank(a) = 31 /\ Rank(b) = 31)
Spans(p, lo, hi, A) ==
  /\ p \in Seq(A)
  /\ \A i \in DOMAIN p : Rank(p[i]) \in lo..(hi - 1)
  /\ \A i, j \in DOMAIN p : i < j => Earlier(p[i], p[j])

LEMMA RankIs == ASSUME NEW op PROVE Rank(op) \in 0..33
  BY DEF Rank

LEMMA HoldsBoth ==
  ASSUME NEW A, NEW p \in Seq(A), NEW q \in Seq(A), NEW op
  PROVE  Holds(p \o q, op) <=> Holds(p, op) \/ Holds(q, op)
<1>1. Len(p) \in Nat /\ Len(q) \in Nat /\ DOMAIN p = 1..Len(p) /\ DOMAIN q = 1..Len(q)
  OBVIOUS
<1>2. DOMAIN (p \o q) = 1..(Len(p) + Len(q)) /\ \A i \in 1..(Len(p) + Len(q)) : (p \o q)[i] = IF i <= Len(p) THEN p[i] ELSE q[i - Len(p)]
  OBVIOUS
<1>3. ASSUME Holds(p, op) PROVE Holds(p \o q, op)
  <2>1. PICK i \in 1..Len(p) : p[i] = op
    BY <1>1, <1>3 DEF Holds
  <2>2. i \in DOMAIN (p \o q) /\ (p \o q)[i] = op
    BY <1>1, <1>2, <2>1
  <2> QED
    BY <2>2 DEF Holds
<1>4. ASSUME Holds(q, op) PROVE Holds(p \o q, op)
  <2>1. PICK i \in 1..Len(q) : q[i] = op
    BY <1>1, <1>4 DEF Holds
  <2>2. i + Len(p) \in 1..(Len(p) + Len(q)) /\ ~(i + Len(p) <= Len(p)) /\ (i + Len(p)) - Len(p) = i
    BY <1>1
  <2>3. (p \o q)[i + Len(p)] = op
    BY <1>2, <2>1, <2>2
  <2> QED
    BY <1>2, <2>2, <2>3 DEF Holds
<1>5. ASSUME Holds(p \o q, op) PROVE Holds(p, op) \/ Holds(q, op)
  <2>1. PICK i \in 1..(Len(p) + Len(q)) : (p \o q)[i] = op
    BY <1>2, <1>5 DEF Holds
  <2>2. CASE i <= Len(p)
    BY <1>1, <1>2, <2>1, <2>2 DEF Holds
  <2>3. CASE ~(i <= Len(p))
    <3>1. i - Len(p) \in 1..Len(q) /\ q[i - Len(p)] = op
      BY <1>1, <1>2, <2>1, <2>3
    <3> QED
      BY <1>1, <3>1 DEF Holds
  <2> QED
    BY <2>2, <2>3
<1> QED
  BY <1>3, <1>4, <1>5

\* Steps that come later can follow.
Precede(p, q) == \A i \in DOMAIN p, j \in DOMAIN q : Earlier(p[i], q[j])
LEMMA JoinedBefore ==
  ASSUME NEW A, NEW p, NEW q, NEW lo, NEW hi, Spans(p, lo, hi, A), Spans(q, lo, hi, A),
         Precede(p, q)
  PROVE  Spans(p \o q, lo, hi, A) /\ \A op : Holds(p \o q, op) <=> Holds(p, op) \/ Holds(q, op)
<1>1. p \in Seq(A) /\ q \in Seq(A) /\ Len(p) \in Nat /\ Len(q) \in Nat /\ DOMAIN p = 1..Len(p) /\ DOMAIN q = 1..Len(q)
  BY DEF Spans
<1>2. DOMAIN (p \o q) = 1..(Len(p) + Len(q)) /\ p \o q \in Seq(A)
  BY <1>1
<1>3. \A i \in 1..(Len(p) + Len(q)) : (p \o q)[i] = IF i <= Len(p) THEN p[i] ELSE q[i - Len(p)]
  BY <1>1
<1>4. PICK r : r = p \o q
  OBVIOUS
<1>5. ASSUME NEW i \in DOMAIN r
      PROVE  \/ i \in DOMAIN p /\ r[i] = p[i]
             \/ i - Len(p) \in DOMAIN q /\ r[i] = q[i - Len(p)] /\ i > Len(p)
  BY <1>1, <1>2, <1>3, <1>4
<1>8. ASSUME NEW i \in DOMAIN r PROVE Rank(r[i]) \in lo..(hi - 1)
  BY <1>5 DEF Spans
<1>9. ASSUME NEW i \in DOMAIN r, NEW j \in DOMAIN r, i < j PROVE Earlier(r[i], r[j])
  <2>1. i \in Int /\ j \in Int
    BY <1>2, <1>4
  <2>2. CASE i \in DOMAIN p /\ r[i] = p[i] /\ j \in DOMAIN p /\ r[j] = p[j]
    BY <1>9, <2>2 DEF Spans
  <2>3. CASE i \in DOMAIN p /\ r[i] = p[i] /\ j - Len(p) \in DOMAIN q /\ r[j] = q[j - Len(p)]
    BY <2>3 DEF Precede
  <2>4. CASE i - Len(p) \in DOMAIN q /\ r[i] = q[i - Len(p)] /\ j - Len(p) \in DOMAIN q /\ r[j] = q[j - Len(p)]
    <3>1. i - Len(p) < j - Len(p)
      BY <1>1, <1>9, <2>1
    <3> QED
      BY <2>4, <3>1 DEF Spans
  <2>5. CASE i > Len(p) /\ j \in DOMAIN p
    BY <1>1, <1>9, <2>1, <2>5
  <2> QED
    BY <1>5, <2>2, <2>3, <2>4, <2>5
<1>10. Spans(r, lo, hi, A)
  BY <1>2, <1>4, <1>8, <1>9 DEF Spans
<1> QED
  BY <1>1, <1>4, <1>10, HoldsBoth

LEMMA JoinedSpans ==
  ASSUME NEW A, NEW p, NEW q, NEW lo \in Nat, NEW mid \in Nat, NEW hi \in Nat, lo <= mid, mid <= hi,
         Spans(p, lo, mid, A), Spans(q, mid, hi, A)
  PROVE  Spans(p \o q, lo, hi, A) /\ \A op : Holds(p \o q, op) <=> Holds(p, op) \/ Holds(q, op)
<1>1. \A i \in DOMAIN p : Rank(p[i]) \in lo..(mid - 1)
  BY DEF Spans
<1>2. \A i \in DOMAIN q : Rank(q[i]) \in mid..(hi - 1)
  BY DEF Spans
<1>3. Spans(p, lo, hi, A) /\ Spans(q, lo, hi, A)
  BY DEF Spans
<1>4. Precede(p, q)
  BY <1>1, <1>2 DEF Earlier, Precede
<1> QED
  BY <1>3, <1>4, JoinedBefore

\* The first step goes, and the others come after it.
LEMMA Advance ==
  ASSUME NEW A, NEW p, NEW lo, NEW hi, Spans(p, lo, hi, A), p # <<>>
  PROVE  /\ Spans(Tail(p), lo, hi, A) /\ Head(p) \in A
         /\ \A op : Holds(p, op) => op = Head(p) \/ Holds(Tail(p), op)
         /\ \A op : Holds(Tail(p), op) => Holds(p, op) /\ Earlier(Head(p), op)
<1>1. p \in Seq(A)
  BY DEF Spans
<1>2. Head(p) \in A /\ Tail(p) \in Seq(A) /\ Len(Tail(p)) = Len(p) - 1 /\ Len(p) \in Nat \ {0} /\ Head(p) = p[1]
  BY <1>1, Split
<1>3. \A i \in 1..(Len(p) - 1) : Tail(p)[i] = p[i + 1]
  BY <1>1, Split
<1>4. DOMAIN p = 1..Len(p) /\ DOMAIN Tail(p) = 1..(Len(p) - 1)
  BY <1>1, <1>2
<1>5. PICK t : t = Tail(p)
  OBVIOUS
<1>6. ASSUME NEW i \in DOMAIN t PROVE i \in Int /\ i + 1 \in DOMAIN p /\ t[i] = p[i + 1] /\ 1 < i + 1 /\ 1 \in DOMAIN p
  BY <1>2, <1>3, <1>4, <1>5
<1>7. ASSUME NEW i \in DOMAIN t, NEW j \in DOMAIN t, i < j PROVE Earlier(t[i], t[j])
  <2>1. i + 1 < j + 1
    BY <1>6, <1>7
  <2> QED
    BY <1>6, <2>1 DEF Spans
<1>8. \A i \in DOMAIN t : Rank(t[i]) \in lo..(hi - 1)
  BY <1>6 DEF Spans
<1>9. Spans(t, lo, hi, A)
  BY <1>2, <1>5, <1>7, <1>8 DEF Spans
<1>10. ASSUME NEW op, Holds(p, op) PROVE op = Head(p) \/ Holds(t, op)
  <2>1. PICK i \in 1..Len(p) : p[i] = op
    BY <1>4, <1>10 DEF Holds
  <2>2. CASE i = 1
    BY <1>2, <2>1, <2>2
  <2>3. CASE i # 1
    <3>1. i - 1 \in 1..(Len(p) - 1) /\ (i - 1) + 1 = i
      BY <1>2, <2>3
    <3> QED
      BY <1>3, <1>4, <1>5, <2>1, <3>1 DEF Holds
  <2> QED
    BY <2>2, <2>3
<1>11. ASSUME NEW op, Holds(t, op) PROVE Holds(p, op) /\ Earlier(Head(p), op)
  <2>1. PICK i \in DOMAIN t : t[i] = op
    BY <1>11 DEF Holds
  <2>2. p[i + 1] = op /\ i + 1 \in DOMAIN p
    BY <1>6, <2>1
  <2> QED
    BY <1>2, <1>6, <2>1, <2>2 DEF Holds, Spans
<1> QED
  BY <1>2, <1>5, <1>9, <1>10, <1>11

LEMMA None0 == ASSUME NEW A, NEW lo, NEW hi PROVE Spans(<<>>, lo, hi, A) /\ \A op : ~Holds(<<>>, op)
  BY DEF Spans, Holds

LEMMA One1 ==
  ASSUME NEW A, NEW a \in A, NEW lo \in Nat, NEW hi \in Nat, lo <= Rank(a), Rank(a) < hi
  PROVE  Spans(<<a>>, lo, hi, A) /\ \A op : Holds(<<a>>, op) <=> op = a
<1>1. Rank(a) \in lo..(hi - 1)
  BY RankIs
<1>2. PICK p : p = <<a>>
  OBVIOUS
<1>3. p \in Seq(A) /\ DOMAIN p = {1} /\ p[1] = a
  BY <1>2
<1>4. Spans(p, lo, hi, A) /\ \A op : Holds(p, op) <=> op = a
  BY <1>1, <1>3 DEF Spans, Holds
<1> QED
  BY <1>2, <1>4

LEMMA Two2 ==
  ASSUME NEW A, NEW a \in A, NEW b \in A, NEW lo \in Nat, NEW hi \in Nat, lo <= Rank(a), Rank(a) < Rank(b), Rank(b) < hi
  PROVE  Spans(<<a, b>>, lo, hi, A) /\ \A op : Holds(<<a, b>>, op) <=> op \in {a, b}
<1>1. Rank(a) \in lo..(hi - 1) /\ Rank(b) \in lo..(hi - 1)
  BY RankIs
<1>2. PICK p : p = <<a, b>>
  OBVIOUS
<1>3. p \in Seq(A) /\ DOMAIN p = {1, 2} /\ p[1] = a /\ p[2] = b
  BY <1>2
<1>4. Spans(p, lo, hi, A)
  BY <1>1, <1>3 DEF Spans, Earlier
<1>5. \A op : Holds(p, op) <=> op \in {a, b}
  BY <1>3 DEF Holds
<1> QED
  BY <1>2, <1>4, <1>5

LEMMA Three3 ==
  ASSUME NEW A, NEW a \in A, NEW b \in A, NEW c \in A, NEW lo \in Nat, NEW hi \in Nat,
         lo <= Rank(a), Rank(a) < Rank(b), Rank(b) < Rank(c), Rank(c) < hi
  PROVE  Spans(<<a, b, c>>, lo, hi, A) /\ \A op : Holds(<<a, b, c>>, op) <=> op \in {a, b, c}
<1>1. Rank(a) \in lo..(hi - 1) /\ Rank(b) \in lo..(hi - 1) /\ Rank(c) \in lo..(hi - 1)
  BY RankIs
<1>2. PICK p : p = <<a, b, c>>
  OBVIOUS
<1>3. p \in Seq(A) /\ DOMAIN p = {1, 2, 3} /\ p[1] = a /\ p[2] = b /\ p[3] = c
  BY <1>2
<1>4. Spans(p, lo, hi, A)
  BY <1>1, <1>3, RankIs DEF Spans, Earlier
<1>5. \A op : Holds(p, op) <=> op \in {a, b, c}
  BY <1>3 DEF Holds
<1> QED
  BY <1>2, <1>4, <1>5

\* RuntimeTargets::resolve
LEMMA PinIs ==
  ASSUME NEW g, NEW view \in Use(g), NEW lo, lo = (IF view = "output" THEN 0 ELSE 10), NEW hi, hi = (IF view = "output" THEN 10 ELSE 20)
  PROVE  /\ Spans(C!Pin(view), lo, hi, Steps3(g))
         /\ \A name \in Names3 : Holds(C!Pin(view), <<"directory", view, name>>)
         /\ Holds(C!Pin(view), <<"check", view, "targets">>)
<1> DEFINE a == <<"directory", view, "dev">>
           b == <<"directory", view, "proc">>
           c == <<"directory", view, "sys">>
           e == <<"check", view, "targets">>
<1>1. a \in Steps3(g) /\ b \in Steps3(g) /\ c \in Steps3(g) /\ e \in Steps3(g)
  BY DEF Steps3, Legal, Names3
<1>2. Rank(a) = lo + 1 /\ Rank(b) = lo + 2 /\ Rank(c) = lo + 3 /\ Rank(e) = lo + 4
  BY DEF Rank
<1>3. [i \in 1..3 |-> <<"directory", view, C!RuntimeNames[i]>>] = <<a, b, c>>
  BY DEF C!RuntimeNames
<1>4. C!Pin(view) = <<a, b, c>> \o <<e>>
  BY <1>3 DEF C!Pin
<1>0. PICK mid : mid = lo + 4
  OBVIOUS
<1>5. lo \in Nat /\ mid \in Nat /\ hi \in Nat /\ lo <= mid /\ mid <= hi /\ mid < hi
  BY <1>0
<1>6. /\ lo <= Rank(a) /\ Rank(a) < Rank(b) /\ Rank(b) < Rank(c) /\ Rank(c) < mid
      /\ mid <= Rank(e) /\ Rank(e) < hi
  BY <1>0, <1>2
<1> HIDE DEF a, b, c, e
<1>9. Spans(<<a, b, c>>, lo, mid, Steps3(g)) /\ \A op : Holds(<<a, b, c>>, op) <=> op \in {a, b, c}
  BY <1>1, <1>5, <1>6, Three3
<1>10. Spans(<<e>>, mid, hi, Steps3(g)) /\ \A op : Holds(<<e>>, op) <=> op = e
  BY <1>1, <1>5, <1>6, One1
<1>7. Spans(C!Pin(view), lo, hi, Steps3(g)) /\ \A op : Holds(C!Pin(view), op) <=> Holds(<<a, b, c>>, op) \/ Holds(<<e>>, op)
  BY <1>4, <1>5, <1>9, <1>10, JoinedSpans
<1>8. Holds(C!Pin(view), a) /\ Holds(C!Pin(view), b) /\ Holds(C!Pin(view), c) /\ Holds(C!Pin(view), e)
  BY <1>9, <1>10, <1>7
<1> QED
  BY <1>7, <1>8 DEF a, b, c, e, Names3

LEMMA LegalIs ==
  ASSUME NEW g, NEW op \in Legal(g)
  PROVE  \/ op[1] = "directory" /\ op[2] \in Use(g) /\ op[3] \in Names3 /\ op = <<"directory", op[2], op[3]>>
         \/ op[1] = "check" /\ op[2] \in Use(g) /\ op[3] = "targets" /\ op = <<"check", op[2], "targets">>
         \/ op[1] = "attach" /\ op[2] \in Use(g) /\ op[3] \in {"proc", "sys"} /\ op = <<"attach", op[2], op[3]>>
         \/ op = <<"attach", "root", "dev">>
         \/ op = <<"below", "root", "pts">>
         \/ op = <<"below", "root", "shm">>
         \/ g.bootstrap /\ op = <<"clone", "output", "dev">>
         \/ op = <<"shell", "root", "sh">>
         \/ op[1] = "place" /\ op[2] = "root" /\ op[3] \in Wanted(g) /\ op = <<"place", "root", op[3]>>
         \/ op = <<"pivot", "root", "tree">>
         \/ op = <<"start", "root", "command">>
<1>1. CASE op \in {"directory"} \X Use(g) \X Names3
  BY <1>1
<1>2. CASE op \in {"check"} \X Use(g) \X {"targets"}
  BY <1>2
<1>3. CASE op \in {"attach"} \X Use(g) \X {"proc", "sys"}
  BY <1>3
<1>4. CASE op \in {"place"} \X {"root"} \X Wanted(g)
  BY <1>4
<1> QED
  BY <1>1, <1>2, <1>3, <1>4 DEF Legal

LEMMA EnterIs ==
  ASSUME NEW g, g.bootstrap \in BOOLEAN
  PROVE  Spans(C!Enter(g.bootstrap), 0, 34, Steps3(g)) /\ \A op \in Steps3(g) : Holds(C!Enter(g.bootstrap), op)
<1> DEFINE A == Steps3(g)
           p1 == IF g.bootstrap THEN C!Pin("output") ELSE <<>>
           p2 == C!Pin("root")
           p3 == C!Runtime("root")
           p4 == IF g.bootstrap THEN C!Runtime("output") ELSE <<>>
           p5 == << <<"attach", "root", "dev">>, <<"below", "root", "pts">>, <<"below", "root", "shm">> >>
           p6 == IF g.bootstrap THEN << <<"clone", "output", "dev">> >> ELSE <<>>
           p7 == << <<"shell", "root", "sh">>, <<"pivot", "root", "tree">>, <<"start", "root", "command">> >>
<1>1. C!Enter(g.bootstrap) = (((((p1 \o p2) \o p3) \o p4) \o (p5 \o p6)) \o p7)
  BY DEF C!Enter, C!Devices
<1>2. "root" \in Use(g) /\ (g.bootstrap => "output" \in Use(g))
  BY DEF Use, C!Views
<1>3. Spans(p1, 0, 10, A)
  <2>1. CASE g.bootstrap
    <3>1. Spans(C!Pin("output"), 0, 10, A)
      BY <1>2, <2>1, PinIs
    <3> QED
      BY <2>1, <3>1
  <2>2. CASE ~g.bootstrap
    BY <2>2, None0
  <2> QED
    BY <2>1, <2>2
<1>4. Spans(p2, 10, 20, A)
  BY <1>2, PinIs
<1>5. ASSUME NEW view \in Use(g), NEW lo, lo = (IF view = "root" THEN 21 ELSE 23), NEW hi, hi = (IF view = "root" THEN 23 ELSE 25)
      PROVE  /\ Spans(C!Runtime(view), lo, hi, A)
             /\ Holds(C!Runtime(view), <<"attach", view, "proc">>) /\ Holds(C!Runtime(view), <<"attach", view, "sys">>)
  <2>1. <<"attach", view, "proc">> \in A /\ <<"attach", view, "sys">> \in A
    BY DEF Steps3, Legal
  <2>2. Rank(<<"attach", view, "proc">>) = lo /\ Rank(<<"attach", view, "sys">>) = lo + 1
    BY <1>5 DEF Rank
  <2>3. lo \in Nat /\ hi \in Nat /\ lo + 1 < hi
    BY <1>5
  <2>4. PICK a, b : a = <<"attach", view, "proc">> /\ b = <<"attach", view, "sys">>
    OBVIOUS
  <2>5. a \in A /\ b \in A /\ lo <= Rank(a) /\ Rank(a) < Rank(b) /\ Rank(b) < hi
    BY <2>1, <2>2, <2>3, <2>4
  <2> HIDE DEF A
  <2>6. Spans(<<a, b>>, lo, hi, A) /\ \A op : Holds(<<a, b>>, op) <=> op \in {a, b}
    BY <2>3, <2>5, Two2
  <2> QED
    BY <2>4, <2>6 DEF C!Runtime
<1>6. Spans(p3, 21, 23, A)
  BY <1>2, <1>5
<1>7. Spans(p4, 23, 25, A)
  <2>1. CASE g.bootstrap
    <3>1. Spans(C!Runtime("output"), 23, 25, A)
      BY <1>2, <1>5, <2>1
    <3> QED
      BY <2>1, <3>1
  <2>2. CASE ~g.bootstrap
    BY <2>2, None0
  <2> QED
    BY <2>1, <2>2
<1>8. Spans(p5, 25, 28, A) /\ \A op : Holds(p5, op) <=> op \in {<<"attach", "root", "dev">>, <<"below", "root", "pts">>, <<"below", "root", "shm">>}
  <2>1. <<"attach", "root", "dev">> \in A /\ <<"below", "root", "pts">> \in A /\ <<"below", "root", "shm">> \in A
    BY DEF Steps3, Legal
  <2>2. Rank(<<"attach", "root", "dev">>) = 25 /\ Rank(<<"below", "root", "pts">>) = 26 /\ Rank(<<"below", "root", "shm">>) = 27
    BY DEF Rank
  <2>3. PICK a, b, c : a = <<"attach", "root", "dev">> /\ b = <<"below", "root", "pts">> /\ c = <<"below", "root", "shm">>
    OBVIOUS
  <2>4. a \in A /\ b \in A /\ c \in A /\ 25 <= Rank(a) /\ Rank(a) < Rank(b) /\ Rank(b) < Rank(c) /\ Rank(c) < 28
    BY <2>1, <2>2, <2>3
  <2> HIDE DEF A
  <2>5. Spans(<<a, b, c>>, 25, 28, A) /\ \A op : Holds(<<a, b, c>>, op) <=> op \in {a, b, c}
    BY <2>4, Three3
  <2> QED
    BY <2>3, <2>5
<1>9. Spans(p6, 28, 30, A) /\ (g.bootstrap => Holds(p6, <<"clone", "output", "dev">>))
  <2>1. g.bootstrap => <<"clone", "output", "dev">> \in A
    BY DEF Steps3, Legal
  <2>2. Rank(<<"clone", "output", "dev">>) = 28
    BY DEF Rank
  <2>3. CASE g.bootstrap
    <3>1. PICK a : a = <<"clone", "output", "dev">>
      OBVIOUS
    <3>2. a \in A /\ 28 <= Rank(a) /\ Rank(a) < 30
      BY <2>1, <2>2, <2>3, <3>1
    <3> HIDE DEF A
    <3>3. Spans(<<a>>, 28, 30, A) /\ \A op : Holds(<<a>>, op) <=> op = a
      BY <3>2, One1
    <3> QED
      BY <2>3, <3>1, <3>3
  <2>4. CASE ~g.bootstrap
    BY <2>4, None0
  <2> QED
    BY <2>3, <2>4
<1>10. Spans(p7, 30, 34, A) /\ \A op : Holds(p7, op) <=> op \in {<<"shell", "root", "sh">>, <<"pivot", "root", "tree">>, <<"start", "root", "command">>}
  <2>1. <<"shell", "root", "sh">> \in A /\ <<"pivot", "root", "tree">> \in A /\ <<"start", "root", "command">> \in A
    BY DEF Steps3, Legal
  <2>2. Rank(<<"shell", "root", "sh">>) = 30 /\ Rank(<<"pivot", "root", "tree">>) = 32 /\ Rank(<<"start", "root", "command">>) = 33
    BY DEF Rank
  <2>3. PICK a, b, c : a = <<"shell", "root", "sh">> /\ b = <<"pivot", "root", "tree">> /\ c = <<"start", "root", "command">>
    OBVIOUS
  <2>4. a \in A /\ b \in A /\ c \in A /\ 30 <= Rank(a) /\ Rank(a) < Rank(b) /\ Rank(b) < Rank(c) /\ Rank(c) < 34
    BY <2>1, <2>2, <2>3
  <2> HIDE DEF A
  <2>5. Spans(<<a, b, c>>, 30, 34, A) /\ \A op : Holds(<<a, b, c>>, op) <=> op \in {a, b, c}
    BY <2>4, Three3
  <2> QED
    BY <2>3, <2>5
<1> DEFINE Has(op) == Holds(p1, op) \/ Holds(p2, op) \/ Holds(p3, op) \/ Holds(p4, op) \/ Holds(p5, op) \/ Holds(p6, op) \/ Holds(p7, op)
<1>11. ASSUME NEW op \in Steps3(g) PROVE Has(op)
  <2>1. op \in Legal(g) /\ op[1] # "place"
    BY DEF Steps3
  <2>2. CASE op[1] = "directory" /\ op[2] \in Use(g) /\ op[3] \in Names3 /\ op = <<"directory", op[2], op[3]>>
    <3>1. CASE op[2] = "root"
      <4>1. Holds(C!Pin("root"), op)
        BY <1>2, <2>2, <3>1, PinIs
      <4> QED
        BY <4>1
    <3>2. CASE op[2] = "output" /\ g.bootstrap
      BY <1>2, <2>2, <3>2, PinIs
    <3> QED
      BY <2>2, <3>1, <3>2 DEF Use, C!Views
  <2>3. CASE op[1] = "check" /\ op[2] \in Use(g) /\ op[3] = "targets" /\ op = <<"check", op[2], "targets">>
    <3>1. CASE op[2] = "root"
      BY <1>2, <2>3, <3>1, PinIs
    <3>2. CASE op[2] = "output" /\ g.bootstrap
      BY <1>2, <2>3, <3>2, PinIs
    <3> QED
      BY <2>3, <3>1, <3>2 DEF Use, C!Views
  <2>4. CASE op[1] = "attach" /\ op[2] \in Use(g) /\ op[3] \in {"proc", "sys"} /\ op = <<"attach", op[2], op[3]>>
    <3>1. CASE op[2] = "root"
      <4>1. Holds(C!Runtime("root"), <<"attach", "root", "proc">>) /\ Holds(C!Runtime("root"), <<"attach", "root", "sys">>)
        BY <1>2, <1>5
      <4> QED
        BY <2>4, <3>1, <4>1
    <3>2. CASE op[2] = "output" /\ g.bootstrap
      <4>1. Holds(C!Runtime("output"), <<"attach", "output", "proc">>) /\ Holds(C!Runtime("output"), <<"attach", "output", "sys">>)
        BY <1>2, <1>5, <3>2
      <4> QED
        BY <2>4, <3>2, <4>1
    <3> QED
      BY <2>4, <3>1, <3>2 DEF Use, C!Views
  <2> HIDE DEF p1, p2, p3, p4, p5, p6, p7
  <2>5. CASE op \in {<<"attach", "root", "dev">>, <<"below", "root", "pts">>, <<"below", "root", "shm">>}
    BY <1>8, <2>5
  <2>6. CASE g.bootstrap /\ op = <<"clone", "output", "dev">>
    BY <1>9, <2>6
  <2>7. CASE op \in {<<"shell", "root", "sh">>, <<"pivot", "root", "tree">>, <<"start", "root", "command">>}
    BY <1>10, <2>7
  <2> HIDE DEF Has
  <2> QED
    BY <2>1, <2>2, <2>3, <2>4, <2>5, <2>6, <2>7, LegalIs
<1> HIDE DEF p1, p2, p3, p4, p5, p6, p7, A
<1>12. Spans(p1 \o p2, 0, 20, A) /\ \A op : Holds(p1 \o p2, op) <=> Holds(p1, op) \/ Holds(p2, op)
  BY <1>3, <1>4, JoinedSpans
<1>13. Spans(p3, 20, 23, A)
  BY <1>6 DEF Spans
<1>14. Spans((p1 \o p2) \o p3, 0, 23, A) /\ \A op : Holds((p1 \o p2) \o p3, op) <=> Holds(p1 \o p2, op) \/ Holds(p3, op)
  BY <1>12, <1>13, JoinedSpans
<1>15. Spans(((p1 \o p2) \o p3) \o p4, 0, 25, A) /\ \A op : Holds(((p1 \o p2) \o p3) \o p4, op) <=> Holds((p1 \o p2) \o p3, op) \/ Holds(p4, op)
  BY <1>14, <1>7, JoinedSpans
<1>16. Spans(p5 \o p6, 25, 30, A) /\ \A op : Holds(p5 \o p6, op) <=> Holds(p5, op) \/ Holds(p6, op)
  BY <1>8, <1>9, JoinedSpans
<1>17. /\ Spans((((p1 \o p2) \o p3) \o p4) \o (p5 \o p6), 0, 30, A)
       /\ \A op : Holds((((p1 \o p2) \o p3) \o p4) \o (p5 \o p6), op) <=> Holds(((p1 \o p2) \o p3) \o p4, op) \/ Holds(p5 \o p6, op)
  BY <1>15, <1>16, JoinedSpans
<1>20. PICK r : r = (((p1 \o p2) \o p3) \o p4) \o (p5 \o p6)
  OBVIOUS
<1>22. Spans(r, 0, 30, A) /\ Spans(p7, 30, 34, A)
  BY <1>17, <1>10, <1>20
<1>21. Spans(r \o p7, 0, 34, A) /\ \A op : Holds(r \o p7, op) <=> Holds(r, op) \/ Holds(p7, op)
  BY <1>22, JoinedSpans
<1>18. /\ Spans(C!Enter(g.bootstrap), 0, 34, A)
       /\ \A op : Holds(C!Enter(g.bootstrap), op) <=> Holds((((p1 \o p2) \o p3) \o p4) \o (p5 \o p6), op) \/ Holds(p7, op)
  BY <1>1, <1>20, <1>21
<1>19. ASSUME NEW op \in Steps3(g) PROVE Holds(C!Enter(g.bootstrap), op)
  BY <1>11, <1>12, <1>14, <1>15, <1>16, <1>17, <1>18
<1> QED
  BY <1>18, <1>19 DEF A

\* The appliance's paths.
LEMMA AppliancePaths ==
  ASSUME NEW g, g \in Inputs
  PROVE  /\ All(g) \in Seq(Seq(STRING))
         /\ \A p \in Wanted(g) : p \in Seq(STRING) /\ Len(p) >= 2 /\ Head(p) \in STRING /\ Head(p) \notin Names3
         /\ \A p, q \in Wanted(g) : Len(p) < Len(q) => SubSeq(q, 1, Len(p)) # p
         /\ <<"bin", "sh">> \in Wanted(g) /\ \A i \in DOMAIN g.libraries : g.libraries[i] \in Wanted(g)
<1> DEFINE each == C!Tools \o g.libraries
<1>1. /\ g.libraries \in Seq(Seq(STRING))
      /\ \A i \in DOMAIN g.libraries : Len(g.libraries[i]) >= 2 /\ Head(g.libraries[i]) \notin {"dev", "proc", "sys"}
      /\ \A i, j \in DOMAIN each : Len(each[i]) < Len(each[j]) => SubSeq(each[j], 1, Len(each[i])) # each[i]
      /\ {"bin", "sh", "cat"} \subseteq STRING
  BY RootIsSound DEF C!RootAssumption, C!LibraryAssumption
<1>2. PICK l \in Seq(Seq(STRING)) : l = g.libraries
  BY <1>1
<1>3. PICK t : t = C!Tools
  OBVIOUS
<1>4. /\ t \in Seq(Seq(STRING)) /\ Len(t) = 2 /\ DOMAIN t = {1, 2} /\ t[1] = <<"bin", "sh">>
      /\ \A i \in {1, 2} : Len(t[i]) = 2 /\ t[i] \in Seq(STRING) /\ Head(t[i]) = "bin"
  <2>1. <<"bin", "sh">> \in Seq(STRING) /\ <<"bin", "cat">> \in Seq(STRING)
    BY <1>1
  <2> QED
    BY <1>3, <2>1 DEF C!Tools
<1>5. PICK a : a = t \o l
  OBVIOUS
<1>6. a \in Seq(Seq(STRING)) /\ Len(a) = 2 + Len(l) /\ DOMAIN a = 1..Len(a) /\ DOMAIN l = 1..Len(l) /\ Len(l) \in Nat
  <2>1. t \in Seq(Seq(STRING))
    BY <1>4
  <2>2. /\ t \o l \in Seq(Seq(STRING)) /\ Len(t \o l) = Len(t) + Len(l) /\ DOMAIN (t \o l) = 1..(Len(t) + Len(l))
        /\ Len(l) \in Nat /\ DOMAIN l = 1..Len(l)
    BY <2>1, JoinIs
  <2> QED
    BY <1>4, <1>5, <2>2
<1>7. a[1] = t[1] /\ a[2] = t[2] /\ \A i \in 3..Len(a) : a[i] = l[i - 2] /\ i - 2 \in DOMAIN l
  BY <1>4, <1>5, <1>6
<1>8. ASSUME NEW i \in DOMAIN a PROVE a[i] \in Seq(STRING) /\ Len(a[i]) >= 2 /\ Head(a[i]) \in STRING /\ Head(a[i]) \notin Names3
  <2>1. a[i] \in Seq(STRING)
    BY <1>6
  <2>2. Len(a[i]) >= 2
    <3>1. CASE i \in {1, 2}
      <4>1. a[i] = t[i] /\ Len(t[i]) = 2
        BY <1>4, <1>7, <3>1
      <4> QED
        BY <4>1
    <3>2. CASE i \in 3..Len(a)
      BY <1>1, <1>2, <1>7, <3>2
    <3> QED
      BY <1>6, <3>1, <3>2
  <2>3. Head(a[i]) \notin Names3
    <3>1. CASE i \in {1, 2}
      BY <1>4, <1>7, <3>1 DEF Names3
    <3>2. CASE i \in 3..Len(a)
      BY <1>1, <1>2, <1>7, <3>2 DEF Names3
    <3> QED
      BY <1>6, <3>1, <3>2
  <2>4. PICK p \in Seq(STRING) : p = a[i]
    BY <2>1
  <2>5. Head(p) \in STRING
    BY <2>2, <2>4
  <2> QED
    BY <2>1, <2>2, <2>3, <2>4, <2>5
<1>9. each = a /\ All(g) = a
  BY <1>2, <1>3, <1>5 DEF All
<1>10. Wanted(g) = {a[i] : i \in DOMAIN a}
  BY <1>9 DEF Wanted
<1>11. ASSUME NEW i \in DOMAIN g.libraries PROVE g.libraries[i] \in Wanted(g)
  <2>1. i + 2 \in 3..Len(a) /\ (i + 2) - 2 = i
    BY <1>2, <1>6
  <2>2. a[i + 2] = l[i]
    BY <1>7, <2>1
  <2>3. i + 2 \in DOMAIN a
    BY <1>6, <2>1
  <2>4. g.libraries[i] = a[i + 2]
    BY <1>2, <2>2
  <2> QED
    BY <1>10, <2>3, <2>4
<1>12. <<"bin", "sh">> \in Wanted(g)
  <2>1. 1 \in DOMAIN a /\ a[1] = <<"bin", "sh">>
    BY <1>4, <1>6, <1>7
  <2>2. a[1] \in Wanted(g)
    BY <1>10, <2>1
  <2> QED
    BY <2>1, <2>2
<1>13. \A i, j \in DOMAIN a : Len(a[i]) < Len(a[j]) => SubSeq(a[j], 1, Len(a[i])) # a[i]
  BY <1>1, <1>9
<1>14. \A p, q \in Wanted(g) : Len(p) < Len(q) => SubSeq(q, 1, Len(p)) # p
  BY <1>10, <1>13
<1>15. \A p \in Wanted(g) : p \in Seq(STRING) /\ Len(p) >= 2 /\ Head(p) \in STRING /\ Head(p) \notin Names3
  BY <1>10, <1>8
<1> HIDE DEF each
<1> QED
  BY <1>6, <1>9, <1>11, <1>12, <1>14, <1>15

\* shell::install
Places(g, p) == p = [i \in DOMAIN All(g) |-> <<"place", "root", All(g)[i]>>]
Starts(p, step) == p # <<>> /\ Head(p)[1] = step
LEMMA PlaceFirst ==
  ASSUME NEW g, g \in Inputs, NEW p, Spans(p, 0, 34, Legal(g)), Starts(p, "shell"), NEW place, Places(g, place)
  PROVE  /\ Spans(place \o Tail(p), 0, 34, Legal(g))
         /\ \A op : Holds(place \o Tail(p), op) <=> Holds(Tail(p), op) \/ op \in {"place"} \X {"root"} \X Wanted(g)
<1>0. All(g) \in Seq(Seq(STRING))
  BY AppliancePaths
<1>1. PICK a : a = All(g)
  OBVIOUS
<1>2. Wanted(g) = {a[i] : i \in DOMAIN a} /\ place = [i \in DOMAIN a |-> <<"place", "root", a[i]>>]
  BY <1>1 DEF Wanted, Places
<1>3. \A i \in DOMAIN a : <<"place", "root", a[i]>> \in Legal(g) /\ Rank(<<"place", "root", a[i]>>) = 31
  BY <1>2 DEF Legal, Rank
<1>4. place \in Seq(Legal(g)) /\ DOMAIN place = DOMAIN a
  <2>1. DOMAIN a = 1..Len(a) /\ Len(a) \in Nat
    BY <1>0, <1>1
  <2>2. place \in [1..Len(a) -> Legal(g)]
    BY <1>2, <1>3, <2>1
  <2> HIDE DEF Legal
  <2> QED
    BY <2>1, <2>2
<1>11. \A i \in DOMAIN place : place[i] = <<"place", "root", a[i]>> /\ Rank(place[i]) = 31
  BY <1>2, <1>3, <1>4
<1>5. Spans(place, 0, 34, Legal(g))
  BY <1>4, <1>11 DEF Spans, Earlier
<1>13. PICK t : t = Tail(p)
  OBVIOUS
<1>6. Spans(t, 0, 34, Legal(g)) /\ \A op : Holds(t, op) => Earlier(Head(p), op)
  BY <1>13, Advance DEF Starts
<1>7. Rank(Head(p)) = 30
  BY DEF Rank, Starts
<1>8. ASSUME NEW i \in DOMAIN t PROVE Rank(t[i]) >= 31
  <2>1. Holds(t, t[i])
    BY DEF Holds
  <2>2. Earlier(Head(p), t[i]) /\ Rank(t[i]) \in 0..33
    BY <1>6, <2>1, RankIs
  <2> QED
    BY <1>7, <2>2 DEF Earlier
<1>9. Precede(place, t)
  <2>1. ASSUME NEW i \in DOMAIN place, NEW j \in DOMAIN t PROVE Earlier(place[i], t[j])
    <3>1. Rank(place[i]) = 31 /\ Rank(t[j]) >= 31 /\ Rank(t[j]) \in 0..33
      BY <1>11, <1>8, RankIs
    <3> QED
      BY <3>1 DEF Earlier
  <2> QED
    BY <2>1 DEF Precede
<1>10. /\ Spans(place \o t, 0, 34, Legal(g))
       /\ \A op : Holds(place \o t, op) <=> Holds(place, op) \/ Holds(t, op)
  BY <1>5, <1>6, <1>9, JoinedBefore
<1>12. \A op : Holds(place, op) <=> op \in {"place"} \X {"root"} \X Wanted(g)
  <2>1. ASSUME NEW op, Holds(place, op) PROVE op \in {"place"} \X {"root"} \X Wanted(g)
    <3>1. PICK i \in DOMAIN a : place[i] = op
      BY <1>4, <2>1 DEF Holds
    <3>2. op = <<"place", "root", a[i]>> /\ a[i] \in Wanted(g)
      BY <1>2, <1>4, <1>11, <3>1
    <3> QED
      BY <3>2
  <2>2. ASSUME NEW op, op \in {"place"} \X {"root"} \X Wanted(g) PROVE Holds(place, op)
    <3>1. PICK i \in DOMAIN a : op = <<"place", "root", a[i]>>
      BY <1>2, <2>2
    <3> QED
      BY <1>2, <1>4, <3>1 DEF Holds
  <2> QED
    BY <2>1, <2>2
<1> QED
  BY <1>10, <1>12, <1>13

-----------------------------------------------------------------------------
(* What the setup adds *)

NodeSet == [up : Nat, name : STRING, kind : C!Kinds, to : Seq(STRING), layer : C!Layers]
News(g, d) == DOMAIN d \ DOMAIN g.disk

\* The nodes of the runtime's own filesystems.
Hidden(g, d) == {n \in News(g, d) : d[n].layer \notin {"root", "output"}}

\* A node that may be added: a mount point at a top, or one of those.
NewNode(g, d, v) ==
  /\ v.kind \in {"dir", "file"} /\ v.layer # "stage" /\ (v.up = 0 => v.kind = "dir")
  /\ v.layer \in {"root", "output"} => v.kind = "dir" /\ v.up \in 1..2
  /\ v.layer \notin {"root", "output"} /\ v.up # 0 => v.up \in Hidden(g, d) /\ d[v.up].layer = v.layer
GrewFrom(g, d) == d \in Seq(NodeSet) /\ Extends(g.disk, d) /\ \A n \in News(g, d) : NewNode(g, d, d[n])

LEMMA Words == {"/", "dev", "proc", "sys", "pts", "shm", "bin", "sh", "cat"} \subseteq STRING
  BY RootIsSound DEF C!RootAssumption

LEMMA GivenIs ==
  ASSUME NEW g, g \in Inputs
  PROVE  /\ Image(g.disk, g.over) /\ g.disk \in Seq(NodeSet) /\ Len(g.disk) \in Nat /\ DOMAIN g.disk = 1..Len(g.disk)
         /\ g.bootstrap \in BOOLEAN /\ g.extra \in BOOLEAN
         /\ \A n \in DOMAIN g.disk : g.disk[n].layer \in {"root", "output", "stage"}
         /\ GrewFrom(g, g.disk) /\ News(g, g.disk) = {}
<1>1. C!ImageAssumption(g.disk, g.over) /\ g.bootstrap \in BOOLEAN /\ g.extra \in BOOLEAN
  BY RootIsSound DEF C!RootAssumption
<1> DEFINE Given == [up : Nat, name : STRING, kind : C!Kinds, to : Seq(STRING), layer : {"root", "output", "stage"}]
<1>2. g.disk \in Seq(Given)
  BY <1>1 DEF C!ImageAssumption
<1>3. Given \subseteq NodeSet /\ \A v \in Given : v.layer \in {"root", "output", "stage"}
  BY DEF NodeSet, C!Layers
<1> HIDE DEF Given
<1>4. PICK d : d = g.disk
  OBVIOUS
<1>5. d \in Seq(NodeSet) /\ Len(d) \in Nat /\ DOMAIN d = 1..Len(d) /\ \A n \in DOMAIN d : d[n] \in Given
  BY <1>2, <1>3, <1>4
<1>6. Image(d, g.over)
  BY <1>1, <1>4, <1>5 DEF C!ImageAssumption, Image
<1>7. GrewFrom(g, d) /\ News(g, d) = {}
  BY <1>4, <1>5 DEF GrewFrom, News, Extends
<1> QED
  BY <1>1, <1>3, <1>4, <1>5, <1>6, <1>7

\* A sequence with one more.
LEMMA Longer ==
  ASSUME NEW S, NEW d \in Seq(S), NEW v \in S
  PROVE  /\ Append(d, v) \in Seq(S) /\ Len(Append(d, v)) = Len(d) + 1 /\ DOMAIN Append(d, v) = 1..(Len(d) + 1)
         /\ Len(d) \in Nat /\ DOMAIN d = 1..Len(d)
         /\ \A n \in DOMAIN d : Append(d, v)[n] = d[n]
         /\ Append(d, v)[Len(d) + 1] = v
  OBVIOUS

LEMMA NewsGrow ==
  ASSUME NEW g, NEW d, NEW e, Len(d) \in Nat, Len(e) \in Nat, DOMAIN d = 1..Len(d), DOMAIN e = 1..Len(e), Extends(d, e)
  PROVE  /\ DOMAIN d \subseteq DOMAIN e /\ News(g, d) \subseteq News(g, e) /\ Hidden(g, d) \subseteq Hidden(g, e)
         /\ \A n \in DOMAIN d : (n \in News(g, e) => n \in News(g, d)) /\ (n \in Hidden(g, e) => n \in Hidden(g, d)) /\ e[n] = d[n]
<1>1. DOMAIN d \subseteq DOMAIN e
  BY DEF Extends
<1> QED
  BY <1>1 DEF News, Hidden, Extends

\* The same with more nodes, none of them below one that was there and is hidden.
Grows(g, d, o, e) ==
  /\ Image(e, o) /\ GrewFrom(g, e) /\ Extends(d, e) /\ DOMAIN d \subseteq DOMAIN e
  /\ Hidden(g, d) \subseteq Hidden(g, e) /\ (\A n \in DOMAIN d : n \in Hidden(g, e) => n \in Hidden(g, d))

\* One more node.
Fresh(d, v) == v \in NodeSet /\ v.up \in 0..Len(d) /\ (v.up # 0 => \A m \in DOMAIN d : ~(d[m].up = v.up /\ d[m].name = v.name))
Added(g, d, o, v, e) ==
  /\ Image(e, o) /\ GrewFrom(g, e) /\ Extends(d, e) /\ Len(e) = Len(d) + 1 /\ Len(d) \in Nat /\ DOMAIN d = 1..Len(d)
  /\ DOMAIN e = DOMAIN d \cup {Len(d) + 1} /\ e[Len(d) + 1] = v /\ Len(d) + 1 \notin DOMAIN d /\ (\A n \in DOMAIN d : e[n] = d[n])
  /\ Len(d) + 1 \in News(g, e) /\ News(g, e) = News(g, d) \cup {Len(d) + 1}
  /\ Hidden(g, d) \subseteq Hidden(g, e) /\ (\A n \in DOMAIN d : n \in Hidden(g, e) => n \in Hidden(g, d))
LEMMA AddNode ==
  ASSUME NEW g, g \in Inputs, NEW d, NEW o, Image(d, o), GrewFrom(g, d), NEW v, Fresh(d, v), NewNode(g, d, v),
         NEW e, e = Append(d, v)
  PROVE  Added(g, d, o, v, e)
<1>1. d \in Seq(NodeSet) /\ v \in NodeSet
  BY DEF GrewFrom, Fresh
<1>2. /\ e \in Seq(NodeSet) /\ Len(e) = Len(d) + 1 /\ DOMAIN e = 1..(Len(d) + 1)
      /\ Len(d) \in Nat /\ DOMAIN d = 1..Len(d)
      /\ \A n \in DOMAIN d : e[n] = d[n]
      /\ e[Len(d) + 1] = v
  BY <1>1, Longer
<1>3. DOMAIN e = DOMAIN d \cup {Len(d) + 1} /\ Len(d) + 1 \notin DOMAIN d
  BY <1>2
<1>4. Extends(d, e) /\ Extends(g.disk, e)
  <2>1. Extends(d, e)
    BY <1>2 DEF Extends
  <2>2. Len(g.disk) \in Nat /\ DOMAIN g.disk = 1..Len(g.disk) /\ Extends(g.disk, d)
    BY GivenIs DEF GrewFrom
  <2>3. DOMAIN g.disk \subseteq DOMAIN d
    BY <1>2, <2>2 DEF Extends
  <2> QED
    BY <1>2, <2>1, <2>2, <2>3 DEF Extends
<1>5. Len(d) + 1 \in News(g, e) /\ News(g, e) = News(g, d) \cup {Len(d) + 1}
  <2>1. Len(g.disk) \in Nat /\ DOMAIN g.disk = 1..Len(g.disk) /\ Len(g.disk) <= Len(d)
    BY GivenIs DEF GrewFrom, Extends
  <2>2. Len(d) + 1 \notin DOMAIN g.disk
    BY <1>2, <2>1
  <2> QED
    BY <1>3, <2>2 DEF News
<1>6. Hidden(g, d) \subseteq Hidden(g, e) /\ \A n \in DOMAIN d : n \in Hidden(g, e) => n \in Hidden(g, d)
  BY <1>2, <1>3, <1>5 DEF Hidden, News
<1>7. C!TreeOf(e)
  <2>1. \A n \in DOMAIN e : e[n] \in [up : 0..(n - 1), name : STRING, kind : C!Kinds, to : Seq(STRING), layer : C!Layers]
    <3>1. ASSUME NEW n \in DOMAIN d
          PROVE  e[n] \in [up : 0..(n - 1), name : STRING, kind : C!Kinds, to : Seq(STRING), layer : C!Layers]
      BY <1>2 DEF Image, C!TreeOf
    <3>2. v \in [up : 0..((Len(d) + 1) - 1), name : STRING, kind : C!Kinds, to : Seq(STRING), layer : C!Layers]
      <4>1. (Len(d) + 1) - 1 = Len(d)
        BY <1>2
      <4> QED
        BY <4>1 DEF Fresh, NodeSet
    <3> QED
      BY <1>2, <1>3, <3>1, <3>2
  <2>2. ASSUME NEW n \in DOMAIN e, NEW m \in DOMAIN e, e[n].up = e[m].up, e[n].up # 0, e[n].name = e[m].name PROVE n = m
    <3>1. CASE n \in DOMAIN d /\ m \in DOMAIN d
      BY <1>2, <2>2, <3>1 DEF Image, C!TreeOf
    <3>2. CASE n \in DOMAIN d /\ m = Len(d) + 1
      BY <1>2, <2>2, <3>2 DEF Fresh
    <3>3. CASE m \in DOMAIN d /\ n = Len(d) + 1
      BY <1>2, <2>2, <3>3 DEF Fresh
    <3> QED
      BY <1>3, <3>1, <3>2, <3>3
  <2> QED
    BY <2>1, <2>2 DEF C!TreeOf
<1>8. Image(e, o)
  <2>1. Len(d) >= 2 /\ \A n \in 1..2 : d[n].up = 0 /\ d[n].kind = "dir" /\ n \in DOMAIN d
    BY <1>2 DEF Image
  <2>2. Len(e) >= 2 /\ Len(e) \in Nat /\ DOMAIN e = 1..Len(e)
    BY <1>2, <2>1
  <2>3. \A n \in 1..2 : e[n].up = 0 /\ e[n].kind = "dir"
    BY <1>2, <2>1
  <2>4. DOMAIN o \subseteq C!Views \X DOMAIN e
    BY <1>3 DEF Image
  <2>5. ASSUME NEW l \in DOMAIN o PROVE o[l] \in C!Views \X DOMAIN e /\ e[l[2]].kind = "dir" /\ e[o[l][2]].kind = "dir"
    <3>1. o[l] \in C!Views \X DOMAIN d /\ d[l[2]].kind = "dir" /\ d[o[l][2]].kind = "dir" /\ l \in C!Views \X DOMAIN d
      BY DEF Image
    <3>2. l[2] \in DOMAIN d /\ o[l][2] \in DOMAIN d
      BY <3>1
    <3> QED
      BY <1>2, <1>3, <3>1, <3>2
  <2> QED
    BY <1>7, <2>2, <2>3, <2>4, <2>5 DEF Image
<1>9. \A n \in News(g, e) : NewNode(g, e, e[n])
  <2>1. ASSUME NEW x, NewNode(g, d, x) PROVE NewNode(g, e, x)
    <3>1. x.up \in Hidden(g, d) => x.up \in Hidden(g, e) /\ e[x.up] = d[x.up]
      BY <1>2, <1>6 DEF Hidden, News
    <3> QED
      BY <2>1, <3>1 DEF NewNode
  <2>2. ASSUME NEW n \in News(g, d) PROVE NewNode(g, e, e[n])
    <3>1. n \in DOMAIN d /\ NewNode(g, d, d[n])
      BY DEF News, GrewFrom
    <3> QED
      BY <1>2, <2>1, <3>1
  <2>3. NewNode(g, e, e[Len(d) + 1])
    BY <1>2, <2>1
  <2> QED
    BY <1>5, <2>2, <2>3
<1>10. GrewFrom(g, e)
  BY <1>2, <1>4, <1>9 DEF GrewFrom
<1> QED
  BY <1>2, <1>3, <1>4, <1>5, <1>6, <1>8, <1>10 DEF Added

\* What is mounted.
LEMMA Mounts ==
  ASSUME NEW d, NEW o, Image(d, o), NEW l \in C!Views \X DOMAIN d, NEW m \in C!Views \X DOMAIN d,
         d[l[2]].kind = "dir", d[m[2]].kind = "dir"
  PROVE  Image(d, C!With(o, l, m))
<1>1. PICK q : q = C!With(o, l, m)
  OBVIOUS
<1>2. DOMAIN q = DOMAIN o \cup {l} /\ q[l] = m /\ \A z \in DOMAIN o : z # l => q[z] = o[z]
  BY <1>1 DEF C!With
<1>3. DOMAIN q \subseteq C!Views \X DOMAIN d
  BY <1>2 DEF Image
<1>4. \A z \in DOMAIN q : q[z] \in C!Views \X DOMAIN d /\ d[z[2]].kind = "dir" /\ d[q[z][2]].kind = "dir"
  BY <1>2 DEF Image
<1>5. Image(d, q)
  BY <1>3, <1>4 DEF Image
<1> QED
  BY <1>1, <1>5

\* What was mounted at the start still can be.
LEMMA ImageGiven ==
  ASSUME NEW g, g \in Inputs, NEW d, NEW o, Image(d, o), GrewFrom(g, d)
  PROVE  Image(d, g.over) /\ DOMAIN g.disk \subseteq DOMAIN d
<1>1. Image(g.disk, g.over) /\ Extends(g.disk, d) /\ Len(g.disk) \in Nat /\ DOMAIN g.disk = 1..Len(g.disk)
  BY GivenIs DEF GrewFrom
<1>2. DOMAIN g.disk \subseteq DOMAIN d /\ \A n \in DOMAIN g.disk : d[n] = g.disk[n]
  BY <1>1 DEF Extends, Image
<1>3. DOMAIN g.over \subseteq C!Views \X DOMAIN d
  BY <1>1, <1>2 DEF Image
<1>4. ASSUME NEW l \in DOMAIN g.over PROVE g.over[l] \in C!Views \X DOMAIN d /\ d[l[2]].kind = "dir" /\ d[g.over[l][2]].kind = "dir"
  <2>1. g.over[l] \in C!Views \X DOMAIN g.disk /\ l \in C!Views \X DOMAIN g.disk /\ g.disk[l[2]].kind = "dir" /\ g.disk[g.over[l][2]].kind = "dir"
    BY <1>1 DEF Image
  <2>2. l[2] \in DOMAIN g.disk /\ g.over[l][2] \in DOMAIN g.disk
    BY <2>1
  <2> QED
    BY <1>2, <2>1, <2>2
<1> QED
  BY <1>2, <1>3, <1>4 DEF Image

\* Where a mount is, and what shows there: a target, one of the devices' two directories, or a top of the private shell.
KeyGood(g, d, ts, priv, l, v) ==
  /\ v[1] = l[1] /\ v[2] \in Hidden(g, d) /\ d[v[2]].up = 0
  /\ \/ \E name \in Names3 : <<l[1], name>> \in DOMAIN ts /\ l = ts[<<l[1], name>>] /\ d[v[2]].layer = name
     \/ d[l[2]].layer = "dev" /\ d[l[2]].name \in {"pts", "shm"} /\ d[v[2]].layer = d[l[2]].name
     \/ l[1] = "root" /\ d[l[2]].up = 1 /\ d[l[2]].name \in priv /\ d[v[2]].layer = "shell"
Keys(g, d, o, ts, priv) ==
  /\ DOMAIN g.over \subseteq DOMAIN o /\ \A l \in DOMAIN g.over : o[l] = g.over[l]
  /\ \A l \in DOMAIN o \ DOMAIN g.over : KeyGood(g, d, ts, priv, l, o[l])

\* A mount point as it was resolved.
PinnedAt(g, d, view, name, t) ==
  /\ t \in C!Views \X DOMAIN d /\ t[1] = view /\ d[t[2]].kind = "dir" /\ t[2] \notin Hidden(g, d)
  /\ t = C!TopOf(view) \/ t \notin DOMAIN g.over
  /\ C!OpenIn(d, g.over, C!TopOf(view), <<name>>, {"links"}) = C!Found(t)
PinsOf(g, d, ts) == DOMAIN ts \subseteq Use(g) \X Names3 /\ \A x \in DOMAIN ts : PinnedAt(g, d, x[1], x[2], ts[x])

\* The nodes are trees that have grown from the input, every mount and every target is where it belongs.
Whole(g, d, o, ts, priv) ==
  g \in Inputs /\ Image(d, o) /\ GrewFrom(g, d) /\ Keys(g, d, o, ts, priv) /\ PinsOf(g, d, ts)

LEMMA TopIs ==
  ASSUME NEW d, NEW o, Image(d, o), NEW view \in C!Views
  PROVE  /\ C!TopOf(view) \in C!Views \X DOMAIN d /\ C!TopOf(view)[1] = view /\ C!TopOf(view)[2] \in 1..2
         /\ d[C!TopOf(view)[2]].kind = "dir" /\ d[C!TopOf(view)[2]].up = 0 /\ C!TopOf(view)[2] = IF view = "root" THEN 1 ELSE 2
<1>1. C!TopOf(view)[1] = view /\ C!TopOf(view)[2] = IF view = "root" THEN 1 ELSE 2
  BY DEF C!TopOf
<1>2. 1 \in DOMAIN d /\ 2 \in DOMAIN d /\ \A n \in 1..2 : d[n].up = 0 /\ d[n].kind = "dir"
  BY DEF Image
<1> QED
  BY <1>1, <1>2 DEF C!TopOf, C!Views

LEMMA NotHidden ==
  ASSUME NEW g, g \in Inputs, NEW d, NEW o, Image(d, o), GrewFrom(g, d)
  PROVE  /\ 1 \notin Hidden(g, d) /\ 2 \notin Hidden(g, d) /\ 0 \notin Hidden(g, d) /\ DOMAIN g.disk \cap Hidden(g, d) = {}
         /\ \A n \in DOMAIN d : d[n].up \in Hidden(g, d) => n \in Hidden(g, d) /\ d[n].layer = d[d[n].up].layer
         /\ \A n \in Hidden(g, d) : d[n].kind \in {"dir", "file"} /\ d[n].layer \notin {"root", "output", "stage"} /\ (d[n].up = 0 \/ d[n].up \in Hidden(g, d))
         /\ \A n \in DOMAIN d : d[n].layer \notin {"root", "output", "stage"} => n \in Hidden(g, d)
<1>1. /\ Image(g.disk, g.over) /\ Len(g.disk) \in Nat /\ DOMAIN g.disk = 1..Len(g.disk)
      /\ \A n \in DOMAIN g.disk : g.disk[n].layer \in {"root", "output", "stage"}
  BY GivenIs
<1>2. Extends(g.disk, d) /\ DOMAIN g.disk \subseteq DOMAIN d
  BY ImageGiven DEF GrewFrom
<1>3. \A n \in DOMAIN g.disk : d[n] = g.disk[n]
  BY <1>2 DEF Extends
<1>4. 1 \in DOMAIN g.disk /\ 2 \in DOMAIN g.disk /\ 0 \notin DOMAIN d
  BY <1>1 DEF Image
<1>5. 1 \notin Hidden(g, d) /\ 2 \notin Hidden(g, d) /\ 0 \notin Hidden(g, d) /\ DOMAIN g.disk \cap Hidden(g, d) = {}
  BY <1>4 DEF Hidden, News
<1>6. ASSUME NEW n \in DOMAIN d, d[n].up \in Hidden(g, d) PROVE n \in Hidden(g, d) /\ d[n].layer = d[d[n].up].layer
  <2>1. n \in News(g, d)
    <3> SUFFICES ASSUME n \in DOMAIN g.disk PROVE FALSE
      BY DEF News
    <3>1. d[n].up \in 0..(n - 1)
      BY DEF Image, C!TreeOf
    <3>2. d[n].up \in DOMAIN g.disk \/ d[n].up = 0
      BY <1>1, <3>1
    <3> QED
      BY <1>5, <1>6, <3>2
  <2>2. NewNode(g, d, d[n])
    BY <2>1 DEF GrewFrom
  <2>3. d[n].up \notin 1..2
    BY <1>5, <1>6
  <2>4. d[n].layer \notin {"root", "output"} /\ d[n].up # 0
    BY <1>5, <1>6, <2>2, <2>3 DEF NewNode
  <2> QED
    BY <2>1, <2>2, <2>4 DEF NewNode, Hidden
<1>7. ASSUME NEW n \in Hidden(g, d)
      PROVE  d[n].kind \in {"dir", "file"} /\ d[n].layer \notin {"root", "output", "stage"} /\ (d[n].up = 0 \/ d[n].up \in Hidden(g, d))
  BY DEF Hidden, GrewFrom, NewNode
<1>8. ASSUME NEW n \in DOMAIN d, d[n].layer \notin {"root", "output", "stage"} PROVE n \in Hidden(g, d)
  BY <1>1, <1>3, <1>8 DEF Hidden, News
<1> QED
  BY <1>5, <1>6, <1>7, <1>8

\* New nodes and new mounts leave a good mount as it was.
LEMMA KeyStays ==
  ASSUME NEW g, NEW d, NEW e, NEW ts, NEW us, NEW priv, NEW more, NEW l, NEW v, KeyGood(g, d, ts, priv, l, v),
         DOMAIN ts \subseteq DOMAIN us, \A x \in DOMAIN ts : us[x] = ts[x], priv \subseteq more,
         Hidden(g, d) \subseteq Hidden(g, e), e[l[2]] = d[l[2]], e[v[2]] = d[v[2]]
  PROVE  KeyGood(g, e, us, more, l, v)
<1>1. v[1] = l[1] /\ v[2] \in Hidden(g, e) /\ e[v[2]].up = 0
  BY DEF KeyGood
<1>2. CASE \E name \in Names3 : <<l[1], name>> \in DOMAIN ts /\ l = ts[<<l[1], name>>] /\ d[v[2]].layer = name
  BY <1>1, <1>2 DEF KeyGood
<1>3. CASE d[l[2]].layer = "dev" /\ d[l[2]].name \in {"pts", "shm"} /\ d[v[2]].layer = d[l[2]].name
  BY <1>1, <1>3 DEF KeyGood
<1>4. CASE l[1] = "root" /\ d[l[2]].up = 1 /\ d[l[2]].name \in priv /\ d[v[2]].layer = "shell"
  BY <1>1, <1>4 DEF KeyGood
<1> QED
  BY <1>2, <1>3, <1>4 DEF KeyGood

LEMMA KeysStay ==
  ASSUME NEW g, NEW d, NEW e, NEW o, Image(d, o), Image(e, o), Extends(d, e), Hidden(g, d) \subseteq Hidden(g, e),
         NEW ts, NEW us, NEW priv, NEW more, Keys(g, d, o, ts, priv),
         DOMAIN ts \subseteq DOMAIN us, \A x \in DOMAIN ts : us[x] = ts[x], priv \subseteq more
  PROVE  Keys(g, e, o, us, more)
<1>1. ASSUME NEW l \in DOMAIN o \ DOMAIN g.over PROVE KeyGood(g, e, us, more, l, o[l])
  <2>1. KeyGood(g, d, ts, priv, l, o[l])
    BY DEF Keys
  <2>2. l \in C!Views \X DOMAIN d /\ o[l] \in C!Views \X DOMAIN d
    BY DEF Image
  <2>3. e[l[2]] = d[l[2]] /\ e[o[l][2]] = d[o[l][2]]
    BY <2>2 DEF Extends
  <2> QED
    BY <2>1, <2>3, KeyStays
<1> QED
  BY <1>1 DEF Keys

\* One more mount.
LEMMA KeysMore ==
  ASSUME NEW g, NEW d, NEW o, NEW ts, NEW priv, Keys(g, d, o, ts, priv), NEW l, NEW v, l \notin DOMAIN g.over, KeyGood(g, d, ts, priv, l, v),
         NEW q, q = C!With(o, l, v)
  PROVE  Keys(g, d, q, ts, priv)
<1>1. DOMAIN q = DOMAIN o \cup {l} /\ q[l] = v /\ \A z \in DOMAIN o : z # l => q[z] = o[z]
  BY DEF C!With
<1>2. DOMAIN g.over \subseteq DOMAIN q /\ \A z \in DOMAIN g.over : q[z] = g.over[z]
  BY <1>1 DEF Keys
<1>3. \A z \in DOMAIN q \ DOMAIN g.over : KeyGood(g, d, ts, priv, z, q[z])
  BY <1>1 DEF Keys
<1> QED
  BY <1>2, <1>3 DEF Keys

LEMMA PinStays ==
  ASSUME NEW g, g \in Inputs, NEW d, NEW e, NEW o, Image(d, o), Image(e, o), GrewFrom(g, d), GrewFrom(g, e), Extends(d, e),
         \A n \in DOMAIN d : n \in Hidden(g, e) => n \in Hidden(g, d),
         NEW view \in C!Views, NEW name \in STRING, NEW t, PinnedAt(g, d, view, name, t)
  PROVE  PinnedAt(g, e, view, name, t)
<1>1. Image(d, g.over) /\ Image(e, g.over)
  BY ImageGiven
<1>2. DOMAIN d \subseteq DOMAIN e
  BY DEF Image, Extends
<1>3. t \in C!Views \X DOMAIN d /\ t[2] \in DOMAIN d /\ d[t[2]].kind = "dir" /\ t[2] \notin Hidden(g, d)
  BY DEF PinnedAt
<1>4. t \in C!Views \X DOMAIN e /\ e[t[2]].kind = "dir" /\ t[2] \notin Hidden(g, e)
  <2>1. e[t[2]] = d[t[2]]
    BY <1>3 DEF Extends
  <2> QED
    BY <1>2, <1>3, <2>1
<1>5. C!TopOf(view) \in C!Views \X DOMAIN d
  BY TopIs
<1>6. PICK w : w = [at |-> C!TopOf(view), path |-> <<name>>, links |-> MaxLinks]
  OBVIOUS
<1>7. w \in Ways(d)
  <2>1. MaxLinks \in 0..MaxLinks
    BY Links
  <2> QED
    BY <1>5, <1>6, <2>1 DEF Ways
<1>8. C!Lookup(d, g.over, C!TopOf(view), {"links"})[w] = C!Found(t)
  BY <1>6 DEF PinnedAt, C!OpenIn
<1>9. C!Lookup(e, g.over, C!TopOf(view), {"links"})[w] = C!Found(t)
  <2>1. C!Lookup(d, g.over, C!TopOf(view), {"links"})[w].err = "ok"
    BY <1>8 DEF C!Found
  <2> QED
    BY <1>1, <1>5, <1>7, <1>8, <2>1, Persists
<1> QED
  BY <1>4, <1>6, <1>9 DEF PinnedAt, C!OpenIn

LEMMA PinsStay ==
  ASSUME NEW g, g \in Inputs, NEW d, NEW e, NEW o, Image(d, o), Image(e, o), GrewFrom(g, d), GrewFrom(g, e), Extends(d, e),
         \A n \in DOMAIN d : n \in Hidden(g, e) => n \in Hidden(g, d), NEW ts, PinsOf(g, d, ts)
  PROVE  PinsOf(g, e, ts)
<1>1. ASSUME NEW x \in DOMAIN ts PROVE PinnedAt(g, e, x[1], x[2], ts[x])
  <2>1. x[1] \in Use(g) /\ x[2] \in Names3 /\ PinnedAt(g, d, x[1], x[2], ts[x])
    BY DEF PinsOf
  <2>2. x[1] \in C!Views /\ x[2] \in STRING
    BY <2>1, Words DEF Use, C!Views, Names3
  <2> QED
    BY <2>1, <2>2, PinStays
<1> QED
  BY <1>1 DEF PinsOf

-----------------------------------------------------------------------------
(* How far the setup is *)

\* Once a step is no longer left, it has had its effect A, and only later ones are left.
Later(p, r) == \A op : Holds(p, op) => Rank(op) > r
Prog(p, op, A) == Holds(p, op) \/ (A /\ Later(p, Rank(op)))

First(p, h) == p # <<>> /\ Head(p) = h
LEMMA Past ==
  ASSUME NEW S, NEW p, Spans(p, 0, 34, S), NEW h, First(p, h), NEW op, NEW A, Prog(p, op, A), Rank(op) < Rank(h)
  PROVE  A
<1> SUFFICES ASSUME Holds(p, op) PROVE FALSE
  BY DEF Prog
<1>1. op = h \/ Earlier(h, op)
  BY Advance DEF First
<1>2. Rank(op) \in 0..33 /\ Rank(h) \in 0..33
  BY RankIs
<1>3. op # h
  BY <1>2
<1>4. ~Earlier(h, op)
  BY <1>2 DEF Earlier
<1> QED
  BY <1>1, <1>3, <1>4

LEMMA ProgStep ==
  ASSUME NEW S, NEW p, Spans(p, 0, 34, S), NEW h, First(p, h), NEW op, Rank(op) # 31, NEW A, Prog(p, op, A),
         NEW B, op = h => B, A /\ Rank(op) < Rank(h) => B
  PROVE  Prog(Tail(p), op, B)
<1>1. PICK t : t = Tail(p)
  OBVIOUS
<1>2. /\ \A x : Holds(p, x) => x = h \/ Holds(t, x)
      /\ \A x : Holds(t, x) => Holds(p, x) /\ Earlier(h, x)
      /\ Holds(p, h)
  <2>1. p \in Seq(S) /\ p # <<>>
    BY DEF Spans, First
  <2>2. 1 \in DOMAIN p /\ p[1] = Head(p)
    BY <2>1, Split
  <2>3. Holds(p, h)
    BY <2>2 DEF Holds, First
  <2>4. /\ \A x : Holds(p, x) => x = Head(p) \/ Holds(Tail(p), x)
        /\ \A x : Holds(Tail(p), x) => Holds(p, x) /\ Earlier(Head(p), x)
    BY Advance DEF First
  <2> QED
    BY <1>1, <2>3, <2>4 DEF First
<1>3. Rank(op) \in 0..33 /\ Rank(h) \in 0..33
  BY RankIs
<1>4. CASE op = h
  <2>1. ASSUME NEW x, Holds(t, x) PROVE Rank(x) > Rank(op)
    BY <1>2, <1>3, <1>4, <2>1, RankIs DEF Earlier
  <2> QED
    BY <1>1, <1>4, <2>1 DEF Prog, Later
<1>5. CASE op # h /\ Holds(p, op)
  BY <1>1, <1>2, <1>5 DEF Prog
<1>6. CASE A /\ Later(p, Rank(op))
  <2>1. Rank(h) > Rank(op)
    BY <1>2, <1>6 DEF Later
  <2>2. Rank(op) < Rank(h)
    BY <1>3, <2>1
  <2>3. Later(t, Rank(op))
    BY <1>2, <1>6 DEF Later
  <2> QED
    BY <1>1, <1>6, <2>2, <2>3 DEF Prog
<1> QED
  BY <1>4, <1>5, <1>6 DEF Prog

\* What the steps do.
Checked(ts, view) ==
  /\ {view} \X Names3 \subseteq DOMAIN ts
  /\ \A i, j \in Names3 : ts[<<view, i>>] # C!TopOf(view) /\ (i # j => ts[<<view, i>>] # ts[<<view, j>>])
Attached(d, o, ts, view, name) == ts[<<view, name>>] \in DOMAIN o /\ d[o[ts[<<view, name>>]][2]].layer = name
DevIs(d, top) ==
  /\ {n \in DOMAIN d : d[n].layer = "dev"} = {top, top + 1, top + 2}
  /\ d[top] = C!Node(0, "/", "dir", "dev")
  /\ d[top + 1] = C!Node(top, "pts", "dir", "dev") /\ d[top + 2] = C!Node(top, "shm", "dir", "dev")
RootDev(d, o, ts) ==
  ts[<<"root", "dev">>] \in DOMAIN o /\ \E top \in Nat : DevIs(d, top) /\ o[ts[<<"root", "dev">>]] = <<"root", top>>
BelowIs(d, o, view, x) ==
  \A n \in DOMAIN d : d[n].layer = "dev" /\ d[n].name = x => <<view, n>> \in DOMAIN o /\ d[o[<<view, n>>][2]].layer = x
Cloned(d, o, ts) == Attached(d, o, ts, "output", "dev") /\ BelowIs(d, o, "output", "pts") /\ BelowIs(d, o, "output", "shm")

NoShell(g, d) == \A n \in News(g, d) : d[n].layer # "shell" /\ d[n].name \notin {"sh", "cat"}

Progress(g, d, o, ts, p) ==
  /\ \A view \in Use(g), name \in Names3 : Prog(p, <<"directory", view, name>>, <<view, name>> \in DOMAIN ts)
  /\ \A view \in Use(g) : Prog(p, <<"check", view, "targets">>, Checked(ts, view))
  /\ \A view \in Use(g), name \in {"proc", "sys"} : Prog(p, <<"attach", view, name>>, Attached(d, o, ts, view, name))
  /\ Prog(p, <<"attach", "root", "dev">>, RootDev(d, o, ts))
  /\ \A x \in {"pts", "shm"} : Prog(p, <<"below", "root", x>>, BelowIs(d, o, "root", x))
  /\ g.bootstrap => Prog(p, <<"clone", "output", "dev">>, Cloned(d, o, ts))

Untouched(g, d, o, priv, p) ==
  /\ (\E op : Holds(p, op) /\ Rank(op) < 20) => o = g.over
  /\ (\E op : Holds(p, op) /\ Rank(op) < 26) => \A n \in DOMAIN d : d[n].layer # "dev"
  /\ (\E op : Holds(p, op) /\ Rank(op) < 31) => priv = {} /\ NoShell(g, d)

\* The shell's private filesystems: where each node of them is, by its path.
ShellOf(g, d) == {n \in News(g, d) : d[n].layer = "shell"}
WordOf(g, u, kind) ==
  \E p \in Wanted(g) : IF kind = "file" THEN u = p ELSE Len(u) < Len(p) /\ \A i \in 1..Len(u) : p[i] = u[i]
Shelved(g, d, o, priv, word) ==
  /\ word \in [ShellOf(g, d) -> Seq(STRING)]
  /\ \A n, m \in ShellOf(g, d) : word[n] = word[m] => n = m
  /\ \A n \in ShellOf(g, d) :
       /\ Len(word[n]) >= 1
       /\ d[n].up = 0 => \E top \in priv : word[n] = <<top>>
       /\ d[n].up # 0 => d[d[n].up].kind = "dir" /\ word[n] = Append(word[d[n].up], d[n].name)
       /\ WordOf(g, word[n], d[n].kind)
  /\ \A top \in priv : top \in STRING /\ \E n \in ShellOf(g, d), m \in DOMAIN d :
       /\ word[n] = <<top>> /\ d[n].up = 0
       /\ d[m].up = 1 /\ d[m].name = top /\ d[m].kind = "dir" /\ <<"root", m>> \in DOMAIN o /\ o[<<"root", m>>] = <<"root", n>>
InPlace(g, d, word, p) == \E n \in ShellOf(g, d) : word[n] = p /\ d[n].kind = "file"

-----------------------------------------------------------------------------
(* Pinning *)

\* A name that is a directory in its top is pinned there.
Child(d, view, name, n) == n \in DOMAIN d /\ d[n].up = C!TopOf(view)[2] /\ d[n].name = name /\ d[n].kind = "dir"
LEMMA OpenIs ==
  ASSUME NEW d, NEW o, Image(d, o), NEW view \in C!Views, NEW name \in STRING, NEW flags
  PROVE  LET r == C!OpenIn(d, o, C!TopOf(view), <<name>>, flags)
         IN  /\ C!EntryOf(d, C!TopOf(view), name) = {} => r = C!Error("NOENT")
             /\ \A n \in DOMAIN d : d[n].up = C!TopOf(view)[2] /\ d[n].name = name =>
                  /\ d[n].kind = "link" /\ "links" \notin flags => r = C!Error("LOOP")
                  /\ d[n].kind # "link" /\ <<view, n>> \in DOMAIN o /\ "mounts" \notin flags => r = C!Error("XDEV")
                  /\ d[n].kind # "link" /\ (<<view, n>> \in DOMAIN o => "mounts" \in flags) => r = C!Found(C!Cross(o, <<view, n>>))
<1>1. PICK l : l = C!TopOf(view)
  OBVIOUS
<1>2. l \in C!Views \X DOMAIN d /\ l[1] = view /\ d[l[2]].kind = "dir"
  BY <1>1, TopIs
<1>3. MaxLinks \in 0..MaxLinks
  BY Links
<1>4. \A r : OneIs(d, o, l, flags, l, name, MaxLinks, r) <=> C!OpenIn(d, o, l, <<name>>, flags) = r
  BY DEF OneIs, C!OpenIn
<1> QED
  BY <1>1, <1>2, <1>3, <1>4, OneStep

AllDirs(d, view, name) == \A n \in C!EntryOf(d, C!TopOf(view), name) : d[n].kind = "dir"
LEMMA DirectPin ==
  ASSUME NEW g, g \in Inputs, NEW d, NEW o, Image(d, o), GrewFrom(g, d), NEW view \in C!Views, NEW name \in STRING,
         NEW t, PinnedAt(g, d, view, name, t),
         AllDirs(d, view, name)
  PROVE  \E n : Child(d, view, name, n) /\ t = <<view, n>> /\ t \notin DOMAIN g.over
<1> USE DEF AllDirs
<1>1. Image(d, g.over)
  BY ImageGiven
<1>2. PICK r : r = C!OpenIn(d, g.over, C!TopOf(view), <<name>>, {"links"})
  OBVIOUS
<1>3. r.err = "ok" /\ r.at = t /\ r = C!Found(t)
  BY <1>2 DEF PinnedAt, C!Found
<1>4. \A e : C!Error(e).err = e
  BY DEF C!Error
<1>5. C!EntryOf(d, C!TopOf(view), name) # {}
  BY <1>1, <1>2, <1>3, <1>4, OpenIs
<1>6. PICK n \in DOMAIN d : d[n].up = C!TopOf(view)[2] /\ d[n].name = name /\ d[n].kind = "dir"
  BY <1>5 DEF C!EntryOf
<1>7. <<view, n>> \notin DOMAIN g.over
  <2> SUFFICES ASSUME <<view, n>> \in DOMAIN g.over PROVE FALSE
    OBVIOUS
  <2>1. "mounts" \notin {"links"}
    OBVIOUS
  <2>2. r = C!Error("XDEV")
    BY <1>1, <1>2, <1>6, <2>1, OpenIs
  <2> QED
    BY <1>3, <1>4, <2>2
<1>8. r = C!Found(C!Cross(g.over, <<view, n>>))
  BY <1>1, <1>2, <1>6, <1>7, OpenIs
<1>9. t = <<view, n>>
  BY <1>3, <1>7, <1>8 DEF C!Found, C!Cross
<1> QED
  BY <1>6, <1>7, <1>9 DEF Child

\* RuntimeTargets::directory
Pinning(g, d, view, name, e, t) ==
  \/ /\ C!EntryOf(d, C!TopOf(view), name) = {}
     /\ e = Append(d, C!Node(C!TopOf(view)[2], name, "dir", view)) /\ t = <<view, Len(d) + 1>>
  \/ e = d /\ C!OpenIn(d, g.over, C!TopOf(view), <<name>>, {"links"}) = C!Found(t) /\ d[t[2]].kind = "dir"
Points(g, d, e) ==
  \A n \in DOMAIN e : (n \in DOMAIN d /\ e[n] = d[n]) \/ (n \in News(g, e) /\ e[n].layer \in {"root", "output"} /\ e[n].name \in Names3)
LEMMA DirectoryStep ==
  ASSUME NEW g, NEW d, NEW ts, NEW priv, Whole(g, d, g.over, ts, priv), NEW view \in Use(g), NEW name \in Names3, NEW e, NEW t,
         Pinning(g, d, view, name, e, t), NEW us, us = C!With(ts, <<view, name>>, t)
  PROVE  Whole(g, e, g.over, us, priv) /\ Points(g, d, e)
<1>p. \/ /\ C!EntryOf(d, C!TopOf(view), name) = {}
         /\ e = Append(d, C!Node(C!TopOf(view)[2], name, "dir", view)) /\ t = <<view, Len(d) + 1>>
      \/ e = d /\ C!OpenIn(d, g.over, C!TopOf(view), <<name>>, {"links"}) = C!Found(t) /\ d[t[2]].kind = "dir"
  BY DEF Pinning
<1> USE <1>p
<1>0. g \in Inputs /\ Image(d, g.over) /\ GrewFrom(g, d) /\ PinsOf(g, d, ts)
  BY DEF Whole
<1>1. view \in C!Views /\ view \in {"root", "output"} /\ name \in STRING
  BY Words DEF Use, C!Views, Names3
<1>2. PICK l : l = C!TopOf(view)
  OBVIOUS
<1>3. l \in C!Views \X DOMAIN d /\ l[1] = view /\ l[2] \in 1..2 /\ d[l[2]].kind = "dir" /\ l[2] \in DOMAIN d
  BY <1>0, <1>1, <1>2, TopIs
<1>4. /\ Image(e, g.over) /\ GrewFrom(g, e) /\ Extends(d, e) /\ PinnedAt(g, e, view, name, t)
      /\ (\A n \in DOMAIN d : n \in Hidden(g, e) => n \in Hidden(g, d)) /\ Hidden(g, d) \subseteq Hidden(g, e)
      /\ \A n \in DOMAIN e : (n \in DOMAIN d /\ e[n] = d[n]) \/ (n \in News(g, e) /\ e[n].layer \in {"root", "output"} /\ e[n].name \in Names3)
  <2>1. CASE C!EntryOf(d, l, name) = {} /\ e = Append(d, C!Node(l[2], name, "dir", view)) /\ t = <<view, Len(d) + 1>>
    <3>1. PICK v : v = C!Node(l[2], name, "dir", view)
      OBVIOUS
    <3>2. /\ v = [up |-> l[2], name |-> name, kind |-> "dir", to |-> <<>>, layer |-> view]
          /\ v.up = l[2] /\ v.name = name /\ v.kind = "dir" /\ v.to = <<>> /\ v.layer = view
      BY <3>1 DEF C!Node
    <3>3. Fresh(d, v)
      <4>1. v \in NodeSet
        BY <1>1, <1>3, <3>2 DEF NodeSet, C!Kinds, C!Layers
      <4>2. v.up \in 0..Len(d)
        BY <1>0, <1>3, <3>2 DEF Image
      <4>3. \A m \in DOMAIN d : ~(d[m].up = v.up /\ d[m].name = v.name)
        BY <2>1, <3>2 DEF C!EntryOf
      <4> QED
        BY <4>1, <4>2, <4>3 DEF Fresh
    <3>4. NewNode(g, d, v)
      BY <1>1, <1>3, <3>2 DEF NewNode
    <3>5. /\ Image(e, g.over) /\ GrewFrom(g, e) /\ Extends(d, e) /\ Len(d) \in Nat /\ DOMAIN d = 1..Len(d)
          /\ DOMAIN e = DOMAIN d \cup {Len(d) + 1} /\ e[Len(d) + 1] = v /\ Len(d) + 1 \notin DOMAIN d /\ (\A n \in DOMAIN d : e[n] = d[n])
          /\ Len(d) + 1 \in News(g, e)
          /\ Hidden(g, d) \subseteq Hidden(g, e) /\ (\A n \in DOMAIN d : n \in Hidden(g, e) => n \in Hidden(g, d))
      <4>1. e = Append(d, v)
        BY <2>1, <3>1
      <4>2. Added(g, d, g.over, v, e)
        BY <1>0, <4>1, <3>3, <3>4, AddNode
      <4> QED
        BY <4>2 DEF Added
    <3>6. t \in C!Views \X DOMAIN e /\ t[1] = view /\ t[2] = Len(d) + 1 /\ e[t[2]].kind = "dir"
      BY <1>1, <2>1, <3>2, <3>5
    <3>7. t[2] \notin Hidden(g, e)
      BY <1>1, <3>2, <3>5, <3>6 DEF Hidden
    <3>8. t \notin DOMAIN g.over
      BY <1>0, <3>5, <3>6 DEF Image
    <3>9. C!OpenIn(e, g.over, l, <<name>>, {"links"}) = C!Found(t)
      <4>1. e[t[2]].up = l[2] /\ e[t[2]].name = name /\ e[t[2]].kind # "link" /\ t[2] \in DOMAIN e /\ <<view, t[2]>> = t
        BY <2>1, <3>2, <3>5, <3>6
      <4>2. C!OpenIn(e, g.over, l, <<name>>, {"links"}) = C!Found(C!Cross(g.over, <<view, t[2]>>))
        BY <1>1, <1>2, <3>5, <3>8, <4>1, OpenIs
      <4> QED
        BY <3>8, <4>1, <4>2 DEF C!Cross
    <3>10. PinnedAt(g, e, view, name, t)
      BY <1>2, <3>6, <3>7, <3>8, <3>9 DEF PinnedAt
    <3> QED
      BY <1>1, <3>2, <3>5, <3>10
  <2>2. CASE e = d /\ C!OpenIn(d, g.over, l, <<name>>, {"links"}) = C!Found(t) /\ d[t[2]].kind = "dir"
    <3> DEFINE Q == DOMAIN d \ Hidden(g, d)
    <3>1. PICK w : w = [at |-> l, path |-> <<name>>, links |-> MaxLinks]
      OBVIOUS
    <3>2. w \in Ways(d) /\ w.at = l
      <4>1. MaxLinks \in 0..MaxLinks
        BY Links
      <4> QED
        BY <1>1, <1>3, <3>1, <4>1 DEF Ways
    <3>3. C!Lookup(d, g.over, l, {"links"})[w] = C!Found(t)
      BY <2>2, <3>1 DEF C!OpenIn
    <3>4. \A n \in DOMAIN d : d[n].up \in Q => n \in Q
      <4>1. ASSUME NEW n \in DOMAIN d, d[n].up \in Q PROVE n \notin Hidden(g, d)
        <5>1. d[n].up # 0 /\ d[n].up \notin Hidden(g, d)
          BY <1>0, <4>1 DEF Image
        <5> QED
          BY <1>0, <5>1, NotHidden
      <4> QED
        BY <4>1
    <3>5. l[2] \in Q
      BY <1>0, <1>3, NotHidden
    <3>6. C!Found(t).err = "ok" /\ C!Found(t).at = t
      BY DEF C!Found
    <3> HIDE DEF Q
    <3>7. t \in C!Views \X DOMAIN d /\ t[2] \in Q /\ t[1] = l[1] /\ (t = l \/ t \notin DOMAIN g.over)
      <4>1. PICK flags : flags = {"links"}
        OBVIOUS
      <4>2. "mounts" \notin flags /\ C!Lookup(d, g.over, l, flags)[w].err = "ok" /\ C!Lookup(d, g.over, l, flags)[w].at = t
        BY <3>3, <3>6, <4>1
      <4> QED
        BY <1>0, <1>3, <3>2, <3>4, <3>5, <4>2, Outside
    <3>8. PinnedAt(g, d, view, name, t)
      BY <1>2, <1>3, <2>2, <3>7 DEF PinnedAt, Q
    <3>9. Extends(d, d)
      BY <1>0 DEF Extends, Image
    <3> QED
      BY <1>0, <2>2, <3>8, <3>9
  <2> QED
    BY <1>2, <2>1, <2>2
<1>5. PinsOf(g, e, ts)
  BY <1>0, <1>4, PinsStay
<1>6. PinsOf(g, e, us)
  <2>1. DOMAIN us = DOMAIN ts \cup {<<view, name>>} /\ us[<<view, name>>] = t /\ \A x \in DOMAIN ts : x # <<view, name>> => us[x] = ts[x]
    BY DEF C!With
  <2>2. DOMAIN us \subseteq Use(g) \X Names3
    BY <1>5, <2>1 DEF PinsOf
  <2>3. \A x \in DOMAIN us : PinnedAt(g, e, x[1], x[2], us[x])
    BY <1>4, <1>5, <2>1 DEF PinsOf
  <2> QED
    BY <2>2, <2>3 DEF PinsOf
<1>7. Keys(g, e, g.over, us, priv)
  BY DEF Keys
<1> QED
  BY <1>0, <1>4, <1>6, <1>7 DEF Whole, Points

-----------------------------------------------------------------------------
(* Mounting *)

\* A node of a filesystem of its own, and one below it.
LEMMA NodeIs ==
  ASSUME NEW up, NEW name, NEW kind, NEW layer, NEW v, v = C!Node(up, name, kind, layer)
  PROVE  v.up = up /\ v.name = name /\ v.kind = kind /\ v.to = <<>> /\ v.layer = layer
  BY DEF C!Node

LEMMA AddTop ==
  ASSUME NEW g, g \in Inputs, NEW d, NEW o, Image(d, o), GrewFrom(g, d), NEW layer \in C!Layers \ {"root", "output", "stage"},
         NEW v, v = C!Node(0, "/", "dir", layer)
  PROVE  Fresh(d, v) /\ NewNode(g, d, v)
<1>1. v.up = 0 /\ v.name = "/" /\ v.kind = "dir" /\ v.to = <<>> /\ v.layer = layer
  BY NodeIs
<1>2. v = [up |-> 0, name |-> "/", kind |-> "dir", to |-> <<>>, layer |-> layer]
  BY DEF C!Node
<1>3. v \in NodeSet
  <2>1. 0 \in Nat /\ "/" \in STRING /\ "dir" \in C!Kinds /\ <<>> \in Seq(STRING) /\ layer \in C!Layers
    BY Words DEF C!Kinds
  <2>2. PICK zero \in Nat, none \in Seq(STRING), slash \in STRING : zero = 0 /\ none = <<>> /\ slash = "/"
    BY <2>1
  <2>3. v = [up |-> zero, name |-> slash, kind |-> "dir", to |-> none, layer |-> layer]
    BY <1>2, <2>2
  <2> QED
    BY <2>1, <2>3 DEF NodeSet
<1>4. Fresh(d, v)
  BY <1>1, <1>3 DEF Fresh, Image
<1>5. NewNode(g, d, v)
  BY <1>1 DEF NewNode
<1> QED
  BY <1>4, <1>5

LEMMA AddBelow ==
  ASSUME NEW g, g \in Inputs, NEW d, NEW o, Image(d, o), GrewFrom(g, d), NEW layer \in C!Layers \ {"root", "output", "stage"},
         NEW up \in Hidden(g, d), d[up].layer = layer, NEW name \in STRING, C!EntryOf(d, <<"root", up>>, name) = {},
         NEW kind \in {"dir", "file"}, NEW v, v = C!Node(up, name, kind, layer)
  PROVE  Fresh(d, v) /\ NewNode(g, d, v)
<1>1. v.up = up /\ v.name = name /\ v.kind = kind /\ v.to = <<>> /\ v.layer = layer
  BY NodeIs
<1>2. v = [up |-> up, name |-> name, kind |-> kind, to |-> <<>>, layer |-> layer]
  BY DEF C!Node
<1>3. up \in 1..Len(d) /\ Len(d) \in Nat
  BY DEF Hidden, News, Image
<1>4. v \in NodeSet
  BY <1>2, <1>3 DEF NodeSet, C!Kinds
<1>5. \A m \in DOMAIN d : ~(d[m].up = v.up /\ d[m].name = v.name)
  BY <1>1 DEF C!EntryOf
<1>6. Fresh(d, v)
  BY <1>1, <1>3, <1>4, <1>5 DEF Fresh
<1>7. NewNode(g, d, v)
  <2>1. v.up # 0 /\ v.layer \notin {"root", "output"}
    BY <1>1, <1>3
  <2> QED
    BY <1>1, <2>1 DEF NewNode
<1> QED
  BY <1>6, <1>7

\* A filesystem of the runtime is mounted.
LEMMA MountStep ==
  ASSUME NEW g, NEW d, NEW o, NEW ts, NEW priv, Whole(g, d, o, ts, priv), NEW e, Grows(g, d, o, e),
         NEW more, priv \subseteq more, NEW l \in C!Views \X DOMAIN e, e[l[2]].kind = "dir", l \notin DOMAIN g.over,
         NEW m \in C!Views \X DOMAIN e, e[m[2]].kind = "dir", KeyGood(g, e, ts, more, l, m), NEW q, q = C!With(o, l, m)
  PROVE  Whole(g, e, q, ts, more)
<1>1. /\ g \in Inputs /\ Image(d, o) /\ GrewFrom(g, d) /\ Keys(g, d, o, ts, priv) /\ PinsOf(g, d, ts)
      /\ Image(e, o) /\ GrewFrom(g, e) /\ Extends(d, e) /\ DOMAIN d \subseteq DOMAIN e
      /\ Hidden(g, d) \subseteq Hidden(g, e) /\ (\A n \in DOMAIN d : n \in Hidden(g, e) => n \in Hidden(g, d))
  BY DEF Whole, Grows
<1>2. Image(e, q)
  BY <1>1, Mounts
<1>3. Keys(g, e, o, ts, more)
  BY <1>1, KeysStay
<1>4. Keys(g, e, q, ts, more)
  BY <1>3, KeysMore
<1>5. PinsOf(g, e, ts)
  BY <1>1, PinsStay
<1> QED
  BY <1>1, <1>2, <1>4, <1>5 DEF Whole

\* A target is a place of the image.
LEMMA TargetIs ==
  ASSUME NEW g, NEW d, NEW o, NEW ts, NEW priv, Whole(g, d, o, ts, priv), NEW view \in Use(g), NEW name \in Names3, <<view, name>> \in DOMAIN ts
  PROVE  LET t == ts[<<view, name>>]
         IN  /\ t \in C!Views \X DOMAIN d /\ t[1] = view /\ t[2] \in DOMAIN d /\ d[t[2]].kind = "dir" /\ t[2] \notin Hidden(g, d)
             /\ t # C!TopOf(view) => t \notin DOMAIN g.over
             /\ PinnedAt(g, d, view, name, t)
<1>1. PICK x : x = <<view, name>>
  OBVIOUS
<1>2. x[1] = view /\ x[2] = name /\ x \in DOMAIN ts
  BY <1>1
<1>3. PinnedAt(g, d, view, name, ts[x])
  BY <1>2 DEF Whole, PinsOf
<1> QED
  BY <1>1, <1>3 DEF PinnedAt

\* RuntimeFilesystem::attach
Attaching(d, view, name, new) ==
  new = <<C!Node(0, "/", "dir", name)>> \o
         (IF name = "dev" THEN <<C!Node(Len(d) + 1, "pts", "dir", "dev"), C!Node(Len(d) + 1, "shm", "dir", "dev")>> ELSE <<>>)
LEMMA Append3 ==
  ASSUME NEW S, NEW d \in Seq(S), NEW a \in S, NEW b \in S, NEW c \in S
  PROVE  d \o <<a>> = Append(d, a) /\ d \o (<<a>> \o <<b, c>>) = Append(Append(Append(d, a), b), c)
<1>1. d \o <<a>> = Append(d, a)
  OBVIOUS
<1>2. <<a>> \o <<b, c>> = <<a, b, c>>
  <2>1. <<a>> \in Seq(S) /\ <<b, c>> \in Seq(S) /\ <<a, b, c>> \in Seq(S)
    OBVIOUS
  <2>2. <<a>> \o <<b, c>> \in Seq(S) /\ Len(<<a>> \o <<b, c>>) = 3
    BY <2>1
  <2>3. \A i \in 1..3 : (<<a>> \o <<b, c>>)[i] = <<a, b, c>>[i]
    BY <2>1
  <2>4. PICK p \in Seq(S), q \in Seq(S) : p = <<a>> \o <<b, c>> /\ q = <<a, b, c>>
    BY <2>1, <2>2
  <2>5. Len(p) = 3 /\ Len(q) = 3 /\ \A i \in 1..3 : p[i] = q[i]
    BY <2>2, <2>3, <2>4
  <2>6. p = q
    BY <2>5
  <2> QED
    BY <2>4, <2>6
<1>3. d \o <<a, b, c>> = Append(Append(Append(d, a), b), c)
  <2>1. PICK p \in Seq(S) : p = d \o <<a, b, c>>
    <3>1. <<a, b, c>> \in Seq(S)
      OBVIOUS
    <3>2. d \o <<a, b, c>> \in Seq(S)
      BY <3>1
    <3> QED
      BY <3>2
  <2>2. PICK q \in Seq(S) : q = Append(Append(Append(d, a), b), c)
    <3>1. Append(Append(Append(d, a), b), c) \in Seq(S)
      OBVIOUS
    <3> QED
      BY <3>1
  <2>3. Len(p) = Len(d) + 3 /\ Len(q) = Len(d) + 3 /\ Len(d) \in Nat
    BY <2>1, <2>2
  <2>4. \A i \in 1..(Len(d) + 3) : p[i] = q[i]
    BY <2>1, <2>2, <2>3
  <2> QED
    BY <2>1, <2>2, <2>3, <2>4
<1> QED
  BY <1>1, <1>2, <1>3

NewMount(g, d, name, e) ==
  /\ Len(d) \in Nat /\ Len(d) + 1 \in Hidden(g, e) /\ Len(d) + 1 \in DOMAIN e /\ e[Len(d) + 1] = C!Node(0, "/", "dir", name)
  /\ \A n \in DOMAIN e : (n \in DOMAIN d /\ e[n] = d[n]) \/ (n \in Hidden(g, e) /\ e[n].layer = name /\ e[n].name \notin {"sh", "cat"})
LEMMA AttachNodes ==
  ASSUME NEW g, g \in Inputs, NEW d, NEW o, Image(d, o), GrewFrom(g, d), NEW view, NEW name \in Names3, NEW new, Attaching(d, view, name, new),
         NEW e, e = d \o new
  PROVE  /\ Grows(g, d, o, e) /\ NewMount(g, d, name, e)
         /\ name = "dev" /\ (\A n \in DOMAIN d : d[n].layer # "dev") => DevIs(e, Len(d) + 1)
<1>1. d \in Seq(NodeSet) /\ Len(d) \in Nat /\ DOMAIN d = 1..Len(d)
  BY DEF GrewFrom, Image
<1>2. PICK a : a = C!Node(0, "/", "dir", name)
  OBVIOUS
<1>3. a.up = 0 /\ a.name = "/" /\ a.kind = "dir" /\ a.layer = name
  BY <1>2, NodeIs
<1>4. name \in C!Layers \ {"root", "output", "stage"}
  BY DEF Names3, C!Layers
<1>5. Fresh(d, a) /\ NewNode(g, d, a)
  BY <1>2, <1>4, AddTop
<1>6. PICK d1 : d1 = Append(d, a)
  OBVIOUS
<1> DEFINE top == Len(d) + 1
<1>7. /\ Image(d1, o) /\ GrewFrom(g, d1) /\ Extends(d, d1) /\ Len(d1) = Len(d) + 1
      /\ DOMAIN d1 = DOMAIN d \cup {top} /\ d1[top] = a /\ top \notin DOMAIN d /\ (\A n \in DOMAIN d : d1[n] = d[n])
      /\ top \in News(g, d1)
      /\ Hidden(g, d) \subseteq Hidden(g, d1) /\ (\A n \in DOMAIN d : n \in Hidden(g, d1) => n \in Hidden(g, d))
  <2>1. Added(g, d, o, a, d1)
    BY <1>5, <1>6, AddNode
  <2> QED
    BY <2>1 DEF Added
<1>8. top \in Hidden(g, d1)
  BY <1>3, <1>4, <1>7 DEF Hidden
<1>9. CASE name # "dev"
  <2>1. e = d1
    <3>1. new = <<a>>
      BY <1>2, <1>9 DEF Attaching
    <3>2. a \in NodeSet
      BY <1>5 DEF Fresh
    <3> QED
      BY <1>1, <1>6, <3>1, <3>2, Append3
  <2>2. \A n \in DOMAIN e : (n \in DOMAIN d /\ e[n] = d[n]) \/ (n \in Hidden(g, e) /\ e[n].layer = name /\ e[n].name \notin {"sh", "cat"})
    BY <1>3, <1>7, <1>8, <2>1
  <2>3. Grows(g, d, o, e)
    BY <1>7, <2>1 DEF Grows
  <2>4. NewMount(g, d, name, e)
    BY <1>1, <1>2, <1>7, <1>8, <2>1, <2>2 DEF NewMount
  <2> QED
    BY <1>9, <2>3, <2>4
<1>10. CASE name = "dev"
  <2>1. PICK b, c : b = C!Node(top, "pts", "dir", "dev") /\ c = C!Node(top, "shm", "dir", "dev")
    OBVIOUS
  <2>2. b.up = top /\ b.name = "pts" /\ b.kind = "dir" /\ b.layer = "dev" /\ c.up = top /\ c.name = "shm" /\ c.kind = "dir" /\ c.layer = "dev"
    BY <2>1, NodeIs
  <2>3. PICK d2, d3 : d2 = Append(d1, b) /\ d3 = Append(d2, c)
    OBVIOUS
  <2>4. \A n \in DOMAIN d1 : d1[n].up # top
    <3>1. \A n \in DOMAIN d : d[n].up \in 0..(n - 1)
      BY DEF Image, C!TreeOf
    <3> QED
      BY <1>1, <1>3, <1>7, <3>1
  <2>5. Fresh(d1, b) /\ NewNode(g, d1, b)
    <3>1. C!EntryOf(d1, <<"root", top>>, "pts") = {}
      BY <2>4 DEF C!EntryOf
    <3>2. d1[top].layer = "dev" /\ "dev" \in C!Layers \ {"root", "output", "stage"} /\ "pts" \in STRING
      BY <1>3, <1>7, <1>10, Words DEF C!Layers
    <3> HIDE DEF top
    <3> QED
      BY <1>7, <1>8, <2>1, <3>1, <3>2, AddBelow
  <2>6. /\ Image(d2, o) /\ GrewFrom(g, d2) /\ Extends(d1, d2) /\ Len(d2) = Len(d1) + 1
        /\ DOMAIN d2 = DOMAIN d1 \cup {Len(d1) + 1} /\ d2[Len(d1) + 1] = b /\ (\A n \in DOMAIN d1 : d2[n] = d1[n])
        /\ Len(d1) + 1 \notin DOMAIN d1 /\ Len(d1) + 1 \in News(g, d2)
        /\ Hidden(g, d1) \subseteq Hidden(g, d2) /\ (\A n \in DOMAIN d1 : n \in Hidden(g, d2) => n \in Hidden(g, d1))
    <3>1. Added(g, d1, o, b, d2)
      BY <1>7, <2>3, <2>5, AddNode
    <3> QED
      BY <3>1 DEF Added
  <2>7. Fresh(d2, c) /\ NewNode(g, d2, c)
    <3>1. C!EntryOf(d2, <<"root", top>>, "shm") = {}
      BY <2>2, <2>4, <2>6 DEF C!EntryOf
    <3>2. d2[top].layer = "dev" /\ "dev" \in C!Layers \ {"root", "output", "stage"} /\ "shm" \in STRING /\ top \in Hidden(g, d2)
      BY <1>3, <1>7, <1>8, <1>10, <2>6, Words DEF C!Layers
    <3> HIDE DEF top
    <3> QED
      BY <2>6, <2>1, <3>1, <3>2, AddBelow
  <2>8. /\ Image(d3, o) /\ GrewFrom(g, d3) /\ Extends(d2, d3) /\ Len(d3) = Len(d2) + 1
        /\ DOMAIN d3 = DOMAIN d2 \cup {Len(d2) + 1} /\ d3[Len(d2) + 1] = c /\ (\A n \in DOMAIN d2 : d3[n] = d2[n])
        /\ Len(d2) + 1 \notin DOMAIN d2 /\ Len(d2) + 1 \in News(g, d3)
        /\ Hidden(g, d2) \subseteq Hidden(g, d3) /\ (\A n \in DOMAIN d2 : n \in Hidden(g, d3) => n \in Hidden(g, d2))
    <3>1. Added(g, d2, o, c, d3)
      BY <2>6, <2>3, <2>7, AddNode
    <3> QED
      BY <3>1 DEF Added
  <2>9. e = d3
    <3>1. new = <<a>> \o <<b, c>>
      BY <1>2, <1>10, <2>1 DEF Attaching
    <3>2. a \in NodeSet /\ b \in NodeSet /\ c \in NodeSet
      BY <1>5, <2>5, <2>7 DEF Fresh
    <3> QED
      BY <1>1, <1>6, <2>3, <3>1, <3>2, Append3
  <2>10. Len(d1) + 1 = top + 1 /\ Len(d2) + 1 = top + 2 /\ top \in Nat
    BY <1>1, <1>7, <2>6
  <2>11. DOMAIN d3 = DOMAIN d \cup {top, top + 1, top + 2} /\ d3[top] = a /\ d3[top + 1] = b /\ d3[top + 2] = c /\ \A n \in DOMAIN d : d3[n] = d[n]
    BY <1>7, <2>6, <2>8, <2>10
  <2>12. {top, top + 1, top + 2} \subseteq Hidden(g, d3)
    <3>1. top \in Hidden(g, d3)
      BY <1>8, <2>6, <2>8
    <3>2. top + 1 \in Hidden(g, d2)
      BY <2>2, <2>6, <2>10 DEF Hidden
    <3>3. top + 2 \in Hidden(g, d3)
      BY <2>2, <2>8, <2>10 DEF Hidden
    <3> QED
      BY <2>8, <3>1, <3>2, <3>3
  <2>13. \A n \in DOMAIN d : n \in Hidden(g, d3) => n \in Hidden(g, d)
    BY <1>7, <2>6, <2>8
  <2>14. Extends(d, d3)
    BY <1>1, <1>7, <2>6, <2>8, <2>11 DEF Extends
  <2>15. \A n \in DOMAIN d3 : (n \in DOMAIN d /\ d3[n] = d[n]) \/ (n \in Hidden(g, d3) /\ d3[n].layer = name /\ d3[n].name \notin {"sh", "cat"})
    BY <1>3, <1>10, <2>2, <2>11, <2>12
  <2>16. ASSUME \A n \in DOMAIN d : d[n].layer # "dev" PROVE DevIs(d3, top)
    <3>1. {n \in DOMAIN d3 : d3[n].layer = "dev"} = {top, top + 1, top + 2}
      BY <1>3, <1>10, <2>2, <2>11, <2>16
    <3> QED
      BY <1>2, <1>10, <2>1, <2>11, <3>1 DEF DevIs
  <2>17. Grows(g, d, o, e)
    BY <1>7, <2>6, <2>8, <2>9, <2>11, <2>13, <2>14 DEF Grows
  <2>18. NewMount(g, d, name, e)
    BY <1>1, <1>2, <2>9, <2>11, <2>12, <2>15 DEF NewMount
  <2> QED
    BY <2>9, <2>16, <2>17, <2>18
<1> QED
  BY <1>9, <1>10

-----------------------------------------------------------------------------
(* Progress *)

\* What the steps before the r-th have done.
HasReached(g, d, o, ts, r) ==
  /\ \A view \in Use(g), name \in Names3 : Rank(<<"directory", view, name>>) < r => <<view, name>> \in DOMAIN ts
  /\ \A view \in Use(g) : Rank(<<"check", view, "targets">>) < r => Checked(ts, view)
  /\ \A view \in Use(g), name \in {"proc", "sys"} : Rank(<<"attach", view, name>>) < r => Attached(d, o, ts, view, name)
  /\ 25 < r => RootDev(d, o, ts)
  /\ \A x \in {"pts", "shm"} : Rank(<<"below", "root", x>>) < r => BelowIs(d, o, "root", x)
  /\ g.bootstrap /\ 28 < r => Cloned(d, o, ts)

LEMMA ReachedIs ==
  ASSUME NEW g, NEW d, NEW o, NEW ts, NEW S, NEW p, Spans(p, 0, 34, S), NEW h, First(p, h), Progress(g, d, o, ts, p)
  PROVE  HasReached(g, d, o, ts, Rank(h))
<1> DEFINE r == Rank(h)
<1>1. ASSUME NEW view \in Use(g), NEW name \in Names3, Rank(<<"directory", view, name>>) < r PROVE <<view, name>> \in DOMAIN ts
  <2> DEFINE A == <<view, name>> \in DOMAIN ts
  <2>1. Prog(p, <<"directory", view, name>>, A)
    BY DEF Progress
  <2> HIDE DEF A
  <2>2. A
    BY <1>1, <2>1, Past
  <2> QED
    BY <2>2 DEF A
<1>2. ASSUME NEW view \in Use(g), Rank(<<"check", view, "targets">>) < r PROVE Checked(ts, view)
  <2>1. Prog(p, <<"check", view, "targets">>, Checked(ts, view))
    BY DEF Progress
  <2> QED
    BY <1>2, <2>1, Past
<1>3. ASSUME NEW view \in Use(g), NEW name \in {"proc", "sys"}, Rank(<<"attach", view, name>>) < r PROVE Attached(d, o, ts, view, name)
  <2>1. Prog(p, <<"attach", view, name>>, Attached(d, o, ts, view, name))
    BY DEF Progress
  <2> QED
    BY <1>3, <2>1, Past
<1>4. ASSUME 25 < r PROVE RootDev(d, o, ts)
  <2>1. Prog(p, <<"attach", "root", "dev">>, RootDev(d, o, ts)) /\ Rank(<<"attach", "root", "dev">>) = 25
    BY DEF Progress, Rank
  <2> QED
    BY <1>4, <2>1, Past
<1>5. ASSUME NEW x \in {"pts", "shm"}, Rank(<<"below", "root", x>>) < r PROVE BelowIs(d, o, "root", x)
  <2>1. Prog(p, <<"below", "root", x>>, BelowIs(d, o, "root", x))
    BY DEF Progress
  <2> QED
    BY <1>5, <2>1, Past
<1>6. ASSUME g.bootstrap, 28 < r PROVE Cloned(d, o, ts)
  <2>1. Prog(p, <<"clone", "output", "dev">>, Cloned(d, o, ts)) /\ Rank(<<"clone", "output", "dev">>) = 28
    BY <1>6 DEF Progress, Rank
  <2> QED
    BY <1>6, <2>1, Past
<1> QED
  BY <1>1, <1>2, <1>3, <1>4, <1>5, <1>6 DEF HasReached

LEMMA ProgOn ==
  ASSUME NEW S, NEW p, Spans(p, 0, 34, S), NEW h, First(p, h), NEW op, Rank(op) # 31, NEW A, Prog(p, op, A),
         NEW B, Rank(op) < Rank(h) + 1 => B
  PROVE  Prog(Tail(p), op, B)
<1>1. Rank(op) \in 0..33 /\ Rank(h) \in 0..33
  BY RankIs
<1>2. op = h => B
  BY <1>1
<1>3. A /\ Rank(op) < Rank(h) => B
  BY <1>1
<1> QED
  BY <1>2, <1>3, ProgStep

LEMMA ProgressStep ==
  ASSUME NEW g, NEW d, NEW o, NEW ts, NEW S, NEW p, Spans(p, 0, 34, S), NEW h, First(p, h), Progress(g, d, o, ts, p),
         NEW e, NEW q, NEW us, HasReached(g, e, q, us, Rank(h) + 1)
  PROVE  Progress(g, e, q, us, Tail(p))
<1>1. ASSUME NEW view \in Use(g), NEW name \in Names3 PROVE Prog(Tail(p), <<"directory", view, name>>, <<view, name>> \in DOMAIN us)
  <2>1. Prog(p, <<"directory", view, name>>, <<view, name>> \in DOMAIN ts) /\ Rank(<<"directory", view, name>>) # 31
    BY DEF Progress, Rank
  <2>2. Rank(<<"directory", view, name>>) < Rank(h) + 1 => <<view, name>> \in DOMAIN us
    BY DEF HasReached
  <2> QED
    BY <2>1, <2>2, ProgOn
<1>2. ASSUME NEW view \in Use(g) PROVE Prog(Tail(p), <<"check", view, "targets">>, Checked(us, view))
  <2>1. Prog(p, <<"check", view, "targets">>, Checked(ts, view)) /\ Rank(<<"check", view, "targets">>) # 31
    BY DEF Progress, Rank
  <2>2. Rank(<<"check", view, "targets">>) < Rank(h) + 1 => Checked(us, view)
    BY DEF HasReached
  <2> QED
    BY <2>1, <2>2, ProgOn
<1>3. ASSUME NEW view \in Use(g), NEW name \in {"proc", "sys"} PROVE Prog(Tail(p), <<"attach", view, name>>, Attached(e, q, us, view, name))
  <2>1. Prog(p, <<"attach", view, name>>, Attached(d, o, ts, view, name)) /\ Rank(<<"attach", view, name>>) # 31
    <3>1. Prog(p, <<"attach", view, name>>, Attached(d, o, ts, view, name))
      BY DEF Progress
    <3>2. Rank(<<"attach", view, name>>) # 31
      BY DEF Rank
    <3> QED
      BY <3>1, <3>2
  <2>2. Rank(<<"attach", view, name>>) < Rank(h) + 1 => Attached(e, q, us, view, name)
    BY DEF HasReached
  <2> QED
    BY <2>1, <2>2, ProgOn
<1>4. Prog(Tail(p), <<"attach", "root", "dev">>, RootDev(e, q, us))
  <2>1. Prog(p, <<"attach", "root", "dev">>, RootDev(d, o, ts)) /\ Rank(<<"attach", "root", "dev">>) = 25
    BY DEF Progress, Rank
  <2>2. Rank(<<"attach", "root", "dev">>) < Rank(h) + 1 => RootDev(e, q, us)
    BY <2>1 DEF HasReached
  <2> QED
    BY <2>1, <2>2, ProgOn
<1>5. ASSUME NEW x \in {"pts", "shm"} PROVE Prog(Tail(p), <<"below", "root", x>>, BelowIs(e, q, "root", x))
  <2>1. Prog(p, <<"below", "root", x>>, BelowIs(d, o, "root", x)) /\ Rank(<<"below", "root", x>>) # 31
    BY DEF Progress, Rank
  <2>2. Rank(<<"below", "root", x>>) < Rank(h) + 1 => BelowIs(e, q, "root", x)
    BY DEF HasReached
  <2> QED
    BY <2>1, <2>2, ProgOn
<1>6. ASSUME g.bootstrap PROVE Prog(Tail(p), <<"clone", "output", "dev">>, Cloned(e, q, us))
  <2>1. Prog(p, <<"clone", "output", "dev">>, Cloned(d, o, ts)) /\ Rank(<<"clone", "output", "dev">>) = 28
    BY <1>6 DEF Progress, Rank
  <2>2. Rank(<<"clone", "output", "dev">>) < Rank(h) + 1 => Cloned(e, q, us)
    BY <1>6, <2>1 DEF HasReached
  <2> QED
    BY <2>1, <2>2, ProgOn
<1> QED
  BY <1>1, <1>2, <1>3, <1>4, <1>5, <1>6 DEF Progress

\* What was done stays done, when nodes are added and something is mounted at the places K.
Kept(d, o, ts, e, q, us, K) ==
  /\ DOMAIN ts \subseteq DOMAIN us /\ \A x \in DOMAIN ts : us[x] = ts[x]
  /\ Image(d, o) /\ Extends(d, e) /\ DOMAIN d \subseteq DOMAIN e
  /\ DOMAIN o \subseteq DOMAIN q /\ \A l \in DOMAIN o \ K : q[l] = o[l]
DevSame(d, e) == \A n \in DOMAIN e : e[n].layer = "dev" => n \in DOMAIN d
Apart3(g, d, ts, e, K, r) ==
  /\ \A view \in Use(g), name \in {"proc", "sys"} : Rank(<<"attach", view, name>>) < r => ts[<<view, name>>] \notin K
  /\ 25 < r => ts[<<"root", "dev">>] \notin K /\ DevSame(d, e)
  /\ \A x \in {"pts", "shm"}, n \in DOMAIN d : Rank(<<"below", "root", x>>) < r /\ d[n].layer = "dev" /\ d[n].name = x => <<"root", n>> \notin K
  /\ 28 < r => K = {}

LEMMA ReachedStays ==
  ASSUME NEW g, NEW d, NEW o, NEW ts, NEW r \in Nat, HasReached(g, d, o, ts, r), NEW e, NEW q, NEW us, NEW K, Kept(d, o, ts, e, q, us, K),
         Apart3(g, d, ts, e, K, r)
  PROVE  HasReached(g, e, q, us, r)
<1>1. ASSUME NEW view \in Use(g), NEW name \in Names3, r > 13 PROVE <<view, name>> \in DOMAIN ts /\ us[<<view, name>>] = ts[<<view, name>>]
  <2>1. Rank(<<"directory", view, name>>) < r
    BY <1>1 DEF Rank, Names3
  <2> QED
    BY <2>1 DEF HasReached, Kept
<1>2. ASSUME NEW view \in Use(g), NEW name \in Names3, r > 13, Attached(d, o, ts, view, name), ts[<<view, name>>] \notin K
      PROVE  Attached(e, q, us, view, name)
  <2>1. ts[<<view, name>>] = us[<<view, name>>]
    BY <1>1, <1>2
  <2>2. PICK l : l = ts[<<view, name>>]
    OBVIOUS
  <2>3. l \in DOMAIN o /\ d[o[l][2]].layer = name
    BY <1>2, <2>2 DEF Attached
  <2>4. q[l] = o[l] /\ l \in DOMAIN q
    BY <1>2, <2>2, <2>3 DEF Kept
  <2>5. e[o[l][2]] = d[o[l][2]]
    BY <2>3 DEF Kept, Image, Extends
  <2> QED
    BY <2>1, <2>2, <2>3, <2>4, <2>5 DEF Attached
<1>3. ASSUME DevSame(d, e) PROVE \A n \in DOMAIN e : e[n].layer = "dev" => n \in DOMAIN d /\ e[n] = d[n]
  BY <1>3 DEF DevSame, Kept, Extends
<1>4. ASSUME NEW view, NEW x, BelowIs(d, o, view, x), DevSame(d, e),
             \A n \in DOMAIN d : d[n].layer = "dev" /\ d[n].name = x => <<view, n>> \notin K
      PROVE  BelowIs(e, q, view, x)
  <2>1. ASSUME NEW n \in DOMAIN e, e[n].layer = "dev", e[n].name = x PROVE <<view, n>> \in DOMAIN q /\ e[q[<<view, n>>][2]].layer = x
    <3>1. n \in DOMAIN d /\ e[n] = d[n]
      BY <1>3, <1>4, <2>1
    <3>2. PICK l : l = <<view, n>>
      OBVIOUS
    <3>3. l \in DOMAIN o /\ d[o[l][2]].layer = x /\ l \notin K
      BY <1>4, <2>1, <3>1, <3>2 DEF BelowIs
    <3>4. l \in DOMAIN q /\ q[l] = o[l]
      BY <3>3 DEF Kept
    <3>5. e[o[l][2]] = d[o[l][2]]
      BY <3>3 DEF Kept, Image, Extends
    <3> QED
      BY <3>2, <3>3, <3>4, <3>5
  <2> QED
    BY <2>1 DEF BelowIs
<1>5. \A view \in Use(g), name \in Names3 : Rank(<<"directory", view, name>>) < r => <<view, name>> \in DOMAIN us
  BY DEF HasReached, Kept
<1>6. ASSUME NEW view \in Use(g), Rank(<<"check", view, "targets">>) < r PROVE Checked(us, view)
  <2>1. Checked(ts, view)
    BY <1>6 DEF HasReached
  <2>2. \A i \in Names3 : <<view, i>> \in DOMAIN ts /\ us[<<view, i>>] = ts[<<view, i>>] /\ <<view, i>> \in DOMAIN us
    BY <2>1 DEF Checked, Kept
  <2> QED
    BY <2>1, <2>2 DEF Checked
<1>7. ASSUME NEW view \in Use(g), NEW name \in {"proc", "sys"}, Rank(<<"attach", view, name>>) < r PROVE Attached(e, q, us, view, name)
  <2>1. r > 13 /\ name \in Names3
    BY <1>7 DEF Rank, Names3
  <2>2. Attached(d, o, ts, view, name) /\ ts[<<view, name>>] \notin K
    BY <1>7 DEF HasReached, Apart3
  <2> QED
    BY <1>2, <2>1, <2>2
<1>8. ASSUME 25 < r PROVE RootDev(e, q, us)
  <2>1. RootDev(d, o, ts) /\ ts[<<"root", "dev">>] \notin K /\ DevSame(d, e)
    BY <1>8 DEF HasReached, Apart3
  <2>2. us[<<"root", "dev">>] = ts[<<"root", "dev">>]
    <3>1. "root" \in Use(g) /\ "dev" \in Names3
      BY DEF Use, C!Views, Names3
    <3> QED
      BY <1>1, <1>8, <3>1
  <2>3. PICK top \in Nat, l \in DOMAIN o : l = ts[<<"root", "dev">>] /\ DevIs(d, top) /\ o[l] = <<"root", top>>
    <3>1. PICK l : l = ts[<<"root", "dev">>]
      OBVIOUS
    <3> QED
      BY <2>1, <3>1 DEF RootDev
  <2>4. q[l] = o[l] /\ l \in DOMAIN q
    BY <2>1, <2>3 DEF Kept
  <2>5. DevIs(e, top)
    <3>1. {n \in DOMAIN d : d[n].layer = "dev"} = {top, top + 1, top + 2}
      BY <2>3 DEF DevIs
    <3>2. {n \in DOMAIN e : e[n].layer = "dev"} = {n \in DOMAIN d : d[n].layer = "dev"}
      BY <1>3, <2>1 DEF Kept, Extends
    <3>3. e[top] = d[top] /\ e[top + 1] = d[top + 1] /\ e[top + 2] = d[top + 2]
      BY <3>1 DEF Kept, Extends
    <3> QED
      BY <2>3, <3>1, <3>2, <3>3 DEF DevIs
  <2> QED
    BY <2>2, <2>3, <2>4, <2>5 DEF RootDev
<1>9. ASSUME NEW x \in {"pts", "shm"}, Rank(<<"below", "root", x>>) < r PROVE BelowIs(e, q, "root", x)
  <2>1. 25 < r
    BY <1>9 DEF Rank
  <2>2. BelowIs(d, o, "root", x) /\ DevSame(d, e) /\ \A n \in DOMAIN d : d[n].layer = "dev" /\ d[n].name = x => <<"root", n>> \notin K
    BY <1>9, <2>1 DEF HasReached, Apart3
  <2> QED
    BY <1>4, <2>2
<1>10. ASSUME g.bootstrap, 28 < r PROVE Cloned(e, q, us)
  <2>1. Cloned(d, o, ts) /\ DevSame(d, e) /\ K = {}
    BY <1>10 DEF HasReached, Apart3
  <2>2. "output" \in Use(g) /\ "dev" \in Names3
    BY <1>10 DEF Use, C!Views, Names3
  <2>3. Attached(e, q, us, "output", "dev")
    BY <1>2, <1>10, <2>1, <2>2 DEF Cloned
  <2>4. BelowIs(e, q, "output", "pts") /\ BelowIs(e, q, "output", "shm")
    BY <1>4, <2>1 DEF Cloned
  <2> QED
    BY <2>3, <2>4 DEF Cloned
<1> QED
  BY <1>5, <1>6, <1>7, <1>8, <1>9, <1>10 DEF HasReached

LEMMA CheckedIs ==
  ASSUME NEW g, NEW d, NEW o, NEW ts, NEW r \in Nat, r > 14, HasReached(g, d, o, ts, r), NEW view \in Use(g)
  PROVE  Checked(ts, view) /\ \A name \in Names3 : <<view, name>> \in DOMAIN ts
<1>1. Rank(<<"check", view, "targets">>) < r
  BY DEF Rank
<1>2. Checked(ts, view)
  BY <1>1 DEF HasReached
<1> QED
  BY <1>2 DEF Checked

\* Two targets that were checked are not the same.
LEMMA OtherTarget ==
  ASSUME NEW g, NEW d, NEW o, NEW ts, NEW priv, Whole(g, d, o, ts, priv), NEW r \in Nat, r > 14, HasReached(g, d, o, ts, r),
         NEW view \in Use(g), NEW name \in Names3, NEW view2 \in Use(g), NEW name2 \in Names3, view # view2 \/ name # name2
  PROVE  ts[<<view, name>>] # ts[<<view2, name2>>]
<1>1. <<view, name>> \in DOMAIN ts /\ <<view2, name2>> \in DOMAIN ts
  BY CheckedIs
<1>2. ts[<<view, name>>][1] = view /\ ts[<<view2, name2>>][1] = view2
  BY <1>1, TargetIs
<1>3. CASE view # view2
  BY <1>2, <1>3
<1>4. CASE view = view2
  BY <1>4, CheckedIs DEF Checked
<1> QED
  BY <1>3, <1>4

NoDev(d) == \A n \in DOMAIN d : d[n].layer # "dev"
Attachment(d, o, ts, view, name, new, e, q) ==
  /\ Attaching(d, view, name, new) /\ e = d \o new /\ q = C!With(o, ts[<<view, name>>], <<view, Len(d) + 1>>)
  /\ name = "dev" => view = "root" /\ NoDev(d)
AttachMade(g, d, e, q, ts, priv, r, name) ==
  Whole(g, e, q, ts, priv) /\ HasReached(g, e, q, ts, r + 1) /\ NoShell(g, e) /\ (name # "dev" /\ NoDev(d) => NoDev(e))
LEMMA AttachStep ==
  ASSUME NEW g, NEW d, NEW o, NEW ts, NEW priv, Whole(g, d, o, ts, priv), NEW view \in Use(g), NEW name \in Names3,
         NEW r \in Nat, r = Rank(<<"attach", view, name>>), HasReached(g, d, o, ts, r), NoShell(g, d),
         NEW new, NEW e, NEW q, Attachment(d, o, ts, view, name, new, e, q)
  PROVE  AttachMade(g, d, e, q, ts, priv, r, name)
<1> USE DEF NoDev
<1>u. /\ Attaching(d, view, name, new) /\ e = d \o new /\ q = C!With(o, ts[<<view, name>>], <<view, Len(d) + 1>>)
      /\ name = "dev" => view = "root" /\ NoDev(d)
  BY DEF Attachment
<1> USE <1>u
<1>0. g \in Inputs /\ Image(d, o) /\ GrewFrom(g, d)
  BY DEF Whole
<1>1. view \in C!Views /\ view \in {"root", "output"} /\ name \in {"dev", "proc", "sys"}
  BY DEF Use, C!Views, Names3
<1>2. r \in 21..25 /\ (r = 25 <=> name = "dev")
  BY <1>1 DEF Rank
<1>3. PICK t : t = ts[<<view, name>>]
  OBVIOUS
<1>4. Checked(ts, view) /\ <<view, name>> \in DOMAIN ts
  BY <1>2, CheckedIs
<1>5. t \in C!Views \X DOMAIN d /\ t[1] = view /\ t[2] \in DOMAIN d /\ d[t[2]].kind = "dir" /\ t \notin DOMAIN g.over
  <2>1. t # C!TopOf(view)
    BY <1>3, <1>4 DEF Checked
  <2> QED
    BY <1>3, <1>4, <2>1, TargetIs
<1>6. /\ Grows(g, d, o, e) /\ NewMount(g, d, name, e)
      /\ name = "dev" /\ (\A n \in DOMAIN d : d[n].layer # "dev") => DevIs(e, Len(d) + 1)
  BY <1>0, AttachNodes
<1>7. PICK top : top = Len(d) + 1
  OBVIOUS
<1>8. top \in Hidden(g, e) /\ top \in DOMAIN e /\ e[top].up = 0 /\ e[top].kind = "dir" /\ e[top].layer = name /\ top \in Nat
  BY <1>6, <1>7, NodeIs DEF NewMount
<1>9. PICK m : m = <<view, top>>
  OBVIOUS
<1>10. m \in C!Views \X DOMAIN e /\ m[1] = view /\ m[2] = top
  BY <1>1, <1>8, <1>9
<1>11. e[t[2]] = d[t[2]] /\ t \in C!Views \X DOMAIN e /\ DOMAIN d \subseteq DOMAIN e
  BY <1>5, <1>6 DEF Extends, Grows
<1>12. KeyGood(g, e, ts, priv, t, m)
  BY <1>3, <1>4, <1>5, <1>8, <1>10 DEF KeyGood
<1>13. q = C!With(o, t, m)
  BY <1>3, <1>7, <1>9
<1>14. Whole(g, e, q, ts, priv)
  BY <1>5, <1>6, <1>8, <1>10, <1>11, <1>12, <1>13, MountStep
<1>15. DOMAIN q = DOMAIN o \cup {t} /\ q[t] = m /\ \A l \in DOMAIN o : l # t => q[l] = o[l]
  BY <1>13 DEF C!With
<1>16. HasReached(g, e, q, ts, r)
  <2>1. Kept(d, o, ts, e, q, ts, {t})
    BY <1>0, <1>6, <1>15 DEF Kept, Grows
  <2>2. ASSUME NEW view2 \in Use(g), NEW name2 \in {"proc", "sys"}, Rank(<<"attach", view2, name2>>) < r PROVE ts[<<view2, name2>>] # t
    <3>1. name2 \in Names3
      BY DEF Names3
    <3>2. view # view2 \/ name # name2
      <4>1. CASE view = view2 /\ name = name2
        BY <1>2, <2>2, <4>1
      <4> QED
        BY <4>1
    <3>3. r > 14
      BY <1>2
    <3>4. ts[<<view, name>>] # ts[<<view2, name2>>]
      BY <3>1, <3>2, <3>3, OtherTarget
    <3> QED
      BY <1>3, <3>4
  <2>3. \A x \in {"pts", "shm"} : ~(Rank(<<"below", "root", x>>) < r)
    BY <1>2 DEF Rank
  <2>4. ~(25 < r) /\ ~(28 < r)
    BY <1>2
  <2> DEFINE K == {t}
  <2>5. \A view2 \in Use(g), name2 \in {"proc", "sys"} : Rank(<<"attach", view2, name2>>) < r => ts[<<view2, name2>>] \notin K
    BY <2>2
  <2> HIDE DEF K
  <2>6. Apart3(g, d, ts, e, K, r)
    BY <2>3, <2>4, <2>5 DEF Apart3
  <2> QED
    BY <2>1, <2>6, ReachedStays DEF K
<1>17. Attached(e, q, ts, view, name)
  BY <1>3, <1>8, <1>10, <1>15 DEF Attached
<1>18. HasReached(g, e, q, ts, r + 1)
  <2>1. \A view2 \in Use(g), name2 \in Names3 : Rank(<<"directory", view2, name2>>) < r
    BY <1>2 DEF Rank, Names3
  <2>2. \A view2 \in Use(g) : Rank(<<"check", view2, "targets">>) < r
    BY <1>2 DEF Rank
  <2>3. ASSUME NEW view2 \in Use(g), NEW name2 \in {"proc", "sys"}, Rank(<<"attach", view2, name2>>) < r + 1
        PROVE  Attached(e, q, ts, view2, name2)
    <3>0. view2 \in {"root", "output"} /\ Rank(<<"attach", view2, name2>>) \in Nat
      BY DEF Use, C!Views, Rank
    <3>1. CASE Rank(<<"attach", view2, name2>>) < r
      BY <1>16, <3>1 DEF HasReached
    <3>2. CASE Rank(<<"attach", view2, name2>>) = r
      <4>1. view2 = view /\ name2 = name
        BY <1>1, <3>0, <3>2 DEF Rank
      <4> QED
        BY <1>17, <4>1
    <3> QED
      BY <2>3, <3>0, <3>1, <3>2
  <2>4. ASSUME 25 < r + 1 PROVE RootDev(e, q, ts)
    <3>1. name = "dev" /\ view = "root"
      BY <1>2, <2>4
    <3>2. DevIs(e, top) /\ top \in Nat
      BY <1>6, <1>7, <1>8, <3>1
    <3> QED
      BY <1>3, <1>9, <1>15, <3>1, <3>2 DEF RootDev
  <2>5. \A x \in {"pts", "shm"} : ~(Rank(<<"below", "root", x>>) < r + 1)
    BY <1>2 DEF Rank
  <2>6. ~(28 < r + 1)
    BY <1>2
  <2> QED
    BY <1>16, <2>1, <2>2, <2>3, <2>4, <2>5, <2>6 DEF HasReached
<1>19. NoShell(g, e)
  <2>1. \A n \in News(g, e) : n \in DOMAIN d => n \in News(g, d)
    BY DEF News
  <2>2. name # "shell"
    BY <1>1
  <2>3. ASSUME NEW n \in News(g, e) PROVE e[n].layer # "shell" /\ e[n].name \notin {"sh", "cat"}
    <3>1. n \in DOMAIN e
      BY DEF News
    <3>2. CASE n \in DOMAIN d /\ e[n] = d[n]
      BY <2>1, <3>2 DEF NoShell
    <3> QED
      BY <1>6, <2>2, <3>1, <3>2 DEF NewMount
  <2> QED
    BY <2>3 DEF NoShell
<1>20. ASSUME name # "dev", \A n \in DOMAIN d : d[n].layer # "dev" PROVE \A n \in DOMAIN e : e[n].layer # "dev"
  BY <1>6, <1>20 DEF NewMount
<1> QED
  BY <1>14, <1>18, <1>19, <1>20 DEF AttachMade

LEMMA AddedGrows ==
  ASSUME NEW g, NEW d, NEW o, NEW v, NEW e, Added(g, d, o, v, e)
  PROVE  Grows(g, d, o, e)
  BY DEF Added, Grows

\* The directories of the devices.
LEMMA DevNodes ==
  ASSUME NEW g, NEW d, NEW o, g \in Inputs, Image(d, o), GrewFrom(g, d), NEW top \in Nat, DevIs(d, top)
  PROVE  /\ top \in DOMAIN d /\ top \in Hidden(g, d) /\ d[top].layer = "dev" /\ d[top].kind = "dir" /\ d[top].up = 0
         /\ \A n \in DOMAIN d : d[n].layer = "dev" /\ d[n].name \in {"pts", "shm"} =>
              n \in Hidden(g, d) /\ d[n].kind = "dir" /\ d[n].up = top /\ n = (IF d[n].name = "pts" THEN top + 1 ELSE top + 2)
         /\ \A n \in DOMAIN d : d[n].up = top => d[n].layer = "dev" /\ d[n].name \in {"pts", "shm"}
         /\ \A x \in {"pts", "shm"} : \E n \in DOMAIN d : d[n].up = top /\ d[n].name = x
<1> DEFINE D == {n \in DOMAIN d : d[n].layer = "dev"}
<1>1. D = {top, top + 1, top + 2} /\ top # 0
  <2>1. D = {top, top + 1, top + 2}
    BY DEF DevIs
  <2>2. top \in DOMAIN d
    BY <2>1
  <2> QED
    BY <2>1, <2>2 DEF Image
<1>2. /\ d[top].up = 0 /\ d[top].name = "/" /\ d[top].kind = "dir" /\ d[top].layer = "dev"
      /\ d[top + 1].up = top /\ d[top + 1].name = "pts" /\ d[top + 1].kind = "dir"
      /\ d[top + 2].up = top /\ d[top + 2].name = "shm" /\ d[top + 2].kind = "dir"
  BY NodeIs DEF DevIs
<1>3. \A n \in D : n \in DOMAIN d /\ n \in Hidden(g, d)
  BY NotHidden
<1>4. \A n \in DOMAIN d : d[n].layer = "dev" => n \in D
  OBVIOUS
<1> HIDE DEF D
<1>5. top \in DOMAIN d /\ top \in Hidden(g, d) /\ top + 1 \in DOMAIN d /\ top + 2 \in DOMAIN d
  BY <1>1, <1>3
<1>6. ASSUME NEW n \in DOMAIN d, d[n].layer = "dev", d[n].name \in {"pts", "shm"}
      PROVE  n \in Hidden(g, d) /\ d[n].kind = "dir" /\ d[n].up = top /\ n = (IF d[n].name = "pts" THEN top + 1 ELSE top + 2)
  <2>1. n \in {top, top + 1, top + 2} /\ n \in Hidden(g, d)
    BY <1>1, <1>3, <1>4, <1>6
  <2> QED
    BY <1>2, <1>6, <2>1
<1>7. ASSUME NEW n \in DOMAIN d, d[n].up = top PROVE d[n].layer = "dev" /\ d[n].name \in {"pts", "shm"}
  <2>1. d[n].layer = "dev"
    BY <1>2, <1>5, <1>7, NotHidden
  <2>2. n \in {top, top + 1, top + 2}
    BY <1>1, <1>4, <2>1
  <2> QED
    BY <1>1, <1>2, <1>7, <2>1, <2>2
<1> QED
  BY <1>2, <1>5, <1>6, <1>7

\* DeviceRuntime::attach
LEMMA BelowStep ==
  ASSUME NEW g, NEW d, NEW o, NEW ts, NEW priv, Whole(g, d, o, ts, priv), NEW x \in {"pts", "shm"},
         NEW r \in Nat, r = Rank(<<"below", "root", x>>), HasReached(g, d, o, ts, r), NoShell(g, d),
         NEW e, e = Append(d, C!Node(0, "/", "dir", x)),
         NEW n \in C!EntryOf(d, o[ts[<<"root", "dev">>]], x), NEW q, q = C!With(o, <<"root", n>>, <<"root", Len(d) + 1>>)
  PROVE  Whole(g, e, q, ts, priv) /\ HasReached(g, e, q, ts, r + 1) /\ NoShell(g, e)
<1>0. g \in Inputs /\ Image(d, o) /\ GrewFrom(g, d) /\ "root" \in Use(g) /\ "dev" \in Names3 /\ x \in C!Layers \ {"root", "output", "stage"} /\ "root" \in C!Views
  BY DEF Whole, Use, C!Views, Names3, C!Layers
<1>1. r \in 26..27 /\ (x = "pts" => r = 26) /\ (x = "shm" => r = 27)
  BY DEF Rank
<1>2. RootDev(d, o, ts)
  BY <1>1 DEF HasReached
<1>3. PICK top \in Nat : DevIs(d, top) /\ o[ts[<<"root", "dev">>]] = <<"root", top>>
  BY <1>2 DEF RootDev
<1>4. n \in DOMAIN d /\ d[n].up = top /\ d[n].name = x
  BY <1>3 DEF C!EntryOf
<1>5. n \in Hidden(g, d) /\ d[n].kind = "dir" /\ d[n].layer = "dev" /\ n = (IF x = "pts" THEN top + 1 ELSE top + 2)
  BY <1>0, <1>3, <1>4, DevNodes
<1>6. \A m \in DOMAIN d : d[m].layer = "dev" /\ d[m].name = x => m = n
  BY <1>0, <1>3, <1>5, DevNodes
<1>7. PICK v : v = C!Node(0, "/", "dir", x)
  OBVIOUS
<1>8. v.up = 0 /\ v.name = "/" /\ v.kind = "dir" /\ v.layer = x
  BY <1>7, NodeIs
<1>9. Added(g, d, o, v, e)
  <2>1. Fresh(d, v) /\ NewNode(g, d, v)
    BY <1>0, <1>7, AddTop
  <2> QED
    BY <1>0, <1>7, <2>1, AddNode
<1>10. PICK new : new = Len(d) + 1
  OBVIOUS
<1>11. /\ Len(d) \in Nat /\ DOMAIN d = 1..Len(d) /\ DOMAIN e = DOMAIN d \cup {new} /\ e[new] = v /\ (\A m \in DOMAIN d : e[m] = d[m])
       /\ new \in News(g, e) /\ News(g, e) = News(g, d) \cup {new} /\ Image(e, o)
       /\ Hidden(g, d) \subseteq Hidden(g, e) /\ Extends(d, e)
  BY <1>9, <1>10 DEF Added
<1>12. new \in Hidden(g, e) /\ n \in Hidden(g, e)
  BY <1>0, <1>5, <1>8, <1>11 DEF Hidden
<1>13. PICK l, m : l = <<"root", n>> /\ m = <<"root", new>>
  OBVIOUS
<1>14. /\ l \in C!Views \X DOMAIN e /\ m \in C!Views \X DOMAIN e /\ l[1] = "root" /\ m[1] = "root" /\ l[2] = n /\ m[2] = new
       /\ e[l[2]].kind = "dir" /\ e[m[2]].kind = "dir"
  BY <1>0, <1>4, <1>5, <1>8, <1>11, <1>13
<1>15. l \notin DOMAIN g.over
  <2>1. DOMAIN g.over \subseteq C!Views \X DOMAIN g.disk
    BY <1>0, GivenIs DEF Image
  <2> QED
    BY <1>5, <1>14, <2>1 DEF Hidden, News
<1>16. KeyGood(g, e, ts, priv, l, m)
  BY <1>4, <1>5, <1>8, <1>11, <1>12, <1>14 DEF KeyGood
<1>17. q = C!With(o, l, m)
  BY <1>10, <1>13
<1>18. Whole(g, e, q, ts, priv)
  <2>1. Grows(g, d, o, e)
    BY <1>9, AddedGrows
  <2> QED
    BY <1>14, <1>15, <1>16, <1>17, <2>1, MountStep
<1>19. DOMAIN q = DOMAIN o \cup {l} /\ q[l] = m /\ \A k \in DOMAIN o : k # l => q[k] = o[k]
  BY <1>17 DEF C!With
<1>20. HasReached(g, e, q, ts, r)
  <2>1. Kept(d, o, ts, e, q, ts, {l})
    BY <1>0, <1>11, <1>19 DEF Kept
  <2>2. ASSUME NEW view \in Use(g), NEW name \in Names3 PROVE ts[<<view, name>>] # l
    <3>1. r > 14
      BY <1>1
    <3>2. <<view, name>> \in DOMAIN ts
      BY <3>1, CheckedIs
    <3>3. ts[<<view, name>>][2] \notin Hidden(g, d)
      BY <3>2, TargetIs
    <3> QED
      BY <1>5, <1>14, <3>3
  <2>3. \A view \in Use(g), name \in {"proc", "sys"} : ts[<<view, name>>] # l
    BY <2>2 DEF Names3
  <2>4. ts[<<"root", "dev">>] # l
    BY <1>0, <2>2
  <2>5. DevSame(d, e)
    BY <1>8, <1>11 DEF DevSame
  <2>6. ASSUME NEW y \in {"pts", "shm"}, NEW k \in DOMAIN d, Rank(<<"below", "root", y>>) < r, d[k].layer = "dev", d[k].name = y
        PROVE  <<"root", k>> # l
    <3>1. x = "shm" /\ y = "pts"
      BY <1>1, <2>6 DEF Rank
    <3> QED
      BY <1>4, <1>13, <2>6, <3>1
  <2> DEFINE K == {l}
  <2>7. /\ \A view \in Use(g), name \in {"proc", "sys"} : ts[<<view, name>>] \notin K
        /\ ts[<<"root", "dev">>] \notin K
        /\ \A y \in {"pts", "shm"}, k \in DOMAIN d : Rank(<<"below", "root", y>>) < r /\ d[k].layer = "dev" /\ d[k].name = y => <<"root", k>> \notin K
    BY <2>3, <2>4, <2>6
  <2>8. ~(28 < r)
    BY <1>1
  <2> HIDE DEF K
  <2>9. Apart3(g, d, ts, e, K, r)
    BY <2>5, <2>7, <2>8 DEF Apart3
  <2> QED
    BY <2>1, <2>9, ReachedStays DEF K
<1>21. BelowIs(e, q, "root", x)
  <2>1. ASSUME NEW k \in DOMAIN e, e[k].layer = "dev", e[k].name = x PROVE k = n
    <3>1. k # new
      BY <1>8, <1>11, <2>1
    <3> QED
      BY <1>6, <1>11, <2>1, <3>1
  <2>2. <<"root", n>> \in DOMAIN q /\ e[q[<<"root", n>>][2]].layer = x
    <3>1. l \in DOMAIN q /\ q[l] = m /\ e[m[2]].layer = x
      BY <1>8, <1>11, <1>14, <1>19
    <3> QED
      BY <1>13, <3>1
  <2> QED
    BY <2>1, <2>2 DEF BelowIs
<1>22. HasReached(g, e, q, ts, r + 1)
  <2>1. \A view2 \in Use(g), name2 \in Names3 : Rank(<<"directory", view2, name2>>) < r
    BY <1>1 DEF Rank, Names3
  <2>2. \A view2 \in Use(g) : Rank(<<"check", view2, "targets">>) < r
    BY <1>1 DEF Rank
  <2>3. \A view2 \in Use(g), name2 \in {"proc", "sys"} : Rank(<<"attach", view2, name2>>) < r
    BY <1>1 DEF Rank
  <2>4. 25 < r
    BY <1>1
  <2>5. ASSUME NEW y \in {"pts", "shm"}, Rank(<<"below", "root", y>>) < r + 1 PROVE BelowIs(e, q, "root", y)
    <3>1. Rank(<<"below", "root", y>>) = IF y = "pts" THEN 26 ELSE 27
      BY DEF Rank
    <3>2. CASE y = x
      BY <1>21, <3>2
    <3>3. CASE y # x
      <4>1. y = "pts" /\ r = 27
        BY <1>1, <2>5, <3>1, <3>3
      <4>2. Rank(<<"below", "root", y>>) < r
        BY <3>1, <4>1
      <4> QED
        BY <1>20, <4>2 DEF HasReached
    <3> QED
      BY <3>2, <3>3
  <2>6. ~(28 < r + 1)
    BY <1>1
  <2> QED
    BY <1>20, <2>1, <2>2, <2>3, <2>4, <2>5, <2>6 DEF HasReached
<1>23. NoShell(g, e)
  <2>1. ASSUME NEW k \in News(g, e) PROVE e[k].layer # "shell" /\ e[k].name \notin {"sh", "cat"}
    <3>1. CASE k = new
      BY <1>8, <1>11, <3>1
    <3>2. CASE k \in News(g, d)
      <4>1. e[k] = d[k]
        BY <1>11, <3>2 DEF News
      <4> QED
        BY <3>2, <4>1 DEF NoShell
    <3> QED
      BY <1>11, <3>1, <3>2
  <2> QED
    BY <2>1 DEF NoShell
<1> QED
  BY <1>18, <1>22, <1>23

\* CommandDevices::attach, the clone: what is at T and below the devices in the output.
CloneIs(d, o, T, dev, q) ==
  LET below == {n \in DOMAIN d : d[n].up = dev[2] /\ <<"root", n>> \in DOMAIN o}
  IN  q = [l \in {T} \cup {<<"output", n>> : n \in below} \cup DOMAIN o |->
             IF l = T THEN <<"output", dev[2]>>
             ELSE IF l[1] = "output" /\ l[2] \in below THEN <<"output", o[<<"root", l[2]>>][2]>> ELSE o[l]]
LEMMA CloneStep ==
  ASSUME NEW g, NEW d, NEW o, NEW ts, NEW priv, Whole(g, d, o, ts, priv), g.bootstrap, HasReached(g, d, o, ts, 28),
         NEW q, CloneIs(d, o, ts[<<"output", "dev">>], o[ts[<<"root", "dev">>]], q)
  PROVE  Whole(g, d, q, ts, priv) /\ HasReached(g, d, q, ts, 29)
<1>0. /\ g \in Inputs /\ Image(d, o) /\ GrewFrom(g, d) /\ Keys(g, d, o, ts, priv) /\ PinsOf(g, d, ts)
      /\ "root" \in Use(g) /\ "output" \in Use(g) /\ "dev" \in Names3 /\ "root" \in C!Views /\ "output" \in C!Views
      /\ Use(g) = C!Views /\ 28 > 14 /\ 28 \in Nat
  BY DEF Whole, Use, C!Views, Names3
<1>1. RootDev(d, o, ts) /\ BelowIs(d, o, "root", "pts") /\ BelowIs(d, o, "root", "shm")
  <2>1. Rank(<<"below", "root", "pts">>) < 28 /\ Rank(<<"below", "root", "shm">>) < 28
    BY DEF Rank
  <2> QED
    BY <2>1 DEF HasReached
<1>2. PICK top \in Nat : DevIs(d, top) /\ o[ts[<<"root", "dev">>]] = <<"root", top>>
  BY <1>1 DEF RootDev
<1>3. PICK T : T = ts[<<"output", "dev">>]
  OBVIOUS
<1>4. T \in C!Views \X DOMAIN d /\ T[1] = "output" /\ T[2] \in DOMAIN d /\ d[T[2]].kind = "dir" /\ T[2] \notin Hidden(g, d) /\ T \notin DOMAIN g.over
  <2>1. Checked(ts, "output") /\ <<"output", "dev">> \in DOMAIN ts
    BY <1>0, CheckedIs
  <2>2. T # C!TopOf("output")
    BY <1>0, <1>3, <2>1 DEF Checked
  <2> QED
    BY <1>0, <1>3, <2>1, <2>2, TargetIs
<1> DEFINE below == {n \in DOMAIN d : d[n].up = top /\ <<"root", n>> \in DOMAIN o}
<1>5. \A n \in below : n \in DOMAIN d /\ d[n].up = top /\ <<"root", n>> \in DOMAIN o
  OBVIOUS
<1>6. \A n \in DOMAIN d : d[n].layer = "dev" /\ d[n].name \in {"pts", "shm"} => n \in below
  BY <1>0, <1>1, <1>2, DevNodes DEF BelowIs
<1>7. /\ DOMAIN q = {T} \cup {<<"output", n>> : n \in below} \cup DOMAIN o
      /\ \A l \in DOMAIN q : q[l] = IF l = T THEN <<"output", top>>
           ELSE IF l[1] = "output" /\ l[2] \in below THEN <<"output", o[<<"root", l[2]>>][2]>> ELSE o[l]
  <2>1. PICK dev : dev = o[ts[<<"root", "dev">>]] /\ dev[2] = top
    BY <1>2
  <2>2. CloneIs(d, o, T, dev, q)
    BY <1>3, <2>1
  <2> DEFINE under == {n \in DOMAIN d : d[n].up = dev[2] /\ <<"root", n>> \in DOMAIN o}
  <2>3. q = [l \in {T} \cup {<<"output", n>> : n \in under} \cup DOMAIN o |->
               IF l = T THEN <<"output", dev[2]>>
               ELSE IF l[1] = "output" /\ l[2] \in under THEN <<"output", o[<<"root", l[2]>>][2]>> ELSE o[l]]
    BY <2>2, Zenon DEF CloneIs
  <2>4. under = below
    BY <2>1
  <2> HIDE DEF below, under
  <2> QED
    BY <2>1, <2>3, <2>4
<1> HIDE DEF below
<1>8. ASSUME NEW n \in below
      PROVE  /\ n \in Hidden(g, d) /\ d[n].layer = "dev" /\ d[n].name \in {"pts", "shm"} /\ <<"root", n>> \in DOMAIN o \ DOMAIN g.over
             /\ o[<<"root", n>>] \in C!Views \X DOMAIN d /\ d[n].kind = "dir" /\ d[o[<<"root", n>>][2]].kind = "dir"
             /\ o[<<"root", n>>][2] \in Hidden(g, d) /\ d[o[<<"root", n>>][2]].up = 0 /\ d[o[<<"root", n>>][2]].layer = d[n].name
             /\ <<"output", n>> # T /\ <<"output", n>> \notin DOMAIN g.over
  <2>1. n \in DOMAIN d /\ d[n].up = top /\ <<"root", n>> \in DOMAIN o
    BY <1>5
  <2>2. d[n].layer = "dev" /\ d[n].name \in {"pts", "shm"} /\ n \in Hidden(g, d)
    BY <1>0, <1>2, <2>1, DevNodes
  <2>3. PICK l : l = <<"root", n>>
    OBVIOUS
  <2>4. l \in DOMAIN o /\ l[2] = n
    BY <2>1, <2>3
  <2>5. DOMAIN g.over \subseteq C!Views \X DOMAIN g.disk /\ n \notin DOMAIN g.disk
    BY <1>0, <2>2, GivenIs DEF Image, Hidden, News
  <2>6. l \notin DOMAIN g.over /\ <<"output", n>> \notin DOMAIN g.over
    BY <2>3, <2>5
  <2>7. o[l] \in C!Views \X DOMAIN d /\ d[n].kind = "dir" /\ d[o[l][2]].kind = "dir"
    BY <1>0, <2>4 DEF Image
  <2>8. o[l][2] \in Hidden(g, d) /\ d[o[l][2]].up = 0
    BY <1>0, <2>4, <2>6 DEF Keys, KeyGood
  <2>9. d[o[l][2]].layer = d[n].name
    BY <1>1, <2>1, <2>2, <2>3 DEF BelowIs
  <2>10. <<"output", n>> # T
    BY <1>4, <2>2
  <2> QED
    BY <2>2, <2>3, <2>4, <2>6, <2>7, <2>8, <2>9, <2>10
<1>9. /\ top \in DOMAIN d /\ top \in Hidden(g, d) /\ d[top].layer = "dev" /\ d[top].kind = "dir" /\ d[top].up = 0
  BY <1>0, <1>2, DevNodes
<1>10. T \in DOMAIN q /\ q[T] = <<"output", top>>
  BY <1>7
<1>11. ASSUME NEW n \in below PROVE <<"output", n>> \in DOMAIN q /\ q[<<"output", n>>] = <<"output", o[<<"root", n>>][2]>>
  <2>1. PICK l : l = <<"output", n>>
    OBVIOUS
  <2>2. l \in DOMAIN q /\ l[1] = "output" /\ l[2] = n /\ l # T
    BY <1>7, <1>8, <2>1
  <2>3. q[l] = <<"output", o[<<"root", l[2]>>][2]>>
    BY <1>7, <2>2
  <2> QED
    BY <2>1, <2>2, <2>3
<1>12. ASSUME NEW l \in DOMAIN q
       PROVE  l = T \/ (\E n \in below : l = <<"output", n>>) \/ (l \in DOMAIN o /\ q[l] = o[l])
  <2>1. CASE l \in DOMAIN o /\ l # T
    <3>1. l = <<l[1], l[2]>>
      BY <1>0, <2>1 DEF Image
    <3>2. CASE l[1] = "output" /\ l[2] \in below
      BY <3>1, <3>2
    <3>3. CASE ~(l[1] = "output" /\ l[2] \in below)
      BY <1>7, <2>1, <3>3
    <3> QED
      BY <3>2, <3>3
  <2> QED
    BY <1>7, <2>1
<1>13. Image(d, q)
  <2>1. ASSUME NEW l \in DOMAIN q PROVE l \in C!Views \X DOMAIN d /\ q[l] \in C!Views \X DOMAIN d /\ d[l[2]].kind = "dir" /\ d[q[l][2]].kind = "dir"
    <3>1. CASE l = T
      BY <1>0, <1>4, <1>9, <1>10, <3>1
    <3>2. ASSUME NEW n \in below, l = <<"output", n>> PROVE l \in C!Views \X DOMAIN d /\ q[l] \in C!Views \X DOMAIN d /\ d[l[2]].kind = "dir" /\ d[q[l][2]].kind = "dir"
      <4>1. PICK k : k = o[<<"root", n>>][2]
        OBVIOUS
      <4>2. k \in DOMAIN d /\ d[k].kind = "dir" /\ d[n].kind = "dir" /\ n \in DOMAIN d
        BY <1>5, <1>8, <4>1
      <4>3. q[l] = <<"output", k>> /\ l[2] = n
        BY <1>11, <3>2, <4>1
      <4> QED
        BY <1>0, <3>2, <4>2, <4>3
    <3>3. CASE l \in DOMAIN o /\ q[l] = o[l]
      BY <1>0, <3>3 DEF Image
    <3> QED
      BY <1>12, <3>1, <3>2, <3>3
  <2> QED
    BY <1>0, <2>1 DEF Image
<1>14. Keys(g, d, q, ts, priv)
  <2>1. ASSUME NEW l \in DOMAIN g.over PROVE l \in DOMAIN q /\ q[l] = g.over[l]
    <3>1. l \in DOMAIN o /\ o[l] = g.over[l]
      BY <1>0 DEF Keys
    <3>2. l \in DOMAIN q /\ l # T
      BY <1>4, <1>7, <3>1
    <3>3. \A n \in below : l # <<"output", n>>
      BY <1>8
    <3> QED
      BY <1>12, <3>1, <3>2, <3>3
  <2>2. ASSUME NEW l \in DOMAIN q, l \notin DOMAIN g.over PROVE KeyGood(g, d, ts, priv, l, q[l])
    <3>1. CASE l = T
      <4>1. q[l] = <<"output", top>> /\ l[1] = "output" /\ q[l][1] = "output" /\ q[l][2] = top
        BY <1>4, <1>10, <3>1
      <4>2. <<"output", "dev">> \in DOMAIN ts
        BY <1>0, CheckedIs
      <4> QED
        BY <1>0, <1>3, <1>9, <3>1, <4>1, <4>2 DEF KeyGood
    <3>2. ASSUME NEW n \in below, l = <<"output", n>> PROVE KeyGood(g, d, ts, priv, l, q[l])
      <4>1. PICK k : k = o[<<"root", n>>][2]
        OBVIOUS
      <4>2. k \in Hidden(g, d) /\ d[k].up = 0 /\ d[k].layer = d[n].name /\ d[n].layer = "dev" /\ d[n].name \in {"pts", "shm"}
        BY <1>8, <4>1
      <4>3. q[l] = <<"output", k>> /\ l[2] = n /\ l[1] = "output" /\ q[l][1] = "output" /\ q[l][2] = k
        BY <1>11, <3>2, <4>1
      <4> QED
        BY <4>2, <4>3 DEF KeyGood
    <3>3. CASE l \in DOMAIN o /\ q[l] = o[l]
      BY <1>0, <2>2, <3>3 DEF Keys
    <3> QED
      BY <1>12, <3>1, <3>2, <3>3
  <2> QED
    BY <2>1, <2>2 DEF Keys
<1>15. Whole(g, d, q, ts, priv)
  BY <1>0, <1>13, <1>14 DEF Whole
<1> DEFINE K == {T} \cup {<<"output", n>> : n \in below}
<1>16. \A l \in K : l[1] = "output" /\ (l = T \/ l[2] \in Hidden(g, d))
  <2>1. ASSUME NEW n \in below, NEW l, l = <<"output", n>> PROVE l[1] = "output" /\ l[2] \in Hidden(g, d)
    BY <1>8, <2>1
  <2> QED
    BY <1>4, <2>1
<1>17. \A l \in DOMAIN o \ K : l \in DOMAIN q /\ q[l] = o[l]
  <2>1. ASSUME NEW l \in DOMAIN o \ K PROVE l \in DOMAIN q /\ q[l] = o[l]
    <3>1. l \in DOMAIN q /\ l # T
      BY <1>7
    <3> QED
      BY <1>12, <3>1
  <2> QED
    BY <2>1
<1> HIDE DEF K
<1>18. HasReached(g, d, q, ts, 28)
  <2>1. Kept(d, o, ts, d, q, ts, K)
    <3>1. Extends(d, d)
      BY <1>0 DEF Extends, Image
    <3>2. DOMAIN o \subseteq DOMAIN q
      BY <1>7
    <3> QED
      BY <1>0, <1>17, <3>1, <3>2 DEF Kept
  <2>2. ASSUME NEW view \in Use(g), NEW name \in Names3, view = "root" \/ name # "dev" PROVE ts[<<view, name>>] \notin K
    <3>1. <<view, name>> \in DOMAIN ts
      BY <1>0, CheckedIs
    <3>2. ts[<<view, name>>][1] = view /\ ts[<<view, name>>][2] \notin Hidden(g, d)
      BY <3>1, TargetIs
    <3>3. ts[<<view, name>>] # T
      BY <1>0, <1>3, <2>2, OtherTarget
    <3> QED
      BY <1>16, <3>2, <3>3
  <2>3. \A view \in Use(g), name \in {"proc", "sys"} : ts[<<view, name>>] \notin K
    BY <2>2 DEF Names3
  <2>4. ts[<<"root", "dev">>] \notin K
    BY <1>0, <2>2
  <2>5. DevSame(d, d)
    BY DEF DevSame
  <2>6. \A n : <<"root", n>> \notin K
    BY <1>16
  <2>7. ~(28 < 28)
    OBVIOUS
  <2>8. Apart3(g, d, ts, d, K, 28)
    BY <2>3, <2>4, <2>5, <2>6, <2>7 DEF Apart3
  <2> QED
    BY <1>0, <2>1, <2>8, ReachedStays
<1>19. Cloned(d, q, ts)
  <2>1. Attached(d, q, ts, "output", "dev")
    BY <1>3, <1>9, <1>10 DEF Attached
  <2>2. ASSUME NEW x \in {"pts", "shm"} PROVE BelowIs(d, q, "output", x)
    <3>1. ASSUME NEW n \in DOMAIN d, d[n].layer = "dev", d[n].name = x PROVE <<"output", n>> \in DOMAIN q /\ d[q[<<"output", n>>][2]].layer = x
      <4>1. n \in below
        BY <1>6, <3>1
      <4>2. PICK k : k = o[<<"root", n>>][2]
        OBVIOUS
      <4>3. q[<<"output", n>>] = <<"output", k>> /\ <<"output", n>> \in DOMAIN q
        BY <1>11, <4>1, <4>2
      <4>4. d[k].layer = x
        BY <1>8, <3>1, <4>1, <4>2
      <4> QED
        BY <4>3, <4>4
    <3> QED
      BY <3>1 DEF BelowIs
  <2> QED
    BY <2>1, <2>2 DEF Cloned
<1>20. HasReached(g, d, q, ts, 29)
  <2>1. \A view \in Use(g), name \in Names3 : Rank(<<"directory", view, name>>) < 28
    BY DEF Rank, Names3
  <2>2. \A view \in Use(g) : Rank(<<"check", view, "targets">>) < 28
    BY DEF Rank
  <2>3. \A view \in Use(g), name \in {"proc", "sys"} : Rank(<<"attach", view, name>>) < 28
    BY DEF Rank
  <2>4. \A y \in {"pts", "shm"} : Rank(<<"below", "root", y>>) < 28
    BY DEF Rank
  <2>5. 25 < 28
    OBVIOUS
  <2> QED
    BY <1>18, <1>19, <2>1, <2>2, <2>3, <2>4, <2>5 DEF HasReached
<1> QED
  BY <1>15, <1>20

-----------------------------------------------------------------------------
(* The shell *)

LongerBy(v, x, a) == v = Append(x, a) /\ x \in Seq(STRING) /\ a \in STRING
LEMMA LongerWord ==
  ASSUME NEW v, NEW x, NEW a, LongerBy(v, x, a)
  PROVE  x \in Seq(STRING) /\ Len(v) = Len(x) + 1 /\ v[Len(x) + 1] = a /\ Len(x) \in Nat /\ \A i \in 1..Len(x) : v[i] = x[i]
<1>1. x \in Seq(STRING) /\ v = Append(x, a) /\ a \in STRING
  BY DEF LongerBy
<1>2. Len(Append(x, a)) = Len(x) + 1 /\ Append(x, a)[Len(x) + 1] = a /\ Len(x) \in Nat /\ \A i \in 1..Len(x) : Append(x, a)[i] = x[i]
  BY <1>1
<1> QED
  BY <1>1, <1>2

LEMMA AppendOnce ==
  ASSUME NEW v, NEW x, NEW y, NEW a, NEW b, LongerBy(v, x, a), LongerBy(v, y, b)
  PROVE  x = y /\ a = b
<1>1. Len(v) = Len(x) + 1 /\ v[Len(x) + 1] = a /\ Len(x) \in Nat /\ (\A i \in 1..Len(x) : v[i] = x[i]) /\ x \in Seq(STRING)
  BY LongerWord
<1>2. Len(v) = Len(y) + 1 /\ v[Len(y) + 1] = b /\ Len(y) \in Nat /\ (\A i \in 1..Len(y) : v[i] = y[i]) /\ y \in Seq(STRING)
  BY LongerWord
<1>3. Len(x) = Len(y)
  BY <1>1, <1>2
<1>4. \A i \in 1..Len(x) : x[i] = y[i]
  BY <1>1, <1>2, <1>3
<1> QED
  BY <1>1, <1>2, <1>3, <1>4

LEMMA Antichain ==
  ASSUME NEW g, g \in Inputs, NEW p \in Wanted(g), NEW q \in Wanted(g), Len(p) < Len(q)
  PROVE  \E i \in 1..Len(p) : p[i] # q[i]
<1>1. SUFFICES ASSUME \A i \in 1..Len(p) : p[i] = q[i] PROVE FALSE
  OBVIOUS
<1>2. p \in Seq(STRING) /\ q \in Seq(STRING) /\ SubSeq(q, 1, Len(p)) # p
  BY AppliancePaths
<1>3. PICK r \in Seq(STRING) : r = SubSeq(q, 1, Len(p))
  <2>1. SubSeq(q, 1, Len(p)) \in Seq(STRING)
    BY <1>2
  <2> QED
    BY <2>1
<1>4. Len(r) = Len(p) /\ \A i \in 1..Len(p) : r[i] = q[i]
  BY <1>2, <1>3
<1>5. r = p
  BY <1>1, <1>2, <1>4
<1> QED
  BY <1>2, <1>3, <1>5

\* What is known of a place in the private filesystems, and that nothing was lost.
InShelf(g, d, o, ts, priv, word, a, u) ==
  Whole(g, d, o, ts, priv) /\ Shelved(g, d, o, priv, word) /\ a \in ShellOf(g, d) /\ word[a] = u
More(g, d, word, e, word2) ==
  /\ Extends(d, e) /\ DOMAIN d \subseteq DOMAIN e /\ DevSame(d, e)
  /\ ShellOf(g, d) \subseteq ShellOf(g, e) /\ \A n \in ShellOf(g, d) : word2[n] = word[n]

LEMMA MoreStill ==
  ASSUME NEW g, NEW d, NEW w, NEW e, NEW w2, NEW f, NEW w3, More(g, d, w, e, w2), More(g, e, w2, f, w3),
         Len(d) \in Nat, Len(e) \in Nat, Len(f) \in Nat
  PROVE  More(g, d, w, f, w3)
<1>1. DOMAIN d \subseteq DOMAIN f /\ ShellOf(g, d) \subseteq ShellOf(g, f) /\ \A n \in ShellOf(g, d) : w3[n] = w[n]
  BY DEF More
<1>2. Extends(d, f)
  BY DEF More, Extends
<1>3. DevSame(d, f)
  <2>1. ASSUME NEW n \in DOMAIN f, f[n].layer = "dev" PROVE n \in DOMAIN d
    <3>1. n \in DOMAIN e /\ e[n] = f[n]
      BY <2>1 DEF More, DevSame, Extends
    <3> QED
      BY <2>1, <3>1 DEF More, DevSame
  <2> QED
    BY <2>1 DEF DevSame
<1> QED
  BY <1>1, <1>2, <1>3 DEF More

LEMMA PlacedStill ==
  ASSUME NEW g, NEW d, NEW w, NEW e, NEW w2, More(g, d, w, e, w2), NEW p, InPlace(g, d, w, p)
  PROVE  InPlace(g, e, w2, p)
<1>1. PICK n \in ShellOf(g, d) : w[n] = p /\ d[n].kind = "file"
  BY DEF InPlace
<1>2. n \in DOMAIN d
  BY DEF ShellOf, News
<1>3. n \in ShellOf(g, e) /\ w2[n] = p /\ e[n] = d[n]
  BY <1>1, <1>2 DEF More, Extends
<1> QED
  BY <1>1, <1>3 DEF InPlace

\* One more node of the private filesystems.
Shelves(g, d, priv, word, v, u, more) ==
  /\ v.layer = "shell" /\ u \in Seq(STRING) /\ Len(u) >= 1 /\ WordOf(g, u, v.kind)
  /\ \A n \in ShellOf(g, d) : word[n] # u
  /\ priv \subseteq more
  /\ v.up = 0 => \E top \in more : u = <<top>>
  /\ v.up # 0 => v.up \in ShellOf(g, d) /\ d[v.up].kind = "dir" /\ u = Append(word[v.up], v.name)
TopShown(g, e, q, word, top) ==
  top \in STRING /\ \E n \in ShellOf(g, e), m \in DOMAIN e :
    /\ word[n] = <<top>> /\ e[n].up = 0
    /\ e[m].up = 1 /\ e[m].name = top /\ e[m].kind = "dir" /\ <<"root", m>> \in DOMAIN q /\ q[<<"root", m>>] = <<"root", n>>

Covers(o, q) == DOMAIN o \subseteq DOMAIN q /\ \A l \in DOMAIN o : q[l] = o[l]
TopsShown(g, e, q, word, tops) == \A top \in tops : TopShown(g, e, q, word, top)
WordsWith(g, d, e, word, u) == [n \in ShellOf(g, e) |-> IF n = Len(d) + 1 THEN u ELSE word[n]]
LEMMA Shelving ==
  ASSUME NEW g, g \in Inputs, NEW d, NEW o, Image(d, o), GrewFrom(g, d), NEW v, NEW e, Added(g, d, o, v, e),
         NEW priv, NEW word, Shelved(g, d, o, priv, word), NEW u, NEW more, Shelves(g, d, priv, word, v, u, more),
         NEW q, Covers(o, q), NEW w2, w2 = WordsWith(g, d, e, word, u), TopsShown(g, e, q, w2, more \ priv)
  PROVE  Shelved(g, e, q, more, w2) /\ More(g, d, word, e, w2) /\ Len(d) + 1 \in ShellOf(g, e) /\ w2[Len(d) + 1] = u
<1>1. PICK new : new = Len(d) + 1
  OBVIOUS
<1>2. /\ Len(d) \in Nat /\ DOMAIN d = 1..Len(d) /\ DOMAIN e = DOMAIN d \cup {new} /\ e[new] = v /\ new \notin DOMAIN d /\ (\A m \in DOMAIN d : e[m] = d[m])
      /\ new \in News(g, e) /\ News(g, e) = News(g, d) \cup {new} /\ Extends(d, e)
  BY <1>1 DEF Added
<1>3. /\ v.layer = "shell" /\ u \in Seq(STRING) /\ Len(u) >= 1 /\ WordOf(g, u, v.kind) /\ (\A n \in ShellOf(g, d) : word[n] # u) /\ priv \subseteq more
      /\ (v.up = 0 => \E top \in more : u = <<top>>)
      /\ (v.up # 0 => v.up \in ShellOf(g, d) /\ d[v.up].kind = "dir" /\ u = Append(word[v.up], v.name))
  BY DEF Shelves
<1>4. ShellOf(g, e) = ShellOf(g, d) \cup {new} /\ new \notin ShellOf(g, d) /\ (\A n \in ShellOf(g, d) : n \in DOMAIN d /\ e[n] = d[n])
  BY <1>2, <1>3 DEF ShellOf, News
<1>5. w2[new] = u /\ (\A n \in ShellOf(g, d) : w2[n] = word[n]) /\ w2 = [n \in ShellOf(g, e) |-> IF n = new THEN u ELSE word[n]]
  BY <1>1, <1>4 DEF WordsWith
<1>6. /\ word \in [ShellOf(g, d) -> Seq(STRING)]
      /\ \A n, m \in ShellOf(g, d) : word[n] = word[m] => n = m
      /\ \A n \in ShellOf(g, d) :
           /\ Len(word[n]) >= 1
           /\ d[n].up = 0 => \E top \in priv : word[n] = <<top>>
           /\ d[n].up # 0 => d[d[n].up].kind = "dir" /\ word[n] = Append(word[d[n].up], d[n].name)
           /\ WordOf(g, word[n], d[n].kind)
      /\ \A top \in priv : TopShown(g, d, o, word, top)
  BY DEF Shelved, TopShown
<1>7. w2 \in [ShellOf(g, e) -> Seq(STRING)]
  BY <1>3, <1>4, <1>5, <1>6
<1>8. \A n, m \in ShellOf(g, e) : w2[n] = w2[m] => n = m
  BY <1>3, <1>4, <1>5, <1>6
<1>9. ASSUME NEW n \in ShellOf(g, e)
      PROVE  /\ Len(w2[n]) >= 1
             /\ e[n].up = 0 => \E top \in more : w2[n] = <<top>>
             /\ e[n].up # 0 => e[e[n].up].kind = "dir" /\ w2[n] = Append(w2[e[n].up], e[n].name)
             /\ WordOf(g, w2[n], e[n].kind)
  <2>1. CASE n = new
    <3>1. w2[n] = u /\ e[n] = v
      BY <1>2, <1>5, <2>1
    <3>2. v.up # 0 => w2[v.up] = word[v.up] /\ e[v.up] = d[v.up]
      BY <1>3, <1>4, <1>5
    <3> QED
      BY <1>3, <3>1, <3>2
  <2>2. CASE n \in ShellOf(g, d)
    <3>1. w2[n] = word[n] /\ e[n] = d[n] /\ n \in DOMAIN d
      BY <1>4, <1>5, <2>2
    <3>2. d[n].up # 0 => d[n].up \in ShellOf(g, d)
      <4>1. n \in Hidden(g, d)
        BY <2>2 DEF ShellOf, Hidden
      <4>2. d[n].up # 0 => d[n].up \in Hidden(g, d)
        BY <4>1, NotHidden
      <4>3. d[n].up # 0 => d[d[n].up].layer = "shell"
        BY <2>2, <3>1, <4>2, NotHidden DEF ShellOf
      <4> QED
        BY <4>2, <4>3 DEF Hidden, ShellOf
    <3>3. d[n].up # 0 => w2[d[n].up] = word[d[n].up] /\ e[d[n].up] = d[d[n].up]
      BY <1>4, <1>5, <3>2
    <3>4. d[n].up = 0 => \E top \in more : word[n] = <<top>>
      BY <1>3, <1>6, <2>2
    <3> QED
      BY <1>6, <2>2, <3>1, <3>3, <3>4
  <2> QED
    BY <1>4, <2>1, <2>2
<1>10. ASSUME NEW top \in more PROVE TopShown(g, e, q, w2, top)
  <2>1. CASE top \notin priv
    BY <2>1 DEF TopsShown
  <2>2. CASE top \in priv
    <3>1. top \in STRING /\ \E n \in ShellOf(g, d), m \in DOMAIN d :
            /\ word[n] = <<top>> /\ d[n].up = 0
            /\ d[m].up = 1 /\ d[m].name = top /\ d[m].kind = "dir" /\ <<"root", m>> \in DOMAIN o /\ o[<<"root", m>>] = <<"root", n>>
      BY <1>6, <2>2 DEF TopShown
    <3>2. PICK n \in ShellOf(g, d), m \in DOMAIN d :
            /\ word[n] = <<top>> /\ d[n].up = 0
            /\ d[m].up = 1 /\ d[m].name = top /\ d[m].kind = "dir" /\ <<"root", m>> \in DOMAIN o /\ o[<<"root", m>>] = <<"root", n>>
      BY <3>1
    <3>3. n \in ShellOf(g, e) /\ m \in DOMAIN e /\ e[n] = d[n] /\ e[m] = d[m] /\ w2[n] = word[n]
      BY <1>2, <1>4, <1>5
    <3>4. <<"root", m>> \in DOMAIN q /\ q[<<"root", m>>] = <<"root", n>>
      BY <3>2 DEF Covers
    <3> QED
      BY <3>1, <3>2, <3>3, <3>4 DEF TopShown
  <2> QED
    BY <2>1, <2>2
<1>11. Shelved(g, e, q, more, w2)
  BY <1>7, <1>8, <1>9, <1>10 DEF Shelved, TopShown
<1>12. DevSame(d, e)
  BY <1>2, <1>3 DEF DevSame
<1>13. More(g, d, word, e, w2)
  BY <1>2, <1>4, <1>5, <1>12 DEF More
<1> QED
  BY <1>1, <1>4, <1>5, <1>11, <1>13

\* A mount point that is not the shell's leaves its filesystems as they are.
LEMMA ShelvedStays ==
  ASSUME NEW g, NEW d, NEW o, NEW priv, NEW word, Shelved(g, d, o, priv, word), NEW e, NEW q, Extends(d, e), DOMAIN d \subseteq DOMAIN e,
         g \in Inputs, Image(d, o), GrewFrom(g, d), ShellOf(g, e) = ShellOf(g, d),
         DOMAIN o \subseteq DOMAIN q, \A l \in DOMAIN o : l[1] = "root" /\ d[l[2]].up = 1 => q[l] = o[l]
  PROVE  Shelved(g, e, q, priv, word)
<1>1. \A n \in DOMAIN d : e[n] = d[n]
  BY DEF Extends
<1>2. \A n \in ShellOf(g, d) : n \in DOMAIN d /\ e[n] = d[n] /\ (d[n].up # 0 => d[n].up \in DOMAIN d /\ e[d[n].up] = d[d[n].up])
  <2>1. ASSUME NEW n \in ShellOf(g, d) PROVE n \in DOMAIN d /\ (d[n].up # 0 => d[n].up \in DOMAIN d)
    <3>1. n \in Hidden(g, d)
      BY DEF ShellOf, Hidden
    <3> QED
      BY <3>1, NotHidden DEF Hidden, News
  <2> QED
    BY <1>1, <2>1
<1>3. /\ word \in [ShellOf(g, d) -> Seq(STRING)]
      /\ \A n, m \in ShellOf(g, d) : word[n] = word[m] => n = m
      /\ \A n \in ShellOf(g, d) :
           /\ Len(word[n]) >= 1
           /\ d[n].up = 0 => \E top \in priv : word[n] = <<top>>
           /\ d[n].up # 0 => d[d[n].up].kind = "dir" /\ word[n] = Append(word[d[n].up], d[n].name)
           /\ WordOf(g, word[n], d[n].kind)
      /\ \A top \in priv : TopShown(g, d, o, word, top)
  BY DEF Shelved, TopShown
<1>4. ASSUME NEW top \in priv PROVE TopShown(g, e, q, word, top)
  <2>1. top \in STRING
    BY <1>3 DEF TopShown
  <2>2. PICK n \in ShellOf(g, d), m \in DOMAIN d :
            /\ word[n] = <<top>> /\ d[n].up = 0
            /\ d[m].up = 1 /\ d[m].name = top /\ d[m].kind = "dir" /\ <<"root", m>> \in DOMAIN o /\ o[<<"root", m>>] = <<"root", n>>
    BY <1>3 DEF TopShown
  <2>3. n \in ShellOf(g, e) /\ m \in DOMAIN e /\ e[n] = d[n] /\ e[m] = d[m]
    BY <1>1, <1>2
  <2>4. PICK l : l = <<"root", m>>
    OBVIOUS
  <2>5. l \in DOMAIN o /\ l[1] = "root" /\ l[2] = m
    BY <2>2, <2>4
  <2>6. l \in DOMAIN q /\ q[l] = <<"root", n>>
    BY <2>2, <2>4, <2>5
  <2> QED
    BY <2>1, <2>2, <2>3, <2>4, <2>6 DEF TopShown
<1>5. \A n \in ShellOf(g, e) :
           /\ Len(word[n]) >= 1
           /\ e[n].up = 0 => \E top \in priv : word[n] = <<top>>
           /\ e[n].up # 0 => e[e[n].up].kind = "dir" /\ word[n] = Append(word[e[n].up], e[n].name)
           /\ WordOf(g, word[n], e[n].kind)
  BY <1>2, <1>3
<1> QED
  BY <1>3, <1>4, <1>5 DEF Shelved, TopShown

\* Layout::directory, the mount point that was missing.
PointMade(g, d, o, ts, priv, word, top, e) ==
  /\ Whole(g, e, o, ts, priv) /\ Shelved(g, e, o, priv, word) /\ More(g, d, word, e, word)
  /\ Len(d) \in Nat /\ Len(e) = Len(d) + 1 /\ Len(d) + 1 \in DOMAIN e /\ e[Len(d) + 1] = C!Node(1, top, "dir", "root")
  /\ <<"root", Len(d) + 1>> \notin DOMAIN o
LEMMA PointStep ==
  ASSUME NEW g, NEW d, NEW o, NEW ts, NEW priv, Whole(g, d, o, ts, priv), NEW word, Shelved(g, d, o, priv, word),
         NEW top \in STRING, C!EntryOf(d, <<"root", 1>>, top) = {},
         NEW e, e = Append(d, C!Node(1, top, "dir", "root"))
  PROVE  PointMade(g, d, o, ts, priv, word, top, e)
<1>0. g \in Inputs /\ Image(d, o) /\ GrewFrom(g, d) /\ Keys(g, d, o, ts, priv) /\ PinsOf(g, d, ts)
  BY DEF Whole
<1>1. PICK v : v = C!Node(1, top, "dir", "root")
  OBVIOUS
<1>2. v.up = 1 /\ v.name = top /\ v.kind = "dir" /\ v.to = <<>> /\ v.layer = "root"
  BY <1>1, NodeIs
<1>3. Fresh(d, v)
  <2>0. <<>> \in Seq(STRING) /\ 1 \in Nat
    OBVIOUS
  <2>1. PICK none \in Seq(STRING), one \in Nat : none = <<>> /\ one = 1
    BY <2>0
  <2>2. v = [up |-> one, name |-> top, kind |-> "dir", to |-> none, layer |-> "root"]
    BY <1>1, <2>1 DEF C!Node
  <2>3. v \in NodeSet
    BY <2>2 DEF NodeSet, C!Kinds, C!Layers
  <2>4. v.up \in 0..Len(d)
    BY <1>0, <1>2 DEF Image
  <2>5. \A m \in DOMAIN d : ~(d[m].up = v.up /\ d[m].name = v.name)
    BY <1>2 DEF C!EntryOf
  <2> QED
    BY <2>3, <2>4, <2>5 DEF Fresh
<1>4. NewNode(g, d, v)
  BY <1>2 DEF NewNode
<1>5. Added(g, d, o, v, e)
  BY <1>0, <1>1, <1>3, <1>4, AddNode
<1>6. PICK new : new = Len(d) + 1
  OBVIOUS
<1>7. /\ Len(d) \in Nat /\ DOMAIN e = DOMAIN d \cup {new} /\ e[new] = v /\ new \notin DOMAIN d /\ (\A m \in DOMAIN d : e[m] = d[m])
      /\ Len(e) = Len(d) + 1 /\ Image(e, o) /\ GrewFrom(g, e)
      /\ new \in News(g, e) /\ News(g, e) = News(g, d) \cup {new} /\ Extends(d, e)
      /\ Hidden(g, d) \subseteq Hidden(g, e) /\ (\A n \in DOMAIN d : n \in Hidden(g, e) => n \in Hidden(g, d))
  BY <1>5, <1>6 DEF Added
<1>8. Whole(g, e, o, ts, priv)
  <2>1. Keys(g, e, o, ts, priv)
    BY <1>0, <1>7, KeysStay
  <2>2. PinsOf(g, e, ts)
    BY <1>0, <1>7, PinsStay
  <2> QED
    BY <1>0, <1>7, <2>1, <2>2 DEF Whole
<1>9. ShellOf(g, e) = ShellOf(g, d)
  BY <1>2, <1>7 DEF ShellOf, News
<1>10. Shelved(g, e, o, priv, word)
  <2>1. DOMAIN d \subseteq DOMAIN e
    BY <1>7
  <2> QED
    BY <1>0, <1>7, <1>9, <2>1, ShelvedStays
<1>11. More(g, d, word, e, word)
  BY <1>2, <1>7, <1>9 DEF More, DevSame
<1>12. <<"root", new>> \notin DOMAIN o
  BY <1>0, <1>7 DEF Image
<1> QED
  BY <1>1, <1>6, <1>7, <1>8, <1>10, <1>11, <1>12 DEF PointMade

\* A directory at the top, looked up without crossing anything.
TopFree(d, o, top, n) == n \in DOMAIN d /\ d[n].up = 1 /\ d[n].name = top /\ d[n].kind = "dir" /\ <<"root", n>> \notin DOMAIN o
TopTaken(d, o, top, n) == n \in DOMAIN d /\ d[n].up = 1 /\ d[n].name = top /\ (d[n].kind # "dir" \/ <<"root", n>> \in DOMAIN o)
CoversWith(d, o, m, e, q) == e = Append(d, C!Node(0, "/", "dir", "shell")) /\ q = C!With(o, <<"root", m>>, <<"root", Len(d) + 1>>)
TopMade(g, d, o, ts, priv, word, top, e, q, new) ==
  /\ new \in DOMAIN e /\ e[new].kind = "dir" /\ Covers(o, q)
  /\ \E w2 : InShelf(g, e, q, ts, priv \cup {top}, w2, new, <<top>>) /\ More(g, d, word, e, w2)

\* Layout::directory, the filesystem that is mounted there.
LEMMA TopStep ==
  ASSUME NEW g, NEW d, NEW o, NEW ts, NEW priv, Whole(g, d, o, ts, priv), NEW word, Shelved(g, d, o, priv, word),
         NEW p \in Wanted(g), NEW top, top = p[1], top \notin priv,
         NEW m, TopFree(d, o, top, m), NEW e, NEW q, CoversWith(d, o, m, e, q), NEW end, end = Len(d) + 1
  PROVE  TopMade(g, d, o, ts, priv, word, top, e, q, end)
<1>a. /\ m \in DOMAIN d /\ d[m].up = 1 /\ d[m].name = top /\ d[m].kind = "dir" /\ <<"root", m>> \notin DOMAIN o
      /\ e = Append(d, C!Node(0, "/", "dir", "shell")) /\ q = C!With(o, <<"root", m>>, <<"root", Len(d) + 1>>)
  BY DEF TopFree, CoversWith
<1> USE <1>a
<1>0. /\ g \in Inputs /\ Image(d, o) /\ GrewFrom(g, d) /\ Keys(g, d, o, ts, priv) /\ PinsOf(g, d, ts)
      /\ "shell" \in C!Layers \ {"root", "output", "stage"} /\ "root" \in C!Views
  BY DEF Whole, C!Layers, C!Views
<1>1. p \in Seq(STRING) /\ Len(p) >= 2 /\ Len(p) \in Nat /\ top \in STRING
  <2>1. p \in Seq(STRING) /\ Len(p) >= 2
    BY <1>0, AppliancePaths
  <2>2. Len(p) \in Nat /\ 1 \in 1..Len(p)
    BY <2>1
  <2> QED
    BY <2>1, <2>2
<1>2. PICK v : v = C!Node(0, "/", "dir", "shell")
  OBVIOUS
<1>3. v.up = 0 /\ v.kind = "dir" /\ v.layer = "shell"
  BY <1>2, NodeIs
<1>4. Fresh(d, v) /\ NewNode(g, d, v)
  BY <1>0, <1>2, AddTop
<1>5. Added(g, d, o, v, e)
  BY <1>0, <1>2, <1>4, AddNode
<1>6. PICK new : new = Len(d) + 1
  OBVIOUS
<1>7. /\ DOMAIN e = DOMAIN d \cup {new} /\ e[new] = v /\ (\A n \in DOMAIN d : e[n] = d[n])
      /\ new \in News(g, e) /\ Grows(g, d, o, e)
  BY <1>5, <1>6, AddedGrows DEF Added
<1>8. PICK l, t : l = <<"root", m>> /\ t = <<"root", new>>
  OBVIOUS
<1>9. /\ l \in C!Views \X DOMAIN e /\ t \in C!Views \X DOMAIN e /\ l[1] = "root" /\ t[1] = "root" /\ l[2] = m /\ t[2] = new
      /\ e[l[2]].kind = "dir" /\ e[t[2]].kind = "dir"
  BY <1>0, <1>3, <1>7, <1>8
<1> DEFINE more == priv \cup {top}
<1>b. priv \subseteq more /\ top \in more
  OBVIOUS
<1> HIDE DEF more
<1>10. new \in Hidden(g, e)
  BY <1>3, <1>7 DEF Hidden
<1>11. KeyGood(g, e, ts, more, l, t)
  BY <1>b, <1>3, <1>7, <1>9, <1>10 DEF KeyGood
<1>12. l \notin DOMAIN o /\ l \notin DOMAIN g.over
  BY <1>0, <1>8 DEF Keys
<1>13. q = C!With(o, l, t)
  BY <1>6, <1>8
<1>14. Whole(g, e, q, ts, more)
  <2>1. Grows(g, d, o, e)
    BY <1>7
  <2> QED
    BY <1>b, <1>9, <1>11, <1>12, <1>13, <2>1, MountStep
<1>15. DOMAIN q = DOMAIN o \cup {l} /\ q[l] = t /\ \A k \in DOMAIN o : q[k] = o[k]
  BY <1>12, <1>13 DEF C!With
<1>16. PICK u : u = <<top>>
  OBVIOUS
<1>17. u \in Seq(STRING) /\ Len(u) = 1 /\ u[1] = top
  BY <1>1, <1>16
<1>18. Shelves(g, d, priv, word, v, u, more)
  <2>1. WordOf(g, u, v.kind)
    <3>1. Len(u) < Len(p) /\ \A i \in 1..Len(u) : p[i] = u[i]
      BY <1>1, <1>17
    <3> QED
      BY <1>3, <3>1 DEF WordOf
  <2>2. ASSUME NEW n \in ShellOf(g, d), word[n] = u PROVE FALSE
    <3>1. CASE d[n].up = 0
      <4>1. PICK other \in priv : word[n] = <<other>>
        BY <3>1 DEF Shelved
      <4>2. other = top
        BY <1>16, <2>2, <4>1
      <4> QED
        BY <4>1, <4>2
    <3>2. CASE d[n].up # 0
      <4>1. n \in Hidden(g, d) /\ n \in DOMAIN d /\ d[n].layer = "shell"
        BY DEF ShellOf, Hidden, News
      <4>2. d[n].up \in Hidden(g, d) /\ d[d[n].up].layer = "shell"
        BY <1>0, <3>2, <4>1, NotHidden
      <4>3. PICK k \in ShellOf(g, d) : k = d[n].up
        BY <4>2 DEF ShellOf, Hidden
      <4>4. u = Append(word[k], d[n].name) /\ Len(word[k]) >= 1 /\ word[k] \in Seq(STRING)
        BY <2>2, <3>2, <4>3 DEF Shelved
      <4>5. d[n].name \in STRING
        BY <1>0, <4>1 DEF Image, C!TreeOf
      <4>6. Len(u) = Len(word[k]) + 1 /\ Len(word[k]) \in Nat
        BY <4>4, <4>5
      <4> QED
        BY <1>17, <4>4, <4>6
    <3> QED
      BY <3>1, <3>2
  <2>3. u = <<top>> /\ top \in more
    BY <1>b, <1>16
  <2> QED
    BY <1>b, <1>3, <1>17, <2>1, <2>2, <2>3 DEF Shelves
<1>19. PICK w2 : w2 = WordsWith(g, d, e, word, u)
  OBVIOUS
<1>20. new \in ShellOf(g, e) /\ w2[new] = u
  BY <1>3, <1>6, <1>7, <1>19 DEF ShellOf, WordsWith
<1>21. TopsShown(g, e, q, w2, more \ priv)
  <2>1. <<"root", m>> \in DOMAIN q /\ q[<<"root", m>>] = <<"root", new>>
    BY <1>8, <1>15
  <2>2. m \in DOMAIN e /\ e[m] = d[m] /\ e[new].up = 0 /\ w2[new] = <<top>>
    BY <1>3, <1>7, <1>16, <1>20
  <2>3. TopShown(g, e, q, w2, top)
    BY <1>1, <1>20, <2>1, <2>2 DEF TopShown
  <2> QED
    BY <2>3 DEF more, TopsShown
<1>22. Shelved(g, e, q, more, w2) /\ More(g, d, word, e, w2) /\ Len(d) + 1 \in ShellOf(g, e) /\ w2[Len(d) + 1] = u
  <2>1. Covers(o, q)
    BY <1>15 DEF Covers
  <2> QED
    BY <1>0, <1>5, <1>18, <1>19, <1>21, <2>1, Shelving
<1>23. InShelf(g, e, q, ts, more, w2, Len(d) + 1, <<top>>)
  BY <1>14, <1>16, <1>22 DEF InShelf
<1> QED
  BY <1>3, <1>6, <1>7, <1>15, <1>22, <1>23 DEF more, TopMade, Covers

\* The beginning of a path.
StartOf(p, k, u) == u \in Seq(STRING) /\ Len(u) = k /\ \A i \in 1..k : u[i] = p[i]
LEMMA StartMore ==
  ASSUME NEW p \in Seq(STRING), NEW k \in Nat, k < Len(p), NEW u, StartOf(p, k, u)
  PROVE  /\ StartOf(p, k + 1, Append(u, p[k + 1])) /\ p[k + 1] \in STRING
         /\ \A v : StartOf(p, k + 1, v) => v = Append(u, p[k + 1])
<1>1. p[k + 1] \in STRING /\ Len(p) \in Nat
  OBVIOUS
<1>2. PICK w \in Seq(STRING) : w = Append(u, p[k + 1])
  <2>1. Append(u, p[k + 1]) \in Seq(STRING)
    BY <1>1 DEF StartOf
  <2> QED
    BY <2>1
<1>3. u \in Seq(STRING) /\ Len(u) = k /\ \A i \in 1..k : u[i] = p[i]
  BY DEF StartOf
<1>4. Len(w) = k + 1 /\ w[k + 1] = p[k + 1] /\ \A i \in 1..k : w[i] = p[i]
  BY <1>1, <1>2, <1>3
<1>5. \A i \in 1..(k + 1) : w[i] = p[i]
  <2>1. ASSUME NEW i \in 1..(k + 1) PROVE w[i] = p[i]
    <3>1. i \in 1..k \/ i = k + 1
      OBVIOUS
    <3> QED
      BY <1>4, <3>1
  <2> QED
    BY <2>1
<1>6. ASSUME NEW v, StartOf(p, k + 1, v) PROVE v = w
  <2>1. v \in Seq(STRING) /\ Len(v) = k + 1 /\ \A i \in 1..(k + 1) : v[i] = p[i]
    BY <1>6 DEF StartOf
  <2> QED
    BY <1>4, <1>5, <2>1
<1> QED
  BY <1>1, <1>2, <1>4, <1>5, <1>6 DEF StartOf

\* Two starts of the same length are the same; a start that is a path is the whole of it.
LEMMA StartIs ==
  ASSUME NEW g, g \in Inputs, NEW p \in Wanted(g), NEW k \in 1..Len(p), NEW u, StartOf(p, k, u), NEW kind, WordOf(g, u, kind)
  PROVE  kind = "file" <=> k = Len(p)
<1>1. PICK x \in Wanted(g) : IF kind = "file" THEN u = x ELSE Len(u) < Len(x) /\ \A i \in 1..Len(u) : x[i] = u[i]
  BY DEF WordOf
<1>2. p \in Seq(STRING) /\ x \in Seq(STRING) /\ Len(p) \in Nat /\ Len(x) \in Nat
  <2>1. p \in Seq(STRING) /\ x \in Seq(STRING)
    BY AppliancePaths
  <2> QED
    BY <2>1
<1>3. u \in Seq(STRING) /\ Len(u) = k /\ \A i \in 1..k : u[i] = p[i]
  BY DEF StartOf
<1>4. CASE kind = "file" /\ k < Len(p)
  <2>1. Len(x) < Len(p) /\ \A i \in 1..Len(x) : x[i] = p[i]
    BY <1>1, <1>3, <1>4
  <2> QED
    BY <2>1, Antichain
<1>5. CASE kind # "file" /\ k = Len(p)
  <2>1. Len(p) < Len(x) /\ \A i \in 1..Len(p) : p[i] = x[i]
    BY <1>1, <1>3, <1>5
  <2> QED
    BY <2>1, Antichain
<1>6. k < Len(p) \/ k = Len(p)
  BY <1>2
<1> QED
  BY <1>4, <1>5, <1>6

\* write_bytes: one name of the path.
Reaches(g, d0, w0, o, ts, priv, p, k, s) ==
  \E word, u :
    /\ InShelf(g, s.disk, o, ts, priv, word, s.at, u) /\ StartOf(p, k, u)
    /\ s.disk[s.at].kind = (IF k = Len(p) THEN "file" ELSE "dir")
    /\ More(g, d0, w0, s.disk, word)
GoesInto(s, p, k, t) == t = C!Into(s, p[k + 1], IF k + 1 = Len(p) THEN "file" ELSE "dir")
LEMMA IntoStep ==
  ASSUME NEW g, NEW d0, NEW w0, Len(d0) \in Nat, NEW o, NEW ts, NEW priv, NEW p \in Wanted(g), NEW k \in 1..(Len(p) - 1), NEW s, Reaches(g, d0, w0, o, ts, priv, p, k, s),
         NEW t, GoesInto(s, p, k, t)
  PROVE  Reaches(g, d0, w0, o, ts, priv, p, k + 1, t)
<1>0. PICK kind : kind = (IF k + 1 = Len(p) THEN "file" ELSE "dir")
  OBVIOUS
<1>1. PICK d, a : d = s.disk /\ a = s.at
  OBVIOUS
<1>2. PICK word, u : /\ InShelf(g, d, o, ts, priv, word, a, u) /\ StartOf(p, k, u)
                     /\ d[a].kind = (IF k = Len(p) THEN "file" ELSE "dir") /\ More(g, d0, w0, d, word)
  BY <1>1 DEF Reaches
<1>3. /\ g \in Inputs /\ Image(d, o) /\ GrewFrom(g, d) /\ Whole(g, d, o, ts, priv) /\ Shelved(g, d, o, priv, word)
      /\ a \in ShellOf(g, d) /\ word[a] = u
  BY <1>2 DEF InShelf, Whole
<1>4. p \in Seq(STRING) /\ Len(p) \in Nat /\ Len(p) >= 2 /\ k \in Nat /\ k >= 1 /\ k < Len(p) /\ k + 1 \in 1..Len(p)
  <2>1. p \in Seq(STRING) /\ Len(p) >= 2
    BY <1>3, AppliancePaths
  <2> QED
    BY <2>1
<1>5. a \in Hidden(g, d) /\ a \in DOMAIN d /\ d[a].layer = "shell" /\ d[a].kind = "dir" /\ a # 0
  <2>1. a \in Hidden(g, d) /\ a \in DOMAIN d /\ d[a].layer = "shell"
    BY <1>3 DEF ShellOf, Hidden, News
  <2> QED
    BY <1>2, <1>3, <1>4, <2>1, NotHidden
<1>6. PICK name \in STRING : name = p[k + 1]
  BY <1>2, <1>4, StartMore
<1>7. PICK u2 : u2 = Append(u, name)
  OBVIOUS
<1>8. StartOf(p, k + 1, u2) /\ u2 \in Seq(STRING) /\ Len(u2) = k + 1
  BY <1>2, <1>4, <1>6, <1>7, StartMore DEF StartOf
<1> DEFINE child == {n \in DOMAIN d : d[n].up = a /\ d[n].name = name}
<1>9. CASE child # {}
  <2>1. PICK n : n = CHOOSE x \in child : TRUE
    OBVIOUS
  <2>2. n \in DOMAIN d /\ d[n].up = a /\ d[n].name = name
    BY <1>9, <2>1
  <2>3. t.disk = d /\ t.at = n
    BY <1>0, <1>1, <1>6, <1>9, <2>1 DEF C!Into, GoesInto
  <2>4. n \in ShellOf(g, d) /\ n \in Hidden(g, d) /\ d[n].kind \in {"dir", "file"}
    <3>1. n \in Hidden(g, d) /\ d[n].layer = "shell"
      BY <1>3, <1>5, <2>2, NotHidden
    <3>2. d[n].kind \in {"dir", "file"}
      BY <1>3, <3>1, NotHidden
    <3> QED
      BY <3>1, <3>2 DEF Hidden, ShellOf
  <2>5. word[n] = u2 /\ WordOf(g, u2, d[n].kind)
    <3>1. word[n] = Append(word[d[n].up], d[n].name) /\ WordOf(g, word[n], d[n].kind)
      BY <1>3, <1>5, <2>2, <2>4 DEF Shelved
    <3>2. word[n] = u2
      BY <1>3, <1>7, <2>2, <3>1
    <3> QED
      BY <3>1, <3>2
  <2>6. d[n].kind = kind
    <3>1. d[n].kind = "file" <=> k + 1 = Len(p)
      BY <1>3, <1>4, <1>8, <2>5, StartIs
    <3> QED
      BY <1>0, <2>4, <3>1
  <2>7. InShelf(g, d, o, ts, priv, word, n, u2)
    BY <1>3, <2>4, <2>5 DEF InShelf
  <2> QED
    BY <1>0, <1>2, <1>8, <2>3, <2>6, <2>7 DEF Reaches
<1>10. CASE child = {}
  <2>1. PICK v, e : v = C!Node(a, name, kind, "shell") /\ e = Append(d, v)
    OBVIOUS
  <2>2. t.disk = e /\ t.at = Len(d) + 1
    BY <1>0, <1>1, <1>6, <1>10, <2>1 DEF C!Into, GoesInto
  <2>3. v.up = a /\ v.name = name /\ v.kind = kind /\ v.layer = "shell"
    BY <2>1, NodeIs
  <2>4. Fresh(d, v) /\ NewNode(g, d, v)
    <3>1. C!EntryOf(d, <<"root", a>>, name) = {}
      BY <1>10 DEF C!EntryOf
    <3>2. "shell" \in C!Layers \ {"root", "output", "stage"} /\ kind \in {"dir", "file"}
      BY <1>0 DEF C!Layers
    <3> QED
      BY <1>3, <1>5, <2>1, <3>1, <3>2, AddBelow
  <2>5. Added(g, d, o, v, e)
    BY <1>3, <2>1, <2>4, AddNode
  <2>6. Shelves(g, d, priv, word, v, u2, priv)
    <3>1. WordOf(g, u2, kind)
      <4>1. CASE k + 1 = Len(p)
        <5>1. u2 = p
          BY <1>4, <1>8, <4>1 DEF StartOf
        <5> QED
          BY <1>0, <4>1, <5>1 DEF WordOf
      <4>2. CASE k + 1 # Len(p)
        <5>1. Len(u2) < Len(p) /\ \A i \in 1..Len(u2) : p[i] = u2[i]
          BY <1>4, <1>8, <4>2 DEF StartOf
        <5> QED
          BY <1>0, <4>2, <5>1 DEF WordOf
      <4> QED
        BY <4>1, <4>2
    <3>2. ASSUME NEW n \in ShellOf(g, d), word[n] = u2 PROVE FALSE
      <4>0. n \in Hidden(g, d) /\ n \in DOMAIN d /\ d[n].layer = "shell"
        BY DEF ShellOf, Hidden, News
      <4>1. CASE d[n].up = 0
        <5>1. PICK top : word[n] = <<top>>
          BY <4>1, <1>3 DEF Shelved
        <5>2. Len(u2) = 1
          BY <3>2, <5>1
        <5>3. PICK j \in Nat : j = k /\ j >= 1
          BY <1>4
        <5>4. Len(u2) = j + 1
          BY <1>8, <5>3
        <5>5. j + 1 # 1
          BY <5>3
        <5> QED
          BY <5>2, <5>4, <5>5
      <4>2. CASE d[n].up # 0
        <5>1. PICK b \in ShellOf(g, d) : b = d[n].up
          <6>1. d[n].up \in Hidden(g, d) /\ d[d[n].up].layer = "shell"
            BY <1>3, <4>0, <4>2, NotHidden
          <6> QED
            BY <6>1 DEF ShellOf, Hidden
        <5>2. u2 = Append(word[b], d[n].name) /\ word[b] \in Seq(STRING) /\ u \in Seq(STRING)
          BY <1>3, <3>2, <4>2, <5>1 DEF Shelved
        <5>3. d[n].name \in STRING
          BY <1>3, <4>0 DEF Image, C!TreeOf
        <5>4. word[b] = u /\ d[n].name = name
          <6>1. LongerBy(u2, u, name) /\ LongerBy(u2, word[b], d[n].name)
            BY <1>7, <5>2, <5>3 DEF LongerBy
          <6> QED
            BY <6>1, AppendOnce
        <5>5. b = a
          BY <1>3, <5>1, <5>4 DEF Shelved
        <5> QED
          BY <1>10, <4>0, <5>1, <5>4, <5>5
      <4> QED
        BY <4>1, <4>2
    <3>3. u2 = Append(word[a], name)
      BY <1>3, <1>7
    <3>4. Len(u2) >= 1
      BY <1>4, <1>8
    <3> QED
      BY <1>3, <1>5, <1>8, <2>3, <3>1, <3>2, <3>3, <3>4 DEF Shelves
  <2>7. PICK w2 : w2 = WordsWith(g, d, e, word, u2)
    OBVIOUS
  <2>8. Shelved(g, e, o, priv, w2) /\ More(g, d, word, e, w2) /\ Len(d) + 1 \in ShellOf(g, e) /\ w2[Len(d) + 1] = u2
    <3>1. Covers(o, o)
      BY DEF Covers
    <3>2. PICK more : more = priv
      OBVIOUS
    <3>3. TopsShown(g, e, o, w2, more \ priv) /\ Shelves(g, d, priv, word, v, u2, more)
      BY <2>6, <3>2 DEF TopsShown
    <3>4. Shelved(g, e, o, more, w2) /\ More(g, d, word, e, w2) /\ Len(d) + 1 \in ShellOf(g, e) /\ w2[Len(d) + 1] = u2
      <4>1. PICK q : q = o
        OBVIOUS
      <4>2. /\ g \in Inputs /\ Image(d, o) /\ GrewFrom(g, d) /\ Added(g, d, o, v, e) /\ Shelved(g, d, o, priv, word)
            /\ Shelves(g, d, priv, word, v, u2, more) /\ Covers(o, q) /\ w2 = WordsWith(g, d, e, word, u2)
            /\ TopsShown(g, e, q, w2, more \ priv)
        BY <1>3, <2>5, <2>7, <3>1, <3>3, <4>1
      <4>3. Shelved(g, e, q, more, w2) /\ More(g, d, word, e, w2) /\ Len(d) + 1 \in ShellOf(g, e) /\ w2[Len(d) + 1] = u2
        BY <4>2, Shelving
      <4> QED
        BY <4>1, <4>3
    <3> QED
      BY <3>2, <3>4
  <2>9. Whole(g, e, o, ts, priv)
    <3>1. Image(e, o) /\ GrewFrom(g, e) /\ Extends(d, e) /\ Hidden(g, d) \subseteq Hidden(g, e) /\ \A n \in DOMAIN d : n \in Hidden(g, e) => n \in Hidden(g, d)
      BY <2>5 DEF Added
    <3>2. Keys(g, d, o, ts, priv) /\ PinsOf(g, d, ts)
      BY <1>3 DEF Whole
    <3>3. Keys(g, e, o, ts, priv)
      BY <1>3, <3>1, <3>2, KeysStay
    <3>4. PinsOf(g, e, ts)
      BY <1>3, <3>1, <3>2, PinsStay
    <3> QED
      BY <1>3, <3>1, <3>3, <3>4 DEF Whole
  <2>10. InShelf(g, e, o, ts, priv, w2, Len(d) + 1, u2)
    BY <2>8, <2>9 DEF InShelf
  <2>11. e[Len(d) + 1].kind = kind
    BY <2>3, <2>5 DEF Added
  <2>12. More(g, d0, w0, e, w2)
    <3>1. Len(d) \in Nat /\ Len(e) \in Nat
      BY <2>5 DEF Added
    <3> QED
      BY <1>2, <2>8, <3>1, MoreStill
  <2> QED
    BY <1>0, <1>8, <2>2, <2>10, <2>11, <2>12 DEF Reaches
<1> QED
  BY <1>9, <1>10

\* write_bytes: what is there after each name of the path.
Trees == [disk : Seq(NodeSet), at : Nat]
LEMMA IntoKeeps ==
  ASSUME NEW s \in Trees, NEW name \in STRING, NEW kind \in C!Kinds
  PROVE  C!Into(s, name, kind) \in Trees
<1>1. PICK d, a : d = s.disk /\ a = s.at
  OBVIOUS
<1>2. d \in Seq(NodeSet) /\ a \in Nat /\ DOMAIN d \subseteq Nat /\ Len(d) \in Nat
  BY <1>1 DEF Trees
<1> DEFINE child == {n \in DOMAIN d : d[n].up = a /\ d[n].name = name}
<1>3. CASE child # {}
  <2>1. PICK n : n = CHOOSE x \in child : TRUE
    OBVIOUS
  <2>2. n \in Nat
    BY <1>2, <1>3, <2>1
  <2>3. C!Into(s, name, kind) = [disk |-> d, at |-> n]
    BY <1>1, <1>3, <2>1 DEF C!Into
  <2> QED
    BY <1>2, <2>2, <2>3 DEF Trees
<1>4. CASE child = {}
  <2>1. PICK v, e : v = C!Node(a, name, kind, "shell") /\ e = Append(d, v)
    OBVIOUS
  <2>2. v \in NodeSet
    <3>1. <<>> \in Seq(STRING) /\ "shell" \in C!Layers
      BY DEF C!Layers
    <3>2. PICK none \in Seq(STRING) : none = <<>>
      BY <3>1
    <3>3. v = [up |-> a, name |-> name, kind |-> kind, to |-> none, layer |-> "shell"]
      BY <2>1, <3>2 DEF C!Node
    <3> QED
      BY <1>2, <3>1, <3>3 DEF NodeSet
  <2>3. e \in Seq(NodeSet)
    BY <1>2, <2>1, <2>2, Longer
  <2>4. C!Into(s, name, kind) = [disk |-> e, at |-> Len(d) + 1]
    BY <1>1, <1>4, <2>1 DEF C!Into
  <2>5. Len(d) + 1 \in Nat
    BY <1>2
  <2> QED
    BY <2>3, <2>4, <2>5 DEF Trees
<1> QED
  BY <1>3, <1>4

Downward(d, top, path, down) ==
  /\ down[0] = [disk |-> d, at |-> top]
  /\ \A i \in 1..Len(path) : down[i] = C!Into(down[i - 1], path[i], IF i = Len(path) THEN "file" ELSE "dir")
  /\ C!Written(d, top, path) = down[Len(path)].disk
LEMMA WrittenIs ==
  ASSUME NEW d \in Seq(NodeSet), NEW top \in Nat, NEW path \in Seq(STRING)
  PROVE  \E down : Downward(d, top, path, down)
<1> DEFINE X == 0..Len(path)
           kind(i) == IF i = Len(path) THEN "file" ELSE "dir"
           T == {0}
           first == [disk |-> d, at |-> top]
           val == [x \in T |-> first]
           up == [x \in Int |-> x - 1]
           comb == [xv \in X \X Trees |-> C!Into(xv[2], path[xv[1]], kind(xv[1]))]
<1>1. Len(path) \in Nat /\ first \in Trees /\ \A i \in X : kind(i) \in C!Kinds
  BY DEF Trees, C!Kinds
<1> HIDE DEF first, kind
<1>2. \A x \in X \cap T : val[x] \in Trees
  BY <1>1
<1>3. \A x \in X \ T : up[x] \in X /\ up[x] = x - 1 /\ x - 1 \in X /\ path[x] \in STRING
  BY <1>1
<1>4. \A x \in X \ T, v \in Trees : comb[<<x, v>>] = C!Into(v, path[x], kind(x)) /\ comb[<<x, v>>] \in Trees
  <2>1. ASSUME NEW x \in X \ T, NEW v \in Trees PROVE comb[<<x, v>>] = C!Into(v, path[x], kind(x)) /\ comb[<<x, v>>] \in Trees
    <3>1. comb[<<x, v>>] = C!Into(v, path[x], kind(x))
      OBVIOUS
    <3>2. path[x] \in STRING /\ kind(x) \in C!Kinds
      BY <1>1, <1>3
    <3> QED
      BY <3>1, <3>2, IntoKeeps
  <2> QED
    BY <2>1
<1>5. ASSUME NEW S \in SUBSET X, S # {} PROVE \E x \in S : x \in T \/ up[x] \notin S
  <2>1. S \subseteq Nat
    BY <1>1
  <2>2. PICK x \in S : \A y \in S : x <= y
    BY <1>5, <2>1, LeastNumber
  <2>3. x \notin T => up[x] \notin S
    BY <2>1, <2>2
  <2> QED
    BY <2>3
<1> HIDE DEF up, comb, val
<1>6. Ends(X, T, up, Trees, val, comb)
  BY <1>2, <1>3, <1>4, <1>5 DEF Ends
<1>7. PICK f \in [X -> Trees] : f = [x \in X |-> IF x \in T THEN val[x] ELSE comb[<<x, f[up[x]]>>]]
  BY <1>6, RecursionExists
<1> DEFINE body(h, i) == IF i = 0 THEN first ELSE C!Into(h[i - 1], path[i], kind(i))
<1>8. ASSUME NEW x \in X PROVE f[x] = body(f, x)
  <2>1. CASE x = 0
    BY <1>1, <1>7, <2>1 DEF val
  <2>2. CASE x # 0
    <3>1. f[x] = comb[<<x, f[up[x]]>>]
      BY <1>7, <2>2
    <3>2. up[x] = x - 1 /\ x - 1 \in X /\ x \in X \ T
      BY <1>3, <2>2
    <3>3. f[x - 1] \in Trees
      BY <1>7, <3>2
    <3> QED
      BY <1>4, <2>2, <3>1, <3>2, <3>3
  <2> QED
    BY <2>1, <2>2
<1>9. f = [x \in X |-> body(f, x)]
  BY <1>7, <1>8
<1> DEFINE down == CHOOSE h : h = [x \in X |-> body(h, x)]
<1> HIDE DEF body
<1>10. down = [x \in X |-> body(down, x)]
  BY <1>9
<1>11. C!Written(d, top, path) = down[Len(path)].disk
  BY DEF C!Written, body, first, kind
<1> HIDE DEF down
<1>12. \A x \in X : down[x] = body(down, x)
  BY <1>10
<1>13. down[0] = [disk |-> d, at |-> top]
  <2>1. 0 \in X
    BY <1>1
  <2> QED
    BY <1>12, <2>1 DEF body, first
<1>14. \A i \in 1..Len(path) : down[i] = C!Into(down[i - 1], path[i], IF i = Len(path) THEN "file" ELSE "dir")
  <2>1. \A i \in 1..Len(path) : i \in X /\ i # 0
    BY <1>1
  <2> QED
    BY <1>12, <2>1 DEF body, kind
<1> QED
  BY <1>11, <1>13, <1>14 DEF Downward

\* So the whole path is there in the end.
LEMMA WrittenStep ==
  ASSUME NEW g, NEW d0, NEW w0, Len(d0) \in Nat, NEW o, NEW ts, NEW priv, NEW p \in Wanted(g), NEW d, NEW top,
         Reaches(g, d0, w0, o, ts, priv, p, 1, [disk |-> d, at |-> top])
  PROVE  \E word : /\ Whole(g, C!Written(d, top, Tail(p)), o, ts, priv) /\ Shelved(g, C!Written(d, top, Tail(p)), o, priv, word)
                   /\ More(g, d0, w0, C!Written(d, top, Tail(p)), word) /\ InPlace(g, C!Written(d, top, Tail(p)), word, p)
<1>1. PICK s : s = [disk |-> d, at |-> top]
  OBVIOUS
<1>2. s.disk = d /\ s.at = top /\ Reaches(g, d0, w0, o, ts, priv, p, 1, s)
  BY <1>1
<1>3. g \in Inputs /\ d \in Seq(NodeSet) /\ top \in Nat
  BY <1>2 DEF Reaches, InShelf, Whole, GrewFrom, ShellOf, News, Image
<1>4. p \in Seq(STRING) /\ Len(p) >= 2 /\ Len(p) \in Nat
  <2>1. p \in Seq(STRING) /\ Len(p) >= 2
    BY <1>3, AppliancePaths
  <2> QED
    BY <2>1
<1>5. PICK path \in Seq(STRING) : path = Tail(p) /\ Len(path) = Len(p) - 1 /\ \A i \in 1..Len(path) : path[i] = p[i + 1]
  <2>1. p # <<>>
    BY <1>4
  <2> QED
    <3>1. Tail(p) \in Seq(STRING) /\ Len(Tail(p)) = Len(p) - 1 /\ \A i \in 1..(Len(p) - 1) : Tail(p)[i] = p[i + 1]
      BY <1>4, <2>1
    <3> QED
      BY <3>1
<1>6. PICK down : Downward(d, top, path, down)
  BY <1>3, WrittenIs
<1>7. ASSUME NEW i \in 1..Len(path), Reaches(g, d0, w0, o, ts, priv, p, i, down[i - 1]) PROVE Reaches(g, d0, w0, o, ts, priv, p, i + 1, down[i])
  <2>1. i \in 1..(Len(p) - 1) /\ (i = Len(path) <=> i + 1 = Len(p)) /\ path[i] = p[i + 1]
    BY <1>4, <1>5
  <2>2. down[i] = C!Into(down[i - 1], path[i], IF i = Len(path) THEN "file" ELSE "dir")
    BY <1>6 DEF Downward
  <2>3. GoesInto(down[i - 1], p, i, down[i])
    BY <2>1, <2>2 DEF GoesInto
  <2> QED
    BY <1>7, <2>1, <2>3, IntoStep
<1>8. Reaches(g, d0, w0, o, ts, priv, p, 1, down[0])
  BY <1>1, <1>2, <1>6 DEF Downward
<1>9. \A i \in 0..Len(path) : Reaches(g, d0, w0, o, ts, priv, p, i + 1, down[i])
  <2> DEFINE Bad == {i \in 0..Len(path) : ~Reaches(g, d0, w0, o, ts, priv, p, i + 1, down[i])}
  <2> SUFFICES ASSUME Bad # {} PROVE FALSE
    OBVIOUS
  <2>1. Bad \subseteq Nat
    BY <1>5
  <2>2. PICK i \in Bad : \A j \in Bad : i <= j
    BY <2>1, LeastNumber
  <2>3. i # 0
    BY <1>8
  <2>4. i \in 1..Len(path) /\ i - 1 \in 0..Len(path) /\ i - 1 \notin Bad /\ (i - 1) + 1 = i
    BY <1>5, <2>2, <2>3
  <2>5. Reaches(g, d0, w0, o, ts, priv, p, i, down[i - 1])
    BY <2>4
  <2> QED
    BY <1>7, <2>4, <2>5
<1>10. PICK t, e : t = down[Len(path)] /\ e = t.disk
  OBVIOUS
<1>11. Reaches(g, d0, w0, o, ts, priv, p, Len(p), t)
  <2>1. Len(path) \in 0..Len(path) /\ Len(path) + 1 = Len(p)
    BY <1>4, <1>5
  <2> QED
    BY <1>9, <1>10, <2>1
<1>12. C!Written(d, top, Tail(p)) = e
  BY <1>5, <1>6, <1>10 DEF Downward
<1>13. PICK word, u : /\ InShelf(g, e, o, ts, priv, word, t.at, u) /\ StartOf(p, Len(p), u)
                      /\ e[t.at].kind = (IF Len(p) = Len(p) THEN "file" ELSE "dir") /\ More(g, d0, w0, e, word)
  BY <1>10, <1>11 DEF Reaches
<1>14. u = p
  BY <1>4, <1>13 DEF StartOf
<1>15. InPlace(g, e, word, p)
  BY <1>13, <1>14 DEF InShelf, InPlace
<1> QED
  BY <1>12, <1>13, <1>15 DEF InShelf

LEMMA TopFound ==
  ASSUME Image(disk, over), NEW top \in STRING, NEW found, found = C!OpenDir(C!Root, <<top>>, {})
  PROVE  \/ found.err = "NOENT" /\ C!EntryOf(disk, <<"root", 1>>, top) = {}
         \/ found.err = "ok" /\ \E n : TopFree(disk, over, top, n) /\ found.at = <<"root", n>>
         \/ found.err \notin {"ok", "NOENT"} /\ \E n : TopTaken(disk, over, top, n)
<1>1. C!Root = <<"root", 1>> /\ C!TopOf("root") = <<"root", 1>> /\ C!TopOf("root")[2] = 1 /\ "root" \in C!Views
  BY DEF C!Root, C!TopOf, C!Views
<1>2. PICK r : r = C!OpenIn(disk, over, C!TopOf("root"), <<top>>, {})
  OBVIOUS
<1>3. found = IF r.err = "ok" /\ disk[r.at[2]].kind # "dir" THEN C!Error("NOTDIR") ELSE r
  BY <1>1, <1>2 DEF C!OpenDir, C!Open, C!Kind
<1>4. \A e : C!Error(e).err = e
  BY DEF C!Error
<1>5. CASE C!EntryOf(disk, <<"root", 1>>, top) = {}
  <2>1. r = C!Error("NOENT")
    BY <1>1, <1>2, <1>5, OpenIs
  <2> QED
    BY <1>3, <1>4, <1>5, <2>1
<1>6. CASE C!EntryOf(disk, <<"root", 1>>, top) # {}
  <2>1. PICK n \in DOMAIN disk : disk[n].up = 1 /\ disk[n].name = top
    BY <1>6 DEF C!EntryOf
  <2>2. "links" \notin {} /\ "mounts" \notin {}
    OBVIOUS
  <2>3. CASE disk[n].kind = "link"
    <3>1. r = C!Error("LOOP")
      BY <1>1, <1>2, <2>1, <2>2, <2>3, OpenIs
    <3>2. TopTaken(disk, over, top, n)
      BY <2>1, <2>3 DEF TopTaken
    <3> QED
      BY <1>3, <1>4, <3>1, <3>2
  <2>4. CASE disk[n].kind # "link" /\ <<"root", n>> \in DOMAIN over
    <3>1. r = C!Error("XDEV")
      BY <1>1, <1>2, <2>1, <2>2, <2>4, OpenIs
    <3>2. TopTaken(disk, over, top, n)
      BY <2>1, <2>4 DEF TopTaken
    <3> QED
      BY <1>3, <1>4, <3>1, <3>2
  <2>5. CASE disk[n].kind # "link" /\ <<"root", n>> \notin DOMAIN over
    <3>1. r = C!Found(C!Cross(over, <<"root", n>>))
      BY <1>1, <1>2, <2>1, <2>2, <2>5, OpenIs
    <3>2. r.err = "ok" /\ r.at = <<"root", n>> /\ r.at[2] = n
      BY <2>5, <3>1 DEF C!Found, C!Cross
    <3>3. CASE disk[n].kind = "dir"
      <4>1. TopFree(disk, over, top, n)
        BY <2>1, <2>5, <3>3 DEF TopFree
      <4> QED
        BY <1>3, <3>2, <3>3, <4>1
    <3>4. CASE disk[n].kind # "dir"
      <4>1. TopTaken(disk, over, top, n)
        BY <2>1, <3>4 DEF TopTaken
      <4> QED
        BY <1>3, <1>4, <3>2, <3>4, <4>1
    <3> QED
      BY <3>3, <3>4
  <2> QED
    BY <2>3, <2>4, <2>5
<1> QED
  BY <1>5, <1>6

LEMMA TwoOrMore ==
  ASSUME NEW p \in Seq(STRING), Len(p) >= 2
  PROVE  Len(p) # 1 /\ Len(p) \in Nat /\ p[1] \in STRING /\ p[2] \in STRING
<1>1. Len(p) \in Nat
  OBVIOUS
<1>2. 1 \in 1..Len(p) /\ 2 \in 1..Len(p)
  BY <1>1
<1>3. p[1] \in STRING /\ p[2] \in STRING
  BY <1>2
<1>4. ASSUME NEW len \in Nat, len >= 2
      PROVE  len # 1
  BY <1>4
<1>5. Len(p) # 1
  BY <1>1, <1>4
<1> QED
  BY <1>1, <1>3, <1>5

\* Layout::directory
LEMMA CoverStep ==
  ASSUME Whole(given, disk, over, targets, private), NEW word, Shelved(given, disk, over, private, word),
         NEW p \in Wanted(given), NEW c, c = C!Covered(p[1]), c.err = "ok"
  PROVE  /\ Reaches(given, disk, word, c.over, targets, private \cup {p[1]}, p, 1, [disk |-> c.disk, at |-> c.at[2]])
         /\ Covers(over, c.over)
<1>0. given \in Inputs /\ Image(disk, over) /\ GrewFrom(given, disk)
  BY DEF Whole
<1>1. PICK top : top = p[1]
  OBVIOUS
<1>2. p \in Seq(STRING) /\ Len(p) >= 2 /\ Len(p) \in Nat /\ top \in STRING
  <2>1. p \in Seq(STRING) /\ Len(p) >= 2
    BY <1>0, AppliancePaths
  <2>2. Len(p) \in Nat /\ 1 \in 1..Len(p)
    BY <2>1
  <2> QED
    BY <1>1, <2>1, <2>2
<1>3. PICK u : u = <<top>>
  OBVIOUS
<1>4. StartOf(p, 1, u) /\ 1 # Len(p)
  <2>1. u \in Seq(STRING) /\ Len(u) = 1 /\ u[1] = top
    BY <1>2, <1>3
  <2>2. \A i \in 1..1 : u[i] = p[i]
    <3> TAKE i \in 1..1
    <3>1. i = 1
      OBVIOUS
    <3> QED
      BY <1>1, <2>1, <3>1
  <2>3. 1 # Len(p)
    BY <1>2, TwoOrMore
  <2> QED
    BY <2>1, <2>2, <2>3 DEF StartOf
<1>5. ASSUME NEW w2, NEW d, NEW o, NEW a, InShelf(given, d, o, targets, private \cup {top}, w2, a, u), d[a].kind = "dir", More(given, disk, word, d, w2)
      PROVE  Reaches(given, disk, word, o, targets, private \cup {top}, p, 1, [disk |-> d, at |-> a])
  <2>1. PICK s : s = [disk |-> d, at |-> a]
    OBVIOUS
  <2>2. s.disk = d /\ s.at = a
    BY <2>1
  <2>3. Reaches(given, disk, word, o, targets, private \cup {top}, p, 1, s)
    BY <1>4, <1>5, <2>2 DEF Reaches
  <2> QED
    BY <2>1, <2>3
<1>6. C!Root = <<"root", 1>> /\ C!TopOf("root") = <<"root", 1>> /\ C!TopOf("root")[2] = 1 /\ "root" \in C!Views
  BY DEF C!Root, C!TopOf, C!Views
<1>7. CASE top \in private
  <2>1. TopShown(given, disk, over, word, top)
    BY <1>7 DEF Shelved, TopShown
  <2>2. PICK n \in ShellOf(given, disk), m \in DOMAIN disk :
           /\ word[n] = <<top>> /\ disk[n].up = 0
           /\ disk[m].up = 1 /\ disk[m].name = top /\ disk[m].kind = "dir" /\ <<"root", m>> \in DOMAIN over /\ over[<<"root", m>>] = <<"root", n>>
    BY <2>1 DEF TopShown
  <2>3. PICK r : r = C!OpenIn(disk, over, C!TopOf("root"), <<top>>, {"mounts"})
    OBVIOUS
  <2>4. r = C!Found(C!Cross(over, <<"root", m>>))
    <3>1. "mounts" \in {"mounts"} /\ disk[m].kind # "link"
      BY <2>2
    <3> QED
      BY <1>0, <1>2, <1>6, <2>2, <2>3, <3>1, OpenIs
  <2>5. r.err = "ok" /\ r.at = <<"root", n>> /\ r.at[2] = n
    BY <2>2, <2>4 DEF C!Found, C!Cross
  <2>6. disk[n].kind = "dir"
    <3>1. PICK l \in DOMAIN over : l = <<"root", m>>
      BY <2>2
    <3>2. over[l][2] = n
      BY <2>2, <3>1
    <3> QED
      BY <1>0, <3>2 DEF Image
  <2>7. C!OpenDir(C!Root, <<top>>, {"mounts"}) = r
    BY <1>6, <2>3, <2>5, <2>6 DEF C!OpenDir, C!Open, C!Kind
  <2>8. c.disk = disk /\ c.over = over /\ c.at = <<"root", n>> /\ c.at[2] = n
    BY <1>1, <1>7, <2>5, <2>7 DEF C!Covered
  <2>9. private \cup {top} = private
    BY <1>7
  <2>10. InShelf(given, disk, over, targets, private \cup {top}, word, n, u)
    BY <1>3, <2>2, <2>9 DEF InShelf
  <2>11. More(given, disk, word, disk, word)
    BY <1>0 DEF More, Extends, DevSame, Image
  <2>12. Covers(over, over)
    BY DEF Covers
  <2> QED
    BY <1>1, <1>5, <2>6, <2>8, <2>10, <2>11, <2>12
<1>8. CASE top \notin private
  <2>1. PICK found : found = C!OpenDir(C!Root, <<top>>, {})
    OBVIOUS
  <2>2. found.err \in {"ok", "NOENT"}
    BY <1>1, <1>8, <2>1 DEF C!Covered
  <2>3. ASSUME NEW d, NEW w, NEW m \in DOMAIN d, Whole(given, d, over, targets, private), Shelved(given, d, over, private, w),
               d[m].up = 1, d[m].name = top, d[m].kind = "dir", <<"root", m>> \notin DOMAIN over, More(given, disk, word, d, w), w = word,
               c.disk = Append(d, C!Node(0, "/", "dir", "shell")), c.over = C!With(over, <<"root", m>>, <<"root", Len(d) + 1>>),
               c.at = <<"root", Len(d) + 1>>
        PROVE  Reaches(given, disk, word, c.over, targets, private \cup {top}, p, 1, [disk |-> c.disk, at |-> c.at[2]]) /\ Covers(over, c.over)
    <3>1. PICK e, q, new : e = c.disk /\ q = c.over /\ new = Len(d) + 1
      OBVIOUS
    <3>a. TopFree(d, over, top, m) /\ CoversWith(d, over, m, e, q)
      BY <2>3, <3>1 DEF TopFree, CoversWith
    <3>b. TopMade(given, d, over, targets, private, w, top, e, q, new)
      BY <1>1, <1>8, <2>3, <3>1, <3>a, TopStep
    <3>2. new \in DOMAIN e /\ e[new].kind = "dir" /\ Covers(over, q)
      BY <3>b DEF TopMade
    <3>3. PICK w2 : InShelf(given, e, q, targets, private \cup {top}, w2, new, u) /\ More(given, d, w, e, w2)
      BY <1>3, <3>b DEF TopMade
    <3>4. More(given, disk, word, e, w2)
      <4>1. Len(disk) \in Nat /\ Len(d) \in Nat /\ Len(e) \in Nat
        BY <1>0, <2>3, <3>3 DEF Image, Whole, InShelf
      <4> QED
        BY <2>3, <3>3, <4>1, MoreStill
    <3>5. Reaches(given, disk, word, q, targets, private \cup {top}, p, 1, [disk |-> e, at |-> new])
      BY <1>5, <3>1, <3>2, <3>3, <3>4
    <3>6. c.at[2] = new
      BY <2>3, <3>1
    <3> QED
      BY <3>1, <3>2, <3>5, <3>6
  <2>4. CASE found.err = "NOENT"
    <3>1. C!EntryOf(disk, <<"root", 1>>, top) = {}
      BY <1>0, <1>2, <2>1, <2>4, TopFound
    <3>2. PICK d : d = Append(disk, C!Node(1, top, "dir", "root"))
      OBVIOUS
    <3>3. PICK m : m = Len(disk) + 1
      OBVIOUS
    <3>4. /\ Whole(given, d, over, targets, private) /\ Shelved(given, d, over, private, word) /\ More(given, disk, word, d, word)
          /\ m \in DOMAIN d /\ d[m] = C!Node(1, top, "dir", "root") /\ <<"root", m>> \notin DOMAIN over
      <4>1. PointMade(given, disk, over, targets, private, word, top, d)
        BY <1>2, <3>1, <3>2, PointStep
      <4> QED
        BY <3>3, <4>1 DEF PointMade
    <3>5. d[m].up = 1 /\ d[m].name = top /\ d[m].kind = "dir"
      BY <3>4, NodeIs
    <3>6. /\ c.disk = Append(d, C!Node(0, "/", "dir", "shell")) /\ c.over = C!With(over, <<"root", m>>, <<"root", Len(d) + 1>>)
          /\ c.at = <<"root", Len(d) + 1>>
      BY <1>1, <1>8, <2>1, <2>4, <3>2, <3>3 DEF C!Covered
    <3> QED
      BY <1>1, <2>3, <3>4, <3>5, <3>6
  <2>5. CASE found.err = "ok"
    <3>1. PICK m : TopFree(disk, over, top, m) /\ found.at = <<"root", m>>
      BY <1>0, <1>2, <2>1, <2>5, TopFound
    <3>2. /\ c.disk = Append(disk, C!Node(0, "/", "dir", "shell")) /\ c.over = C!With(over, <<"root", m>>, <<"root", Len(disk) + 1>>)
          /\ c.at = <<"root", Len(disk) + 1>>
      BY <1>1, <1>8, <2>1, <2>5, <3>1 DEF C!Covered
    <3>3. More(given, disk, word, disk, word)
      BY <1>0 DEF More, Extends, DevSame, Image
    <3> QED
      BY <1>1, <2>3, <3>1, <3>2, <3>3 DEF TopFree
  <2> QED
    BY <2>2, <2>4, <2>5
<1> QED
  BY <1>7, <1>8

\* Layout::place
LEMMA PlaceStep ==
  ASSUME Whole(given, disk, over, targets, private), NEW word, Shelved(given, disk, over, private, word),
         NEW p \in Wanted(given), NEW c, c = C!Covered(Head(p)), c.err = "ok",
         NEW e, e = C!Written(c.disk, c.at[2], Tail(p)), NEW more, more = private \cup {Head(p)}
  PROVE  \E w2 : /\ Whole(given, e, c.over, targets, more) /\ Shelved(given, e, c.over, more, w2)
                 /\ More(given, disk, word, e, w2) /\ InPlace(given, e, w2, p) /\ Covers(over, c.over)
<1>1. Head(p) = p[1]
  OBVIOUS
<1>2. PICK s : s = [disk |-> c.disk, at |-> c.at[2]]
  OBVIOUS
<1>3. Reaches(given, disk, word, c.over, targets, more, p, 1, s) /\ Covers(over, c.over)
  BY <1>1, <1>2, CoverStep
<1>4. Len(disk) \in Nat
  BY DEF Whole, Image
<1>5. Reaches(given, disk, word, c.over, targets, more, p, 1, [disk |-> c.disk, at |-> c.at[2]])
  BY <1>2, <1>3
<1> QED
  BY <1>3, <1>4, <1>5, WrittenStep

-----------------------------------------------------------------------------
(* The setup, step by step *)

Start3 == <<"start", "root", "command">>
Shell3 == <<"shell", "root", "sh">>
Place3(p) == <<"place", "root", p>>

\* The private shell is being put in, or is not needed.
Shelf ==
  \E word :
    /\ Shelved(given, disk, over, private, word)
    /\ \/ Holds(todo, Shell3)
       \/ private = {} /\ C!ShellPresent /\ Later(todo, 31)
       \/ Later(todo, 30) /\ \A p \in Wanted(given) : Holds(todo, Place3(p)) \/ InPlace(given, disk, word, p)

Going ==
  /\ Spans(todo, 0, 34, Legal(given))
  /\ Holds(todo, Shell3) => \A op : Holds(todo, op) => op[1] # "place"
  /\ phase \in {"setup", "started", "failed"} /\ fault \in BOOLEAN /\ loose = {}
  /\ phase = "setup" => Holds(todo, Start3)
  /\ phase = "started" => todo = <<>> /\ C!Shows("root", <<"proc">>) = "proc"

\* An image that is never refused.
PlainTop(g, view, name) ==
  \A n \in DOMAIN g.disk : g.disk[n].up = C!TopOf(view)[2] /\ g.disk[n].name = name => g.disk[n].kind = "dir" /\ <<view, n>> \notin DOMAIN g.over
Bare(g) ==
  /\ \A view \in C!Views, name \in Names3 : PlainTop(g, view, name)
  /\ \A p \in Wanted(g) : PlainTop(g, "root", Head(p))
  /\ \A n \in DOMAIN g.disk : g.disk[n].name \in {"sh", "cat"} => g.disk[n].kind = "file"
Refused == phase = "failed" /\ ~fault /\ ~given.extra => ~Bare(given)

\* What is there and where it shows; what the steps that are done have left, and those to
\* come have not touched; where the shell's files are; what is still to be done; and that
\* an ordinary image has not been refused.
RootInv ==
  /\ Whole(given, disk, over, targets, private) /\ Progress(given, disk, over, targets, todo)
  /\ Untouched(given, disk, over, private, todo)
  /\ Shelf /\ Going /\ Refused

\* What is left after the first step.
LEMMA Remains ==
  ASSUME NEW A, NEW p, Spans(p, 0, 34, A), NEW h, First(p, h)
  PROVE  /\ Spans(Tail(p), 0, 34, A) /\ h \in A /\ Holds(p, h) /\ Rank(h) \in 0..33
         /\ \A op : Holds(p, op) => op = h \/ Holds(Tail(p), op)
         /\ \A op : Holds(Tail(p), op) => Holds(p, op) /\ Earlier(h, op)
         /\ \A op : Holds(p, op) => op = h \/ Earlier(h, op)
<1>1. p # <<>> /\ Head(p) = h /\ p \in Seq(A)
  BY DEF First, Spans
<1>2. /\ Spans(Tail(p), 0, 34, A) /\ h \in A
      /\ \A op : Holds(p, op) => op = h \/ Holds(Tail(p), op)
      /\ \A op : Holds(Tail(p), op) => Holds(p, op) /\ Earlier(h, op)
  BY <1>1, Advance
<1>3. Holds(p, h)
  <2>1. 1 \in DOMAIN p /\ p[1] = h
    BY <1>1
  <2> QED
    BY <2>1 DEF Holds
<1>4. Rank(h) \in 0..33
  BY RankIs
<1> QED
  BY <1>2, <1>3, <1>4

\* The shell is over when a later step comes first.
LEMMA Behind ==
  ASSUME NEW A, NEW p, Spans(p, 0, 34, A), NEW h, First(p, h), Rank(h) > 30
  PROVE  ~Holds(p, Shell3)
<1>1. Rank(Shell3) = 30
  BY DEF Rank, Shell3
<1>2. ASSUME Holds(p, Shell3) PROVE FALSE
  <2>1. Shell3 = h \/ Earlier(h, Shell3)
    BY <1>2, Remains
  <2>2. Rank(h) \in 0..33
    BY RankIs
  <2> QED
    BY <1>1, <2>1, <2>2 DEF Earlier
<1> QED
  BY <1>2

\* Once everything is mounted, what follows does not matter to it.
LEMMA Settled ==
  ASSUME NEW g, NEW d, NEW o, NEW ts, HasReached(g, d, o, ts, 29), NEW p, Later(p, 28)
  PROVE  Progress(g, d, o, ts, p)
<1>1. ASSUME NEW op, NEW A, A, Rank(op) < 29
      PROVE  Prog(p, op, A)
  <2>1. Rank(op) \in 0..33
    BY RankIs
  <2>2. ASSUME NEW other, Holds(p, other) PROVE Rank(other) > Rank(op)
    <3>1. Rank(other) > 28 /\ Rank(other) \in 0..33
      BY <2>2, RankIs DEF Later
    <3> QED
      BY <1>1, <2>1, <3>1
  <2> QED
    BY <1>1, <2>2 DEF Prog, Later
<1>2. \A view \in Use(g), name \in Names3 : Prog(p, <<"directory", view, name>>, <<view, name>> \in DOMAIN ts)
  <2> TAKE view \in Use(g), name \in Names3
  <2>1. Rank(<<"directory", view, name>>) < 29
    BY DEF Rank
  <2> DEFINE A == <<view, name>> \in DOMAIN ts
  <2>2. A
    BY <2>1 DEF HasReached, Rank
  <2> HIDE DEF A
  <2>3. Prog(p, <<"directory", view, name>>, A)
    BY <1>1, <2>1, <2>2
  <2> QED
    BY <2>3 DEF A
<1>3. \A view \in Use(g) : Prog(p, <<"check", view, "targets">>, Checked(ts, view))
  <2> TAKE view \in Use(g)
  <2>1. Rank(<<"check", view, "targets">>) < 29
    BY DEF Rank
  <2>2. Checked(ts, view)
    BY <2>1 DEF HasReached, Rank
  <2> QED
    BY <1>1, <2>1, <2>2
<1>4. \A view \in Use(g), name \in {"proc", "sys"} : Prog(p, <<"attach", view, name>>, Attached(d, o, ts, view, name))
  <2> TAKE view \in Use(g), name \in {"proc", "sys"}
  <2>1. Rank(<<"attach", view, name>>) < 29
    BY DEF Rank
  <2>2. Attached(d, o, ts, view, name)
    BY <2>1 DEF HasReached, Rank
  <2> QED
    BY <1>1, <2>1, <2>2
<1>5. Prog(p, <<"attach", "root", "dev">>, RootDev(d, o, ts))
  <2>1. Rank(<<"attach", "root", "dev">>) < 29
    BY DEF Rank
  <2>2. RootDev(d, o, ts)
    BY DEF HasReached
  <2> QED
    BY <1>1, <2>1, <2>2
<1>6. \A x \in {"pts", "shm"} : Prog(p, <<"below", "root", x>>, BelowIs(d, o, "root", x))
  <2> TAKE x \in {"pts", "shm"}
  <2>1. Rank(<<"below", "root", x>>) < 29
    BY DEF Rank
  <2>2. BelowIs(d, o, "root", x)
    BY <2>1 DEF HasReached, Rank
  <2> QED
    BY <1>1, <2>1, <2>2
<1>7. g.bootstrap => Prog(p, <<"clone", "output", "dev">>, Cloned(d, o, ts))
  <2> HAVE g.bootstrap
  <2>1. Rank(<<"clone", "output", "dev">>) < 29
    BY DEF Rank
  <2>2. Cloned(d, o, ts)
    BY DEF HasReached
  <2> QED
    BY <1>1, <2>1, <2>2
<1> QED
  BY <1>2, <1>3, <1>4, <1>5, <1>6, <1>7 DEF Progress

LEMMA ReachedLess ==
  ASSUME NEW g, NEW d, NEW o, NEW ts, NEW r \in Nat, r >= 29, HasReached(g, d, o, ts, r)
  PROVE  HasReached(g, d, o, ts, 29)
<1>1. \A op : Rank(op) \in 0..33 /\ (Rank(op) < 29 => Rank(op) < r)
  BY RankIs
<1> QED
  BY <1>1 DEF HasReached

LEMMA UntouchedNow ==
  ASSUME NEW g, NEW d, NEW o, NEW priv, NEW S, NEW p, Spans(p, 0, 34, S), NEW h, First(p, h), Untouched(g, d, o, priv, p)
  PROVE  /\ Rank(h) < 20 => o = g.over
         /\ Rank(h) < 26 => \A n \in DOMAIN d : d[n].layer # "dev"
         /\ Rank(h) < 31 => priv = {} /\ NoShell(g, d)
<1>1. Holds(p, h)
  BY Remains
<1> QED
  BY <1>1 DEF Untouched

LEMMA UntouchedStep ==
  ASSUME NEW g, NEW S, NEW p, Spans(p, 0, 34, S), NEW h, First(p, h), NEW e, NEW q, NEW priv,
         Rank(h) < 19 => q = g.over, Rank(h) < 25 => \A n \in DOMAIN e : e[n].layer # "dev", Rank(h) < 30 => priv = {} /\ NoShell(g, e)
  PROVE  Untouched(g, e, q, priv, Tail(p))
<1>1. ASSUME NEW op, Holds(Tail(p), op), NEW k \in {20, 26, 31}, Rank(op) < k
      PROVE  Rank(h) < k - 1
  <2>1. Earlier(h, op)
    BY <1>1, Remains
  <2>2. Rank(h) \in 0..33 /\ Rank(op) \in 0..33
    BY RankIs
  <2> QED
    BY <1>1, <2>1, <2>2 DEF Earlier
<1>2. (\E op : Holds(Tail(p), op) /\ Rank(op) < 20) => q = g.over
  BY <1>1
<1>3. (\E op : Holds(Tail(p), op) /\ Rank(op) < 26) => \A n \in DOMAIN e : e[n].layer # "dev"
  BY <1>1
<1>4. (\E op : Holds(Tail(p), op) /\ Rank(op) < 31) => priv = {} /\ NoShell(g, e)
  BY <1>1
<1> QED
  BY <1>2, <1>3, <1>4 DEF Untouched

LEMMA EmptyShelf ==
  ASSUME NEW g, NEW d, NEW o, NoShell(g, d)
  PROVE  \E word : Shelved(g, d, o, {}, word)
<1>1. ShellOf(g, d) = {}
  BY DEF ShellOf, NoShell
<1>2. PICK none \in Seq(STRING) : none = <<>>
  <2>1. <<>> \in Seq(STRING)
    OBVIOUS
  <2> QED
    BY <2>1
<1>3. PICK word : word = [n \in ShellOf(g, d) |-> none]
  OBVIOUS
<1>4. word \in [ShellOf(g, d) -> Seq(STRING)]
  BY <1>2, <1>3
<1> QED
  BY <1>1, <1>4 DEF Shelved

\* Mounting, and what comes before it.
LEMMA EarlyStep ==
  ASSUME RootInv, phase = "setup", NEW h, First(todo, h), Rank(h) < 30,
         Whole(given, disk', over', targets', private), HasReached(given, disk', over', targets', Rank(h) + 1), NoShell(given, disk'),
         Rank(h) < 19 => over' = given.over, Rank(h) < 25 => \A n \in DOMAIN disk' : disk'[n].layer # "dev",
         todo' = Tail(todo), given' = given, phase' = phase, fault' = fault, loose' = loose, private' = private
  PROVE  RootInv'
<1>1. Spans(todo, 0, 34, Legal(given)) /\ Rank(h) \in 0..33
  BY RankIs DEF RootInv, Going
<1>a. /\ Spans(Tail(todo), 0, 34, Legal(given)) /\ Holds(todo, h)
      /\ \A op : Holds(todo, op) => op = h \/ Holds(Tail(todo), op)
      /\ \A op : Holds(Tail(todo), op) => Holds(todo, op)
  BY <1>1, Remains
<1>b. \A k \in 0..33 : k < 30 => k < 31 /\ ~(k > 30) /\ ~(k > 31) /\ k # 30 /\ k # 33
  OBVIOUS
<1>2. private = {}
  <2>1. Rank(h) < 31
    BY <1>1, <1>b
  <2> QED
    BY <1>1, <2>1, UntouchedNow DEF RootInv
<1>3. Whole(given', disk', over', targets', private')
  OBVIOUS
<1>4. Progress(given', disk', over', targets', todo')
  BY <1>1, ProgressStep DEF RootInv
<1>5. Untouched(given', disk', over', private', todo')
  BY <1>1, <1>2, UntouchedStep
<1>6. ~Later(todo, 30) /\ ~Later(todo, 31)
  <2>1. ~(Rank(h) > 30) /\ ~(Rank(h) > 31)
    BY <1>1, <1>b
  <2> QED
    BY <1>a, <2>1 DEF Later
<1>7. Holds(todo, Shell3)
  BY <1>6 DEF RootInv, Shelf
<1>8. h # Shell3 /\ h # Start3
  <2>1. Rank(Shell3) = 30 /\ Rank(Start3) = 33
    BY DEF Rank, Shell3, Start3
  <2> QED
    BY <1>1, <2>1
<1>9. Holds(todo', Shell3)
  BY <1>a, <1>7, <1>8
<1>10. Shelf'
  <2>1. \E word : Shelved(given', disk', over', private', word)
    BY <1>2, EmptyShelf
  <2> QED
    BY <1>9, <2>1 DEF Shelf
<1>11. Going'
  <2>1. Spans(todo', 0, 34, Legal(given'))
    BY <1>a
  <2>2. \A op : Holds(todo', op) => op[1] # "place"
    BY <1>a, <1>7 DEF RootInv, Going
  <2>3. Holds(todo', Start3)
    <3>1. Holds(todo, Start3)
      BY DEF RootInv, Going
    <3> QED
      BY <1>a, <1>8, <3>1
  <2> QED
    BY <2>1, <2>2, <2>3 DEF RootInv, Going
<1>12. Refused'
  BY DEF Refused
<1> QED
  BY <1>3, <1>4, <1>5, <1>10, <1>11, <1>12 DEF RootInv

\* After an error, all stays as it is.
LEMMA EndStep ==
  ASSUME RootInv, C!Fail \/ C!Interrupted, Bare(given) => fault' \/ given.extra
  PROVE  RootInv'
<1>1. /\ given' = given /\ disk' = disk /\ over' = over /\ todo' = todo /\ targets' = targets /\ loose' = loose /\ private' = private
      /\ phase' = "failed"
  BY DEF C!Fail, C!Interrupted, C!mounted
<1>2. fault' \in BOOLEAN
  BY DEF C!Fail, C!Interrupted, RootInv, Going
<1>3. C!ShellPresent' = C!ShellPresent
  BY <1>1 DEF C!ShellPresent, C!Sought, C!Open, C!Kind
<1>4. Shelf'
  BY <1>1, <1>3 DEF RootInv, Shelf
<1>5. Going'
  BY <1>1, <1>2 DEF RootInv, Going
<1>6. Refused'
  BY <1>1 DEF Refused
<1> QED
  BY <1>1, <1>4, <1>5, <1>6 DEF RootInv

\* The first step, by its name.
LEMMA StepIs ==
  ASSUME RootInv, NEW name, C!At(name)
  PROVE  \E h \in Legal(given) : First(todo, h) /\ h[1] = name /\ h = Head(todo) /\ C!View = h[2] /\ C!What = h[3] /\ phase = "setup"
<1>1. phase = "setup" /\ Head(todo)[1] = name
  BY DEF C!At
<1>2. Holds(todo, Start3) /\ todo \in Seq(Legal(given))
  BY <1>1 DEF RootInv, Going, Spans
<1>3. todo # <<>>
  BY <1>2, None0
<1>4. First(todo, Head(todo))
  BY <1>3 DEF First
<1>5. Head(todo) \in Legal(given)
  BY <1>4, Remains DEF RootInv, Going
<1> QED
  BY <1>1, <1>4, <1>5 DEF C!View, C!What

\* RuntimeTargets::directory
LEMMA ReachedDirectory ==
  ASSUME NEW g, NEW d, NEW o, NEW ts, NEW view \in Use(g), NEW name \in Names3,
         NEW r, r = Rank(<<"directory", view, name>>), HasReached(g, d, o, ts, r),
         NEW e, NEW q, NEW us, NEW t, us = C!With(ts, <<view, name>>, t)
  PROVE  HasReached(g, e, q, us, r + 1)
<1>0. Use(g) \subseteq {"root", "output"}
  BY DEF Use, C!Views
<1>1. r \in 0..13 /\ r = (IF view = "output" THEN 0 ELSE 10) + (IF name = "dev" THEN 1 ELSE IF name = "proc" THEN 2 ELSE 3)
  BY DEF Rank, Names3
<1>2. DOMAIN us = DOMAIN ts \cup {<<view, name>>} /\ \A x \in DOMAIN ts : x # <<view, name>> => us[x] = ts[x]
  BY DEF C!With
<1>3. ASSUME NEW v2 \in Use(g), NEW n2 \in Names3, Rank(<<"directory", v2, n2>>) < r + 1
      PROVE  <<v2, n2>> \in DOMAIN us
  <2>1. CASE v2 = view /\ n2 = name
    BY <1>2, <2>1
  <2>2. CASE v2 # view \/ n2 # name
    <3>1. Rank(<<"directory", v2, n2>>) = (IF v2 = "output" THEN 0 ELSE 10) + (IF n2 = "dev" THEN 1 ELSE IF n2 = "proc" THEN 2 ELSE 3)
      BY DEF Rank, Names3
    <3>2. Rank(<<"directory", v2, n2>>) < r
      BY <1>0, <1>1, <1>3, <2>2, <3>1 DEF Names3
    <3> QED
      BY <1>2, <3>2 DEF HasReached
  <2> QED
    BY <2>1, <2>2
<1>4. ASSUME NEW v2 \in Use(g), Rank(<<"check", v2, "targets">>) < r + 1
      PROVE  Checked(us, v2)
  <2>1. Rank(<<"check", v2, "targets">>) = (IF v2 = "output" THEN 0 ELSE 10) + 4
    BY DEF Rank
  <2>2. Rank(<<"check", v2, "targets">>) < r /\ v2 # view
    BY <1>0, <1>1, <1>4, <2>1
  <2>3. Checked(ts, v2)
    BY <2>2 DEF HasReached
  <2>4. \A n \in Names3 : <<v2, n>> \in DOMAIN ts /\ <<v2, n>> \in DOMAIN us /\ us[<<v2, n>>] = ts[<<v2, n>>]
    BY <1>2, <2>2, <2>3 DEF Checked
  <2> QED
    BY <2>3, <2>4 DEF Checked
<1>5. /\ \A v2 \in Use(g), n2 \in {"proc", "sys"} : Rank(<<"attach", v2, n2>>) > 20
      /\ \A x \in {"pts", "shm"} : Rank(<<"below", "root", x>>) > 20
  BY DEF Rank
<1>6. ~(25 < r + 1) /\ ~(28 < r + 1)
  BY <1>1
<1>7. /\ \A v2 \in Use(g), n2 \in {"proc", "sys"} : ~(Rank(<<"attach", v2, n2>>) < r + 1)
      /\ \A x \in {"pts", "shm"} : ~(Rank(<<"below", "root", x>>) < r + 1)
  BY <1>1, <1>5, RankIs
<1> QED
  BY <1>3, <1>4, <1>6, <1>7 DEF HasReached

LEMMA SingleAny ==
  ASSUME NEW S, NEW x \in S
  PROVE  <<x>> \in Seq(S)
OBVIOUS
LEMMA PairIs ==
  ASSUME NEW a, NEW b
  PROVE  <<a>> \o <<b>> = <<a, b>>
<1>1. PICK S, p, q, r : S = {a, b} /\ p = <<a>> /\ q = <<b>> /\ r = <<a, b>>
  OBVIOUS
<1>2. p \in Seq(S) /\ q \in Seq(S) /\ r \in Seq(S) /\ p \o q \in Seq(S)
  BY <1>1
<1>3. Len(p) = 1 /\ Len(q) = 1 /\ Len(r) = 2 /\ Len(p \o q) = 2
  BY <1>1, <1>2
<1>4. \A i \in 1..2 : (p \o q)[i] = r[i]
  BY <1>1, <1>2, <1>3
<1> QED
  BY <1>1, <1>2, <1>3, <1>4, SeqEqual
LEMMA Single1 ==
  ASSUME NEW x \in STRING
  PROVE  <<x>> \in Seq(STRING)
BY SingleAny, Zenon

LEMMA OkIs ==
  ASSUME NEW d, NEW r \in Results(d), r.err = "ok"
  PROVE  r = C!Found(r.at)
BY DEF Results, C!Found

\* A pinned name that is a directory, or is missing, in an image that is never refused.
LEMMA PlainIs ==
  ASSUME NEW g, g \in Inputs, NEW d, NEW o, Image(d, o), GrewFrom(g, d), NEW view \in C!Views, NEW name, PlainTop(g, view, name),
         NEW n \in DOMAIN d, d[n].up = C!TopOf(view)[2], d[n].name = name
  PROVE  d[n].kind = "dir" /\ <<view, n>> \notin DOMAIN g.over
<1>1. CASE n \in DOMAIN g.disk
  <2>1. g.disk[n] = d[n]
    BY <1>1 DEF GrewFrom, Extends
  <2> QED
    BY <1>1, <2>1 DEF PlainTop
<1>2. CASE n \notin DOMAIN g.disk
  <2>1. n \in News(g, d) /\ NewNode(g, d, d[n])
    BY <1>2 DEF GrewFrom, News
  <2>2. d[n].up \in 1..2
    BY TopIs
  <2>3. d[n].up \notin Hidden(g, d) /\ d[n].up # 0
    BY <2>2, NotHidden
  <2>4. d[n].kind = "dir"
    BY <2>1, <2>3 DEF NewNode
  <2>5. <<view, n>> \notin DOMAIN g.over
    <3>1. DOMAIN g.over \subseteq C!Views \X DOMAIN g.disk
      BY GivenIs DEF Image
    <3> QED
      BY <1>2, <3>1
  <2> QED
    BY <2>4, <2>5
<1> QED
  BY <1>1, <1>2

LEMMA DirectoryKeeps ==
  ASSUME RootInv, C!Directory
  PROVE  RootInv'
<1>1. PICK h \in Legal(given) : First(todo, h) /\ h[1] = "directory" /\ h = Head(todo) /\ C!View = h[2] /\ C!What = h[3] /\ phase = "setup"
  BY StepIs DEF C!Directory
<1>2. PICK view \in Use(given), name \in Names3 : h = <<"directory", view, name>> /\ C!View = view /\ C!What = name
  BY <1>1, LegalIs
<1>3. /\ Spans(todo, 0, 34, Legal(given)) /\ Whole(given, disk, over, targets, private)
      /\ given \in Inputs /\ Image(disk, over) /\ GrewFrom(given, disk) /\ view \in C!Views /\ name \in STRING
  BY Words DEF RootInv, Going, Whole, Use, C!Views, Names3
<1>4. Rank(h) \in 0..13
  BY <1>2 DEF Rank, Names3
<1>b. \A k \in 0..13 : k < 19 /\ k < 20 /\ k < 25 /\ k < 26 /\ k < 30 /\ k < 31
  OBVIOUS
<1>5. over = given.over /\ (\A n \in DOMAIN disk : disk[n].layer # "dev") /\ private = {} /\ NoShell(given, disk)
  BY <1>1, <1>3, <1>4, <1>b, UntouchedNow DEF RootInv
<1>6. HasReached(given, disk, over, targets, Rank(h))
  BY <1>1, <1>3, ReachedIs DEF RootInv
<1>7. PICK top, found, make : /\ top = C!TopOf(view) /\ found = C!OpenDir(top, <<name>>, {"links"})
                             /\ make = (found.err = "NOENT" /\ C!Free(top, name))
  OBVIOUS
<1>8. PICK r : r = C!OpenIn(disk, over, top, <<name>>, {"links"})
  OBVIOUS
<1>9. found = IF r.err = "ok" /\ disk[r.at[2]].kind # "dir" THEN C!Error("NOTDIR") ELSE r
  BY <1>7, <1>8 DEF C!OpenDir, C!Open, C!Kind
<1>10. make <=> found.err = "NOENT" /\ C!EntryOf(disk, top, name) = {}
  BY <1>7 DEF C!Free, C!Entry
<1>11. r \in Results(disk)
  <2>1. top \in C!Views \X DOMAIN disk
    BY <1>3, <1>7, TopIs
  <2>2. [at |-> top, path |-> <<name>>, links |-> MaxLinks] \in Ways(disk)
    <3>1. <<name>> \in Seq(STRING)
      BY <1>3, Single1
    <3> QED
      BY <2>1, <3>1, Links DEF Ways
  <2>3. C!Lookup(disk, over, top, {"links"}) \in [Ways(disk) -> Results(disk)]
    BY <1>3, <2>1, LookupIs
  <2> QED
    BY <1>8, <2>2, <2>3 DEF C!OpenIn
<1>12. \A x : C!Error(x).err = x
  BY DEF C!Error
<1>13. CASE found.err # "ok" /\ ~make
  <2>1. C!Fail
    BY <1>2, <1>7, <1>13 DEF C!Directory
  <2>2. ~Bare(given)
    <3>1. SUFFICES ASSUME Bare(given) PROVE FALSE
      OBVIOUS
    <3>2. PlainTop(given, view, name)
      BY <1>3, <3>1 DEF Bare
    <3>3. CASE C!EntryOf(disk, top, name) = {}
      <4>1. r = C!Error("NOENT")
        BY <1>3, <1>7, <1>8, <3>3, OpenIs
      <4> QED
        BY <1>9, <1>10, <1>12, <1>13, <3>3, <4>1
    <3>4. CASE C!EntryOf(disk, top, name) # {}
      <4>1. PICK n \in DOMAIN disk : disk[n].up = C!TopOf(view)[2] /\ disk[n].name = name
        BY <1>7, <3>4 DEF C!EntryOf
      <4>2. disk[n].kind = "dir" /\ <<view, n>> \notin DOMAIN over
        BY <1>3, <1>5, <3>2, <4>1, PlainIs
      <4>3. r = C!Found(C!Cross(over, <<view, n>>))
        <5>1. disk[n].kind # "link"
          BY <4>2
        <5> QED
          BY <1>3, <1>7, <1>8, <4>1, <4>2, <5>1, OpenIs
      <4>4. r.err = "ok" /\ r.at[2] = n
        BY <4>2, <4>3 DEF C!Found, C!Cross
      <4> QED
        BY <1>9, <1>13, <4>2, <4>4
    <3> QED
      BY <3>3, <3>4
  <2> QED
    BY <2>1, <2>2, EndStep
<1>14. CASE ~(found.err # "ok" /\ ~make)
  <2>1. PICK t, e, us : /\ t = (IF make THEN <<view, Len(disk) + 1>> ELSE found.at)
                        /\ e = (IF make THEN Append(disk, C!Node(top[2], name, "dir", view)) ELSE disk)
                        /\ us = C!With(targets, <<view, name>>, t)
    OBVIOUS
  <2>2. /\ disk' = e /\ targets' = us /\ todo' = Tail(todo) /\ over' = over
        /\ given' = given /\ phase' = phase /\ fault' = fault /\ loose' = loose /\ private' = private
    BY <1>2, <1>7, <1>14, <2>1 DEF C!Directory, C!Done
  <2>3. Pinning(given, disk, view, name, e, t)
    <3>1. CASE make
      BY <1>7, <1>10, <2>1, <3>1 DEF Pinning
    <3>2. CASE ~make
      <4>1. found.err = "ok"
        BY <1>14, <3>2
      <4>2. found = r /\ r.err = "ok" /\ disk[r.at[2]].kind = "dir"
        BY <1>9, <1>12, <4>1
      <4>3. r = C!Found(r.at)
        BY <1>11, <4>2, OkIs
      <4>4. e = disk /\ t = r.at
        BY <2>1, <3>2, <4>2
      <4> QED
        BY <1>5, <1>7, <1>8, <4>2, <4>3, <4>4 DEF Pinning
    <3> QED
      BY <3>1, <3>2
  <2>4. Whole(given, disk, given.over, targets, private)
    BY <1>3, <1>5
  <2>a. us = C!With(targets, <<view, name>>, t)
    BY <2>1
  <2>5. Whole(given, e, given.over, us, private) /\ Points(given, disk, e)
    BY <2>a, <2>3, <2>4, DirectoryStep
  <2>6. NoShell(given, e) /\ \A n \in DOMAIN e : e[n].layer # "dev"
    <3>1. \A n \in DOMAIN e : e[n].layer # "dev"
      BY <1>5, <2>5 DEF Points
    <3>2. NoShell(given, e)
      <4>1. ASSUME NEW n \in News(given, e) PROVE e[n].layer # "shell" /\ e[n].name \notin {"sh", "cat"}
        <5>1. n \in DOMAIN e /\ n \notin DOMAIN given.disk
          BY <4>1 DEF News
        <5>2. CASE n \in DOMAIN disk /\ e[n] = disk[n]
          BY <1>5, <5>1, <5>2 DEF NoShell, News
        <5>3. CASE e[n].layer \in {"root", "output"} /\ e[n].name \in Names3
          BY <5>3 DEF Names3
        <5> QED
          BY <2>5, <5>1, <5>2, <5>3 DEF Points
      <4> QED
        BY <4>1 DEF NoShell
    <3> QED
      BY <3>1, <3>2
  <2>7. HasReached(given, e, over, us, Rank(h) + 1)
    BY <1>2, <1>6, <2>1, ReachedDirectory
  <2> QED
    BY <1>1, <1>4, <1>5, <1>b, <2>2, <2>5, <2>6, <2>7, EarlyStep
<1> QED
  BY <1>13, <1>14

\* What is below the top has only the top above it.
LEMMA AncestorsIs ==
  ASSUME Image(disk, over), NEW n \in DOMAIN disk, NEW a \in DOMAIN disk, disk[n].up = a, disk[a].up = 0
  PROVE  C!Ancestors(n) = {a}
<1> DEFINE X == DOMAIN disk
           V == SUBSET Nat
           T == {x \in X : disk[x].up = 0}
           val == [x \in T |-> {}]
           up == [x \in X |-> disk[x].up]
           comb == [xv \in X \X V |-> {disk[xv[1]].up} \cup xv[2]]
<1>1. Len(disk) \in Nat /\ X = 1..Len(disk) /\ X \subseteq Nat /\ \A x \in X : disk[x].up \in 0..(x - 1)
  BY DEF Image, C!TreeOf
<1>2. \A x \in X \cap T : val[x] \in V
  OBVIOUS
<1>3. \A x \in X \ T : up[x] \in X /\ up[x] = disk[x].up /\ disk[x].up \in Nat
  BY <1>1
<1>4. \A x \in X \ T, v \in V : comb[<<x, v>>] = {disk[x].up} \cup v /\ comb[<<x, v>>] \in V
  <2>1. ASSUME NEW x \in X \ T, NEW v \in V PROVE comb[<<x, v>>] = {disk[x].up} \cup v /\ comb[<<x, v>>] \in V
    <3>1. comb[<<x, v>>] = {disk[x].up} \cup v
      OBVIOUS
    <3> QED
      BY <1>3, <3>1
  <2> QED
    BY <2>1
<1>5. ASSUME NEW S \in SUBSET X, S # {} PROVE \E x \in S : x \in T \/ up[x] \notin S
  <2>1. S \subseteq Nat
    BY <1>1
  <2>2. PICK x \in S : \A y \in S : x <= y
    BY <1>5, <2>1, LeastNumber
  <2>3. x \notin T => up[x] \notin S
    <3>1. disk[x].up \in 0..(x - 1) /\ x \in Nat /\ up[x] = disk[x].up
      BY <1>1, <2>1
    <3>2. \A k \in 0..(x - 1) : ~(x <= k)
      BY <3>1
    <3> QED
      BY <2>2, <3>1, <3>2
  <2> QED
    BY <2>3
<1> HIDE DEF up, comb, val, V, T
<1>6. Ends(X, T, up, V, val, comb)
  BY <1>2, <1>3, <1>4, <1>5 DEF Ends
<1>7. PICK f \in [X -> V] : f = [x \in X |-> IF x \in T THEN val[x] ELSE comb[<<x, f[up[x]]>>]]
  BY <1>6, RecursionExists
<1> DEFINE body(h, x) == IF disk[x].up = 0 THEN {} ELSE {disk[x].up} \cup h[disk[x].up]
<1>8. ASSUME NEW x \in X PROVE f[x] = body(f, x)
  <2>1. CASE x \in T
    BY <1>7, <2>1 DEF val, T
  <2>2. CASE x \notin T
    <3>1. f[x] = comb[<<x, f[up[x]]>>]
      BY <1>7, <2>2
    <3>2. up[x] = disk[x].up /\ up[x] \in X /\ disk[x].up # 0
      BY <1>3, <2>2 DEF T
    <3>3. f[up[x]] \in V
      BY <1>7, <3>2
    <3> QED
      BY <1>4, <2>2, <3>1, <3>2, <3>3
  <2> QED
    BY <2>1, <2>2
<1>9. f = [x \in X |-> body(f, x)]
  BY <1>7, <1>8
<1> DEFINE go == CHOOSE h : h = [x \in X |-> body(h, x)]
<1> HIDE DEF body
<1>10. go = [x \in X |-> body(go, x)]
  BY <1>9
<1>11. C!Ancestors(n) = go[n]
  BY DEF C!Ancestors, body
<1> HIDE DEF go
<1>12. go[n] = body(go, n) /\ go[a] = body(go, a)
  BY <1>10
<1>13. go[a] = {}
  BY <1>12 DEF body
<1>14. disk[n].up # 0
  BY <1>1
<1> QED
  BY <1>11, <1>12, <1>13, <1>14 DEF body

\* RuntimeTargets::reject_nested
LEMMA CheckKeeps ==
  ASSUME RootInv, C!CheckTargets
  PROVE  RootInv'
<1>1. PICK h \in Legal(given) : First(todo, h) /\ h[1] = "check" /\ h = Head(todo) /\ C!View = h[2] /\ C!What = h[3] /\ phase = "setup"
  BY StepIs DEF C!CheckTargets
<1>2. PICK view \in Use(given) : h = <<"check", view, "targets">> /\ C!View = view
  BY <1>1, LegalIs
<1>3. /\ Spans(todo, 0, 34, Legal(given)) /\ Whole(given, disk, over, targets, private)
      /\ given \in Inputs /\ Image(disk, over) /\ GrewFrom(given, disk) /\ view \in C!Views
  BY DEF RootInv, Going, Whole, Use, C!Views
<1>4. Rank(h) \in 4..14 /\ Rank(h) = (IF view = "output" THEN 0 ELSE 10) + 4 /\ view \in {"root", "output"}
  BY <1>2 DEF Rank, Use, C!Views
<1>b. \A k \in 4..14 : k < 19 /\ k < 20 /\ k < 25 /\ k < 26 /\ k < 30 /\ k < 31
  OBVIOUS
<1>5. over = given.over /\ (\A n \in DOMAIN disk : disk[n].layer # "dev") /\ private = {} /\ NoShell(given, disk)
  BY <1>1, <1>3, <1>4, <1>b, UntouchedNow DEF RootInv
<1>6. HasReached(given, disk, over, targets, Rank(h))
  BY <1>1, <1>3, ReachedIs DEF RootInv
<1>7. \A name \in Names3 : <<view, name>> \in DOMAIN targets
  <2> TAKE name \in Names3
  <2>1. Rank(<<"directory", view, name>>) < Rank(h)
    BY <1>4 DEF Rank, Names3
  <2> QED
    BY <1>6, <2>1 DEF HasReached
<1> DEFINE t(name) == targets[<<view, name>>]
           good == \A i, j \in 1..3 : t(C!RuntimeNames[i]) # C!TopOf(view) /\ (i < j => C!Apart(t(C!RuntimeNames[i]), t(C!RuntimeNames[j])))
<1>8. C!RuntimeNames[1] = "dev" /\ C!RuntimeNames[2] = "proc" /\ C!RuntimeNames[3] = "sys"
  BY DEF C!RuntimeNames
<1>9. CASE good
  <2>1. /\ disk' = disk /\ targets' = targets /\ todo' = Tail(todo) /\ over' = over
        /\ given' = given /\ phase' = phase /\ fault' = fault /\ loose' = loose /\ private' = private
    BY <1>2, <1>9 DEF C!CheckTargets, C!Done, C!mounted
  <2>2. Checked(targets, view)
    <3>1. \A i \in 1..3 : t(C!RuntimeNames[i]) # C!TopOf(view)
      BY <1>9
    <3>2. t("dev") # C!TopOf(view) /\ t("proc") # C!TopOf(view) /\ t("sys") # C!TopOf(view)
      BY <1>8, <3>1
    <3>3. C!Apart(t("dev"), t("proc")) /\ C!Apart(t("dev"), t("sys")) /\ C!Apart(t("proc"), t("sys"))
      <4>1. 1 \in 1..3 /\ 2 \in 1..3 /\ 3 \in 1..3 /\ 1 < 2 /\ 1 < 3 /\ 2 < 3
        OBVIOUS
      <4> QED
        BY <1>8, <1>9, <4>1
    <3>4. t("dev") # t("proc") /\ t("dev") # t("sys") /\ t("proc") # t("sys")
      BY <3>3 DEF C!Apart
    <3> QED
      BY <1>7, <3>2, <3>4 DEF Checked, Names3
  <2>3. HasReached(given, disk, over, targets, Rank(h) + 1)
    <3>1. \A v2 \in Use(given), n2 \in Names3 : Rank(<<"directory", v2, n2>>) < Rank(h) + 1 => <<v2, n2>> \in DOMAIN targets
      <4> TAKE v2 \in Use(given), n2 \in Names3
      <4>1. Rank(<<"directory", v2, n2>>) # Rank(h)
        BY <1>4 DEF Rank, Names3
      <4>2. Rank(<<"directory", v2, n2>>) \in 0..33
        BY RankIs
      <4> HAVE Rank(<<"directory", v2, n2>>) < Rank(h) + 1
      <4>3. Rank(<<"directory", v2, n2>>) < Rank(h)
        BY <1>4, <4>1, <4>2
      <4> QED
        BY <1>6, <4>3 DEF HasReached
    <3>2. \A v2 \in Use(given) : Rank(<<"check", v2, "targets">>) < Rank(h) + 1 => Checked(targets, v2)
      <4> TAKE v2 \in Use(given)
      <4> HAVE Rank(<<"check", v2, "targets">>) < Rank(h) + 1
      <4>1. CASE v2 = view
        BY <2>2, <4>1
      <4>2. CASE v2 # view
        <5>1. Rank(<<"check", v2, "targets">>) = (IF v2 = "output" THEN 0 ELSE 10) + 4 /\ v2 \in {"root", "output"}
          BY DEF Rank, Use, C!Views
        <5>2. Rank(<<"check", v2, "targets">>) < Rank(h)
          BY <1>4, <4>2, <5>1
        <5> QED
          BY <1>6, <5>2 DEF HasReached
      <4> QED
        BY <4>1, <4>2
    <3>3. /\ \A v2 \in Use(given), n2 \in {"proc", "sys"} : Rank(<<"attach", v2, n2>>) > 20
          /\ \A x \in {"pts", "shm"} : Rank(<<"below", "root", x>>) > 20
      BY DEF Rank
    <3>4. ~(25 < Rank(h) + 1) /\ ~(28 < Rank(h) + 1)
      BY <1>4
    <3>5. /\ \A v2 \in Use(given), n2 \in {"proc", "sys"} : ~(Rank(<<"attach", v2, n2>>) < Rank(h) + 1)
          /\ \A x \in {"pts", "shm"} : ~(Rank(<<"below", "root", x>>) < Rank(h) + 1)
      BY <1>4, <3>3, RankIs
    <3> QED
      BY <3>1, <3>2, <3>4, <3>5 DEF HasReached
  <2> QED
    BY <1>1, <1>3, <1>4, <1>5, <1>b, <2>1, <2>3, EarlyStep
<1>10. CASE ~good
  <2>1. C!Fail
    BY <1>2, <1>10 DEF C!CheckTargets
  <2>2. ~Bare(given)
    <3>1. SUFFICES ASSUME Bare(given) PROVE FALSE
      OBVIOUS
    <3>2. PICK top : top = C!TopOf(view)[2]
      OBVIOUS
    <3>3. top \in DOMAIN disk /\ disk[top].up = 0 /\ top # 0
      BY <1>3, <3>2, TopIs
    <3>4. ASSUME NEW name \in Names3
          PROVE  \E n : Child(disk, view, name, n) /\ t(name) = <<view, n>>
      <4>1. PlainTop(given, view, name) /\ name \in STRING
        BY <1>3, <3>1, Words DEF Bare, Names3
      <4>2. \A n \in C!EntryOf(disk, C!TopOf(view), name) : disk[n].kind = "dir"
        BY <1>3, <4>1, PlainIs DEF C!EntryOf
      <4>3. PinnedAt(given, disk, view, name, t(name))
        BY <1>3, <1>7, TargetIs
      <4> HIDE DEF t
      <4> QED
        BY <1>3, <4>1, <4>2, <4>3, DirectPin DEF AllDirs
    <3>5. ASSUME NEW name \in Names3, NEW n, Child(disk, view, name, n)
          PROVE  C!Ancestors(n) = {top} /\ n # top
      BY <1>3, <3>2, <3>3, <3>5, AncestorsIs DEF Child
    <3>6. ASSUME NEW a \in Names3, NEW b \in Names3, a # b
          PROVE  t(a) # C!TopOf(view) /\ C!Apart(t(a), t(b))
      <4>1. PICK n : Child(disk, view, a, n) /\ t(a) = <<view, n>>
        BY <3>4
      <4>2. PICK m : Child(disk, view, b, m) /\ t(b) = <<view, m>>
        BY <3>4
      <4>3. n # m
        BY <3>6, <4>1, <4>2 DEF Child
      <4>4. C!Ancestors(n) = {top} /\ C!Ancestors(m) = {top} /\ n # top /\ m # top
        BY <3>5, <4>1, <4>2
      <4>5. t(a)[2] = n /\ t(b)[2] = m
        BY <4>1, <4>2
      <4> HIDE DEF t
      <4>6. C!Apart(t(a), t(b))
        BY <4>3, <4>4, <4>5 DEF C!Apart
      <4> QED
        BY <3>2, <4>4, <4>5, <4>6
    <3>7. "dev" \in Names3 /\ "proc" \in Names3 /\ "sys" \in Names3
      BY DEF Names3
    <3>8. /\ t("dev") # C!TopOf(view) /\ t("proc") # C!TopOf(view) /\ t("sys") # C!TopOf(view)
          /\ C!Apart(t("dev"), t("proc")) /\ C!Apart(t("dev"), t("sys")) /\ C!Apart(t("proc"), t("sys"))
      <4> HIDE DEF t
      <4> QED
        BY <3>6, <3>7
    <3>9. good
      <4> HIDE DEF t
      <4>1. \A i \in 1..3 : i = 1 \/ i = 2 \/ i = 3
        OBVIOUS
      <4> QED
        BY <1>8, <3>8, <4>1
    <3> QED
      BY <1>10, <3>9
  <2> QED
    BY <2>1, <2>2, EndStep
<1> QED
  BY <1>9, <1>10

\* ProcRestrictions::install: whatever the kernel lacks, nothing it has is left writable.
LEMMA InstallRestricts ==
  ASSUME NEW absent
  PROVE  C!Unrestricted(absent) = {}
<1> DEFINE names == C!Range(C!Controls)
           X == 0..4
           up == [i \in X |-> i - 1]
           val == [i \in X |-> {}]
           comb == [p \in X \X SUBSET names |->
                      IF C!Controls[p[1]] \in absent THEN p[2] ELSE p[2] \cup {C!Controls[p[1]]}]
           P(f) == f = [i \in 0..Len(C!Controls) |->
                          IF i = 0 THEN {}
                          ELSE IF C!Controls[i] \in absent THEN f[i - 1] ELSE f[i - 1] \cup {C!Controls[i]}]
           after == CHOOSE f : P(f)
<1>1. /\ Len(C!Controls) = 4 /\ DOMAIN C!Controls = 1..4
      /\ names = {C!Controls[i] : i \in 1..4} /\ \A i \in 1..4 : C!Controls[i] \in names
  BY DEF C!Controls, C!Range
<1>2. Ends(X, {0}, up, SUBSET names, val, comb)
  <2>1. \A x \in X \cap {0} : val[x] \in SUBSET names
    OBVIOUS
  <2>2. \A x \in X \ {0} : up[x] \in X /\ \A v \in SUBSET names : comb[<<x, v>>] \in SUBSET names
    <3>1. \A x \in X \ {0} : up[x] = x - 1 /\ x - 1 \in X /\ x \in 1..4
      OBVIOUS
    <3>2. ASSUME NEW x \in X \ {0}, NEW v \in SUBSET names PROVE comb[<<x, v>>] \in SUBSET names
      <4>1. comb[<<x, v>>] = IF C!Controls[x] \in absent THEN v ELSE v \cup {C!Controls[x]}
        OBVIOUS
      <4>2. C!Controls[x] \in names
        BY <1>1, <3>1
      <4> HIDE DEF comb, names
      <4> QED
        BY <4>1, <4>2
    <3> QED
      BY <3>1, <3>2
  <2>3. ASSUME NEW S \in SUBSET X, S # {} PROVE \E x \in S : x \in {0} \/ up[x] \notin S
    <3>0. S \subseteq Nat
      OBVIOUS
    <3>1. PICK m \in S : \A k \in S : m <= k
      BY <2>3, <3>0, LeastNumber
    <3>2. m = 0 \/ (up[m] = m - 1 /\ ~(m <= m - 1))
      OBVIOUS
    <3> QED
      BY <3>1, <3>2
  <2> HIDE DEF up, val, comb, names, X
  <2> QED
    BY <2>1, <2>2, <2>3 DEF Ends
<1>3. \E f : P(f)
  <2>1. PICK f \in [X -> SUBSET names] : f = [x \in X |-> IF x \in {0} THEN val[x] ELSE comb[<<x, f[up[x]]>>]]
    <3>1. ASSUME NEW x0, NEW t0, NEW u0, NEW v0, NEW w0, NEW c0, Ends(x0, t0, u0, v0, w0, c0)
          PROVE  \E f \in [x0 -> v0] : f = [x \in x0 |-> IF x \in t0 THEN w0[x] ELSE c0[<<x, f[u0[x]]>>]]
      BY <3>1, RecursionExists
    <3> HIDE DEF X, up, val, comb, names
    <3> QED
      BY <1>2, <3>1
  <2>2. ASSUME NEW i \in X
        PROVE  f[i] = IF i = 0 THEN {} ELSE IF C!Controls[i] \in absent THEN f[i - 1] ELSE f[i - 1] \cup {C!Controls[i]}
    <3>1. f[i] = IF i \in {0} THEN val[i] ELSE comb[<<i, f[up[i]]>>]
      BY <2>1
    <3>2. CASE i = 0
      BY <3>1, <3>2
    <3>3. CASE i # 0
      <4>1. up[i] = i - 1 /\ i - 1 \in X
        BY <3>3
      <4>2. f[i - 1] \in SUBSET names
        BY <4>1
      <4>3. <<i, f[i - 1]>> \in X \X SUBSET names
        BY <4>2
      <4>4. f[i] = comb[<<i, f[i - 1]>>]
        BY <3>1, <3>3, <4>1
      <4> QED
        BY <3>3, <4>3, <4>4
    <3> QED
      BY <3>2, <3>3
  <2>3. f = [i \in X |-> f[i]]
    BY <2>1
  <2> HIDE DEF val, comb, up, names
  <2>4. P(f)
    BY <1>1, <2>2, <2>3
  <2> QED
    BY <2>4
<1>4. P(after)
  BY <1>3
<1> HIDE DEF after
<1>5. /\ after[0] = {}
      /\ \A i \in 1..4 : after[i] = IF C!Controls[i] \in absent THEN after[i - 1] ELSE after[i - 1] \cup {C!Controls[i]}
  BY <1>1, <1>4
<1>6. \A i \in 1..4 : after[i - 1] \subseteq after[i] /\ (C!Controls[i] \notin absent => C!Controls[i] \in after[i])
  BY <1>5
<1>7. after[1] \subseteq after[4] /\ after[2] \subseteq after[4] /\ after[3] \subseteq after[4]
  BY <1>6
<1>8. \A i \in 1..4 : C!Controls[i] \notin absent => C!Controls[i] \in after[4]
  <2>1. \A i \in 1..4 : i = 1 \/ i = 2 \/ i = 3 \/ i = 4
    OBVIOUS
  <2> QED
    BY <1>6, <1>7, <2>1
<1>9. C!ReadOnly(absent) = after[4]
  BY <1>1 DEF C!ReadOnly, after
<1> QED
  BY <1>1, <1>8, <1>9 DEF C!Unrestricted

\* RuntimeFilesystem::attach, CommandDevices::attach
LEMMA AttachKeeps ==
  ASSUME RootInv, C!Attach
  PROVE  RootInv'
<1>1. PICK h \in Legal(given) : First(todo, h) /\ h[1] = "attach" /\ h = Head(todo) /\ C!View = h[2] /\ C!What = h[3] /\ phase = "setup"
  BY StepIs DEF C!Attach
<1>2. PICK view \in Use(given), name \in Names3 : h = <<"attach", view, name>> /\ C!View = view /\ C!What = name /\ (name = "dev" => view = "root")
  <2>1. "root" \in Use(given) /\ {"dev", "proc", "sys"} \subseteq Names3
    BY DEF Use, C!Views, Names3
  <2> QED
    BY <1>1, <2>1, LegalIs
<1>3. /\ Spans(todo, 0, 34, Legal(given)) /\ Whole(given, disk, over, targets, private)
  BY DEF RootInv, Going
<1>4. Rank(h) \in 21..25 /\ (name # "dev" => Rank(h) \in 21..24)
  BY <1>2 DEF Rank, Names3, Use, C!Views
<1>5. /\ Rank(h) < 26 /\ Rank(h) < 30 /\ Rank(h) < 31 /\ ~(Rank(h) < 19)
      /\ Rank(h) \in Nat /\ (Rank(h) < 25 => name # "dev")
  <2>1. \A k \in 21..25 : k < 26 /\ k < 30 /\ k < 31 /\ ~(k < 19) /\ k \in Nat
    OBVIOUS
  <2>2. name = "dev" => Rank(h) = 25
    BY <1>2 DEF Rank
  <2>3. name = "dev" => ~(Rank(h) < 25)
    BY <2>2
  <2> QED
    BY <1>4, <2>1, <2>3
<1>6. (\A n \in DOMAIN disk : disk[n].layer # "dev") /\ private = {} /\ NoShell(given, disk)
  BY <1>1, <1>3, <1>5, UntouchedNow DEF RootInv
<1>7. HasReached(given, disk, over, targets, Rank(h))
  BY <1>1, <1>3, ReachedIs DEF RootInv
<1>8. PICK new : Attaching(disk, view, name, new) /\ disk' = disk \o new /\ over' = C!With(over, targets[<<view, name>>], <<view, Len(disk) + 1>>)
  BY <1>2 DEF C!Attach, Attaching
<1>9. /\ targets' = targets /\ todo' = Tail(todo) /\ given' = given /\ phase' = phase /\ fault' = fault /\ private' = private
  BY DEF C!Attach, C!Done
<1>10. loose' = loose
  <2>1. loose' = loose \/ loose' = loose \cup ({C!View} \X C!Unrestricted(given.absent))
    BY DEF C!Attach
  <2> QED
    BY <2>1, InstallRestricts
<1>11. PICK e, q : e = disk' /\ q = over'
  OBVIOUS
<1>12. e = disk \o new /\ q = C!With(over, targets[<<view, name>>], <<view, Len(disk) + 1>>)
  BY <1>8, <1>11
<1>13. PICK r \in Nat : r = Rank(h)
  BY <1>5
<1>a. Attaching(disk, view, name, new)
  BY <1>8
<1>b. name = "dev" => view = "root" /\ NoDev(disk)
  BY <1>2, <1>6 DEF NoDev
<1>d. NoDev(disk)
  BY <1>6 DEF NoDev
<1>e. q = C!With(over, targets[<<view, name>>], <<view, Len(disk) + 1>>)
  BY <1>12
<1>f. e = disk \o new
  BY <1>12
<1>g. NoShell(given, disk)
  BY <1>6
<1>h. r = Rank(<<"attach", view, name>>)
  BY <1>2, <1>13
<1>i. HasReached(given, disk, over, targets, r)
  BY <1>7, <1>13
<1>j. Whole(given, disk, over, targets, private)
  BY <1>3
<1>k. Attachment(disk, over, targets, view, name, new, e, q)
  BY <1>a, <1>b, <1>e, <1>f DEF Attachment
<1>14. AttachMade(given, disk, e, q, targets, private, r, name)
  BY <1>g, <1>h, <1>i, <1>j, <1>k, AttachStep
<1>15. Whole(given, disk', over', targets', private) /\ HasReached(given, disk', over', targets', Rank(h) + 1) /\ NoShell(given, disk')
  BY <1>9, <1>11, <1>13, <1>14 DEF AttachMade
<1>16. Rank(h) < 25 => \A n \in DOMAIN disk' : disk'[n].layer # "dev"
  BY <1>5, <1>d, <1>11, <1>14 DEF NoDev, AttachMade
<1> QED
  BY <1>1, <1>5, <1>9, <1>10, <1>15, <1>16, EarlyStep

\* DeviceRuntime::attach
LEMMA BelowKeeps ==
  ASSUME RootInv, C!AttachBelow
  PROVE  RootInv'
<1>1. PICK h \in Legal(given) : First(todo, h) /\ h[1] = "below" /\ h = Head(todo) /\ C!View = h[2] /\ C!What = h[3] /\ phase = "setup"
  BY StepIs DEF C!AttachBelow
<1>2. PICK x \in {"pts", "shm"} : h = <<"below", "root", x>> /\ C!What = x
  BY <1>1, LegalIs
<1>3. Spans(todo, 0, 34, Legal(given)) /\ Whole(given, disk, over, targets, private)
  BY DEF RootInv, Going
<1>4. Rank(h) \in 26..27
  BY <1>2 DEF Rank
<1>5. Rank(h) < 30 /\ Rank(h) < 31 /\ ~(Rank(h) < 19) /\ ~(Rank(h) < 25) /\ Rank(h) \in Nat
  <2>1. \A k \in 26..27 : k < 30 /\ k < 31 /\ ~(k < 19) /\ ~(k < 25) /\ k \in Nat
    OBVIOUS
  <2> QED
    BY <1>4, <2>1
<1>6. private = {} /\ NoShell(given, disk)
  BY <1>1, <1>3, <1>5, UntouchedNow DEF RootInv
<1>7. HasReached(given, disk, over, targets, Rank(h))
  BY <1>1, <1>3, ReachedIs DEF RootInv
<1>8. PICK n \in C!EntryOf(disk, over[targets[<<"root", "dev">>]], x) : over' = C!With(over, <<"root", n>>, <<"root", Len(disk) + 1>>)
  BY <1>2 DEF C!AttachBelow, C!Entry, C!DevTop
<1>9. /\ targets' = targets /\ todo' = Tail(todo) /\ given' = given /\ phase' = phase /\ fault' = fault /\ private' = private /\ loose' = loose
      /\ disk' = Append(disk, C!Node(0, "/", "dir", x))
  BY <1>2 DEF C!AttachBelow, C!Done
<1>10. PICK e, q : e = disk' /\ q = over'
  OBVIOUS
<1>11. PICK r \in Nat : r = Rank(h)
  BY <1>5
<1>12. e = Append(disk, C!Node(0, "/", "dir", x)) /\ q = C!With(over, <<"root", n>>, <<"root", Len(disk) + 1>>)
  BY <1>8, <1>9, <1>10
<1>13. r = Rank(<<"below", "root", x>>) /\ HasReached(given, disk, over, targets, r)
  BY <1>2, <1>7, <1>11
<1>14. Whole(given, e, q, targets, private) /\ HasReached(given, e, q, targets, r + 1) /\ NoShell(given, e)
  BY <1>3, <1>6, <1>12, <1>13, BelowStep
<1>15. Whole(given, disk', over', targets', private) /\ HasReached(given, disk', over', targets', Rank(h) + 1) /\ NoShell(given, disk')
  BY <1>9, <1>10, <1>11, <1>14
<1> QED
  BY <1>1, <1>5, <1>9, <1>15, EarlyStep

\* CommandDevices::attach, the clone
LEMMA CloneKeeps ==
  ASSUME RootInv, C!CloneDevices
  PROVE  RootInv'
<1>1. PICK h \in Legal(given) : First(todo, h) /\ h[1] = "clone" /\ h = Head(todo) /\ C!View = h[2] /\ C!What = h[3] /\ phase = "setup"
  BY StepIs DEF C!CloneDevices
<1>2. given.bootstrap /\ h = <<"clone", "output", "dev">>
  BY <1>1, LegalIs
<1>3. Spans(todo, 0, 34, Legal(given)) /\ Whole(given, disk, over, targets, private)
  BY DEF RootInv, Going
<1>4. Rank(h) = 28
  BY <1>2 DEF Rank
<1>5. Rank(h) < 30 /\ Rank(h) < 31 /\ ~(Rank(h) < 19) /\ ~(Rank(h) < 25) /\ Rank(h) + 1 = 29
  BY <1>4
<1>6. private = {} /\ NoShell(given, disk)
  BY <1>1, <1>3, <1>5, UntouchedNow DEF RootInv
<1>7. HasReached(given, disk, over, targets, 28)
  BY <1>1, <1>3, <1>4, ReachedIs DEF RootInv
<1>8. CloneIs(disk, over, targets[<<"output", "dev">>], over[targets[<<"root", "dev">>]], over')
  BY DEF C!CloneDevices, CloneIs, C!DevTop
<1>9. /\ targets' = targets /\ todo' = Tail(todo) /\ given' = given /\ phase' = phase /\ fault' = fault /\ private' = private /\ loose' = loose
      /\ disk' = disk
  BY DEF C!CloneDevices, C!Done
<1>10. PICK q : q = over'
  OBVIOUS
<1>11. CloneIs(disk, over, targets[<<"output", "dev">>], over[targets[<<"root", "dev">>]], q)
  BY <1>8, <1>10
<1>12. Whole(given, disk, q, targets, private) /\ HasReached(given, disk, q, targets, 29)
  BY <1>2, <1>3, <1>7, <1>11, CloneStep
<1>13. Whole(given, disk', over', targets', private) /\ HasReached(given, disk', over', targets', Rank(h) + 1) /\ NoShell(given, disk')
  BY <1>5, <1>6, <1>9, <1>10, <1>12
<1> QED
  BY <1>1, <1>5, <1>9, <1>13, EarlyStep

\* An image that is never refused has its ordinary directories where the shell goes.
LEMMA FreeTop ==
  ASSUME NEW g, NEW d, NEW o, NEW ts, NEW priv, Whole(g, d, o, ts, priv), Bare(g), NEW p \in Wanted(g), NEW top, top = Head(p), top \notin priv,
         NEW n \in DOMAIN d, d[n].up = 1, d[n].name = top
  PROVE  d[n].kind = "dir" /\ <<"root", n>> \notin DOMAIN o
<1>0. g \in Inputs /\ Image(d, o) /\ GrewFrom(g, d) /\ Keys(g, d, o, ts, priv) /\ PinsOf(g, d, ts) /\ "root" \in C!Views
  BY DEF Whole, C!Views
<1>1. C!TopOf("root") = <<"root", 1>> /\ C!TopOf("root")[2] = 1
  BY DEF C!TopOf
<1>2. PlainTop(g, "root", top) /\ top \notin Names3
  BY <1>0, AppliancePaths DEF Bare
<1>3. d[n].kind = "dir" /\ <<"root", n>> \notin DOMAIN g.over
  BY <1>0, <1>1, <1>2, PlainIs
<1>4. PICK l : l = <<"root", n>>
  OBVIOUS
<1>5. l[1] = "root" /\ l[2] = n
  BY <1>4
<1>6. ASSUME l \in DOMAIN o PROVE FALSE
  <2>1. KeyGood(g, d, ts, priv, l, o[l])
    BY <1>0, <1>3, <1>4, <1>6 DEF Keys
  <2>2. ASSUME NEW name \in Names3, <<"root", name>> \in DOMAIN ts, l = ts[<<"root", name>>] PROVE FALSE
    <3>1. PinnedAt(g, d, "root", name, l)
      <4>1. PICK x \in DOMAIN ts : x = <<"root", name>>
        BY <2>2
      <4>2. PinnedAt(g, d, x[1], x[2], ts[x])
        BY <1>0, <4>1 DEF PinsOf
      <4>3. x[1] = "root" /\ x[2] = name /\ ts[x] = l
        BY <2>2, <4>1
      <4> QED
        BY <4>2, <4>3
    <3>2. PlainTop(g, "root", name) /\ name \in STRING
      BY <1>0, Words DEF Bare, Names3
    <3>3. \A m \in C!EntryOf(d, C!TopOf("root"), name) : d[m].kind = "dir"
      <4> TAKE m \in C!EntryOf(d, C!TopOf("root"), name)
      <4>1. m \in DOMAIN d /\ d[m].up = C!TopOf("root")[2] /\ d[m].name = name
        BY DEF C!EntryOf
      <4> QED
        BY <1>0, <3>2, <4>1, PlainIs
    <3>4. PICK m : Child(d, "root", name, m) /\ l = <<"root", m>>
      BY <1>0, <3>1, <3>2, <3>3, DirectPin DEF AllDirs
    <3>5. m = n
      BY <1>4, <3>4
    <3> QED
      BY <1>2, <2>2, <3>4, <3>5 DEF Child
  <2>3. ASSUME d[n].layer = "dev" PROVE FALSE
    <3>1. n \in Hidden(g, d)
      BY <1>0, <2>3, NotHidden
    <3>2. d[n].up = 0 \/ d[n].up \in Hidden(g, d)
      BY <1>0, <3>1, NotHidden
    <3> QED
      BY <1>0, <3>2, NotHidden
  <2> QED
    BY <1>5, <2>1, <2>2, <2>3 DEF KeyGood
<1> QED
  BY <1>3, <1>4, <1>6

\* One more name after a lookup that ended at l.
OnwardFrom(d, o, top, flags, path, x, l, r) ==
  /\ [at |-> top, path |-> path, links |-> MaxLinks] \in Ways(d)
  /\ C!Lookup(d, o, top, flags)[[at |-> top, path |-> path, links |-> MaxLinks]] = C!Found(l)
  /\ C!Lookup(d, o, top, flags)[[at |-> top, path |-> path \o <<x>>, links |-> MaxLinks]] = r
LEMMA OneAfter ==
  ASSUME NEW d, NEW o, Image(d, o), NEW top \in C!Views \X DOMAIN d, NEW flags, NEW x \in STRING, NEW path, NEW l, NEW r,
         OnwardFrom(d, o, top, flags, path, x, l, r)
  PROVE  \E k \in 0..MaxLinks : OneIs(d, o, top, flags, l, x, k, r)
<1>1. PICK w \in Ways(d) : w = [at |-> top, path |-> path, links |-> MaxLinks]
  BY DEF OnwardFrom
<1>2. w.at = top /\ w.path = path /\ w.links = MaxLinks
  BY <1>1
<1>3. C!Lookup(d, o, top, flags)[w] = C!Found(l)
  BY <1>1 DEF OnwardFrom
<1>4. C!Lookup(d, o, top, flags)[w].err = "ok" /\ C!Lookup(d, o, top, flags)[w].at = l
  BY <1>3 DEF C!Found
<1> DEFINE look == C!Lookup(d, o, top, flags)
<1>5. \E k \in 0..MaxLinks : look[[at |-> w.at, path |-> w.path \o <<x>>, links |-> w.links]] = look[[at |-> look[w].at, path |-> <<x>>, links |-> k]]
  <2>1. NameMore(d, o, top, flags, x, w)
    BY <1>4, OneNameMore
  <2> QED
    BY <2>1 DEF NameMore
<1>6. look[[at |-> w.at, path |-> w.path \o <<x>>, links |-> w.links]] = r
  BY <1>2 DEF OnwardFrom
<1>7. look[w].at = l
  BY <1>4
<1> QED
  BY <1>5, <1>6, <1>7 DEF OneIs

\* shell_present, reject_non_regular
ToolSeen(r) == r.err = "NOENT" \/ (r.err = "ok" /\ C!Kind(r.at) = "file")
LEMMA ToolIs ==
  ASSUME Whole(given, disk, over, targets, private), private = {}, NoShell(given, disk), Bare(given),
         NEW x \in {"sh", "cat"}, NEW flags, "mounts" \in flags
  PROVE  ToolSeen(C!Open(C!Root, <<"bin", x>>, flags))
<1>0. given \in Inputs /\ Image(disk, over) /\ GrewFrom(given, disk) /\ "root" \in C!Views /\ x \in STRING /\ "bin" \in STRING
  BY Words DEF Whole, C!Views
<1>1. PICK top : top = C!TopOf("root")
  OBVIOUS
<1>2. top = <<"root", 1>> /\ top = C!Root /\ top[1] = "root" /\ top[2] = 1 /\ top \in C!Views \X DOMAIN disk /\ disk[1].kind = "dir"
  BY <1>0, <1>1, TopIs DEF C!Root, C!TopOf
<1>3. <<"bin">> \in Seq(STRING) /\ <<"bin", x>> = <<"bin">> \o <<x>>
  BY <1>0, Single1
<1>4. PICK path \in Seq(STRING) : path = <<"bin">>
  BY <1>3
<1>5. PICK w : w = [at |-> top, path |-> path, links |-> MaxLinks]
  OBVIOUS
<1>6. w \in Ways(disk) /\ w.at = top /\ w.path = path /\ w.links = MaxLinks
  BY <1>2, <1>5, Links DEF Ways
<1>7. PICK long : long = [at |-> top, path |-> path \o <<x>>, links |-> MaxLinks]
  OBVIOUS
<1>8. C!Open(C!Root, <<"bin", x>>, flags) = C!Lookup(disk, over, top, flags)[long]
  BY <1>2, <1>3, <1>4, <1>7 DEF C!Open, C!OpenIn
<1>9. C!OpenIn(disk, over, top, <<"bin">>, flags) = C!Lookup(disk, over, top, flags)[w]
  BY <1>4, <1>5 DEF C!OpenIn
<1>10. CASE C!EntryOf(disk, top, "bin") = {}
  <2>1. path \o <<x>> \in Seq(STRING) /\ Head(path \o <<x>>) = "bin" /\ path \o <<x>> # <<>>
    <3>1. path # <<>> /\ Head(path) = "bin"
      BY <1>4
    <3> QED
      BY <1>0, <3>1, SplitMore
  <2>2. long \in Ways(disk) /\ long.path # <<>> /\ Head(long.path) = "bin" /\ long.at = top
    BY <1>2, <1>7, <2>1, Links DEF Ways
  <2>3. C!OneName(disk, over, top, flags, long).err = "NOENT"
    BY <1>2, <1>10, <2>2 DEF C!OneName, C!Stops
  <2>4. C!Lookup(disk, over, top, flags)[long] = C!Error("NOENT")
    BY <1>0, <1>2, <2>2, <2>3, LookupIs
  <2> QED
    BY <1>8, <2>4 DEF C!Error, ToolSeen
<1>11. CASE C!EntryOf(disk, top, "bin") # {}
  <2>1. PICK n \in DOMAIN disk : disk[n].up = 1 /\ disk[n].name = "bin"
    BY <1>2, <1>11 DEF C!EntryOf
  <2>2. disk[n].kind = "dir" /\ <<"root", n>> \notin DOMAIN over
    <3>1. <<"bin", "sh">> \in Wanted(given) /\ Head(<<"bin", "sh">>) = "bin"
      BY <1>0, AppliancePaths
    <3> QED
      BY <2>1, <3>1, FreeTop
  <2>3. PICK l : l = <<"root", n>>
    OBVIOUS
  <2>4. l[1] = "root" /\ l[2] = n /\ l \in C!Views \X DOMAIN disk /\ disk[l[2]].kind = "dir"
    BY <1>0, <2>1, <2>2, <2>3
  <2>5. C!Lookup(disk, over, top, flags)[w] = C!Found(l)
    <3>1. disk[n].kind # "link"
      BY <2>2
    <3>2. C!OpenIn(disk, over, top, <<"bin">>, flags) = C!Found(C!Cross(over, <<"root", n>>))
      BY <1>0, <1>1, <1>2, <2>1, <2>2, <3>1, OpenIs
    <3>3. C!Cross(over, <<"root", n>>) = l
      BY <2>2, <2>3 DEF C!Cross
    <3> QED
      BY <1>9, <3>2, <3>3
  <2>6. PICK r : r = C!Lookup(disk, over, top, flags)[long]
    OBVIOUS
  <2>7. OnwardFrom(disk, over, top, flags, path, x, l, r)
    BY <1>5, <1>6, <1>7, <2>5, <2>6 DEF OnwardFrom
  <2>8. r = C!Lookup(disk, over, top, flags)[long]
    BY <2>6
  <2>9. PICK k \in 0..MaxLinks : OneIs(disk, over, top, flags, l, x, k, r)
    BY <1>0, <1>2, <2>7, OneAfter
  <2>10. CASE C!EntryOf(disk, l, x) = {}
    <3>1. OneIs(disk, over, top, flags, l, x, k, C!Error("NOENT"))
      BY <1>0, <1>2, <2>4, <2>10, OneStep
    <3>2. r = C!Error("NOENT")
      BY <2>9, <3>1 DEF OneIs
    <3> QED
      BY <1>8, <2>8, <3>2 DEF C!Error, ToolSeen
  <2>11. CASE C!EntryOf(disk, l, x) # {}
    <3>1. PICK m \in DOMAIN disk : disk[m].up = l[2] /\ disk[m].name = x
      BY <2>11 DEF C!EntryOf
    <3>2. m \in DOMAIN given.disk
      BY <3>1 DEF NoShell, News
    <3>3. disk[m].kind = "file"
      BY <1>0, <3>1, <3>2 DEF Bare, GrewFrom, Extends
    <3>4. <<l[1], m>> \notin DOMAIN over
      <4>1. \A y \in DOMAIN over : disk[y[2]].kind = "dir"
        BY <1>0 DEF Image
      <4>2. PICK y : y = <<l[1], m>>
        OBVIOUS
      <4>3. y[2] = m
        BY <4>2
      <4>4. y \notin DOMAIN over
        BY <3>3, <4>1, <4>3
      <4> QED
        BY <4>2, <4>4
    <3>5. disk[m].kind # "link"
      BY <3>3
    <3>6. OneIs(disk, over, top, flags, l, x, k, C!Found(C!Cross(over, <<l[1], m>>)))
      BY <1>0, <1>2, <2>4, <3>1, <3>4, <3>5, OneStep
    <3>7. r = C!Found(<<l[1], m>>)
      BY <2>9, <3>4, <3>6 DEF OneIs, C!Cross
    <3>8. r.err = "ok" /\ r.at[2] = m
      BY <3>7 DEF C!Found
    <3> QED
      BY <1>8, <2>8, <3>3, <3>8 DEF ToolSeen, C!Kind
  <2> QED
    BY <2>10, <2>11
<1> QED
  BY <1>10, <1>11

-----------------------------------------------------------------------------
(* What a started command finds *)

Both == {"links", "mounts"}
Shown(d, o, view, path) ==
  LET r == C!OpenIn(d, o, C!TopOf(view), path, Both) IN IF r.err = "ok" THEN d[r.at[2]].layer ELSE r.err
LEMMA ShownIs == ASSUME NEW view, NEW path PROVE C!Shows(view, path) = Shown(disk, over, view, path)
BY DEF C!Shows, Shown, C!Open, Both

MountedAt(g, d, o, view, name, t) ==
  /\ PinnedAt(g, d, view, name, t) /\ t \in C!Views \X DOMAIN d /\ t[1] = view /\ t # C!TopOf(view)
  /\ t \in DOMAIN o /\ t \notin DOMAIN g.over /\ d[o[t][2]].layer = name
LEMMA MountedIs ==
  ASSUME NEW g, NEW d, NEW o, NEW ts, NEW priv, Whole(g, d, o, ts, priv), HasReached(g, d, o, ts, 29),
         NEW view \in Use(g), NEW name \in Names3
  PROVE  MountedAt(g, d, o, view, name, ts[<<view, name>>])
<1>0. view \in {"root", "output"} /\ (view = "output" => g.bootstrap)
  BY DEF Use, C!Views
<1>1. <<view, name>> \in DOMAIN ts
  <2>1. Rank(<<"directory", view, name>>) < 29
    BY DEF Rank
  <2> QED
    BY <2>1 DEF HasReached
<1>2. Checked(ts, view)
  <2>1. Rank(<<"check", view, "targets">>) < 29
    BY DEF Rank
  <2> QED
    BY <2>1 DEF HasReached
<1>3. PICK t : t = ts[<<view, name>>]
  OBVIOUS
<1>4. /\ t \in C!Views \X DOMAIN d /\ t[1] = view /\ PinnedAt(g, d, view, name, t)
      /\ t # C!TopOf(view) => t \notin DOMAIN g.over
  BY <1>1, <1>3, TargetIs
<1>5. t # C!TopOf(view)
  BY <1>2, <1>3 DEF Checked
<1>6. t \in DOMAIN o /\ d[o[t][2]].layer = name
  <2>1. CASE name \in {"proc", "sys"}
    <3>1. Rank(<<"attach", view, name>>) < 29
      BY DEF Rank
    <3>2. Attached(d, o, ts, view, name)
      BY <2>1, <3>1 DEF HasReached
    <3> QED
      BY <1>3, <3>2 DEF Attached
  <2>2. CASE name = "dev" /\ view = "output"
    <3>1. 28 < 29
      OBVIOUS
    <3>2. Cloned(d, o, ts)
      BY <1>0, <2>2, <3>1 DEF HasReached
    <3> QED
      BY <1>3, <2>2, <3>2 DEF Cloned, Attached
  <2>3. CASE name = "dev" /\ view = "root"
    <3>1. 25 < 29
      OBVIOUS
    <3>2. RootDev(d, o, ts)
      BY <3>1 DEF HasReached
    <3>3. t \in DOMAIN o
      BY <1>3, <2>3, <3>2 DEF RootDev
    <3>4. PICK top \in Nat : DevIs(d, top) /\ o[t] = <<"root", top>>
      BY <1>3, <2>3, <3>2 DEF RootDev
    <3>5. d[top].layer = "dev"
      BY <3>4, NodeIs DEF DevIs
    <3>6. o[t][2] = top
      BY <3>4
    <3> QED
      BY <2>3, <3>3, <3>5, <3>6
  <2> QED
    BY <1>0, <2>1, <2>2, <2>3 DEF Names3
<1>7. MountedAt(g, d, o, view, name, t)
  BY <1>4, <1>5, <1>6 DEF MountedAt
<1> QED
  BY <1>3, <1>7

\* Where the image has a directory, or nothing, the runtime's filesystem is.
LEMMA OrdinaryIs ==
  ASSUME NEW g, NEW d, NEW o, NEW ts, NEW priv, Whole(g, d, o, ts, priv), HasReached(g, d, o, ts, 29),
         NEW view \in Use(g), NEW name \in Names3, AllDirs(d, view, name)
  PROVE  Shown(d, o, view, <<name>>) = name
<1>0. g \in Inputs /\ Image(d, o) /\ GrewFrom(g, d) /\ view \in C!Views /\ name \in STRING
  BY Words DEF Whole, Use, C!Views, Names3
<1>1. PICK t : t = ts[<<view, name>>]
  OBVIOUS
<1>2. MountedAt(g, d, o, view, name, t)
  BY <1>1, MountedIs
<1>3. PinnedAt(g, d, view, name, t) /\ t \in DOMAIN o /\ d[o[t][2]].layer = name
  BY <1>2 DEF MountedAt
<1>4. PICK n : Child(d, view, name, n) /\ t = <<view, n>>
  BY <1>0, <1>3, DirectPin
<1>5. n \in DOMAIN d /\ d[n].up = C!TopOf(view)[2] /\ d[n].name = name /\ d[n].kind # "link"
  BY <1>4 DEF Child
<1>6. PICK r : r = C!OpenIn(d, o, C!TopOf(view), <<name>>, Both)
  OBVIOUS
<1>7. "mounts" \in Both
  BY DEF Both
<1>8. r = C!Found(C!Cross(o, <<view, n>>))
  BY <1>0, <1>5, <1>6, <1>7, OpenIs
<1>9. r.err = "ok" /\ r.at = o[t]
  BY <1>3, <1>4, <1>8 DEF C!Found, C!Cross
<1> QED
  BY <1>3, <1>6, <1>9 DEF Shown

\* The filesystems that the setup mounted; in devices, something covers what is below the top.
OwnPlaces(g, d, o) ==
  {l \in C!Views \X DOMAIN d :
     /\ l[2] \in Hidden(g, d)
     /\ d[l[2]].layer = "dev" => d[l[2]].up = 0 /\ \A n \in DOMAIN d : d[n].up = l[2] => <<l[1], n>> \in DOMAIN o}

LEMMA DevBelow ==
  ASSUME NEW g, NEW d, NEW o, NEW ts, NEW priv, Whole(g, d, o, ts, priv), HasReached(g, d, o, ts, 29), NEW view \in Use(g),
         NEW n \in DOMAIN d, d[n].layer = "dev", d[n].up # 0
  PROVE  /\ d[n].name \in {"pts", "shm"} /\ <<view, n>> \in DOMAIN o /\ d[o[<<view, n>>][2]].layer = d[n].name
         /\ d[d[n].up].up = 0 /\ \A m \in DOMAIN d : d[m].layer = "dev" /\ d[m].up = 0 => m = d[n].up
<1>0. view \in {"root", "output"} /\ (view = "output" => g.bootstrap)
  BY DEF Use, C!Views
<1>1. 25 < 29 /\ 28 < 29 /\ Rank(<<"below", "root", "pts">>) < 29 /\ Rank(<<"below", "root", "shm">>) < 29
  BY DEF Rank
<1>2. PICK top \in Nat : DevIs(d, top)
  BY <1>1 DEF HasReached, RootDev
<1>3. \A m \in DOMAIN d : d[m].layer = "dev" => m = top \/ m = top + 1 \/ m = top + 2
  BY <1>2 DEF DevIs
<1>4. d[top].up = 0 /\ d[top + 1].up = top /\ d[top + 1].name = "pts" /\ d[top + 2].up = top /\ d[top + 2].name = "shm"
  BY <1>2, NodeIs DEF DevIs
<1>5. top # 0
  <2>1. top \in DOMAIN d /\ 0 \notin DOMAIN d
    <3>1. top \in {m \in DOMAIN d : d[m].layer = "dev"}
      BY <1>2 DEF DevIs
    <3>2. 0 \notin DOMAIN d
      BY DEF Whole, Image
    <3> QED
      BY <3>1, <3>2
  <2> QED
    BY <2>1
<1>6. d[n].name \in {"pts", "shm"} /\ d[n].up = top
  BY <1>3, <1>4
<1>7. \A m \in DOMAIN d : d[m].layer = "dev" /\ d[m].up = 0 => m = top
  BY <1>3, <1>4, <1>5
<1>8. BelowIs(d, o, view, "pts") /\ BelowIs(d, o, view, "shm")
  <2>1. CASE view = "root"
    BY <1>1, <2>1 DEF HasReached
  <2>2. CASE view = "output"
    <3>1. Cloned(d, o, ts)
      BY <1>0, <1>1, <2>2 DEF HasReached
    <3> QED
      BY <2>2, <3>1 DEF Cloned
  <2> QED
    BY <1>0, <2>1, <2>2
<1>9. <<view, n>> \in DOMAIN o /\ d[o[<<view, n>>][2]].layer = d[n].name
  BY <1>6, <1>8 DEF BelowIs
<1> QED
  BY <1>4, <1>6, <1>7, <1>9

LEMMA OwnIs ==
  ASSUME NEW g, NEW d, NEW o, NEW ts, NEW priv, Whole(g, d, o, ts, priv), HasReached(g, d, o, ts, 29)
  PROVE  Shut(d, o, OwnPlaces(g, d, o)) /\ Overlays(g.over, o, OwnPlaces(g, d, o))
<1>0. g \in Inputs /\ Image(d, o) /\ GrewFrom(g, d) /\ Keys(g, d, o, ts, priv) /\ PinsOf(g, d, ts)
  BY DEF Whole
<1>1. ASSUME NEW l \in DOMAIN o, l \notin DOMAIN g.over
      PROVE  o[l] \in OwnPlaces(g, d, o)
  <2>1. PICK v : v = o[l]
    OBVIOUS
  <2>2. KeyGood(g, d, ts, priv, l, v)
    BY <1>0, <1>1, <2>1 DEF Keys
  <2>3. v \in C!Views \X DOMAIN d
    BY <1>0, <2>1 DEF Image
  <2>4. v[1] = l[1] /\ v[2] \in Hidden(g, d) /\ d[v[2]].up = 0 /\ v[2] \in DOMAIN d
    BY <2>2, <2>3 DEF KeyGood
  <2>5. ASSUME d[v[2]].layer = "dev", NEW n \in DOMAIN d, d[n].up = v[2]
        PROVE  <<v[1], n>> \in DOMAIN o
    <3>1. <<l[1], "dev">> \in DOMAIN ts
      BY <2>2, <2>5 DEF KeyGood, Names3
    <3>2. l[1] \in Use(g)
      BY <1>0, <3>1 DEF PinsOf
    <3>3. n \in Hidden(g, d) /\ d[n].layer = "dev"
      BY <1>0, <2>4, <2>5, NotHidden
    <3>4. d[n].up # 0
      BY <1>0, <2>4, <2>5, NotHidden
    <3> QED
      BY <2>4, <3>2, <3>3, <3>4, DevBelow
  <2>6. v \in OwnPlaces(g, d, o)
    BY <2>3, <2>4, <2>5 DEF OwnPlaces
  <2> QED
    BY <2>1, <2>6
<1>2. ASSUME NEW l \in OwnPlaces(g, d, o), NEW n \in DOMAIN d, d[n].up = l[2]
      PROVE  d[n].kind # "link" /\ C!Cross(o, <<l[1], n>>) \in OwnPlaces(g, d, o)
  <2>1. /\ l \in C!Views \X DOMAIN d /\ l[2] \in Hidden(g, d)
        /\ d[l[2]].layer = "dev" => \A m \in DOMAIN d : d[m].up = l[2] => <<l[1], m>> \in DOMAIN o
    BY DEF OwnPlaces
  <2>2. n \in Hidden(g, d) /\ d[n].layer = d[l[2]].layer
    BY <1>0, <1>2, <2>1, NotHidden
  <2>3. d[n].kind # "link"
    BY <1>0, <2>2, NotHidden
  <2>4. PICK m : m = <<l[1], n>>
    OBVIOUS
  <2>5. m[1] = l[1] /\ m[2] = n /\ m \in C!Views \X DOMAIN d
    BY <2>1, <2>4
  <2>6. CASE m \in DOMAIN o
    <3>1. m \notin DOMAIN g.over
      <4>1. DOMAIN g.over \subseteq C!Views \X DOMAIN g.disk
        BY <1>0, GivenIs DEF Image
      <4>2. n \notin DOMAIN g.disk
        BY <2>2 DEF Hidden, News
      <4> QED
        BY <2>5, <4>1, <4>2
    <3>2. C!Cross(o, m) = o[m]
      BY <2>6 DEF C!Cross
    <3> QED
      BY <1>1, <2>3, <2>4, <2>6, <3>1, <3>2
  <2>7. CASE m \notin DOMAIN o
    <3>1. C!Cross(o, m) = m
      BY <2>7 DEF C!Cross
    <3>2. d[n].layer # "dev"
      BY <1>2, <2>1, <2>2, <2>4, <2>7
    <3>3. m \in OwnPlaces(g, d, o)
      BY <2>2, <2>5, <3>2 DEF OwnPlaces
    <3> QED
      BY <2>3, <2>4, <3>1, <3>3
  <2> QED
    BY <2>6, <2>7
<1>3. Shut(d, o, OwnPlaces(g, d, o))
  BY <1>2 DEF Shut
<1>4. Overlays(g.over, o, OwnPlaces(g, d, o))
  BY <1>0, <1>1 DEF Keys, Overlays
<1> QED
  BY <1>3, <1>4

\* Whatever the name is in the image, what a command finds there was mounted.
LEMMA EndsInOwn ==
  ASSUME NEW g, NEW d, NEW o, NEW ts, NEW priv, Whole(g, d, o, ts, priv), HasReached(g, d, o, ts, 29),
         NEW view \in Use(g), NEW name \in Names3, NEW r, r = C!OpenIn(d, o, C!TopOf(view), <<name>>, Both), r.err = "ok"
  PROVE  r.at \in OwnPlaces(g, d, o)
<1>0. g \in Inputs /\ Image(d, o) /\ GrewFrom(g, d) /\ view \in C!Views /\ name \in STRING
  BY Words DEF Whole, Use, C!Views, Names3
<1>1. PICK t : t = ts[<<view, name>>]
  OBVIOUS
<1>2. MountedAt(g, d, o, view, name, t)
  BY <1>1, MountedIs
<1>3. t # C!TopOf(view) /\ t \in DOMAIN o /\ t \notin DOMAIN g.over
  BY <1>2 DEF MountedAt
<1>4. C!OpenIn(d, g.over, C!TopOf(view), <<name>>, {"links"}) = C!Found(t)
  BY <1>2 DEF MountedAt, PinnedAt
<1>5. PICK root \in C!Views \X DOMAIN d : root = C!TopOf(view)
  BY <1>0, TopIs
<1>6. <<name>> \in Seq(STRING)
  BY <1>0, Single1
<1>7. PICK w : w = [at |-> root, path |-> <<name>>, links |-> MaxLinks]
  OBVIOUS
<1>8. w \in Ways(d) /\ w.at = root
  BY <1>6, <1>7, Links DEF Ways
<1>9. C!Lookup(d, g.over, root, {"links"})[w] = C!Found(t)
  BY <1>4, <1>5, <1>7 DEF C!OpenIn
<1>10. C!Lookup(d, g.over, root, {"links"})[w].err = "ok" /\ C!Lookup(d, g.over, root, {"links"})[w].at = t
  BY <1>9 DEF C!Found
<1>11. C!Lookup(d, o, root, {"links", "mounts"})[w] = r
  BY <1>5, <1>7 DEF C!OpenIn, Both
<1>12. C!Lookup(d, o, root, {"links", "mounts"})[w].err = "ok"
  BY <1>11
<1>13. PICK L : L = OwnPlaces(g, d, o)
  OBVIOUS
<1>14. Shut(d, o, L) /\ Overlays(g.over, o, L)
  BY <1>13, OwnIs
<1>15. Image(d, g.over)
  BY <1>0, ImageGiven
<1>16. EndsThere(d, g.over, o, L, root, w)
  BY <1>0, <1>8, <1>10, <1>12, <1>14, <1>15, Covering
<1>17. r.at = C!Cross(o, t) \/ r.at \in L
  BY <1>3, <1>5, <1>10, <1>11, <1>16 DEF EndsThere
<1>18. C!Cross(o, t) \in L
  BY <1>3, <1>14 DEF C!Cross, Overlays
<1> QED
  BY <1>13, <1>17, <1>18

LEMMA NotOfTheImage ==
  ASSUME NEW g, NEW d, NEW o, NEW ts, NEW priv, Whole(g, d, o, ts, priv), HasReached(g, d, o, ts, 29),
         NEW view \in Use(g), NEW name \in Names3
  PROVE  Shown(d, o, view, <<name>>) \notin {"root", "output", "stage"}
<1>0. g \in Inputs /\ Image(d, o) /\ GrewFrom(g, d) /\ view \in C!Views /\ name \in STRING
  BY Words DEF Whole, Use, C!Views, Names3
<1>1. PICK r : r = C!OpenIn(d, o, C!TopOf(view), <<name>>, Both)
  OBVIOUS
<1>2. CASE r.err = "ok"
  <2>1. r.at \in OwnPlaces(g, d, o)
    BY <1>1, <1>2, EndsInOwn
  <2>2. r.at[2] \in Hidden(g, d)
    BY <2>1 DEF OwnPlaces
  <2>3. d[r.at[2]].layer \notin {"root", "output", "stage"}
    BY <1>0, <2>2, NotHidden
  <2> QED
    BY <1>1, <1>2, <2>3 DEF Shown
<1>3. CASE r.err # "ok"
  <2>1. PICK root \in C!Views \X DOMAIN d : root = C!TopOf(view)
    BY <1>0, TopIs
  <2>2. <<name>> \in Seq(STRING)
    BY <1>0, Single1
  <2>3. [at |-> root, path |-> <<name>>, links |-> MaxLinks] \in Ways(d)
    BY <2>1, <2>2, Links DEF Ways
  <2>4. C!Lookup(d, o, root, Both) \in [Ways(d) -> Results(d)]
    BY <1>0, <2>1, LookupIs
  <2>5. r \in Results(d)
    BY <1>1, <2>1, <2>3, <2>4 DEF C!OpenIn
  <2>6. r.err \notin {"root", "output", "stage"}
    BY <2>5 DEF Results, Answers
  <2> QED
    BY <1>1, <1>3, <2>6 DEF Shown
<1> QED
  BY <1>2, <1>3

\* Devices come with what is mounted in them.
LEMMA DevicesComplete ==
  ASSUME NEW g, NEW d, NEW o, NEW ts, NEW priv, Whole(g, d, o, ts, priv), HasReached(g, d, o, ts, 29),
         NEW view \in Use(g), Shown(d, o, view, <<"dev">>) = "dev", NEW x \in {"pts", "shm"}
  PROVE  Shown(d, o, view, <<"dev", x>>) = x
<1>0. /\ g \in Inputs /\ Image(d, o) /\ GrewFrom(g, d) /\ Keys(g, d, o, ts, priv) /\ PinsOf(g, d, ts) /\ view \in C!Views
      /\ "dev" \in STRING /\ x \in STRING /\ "dev" \in Names3 /\ "root" \in Use(g)
  BY Words DEF Whole, Use, C!Views, Names3
<1>1. PICK r : r = C!OpenIn(d, o, C!TopOf(view), <<"dev">>, Both)
  OBVIOUS
<1>2. PICK root \in C!Views \X DOMAIN d : root = C!TopOf(view)
  BY <1>0, TopIs
<1>3. <<"dev">> \in Seq(STRING)
  BY <1>0, Single1
<1>4. PICK path \in Seq(STRING) : path = <<"dev">>
  BY <1>3
<1>5. [at |-> root, path |-> path, links |-> MaxLinks] \in Ways(d)
  BY <1>2, Links DEF Ways
<1>6. r = C!Lookup(d, o, root, Both)[[at |-> root, path |-> path, links |-> MaxLinks]]
  BY <1>1, <1>2, <1>4 DEF C!OpenIn
<1>7. r \in Results(d)
  <2>1. C!Lookup(d, o, root, Both) \in [Ways(d) -> Results(d)]
    BY <1>0, LookupIs
  <2> QED
    BY <1>5, <1>6, <2>1
<1>8. r.err = "ok" /\ d[r.at[2]].layer = "dev"
  <2>1. r.err # "dev"
    BY <1>7 DEF Results, Answers
  <2> QED
    BY <1>1, <2>1 DEF Shown
<1>9. PICK l : l = r.at
  OBVIOUS
<1>10. l \in OwnPlaces(g, d, o)
  BY <1>0, <1>1, <1>8, <1>9, EndsInOwn
<1>11. /\ l \in C!Views \X DOMAIN d /\ l[2] \in Hidden(g, d) /\ d[l[2]].up = 0 /\ d[l[2]].layer = "dev"
       /\ \A n \in DOMAIN d : d[n].up = l[2] => <<l[1], n>> \in DOMAIN o
  BY <1>8, <1>9, <1>10 DEF OwnPlaces
<1>12. r = C!Found(l)
  BY <1>7, <1>8, <1>9, OkIs
<1>13. PICK n \in DOMAIN d : d[n].up = l[2] /\ d[n].name = x
  <2>1. 25 < 29
    OBVIOUS
  <2>2. PICK top \in Nat : DevIs(d, top)
    BY <2>1 DEF HasReached, RootDev
  <2>3. d[top + 1].up # 0 /\ d[top + 2].up # 0
    <3>1. top \in DOMAIN d /\ d[top + 1].up = top /\ d[top + 2].up = top
      BY <1>0, <2>2, NodeIs, DevNodes DEF DevIs
    <3>2. 0 \notin DOMAIN d
      BY <1>0 DEF Image
    <3> QED
      BY <3>1, <3>2
  <2>4. l[2] \in {top, top + 1, top + 2}
    BY <1>11, <2>2 DEF DevIs
  <2>5. l[2] = top
    BY <1>11, <2>3, <2>4
  <2>6. \E n \in DOMAIN d : d[n].up = top /\ d[n].name = x
    BY <1>0, <2>2, DevNodes
  <2> QED
    BY <2>5, <2>6
<1>14. n \in Hidden(g, d) /\ d[n].layer = "dev"
  BY <1>0, <1>11, <1>13, NotHidden
<1>15. d[n].kind # "link" /\ d[n].up # 0
  BY <1>0, <1>11, <1>13, <1>14, NotHidden
<1>16. PICK m : m = <<l[1], n>>
  OBVIOUS
<1>17. m[1] = l[1] /\ m[2] = n /\ m \in DOMAIN o
  BY <1>11, <1>13, <1>16
<1>18. d[o[m][2]].layer = x
  <2>1. m \notin DOMAIN g.over
    <3>1. DOMAIN g.over \subseteq C!Views \X DOMAIN g.disk
      BY <1>0, GivenIs DEF Image
    <3>2. n \notin DOMAIN g.disk
      BY <1>14 DEF Hidden, News
    <3> QED
      BY <1>17, <3>1, <3>2
  <2>2. KeyGood(g, d, ts, priv, m, o[m])
    BY <1>0, <1>17, <2>1 DEF Keys
  <2>3. ASSUME NEW name \in Names3, <<m[1], name>> \in DOMAIN ts, m = ts[<<m[1], name>>] PROVE FALSE
    <3>1. PICK y \in DOMAIN ts : y = <<m[1], name>>
      BY <2>3
    <3>2. PinnedAt(g, d, y[1], y[2], ts[y])
      BY <1>0, <3>1 DEF PinsOf
    <3>3. m[2] \notin Hidden(g, d)
      BY <2>3, <3>1, <3>2 DEF PinnedAt
    <3> QED
      BY <1>14, <1>17, <3>3
  <2>4. d[m[2]].up # 1
    BY <1>0, <1>11, <1>13, <1>17, NotHidden
  <2>5. d[m[2]].name = x
    BY <1>13, <1>17
  <2> QED
    BY <2>2, <2>3, <2>4, <2>5 DEF KeyGood
<1>19. d[l[2]].kind = "dir"
  <2>1. l[2] \in News(g, d)
    BY <1>11 DEF Hidden
  <2>2. NewNode(g, d, d[l[2]])
    BY <1>0, <2>1 DEF GrewFrom
  <2> QED
    BY <1>11, <2>2 DEF NewNode
<1>20. PICK s : s = C!Lookup(d, o, root, Both)[[at |-> root, path |-> path \o <<x>>, links |-> MaxLinks]]
  OBVIOUS
<1>21. OnwardFrom(d, o, root, Both, path, x, l, s)
  BY <1>5, <1>6, <1>12, <1>20 DEF OnwardFrom
<1>22. PICK k \in 0..MaxLinks : OneIs(d, o, root, Both, l, x, k, s)
  BY <1>0, <1>21, OneAfter
<1>23. "mounts" \in Both
  BY DEF Both
<1>24. OneIs(d, o, root, Both, l, x, k, C!Found(C!Cross(o, <<l[1], n>>)))
  BY <1>0, <1>11, <1>13, <1>15, <1>19, <1>23, OneStep
<1>25. s = C!Found(o[m])
  BY <1>16, <1>17, <1>22, <1>24 DEF OneIs, C!Cross
<1>26. s.err = "ok" /\ s.at = o[m]
  BY <1>25 DEF C!Found
<1>27. s = C!OpenIn(d, o, C!TopOf(view), <<"dev", x>>, Both)
  <2>1. path \o <<x>> = <<"dev", x>>
    <3>1. <<"dev">> \o <<x>> = <<"dev", x>>
      BY <1>0, PairIs, Zenon
    <3> QED
      BY <1>4, <3>1
  <2> QED
    BY <1>2, <1>20, <2>1 DEF C!OpenIn
<1> QED
  BY <1>18, <1>26, <1>27 DEF Shown

-----------------------------------------------------------------------------
(* The shell and the end of the setup *)

\* What is known once everything is mounted.
LEMMA LateIs ==
  ASSUME RootInv, NEW h, First(todo, h), Rank(h) >= 30
  PROVE  /\ HasReached(given, disk, over, targets, 29) /\ Spans(todo, 0, 34, Legal(given)) /\ Rank(h) \in 30..33
         /\ \A op : Holds(Tail(todo), op) => Holds(todo, op) /\ Earlier(h, op) /\ Rank(op) >= Rank(h) /\ (Rank(h) # 31 => Rank(op) > Rank(h))
<1>1. Spans(todo, 0, 34, Legal(given)) /\ Rank(h) \in 0..33
  BY RankIs DEF RootInv, Going
<1>2. Rank(h) \in 30..33 /\ Rank(h) \in Nat /\ Rank(h) >= 29
  BY <1>1
<1>3. HasReached(given, disk, over, targets, Rank(h))
  BY <1>1, ReachedIs DEF RootInv
<1>4. HasReached(given, disk, over, targets, 29)
  BY <1>2, <1>3, ReachedLess
<1>5. ASSUME NEW op, Holds(Tail(todo), op)
      PROVE  Holds(todo, op) /\ Earlier(h, op) /\ Rank(op) >= Rank(h) /\ (Rank(h) # 31 => Rank(op) > Rank(h))
  <2>1. Holds(todo, op) /\ Earlier(h, op)
    BY <1>1, <1>5, Remains
  <2>2. Rank(op) \in 0..33
    BY RankIs
  <2> QED
    BY <1>1, <2>1, <2>2 DEF Earlier
<1> QED
  BY <1>1, <1>2, <1>4, <1>5

\* The same of the state that follows.
LEMMA LateStep ==
  ASSUME RootInv, phase = "setup", NEW p, todo' = p, given' = given, fault' = fault, loose' = loose, targets' = targets,
         Whole(given, disk', over', targets, private'), HasReached(given, disk', over', targets, 29),
         Spans(p, 0, 34, Legal(given)), Later(p, 30), Shelf',
         \/ phase' = phase /\ Holds(p, Start3)
         \/ phase' = "started" /\ p = <<>> /\ C!Shows("root", <<"proc">>)' = "proc"
  PROVE  RootInv'
<1>1. \A op : Rank(op) \in 0..33
  BY RankIs
<1>2. \A op : Holds(p, op) => Rank(op) > 28 /\ ~(Rank(op) < 20) /\ ~(Rank(op) < 26) /\ ~(Rank(op) < 31)
  <2>1. \A k \in 0..33 : k > 30 => k > 28 /\ ~(k < 20) /\ ~(k < 26) /\ ~(k < 31)
    OBVIOUS
  <2> QED
    BY <1>1, <2>1 DEF Later
<1>3. Later(p, 28)
  BY <1>2 DEF Later
<1>4. Progress(given, disk', over', targets, p)
  BY <1>3, Settled
<1>5. Untouched(given, disk', over', private', p)
  BY <1>2 DEF Untouched
<1>6. ~Holds(p, Shell3)
  <2>1. Rank(Shell3) = 30
    BY DEF Rank, Shell3
  <2>2. ~(Rank(Shell3) > 30)
    BY <2>1
  <2> QED
    BY <2>2 DEF Later
<1>7. Going'
  BY <1>6 DEF RootInv, Going
<1>8. Refused'
  BY DEF Refused
<1> QED
  BY <1>4, <1>5, <1>7, <1>8 DEF RootInv

LEMMA PlaceRank ==
  ASSUME NEW op
  PROVE  (Rank(op) = 31 <=> op[1] = "place") /\ Rank(Start3) = 33 /\ Rank(Shell3) = 30
BY DEF Rank, Start3, Shell3

\* shell::install
LEMMA ChooseKeeps ==
  ASSUME RootInv, C!ChooseShell
  PROVE  RootInv'
<1>1. PICK h \in Legal(given) : First(todo, h) /\ h[1] = "shell" /\ h = Head(todo) /\ C!View = h[2] /\ C!What = h[3] /\ phase = "setup"
  BY StepIs DEF C!ChooseShell
<1>2. h = Shell3
  BY <1>1, LegalIs DEF Shell3
<1>3. Rank(h) = 30 /\ Rank(h) >= 30 /\ Rank(h) < 31 /\ Rank(h) # 31
  BY <1>2, PlaceRank
<1>4. /\ HasReached(given, disk, over, targets, 29) /\ Spans(todo, 0, 34, Legal(given))
      /\ \A op : Holds(Tail(todo), op) => Holds(todo, op) /\ Rank(op) > 30
  BY <1>1, <1>3, LateIs
<1>5. Whole(given, disk, over, targets, private) /\ given \in Inputs
  BY DEF RootInv, Whole
<1>6. private = {} /\ NoShell(given, disk)
  BY <1>1, <1>3, <1>4, UntouchedNow DEF RootInv
<1>7. Holds(todo, h) /\ Holds(Tail(todo), Start3) /\ Spans(Tail(todo), 0, 34, Legal(given))
  <2>1. Holds(todo, Start3) /\ Start3 # h
    BY <1>1, <1>2, PlaceRank DEF RootInv, Going, Start3, Shell3
  <2> QED
    BY <1>1, <1>4, <2>1, Remains
<1>8. \A op : Holds(Tail(todo), op) => op[1] # "place"
  BY <1>2, <1>4, <1>7 DEF RootInv, Going
<1>9. PICK word : Shelved(given, disk, over, private, word)
  BY DEF RootInv, Shelf
<1> DEFINE each == C!Tools \o given.libraries
<1>10. PICK place : place = [i \in DOMAIN each |-> <<"place", "root", each[i]>>]
  OBVIOUS
<1>11. Places(given, place)
  BY <1>10 DEF Places, All
<1>12. CASE C!ShellPresent
  <2>1. /\ todo' = Tail(todo) /\ given' = given /\ disk' = disk /\ over' = over /\ targets' = targets /\ loose' = loose
        /\ private' = private /\ phase' = phase /\ fault' = fault
    BY <1>12 DEF C!ChooseShell, C!mounted
  <2>2. Later(Tail(todo), 31) /\ Later(Tail(todo), 30)
    <3>1. ASSUME NEW op, Holds(Tail(todo), op) PROVE Rank(op) > 31 /\ Rank(op) > 30
      <4>1. Rank(op) > 30 /\ Rank(op) # 31 /\ Rank(op) \in 0..33
        BY <1>4, <1>8, <3>1, PlaceRank, RankIs
      <4> QED
        BY <4>1
    <3> QED
      BY <3>1 DEF Later
  <2>3. C!ShellPresent'
    BY <1>12, <2>1 DEF C!ShellPresent, C!Sought, C!Open, C!Kind
  <2>4. Shelf'
    BY <1>6, <1>9, <2>1, <2>2, <2>3 DEF Shelf
  <2>5. Whole(given, disk', over', targets, private') /\ HasReached(given, disk', over', targets, 29)
    BY <1>4, <1>5, <2>1
  <2> QED
    BY <1>1, <1>7, <2>1, <2>2, <2>4, <2>5, LateStep
<1>13. CASE ~C!ShellPresent /\ (C!SearchFails \/ \E i \in 1..2 : C!NonRegular(C!Tools[i]))
  <2>1. C!Fail
    BY <1>13 DEF C!ChooseShell
  <2>2. ~Bare(given)
    <3>1. SUFFICES ASSUME Bare(given) PROVE FALSE
      OBVIOUS
    <3>2. "mounts" \in {"links", "mounts"} /\ "mounts" \in {"mounts"} /\ "sh" \in {"sh", "cat"} /\ "cat" \in {"sh", "cat"}
      OBVIOUS
    <3>3. ToolSeen(C!Sought)
      BY <1>5, <1>6, <3>1, <3>2, ToolIs DEF C!Sought
    <3>4. ToolSeen(C!Open(C!Root, <<"bin", "sh">>, {"mounts"})) /\ ToolSeen(C!Open(C!Root, <<"bin", "cat">>, {"mounts"}))
      BY <1>5, <1>6, <3>1, <3>2, ToolIs
    <3>5. ~C!SearchFails
      BY <1>13, <3>3 DEF ToolSeen, C!SearchFails, C!ShellPresent
    <3>6. ~C!NonRegular(<<"bin", "sh">>) /\ ~C!NonRegular(<<"bin", "cat">>)
      BY <3>4 DEF ToolSeen, C!NonRegular
    <3>7. C!Tools[1] = <<"bin", "sh">> /\ C!Tools[2] = <<"bin", "cat">> /\ \A i \in 1..2 : i = 1 \/ i = 2
      BY DEF C!Tools
    <3>8. \A i \in 1..2 : ~C!NonRegular(C!Tools[i])
      BY <3>6, <3>7
    <3> QED
      BY <1>13, <3>5, <3>8
  <2> QED
    BY <2>1, <2>2, EndStep
<1>14. CASE ~C!ShellPresent /\ ~(C!SearchFails \/ \E i \in 1..2 : C!NonRegular(C!Tools[i]))
  <2>1. /\ todo' = place \o Tail(todo) /\ given' = given /\ disk' = disk /\ over' = over /\ targets' = targets /\ loose' = loose
        /\ private' = private /\ phase' = phase /\ fault' = fault
    BY <1>10, <1>14 DEF C!ChooseShell, C!mounted
  <2>2. Starts(todo, "shell")
    BY <1>1 DEF Starts, First
  <2>3. /\ Spans(place \o Tail(todo), 0, 34, Legal(given))
        /\ \A op : Holds(place \o Tail(todo), op) <=> Holds(Tail(todo), op) \/ op \in {"place"} \X {"root"} \X Wanted(given)
    BY <1>4, <1>5, <1>11, <2>2, PlaceFirst
  <2>4. PICK p : p = place \o Tail(todo)
    OBVIOUS
  <2>5. Later(p, 30)
    <3>1. ASSUME NEW op, Holds(p, op) PROVE Rank(op) > 30
      <4>1. CASE Holds(Tail(todo), op)
        BY <1>4, <4>1
      <4>2. CASE op \in {"place"} \X {"root"} \X Wanted(given)
        <5>1. op[1] = "place"
          BY <4>2
        <5>2. Rank(op) = 31
          BY <5>1, PlaceRank
        <5> QED
          BY <5>2
      <4> QED
        BY <2>3, <2>4, <3>1, <4>1, <4>2
    <3> QED
      BY <3>1 DEF Later
  <2>6. \A q \in Wanted(given) : Holds(p, Place3(q))
    BY <2>3, <2>4 DEF Place3
  <2>7. Shelf'
    BY <1>9, <2>1, <2>4, <2>5, <2>6 DEF Shelf
  <2>8. Holds(p, Start3) /\ Spans(p, 0, 34, Legal(given)) /\ todo' = p
    BY <1>7, <2>1, <2>3, <2>4
  <2>9. Whole(given, disk', over', targets, private') /\ HasReached(given, disk', over', targets, 29)
    BY <1>4, <1>5, <2>1
  <2> QED
    BY <1>1, <2>1, <2>5, <2>7, <2>8, <2>9, LateStep
<1> QED
  BY <1>12, <1>13, <1>14

\* Layout::place
LEMMA PlaceKeeps ==
  ASSUME RootInv, C!Place
  PROVE  RootInv'
<1>1. PICK h \in Legal(given) : First(todo, h) /\ h[1] = "place" /\ h = Head(todo) /\ C!View = h[2] /\ C!What = h[3] /\ phase = "setup"
  BY StepIs DEF C!Place
<1>2. h[3] \in Wanted(given) /\ h = Place3(h[3])
  BY <1>1, LegalIs DEF Place3
<1>3. PICK p \in Wanted(given) : p = h[3]
  BY <1>2
<1>4. h = Place3(p) /\ C!What = p
  BY <1>1, <1>2, <1>3
<1>5. Rank(h) = 31 /\ Rank(h) >= 30 /\ Rank(h) > 30
  <2>1. Rank(h) = 31
    BY <1>1, PlaceRank
  <2> QED
    BY <2>1
<1>6. /\ HasReached(given, disk, over, targets, 29) /\ Spans(todo, 0, 34, Legal(given))
      /\ \A op : Holds(Tail(todo), op) => Holds(todo, op) /\ Rank(op) >= 31
  BY <1>1, <1>5, LateIs
<1>7. Whole(given, disk, over, targets, private) /\ given \in Inputs /\ Image(disk, over)
  BY DEF RootInv, Whole
<1>8. Holds(todo, h) /\ Spans(Tail(todo), 0, 34, Legal(given)) /\ \A op : Holds(todo, op) => op = h \/ Holds(Tail(todo), op)
  BY <1>1, <1>6, Remains
<1>9. Holds(Tail(todo), Start3)
  <2>1. Holds(todo, Start3) /\ Start3 # h
    BY <1>1, <1>5, PlaceRank DEF RootInv, Going
  <2> QED
    BY <1>8, <2>1
<1>10. Later(Tail(todo), 30)
  <2>1. ASSUME NEW op, Holds(Tail(todo), op) PROVE Rank(op) > 30
    <3>1. Rank(op) >= 31 /\ Rank(op) \in 0..33
      BY <1>6, <2>1, RankIs
    <3> QED
      BY <3>1
  <2> QED
    BY <2>1 DEF Later
<1>11. ~Holds(todo, Shell3)
  BY <1>1, <1>5, <1>6, Behind
<1>12. ~Later(todo, 31)
  <2>1. ~(Rank(h) > 31)
    BY <1>5
  <2> QED
    BY <1>8, <2>1 DEF Later
<1>13. PICK word : /\ Shelved(given, disk, over, private, word)
                   /\ \A q \in Wanted(given) : Holds(todo, Place3(q)) \/ InPlace(given, disk, word, q)
  BY <1>11, <1>12 DEF RootInv, Shelf
<1>14. /\ p \in Seq(STRING) /\ Len(p) >= 2 /\ Head(p) \in STRING /\ Head(p) = p[1] /\ Tail(p) # <<>>
  <2>1. p \in Seq(STRING) /\ Len(p) >= 2 /\ Head(p) \in STRING
    BY <1>7, AppliancePaths
  <2>2. p # <<>>
    BY <2>1
  <2>3. Len(Tail(p)) = Len(p) - 1 /\ Head(p) = p[1]
    BY <2>1, <2>2, Split
  <2>4. PICK k \in Nat : k = Len(p) /\ k >= 2
    BY <2>1, TwoOrMore
  <2>5. Len(Tail(p)) # 0
    BY <2>3, <2>4
  <2>6. Tail(p) # <<>>
    <3>1. Len(<<>>) = 0
      OBVIOUS
    <3> QED
      BY <2>5, <3>1
  <2> QED
    BY <2>1, <2>3, <2>6
<1>15. PICK c : c = C!Covered(Head(p))
  OBVIOUS
<1>16. CASE c.err # "ok"
  <2>1. C!Fail
    BY <1>4, <1>15, <1>16 DEF C!Place
  <2>2. ASSUME Bare(given) PROVE FALSE
    <3>1. PICK found : found = C!OpenDir(C!Root, <<Head(p)>>, {})
      OBVIOUS
    <3>2. Head(p) \notin private /\ found.err \notin {"ok", "NOENT"}
      BY <1>15, <1>16, <3>1 DEF C!Covered
    <3>3. PICK n : TopTaken(disk, over, Head(p), n)
      BY <1>7, <1>14, <3>1, <3>2, TopFound
    <3>4. n \in DOMAIN disk /\ disk[n].up = 1 /\ disk[n].name = Head(p)
      BY <3>3 DEF TopTaken
    <3>5. disk[n].kind = "dir" /\ <<"root", n>> \notin DOMAIN over
      BY <1>7, <2>2, <3>2, <3>4, FreeTop
    <3> QED
      BY <3>3, <3>5 DEF TopTaken
  <2> QED
    BY <2>1, <2>2, EndStep
<1>17. CASE c.err = "ok"
  <2>1. PICK e, more : e = C!Written(c.disk, c.at[2], Tail(p)) /\ more = private \cup {Head(p)}
    OBVIOUS
  <2>2. /\ disk' = e /\ over' = c.over /\ private' = more /\ todo' = Tail(todo) /\ given' = given /\ phase' = phase /\ fault' = fault
        /\ targets' = targets /\ loose' = loose
    BY <1>4, <1>14, <1>15, <1>17, <2>1 DEF C!Place, C!Done
  <2>3. PICK w2 : /\ Whole(given, e, c.over, targets, more) /\ Shelved(given, e, c.over, more, w2)
                  /\ More(given, disk, word, e, w2) /\ InPlace(given, e, w2, p) /\ Covers(over, c.over)
    BY <1>7, <1>13, <1>15, <1>17, <2>1, PlaceStep
  <2>4. Kept(disk, over, targets, e, c.over, targets, {})
    BY <1>7, <2>3 DEF Kept, More, Covers
  <2>5. Apart3(given, disk, targets, e, {}, 29)
    BY <2>3 DEF Apart3, More
  <2>6. HasReached(given, e, c.over, targets, 29)
    BY <1>6, <2>4, <2>5, ReachedStays
  <2>7. \A q \in Wanted(given) : Holds(Tail(todo), Place3(q)) \/ InPlace(given, e, w2, q)
    <3>1. ASSUME NEW q \in Wanted(given) PROVE Holds(Tail(todo), Place3(q)) \/ InPlace(given, e, w2, q)
      <4>1. CASE InPlace(given, disk, word, q)
        BY <2>3, <4>1, PlacedStill
      <4>2. CASE Holds(todo, Place3(q)) /\ Place3(q) # h
        BY <1>8, <4>2
      <4>3. CASE Place3(q) = h
        <5>1. q = p
          BY <1>4, <4>3 DEF Place3
        <5> QED
          BY <2>3, <5>1
      <4> QED
        BY <1>13, <4>1, <4>2, <4>3
    <3> QED
      BY <3>1
  <2>8. Shelf'
    BY <1>10, <2>2, <2>3, <2>7 DEF Shelf
  <2>9. Whole(given, disk', over', targets, private') /\ HasReached(given, disk', over', targets, 29)
    BY <2>2, <2>3, <2>6
  <2>10. PICK t : t = Tail(todo)
    OBVIOUS
  <2>11. todo' = t /\ Spans(t, 0, 34, Legal(given)) /\ Later(t, 30) /\ Holds(t, Start3)
    BY <1>8, <1>9, <1>10, <2>2, <2>10
  <2> QED
    BY <1>1, <2>2, <2>8, <2>9, <2>11, LateStep
<1> QED
  BY <1>16, <1>17

\* When the shell is done, it is there.
ShellDone(g, d, o, priv) ==
  \E word : Shelved(g, d, o, priv, word) /\ ((priv = {} /\ C!ShellPresent) \/ \A p \in Wanted(g) : InPlace(g, d, word, p))
LEMMA ShelfDone ==
  ASSUME RootInv, NEW h, First(todo, h), Rank(h) > 31
  PROVE  ShellDone(given, disk, over, private)
<1>1. Rank(h) >= 30 /\ Rank(h) > 30 /\ Rank(h) # 31
  <2>1. \A k \in 0..33 : k > 31 => k >= 30 /\ k > 30 /\ k # 31
    OBVIOUS
  <2> QED
    BY <2>1, RankIs
<1>2. Spans(todo, 0, 34, Legal(given)) /\ \A op : Holds(Tail(todo), op) => Rank(op) > Rank(h)
  BY <1>1, LateIs
<1>3. \A op : Holds(todo, op) => Rank(op) > 31 /\ Rank(op) # 31
  <2>1. ASSUME NEW op, Holds(todo, op) PROVE Rank(op) > 31 /\ Rank(op) # 31
    <3>1. op = h \/ Holds(Tail(todo), op)
      BY <1>2, <2>1, Remains
    <3>2. op = h \/ Rank(op) > Rank(h)
      BY <1>2, <3>1
    <3>3. Rank(op) \in 0..33 /\ Rank(h) \in 0..33
      BY RankIs
    <3> QED
      BY <1>1, <3>2, <3>3
  <2> QED
    BY <2>1
<1>4. \A q : ~Holds(todo, Place3(q))
  BY <1>3, PlaceRank DEF Place3
<1>5. ~Holds(todo, Shell3)
  BY <1>1, <1>2, Behind
<1> QED
  BY <1>4, <1>5 DEF RootInv, Shelf, ShellDone

\* What is left after a step that leaves the shell alone.
LEMMA LateAgain ==
  ASSUME RootInv, phase = "setup", NEW h, First(todo, h), Rank(h) > 31, NEW p, todo' = p, given' = given, fault' = fault, loose' = loose, targets' = targets,
         disk' = disk, over' = over, private' = private, Spans(p, 0, 34, Legal(given)), Later(p, 31),
         \/ phase' = phase /\ Holds(p, Start3)
         \/ phase' = "started" /\ p = <<>> /\ C!Shows("root", <<"proc">>)' = "proc"
  PROVE  RootInv'
<1>1. Rank(h) >= 30
  <2>1. \A k \in 0..33 : k > 31 => k >= 30
    OBVIOUS
  <2> QED
    BY <2>1, RankIs
<1>2. HasReached(given, disk, over, targets, 29)
  BY <1>1, LateIs
<1>3. Whole(given, disk', over', targets, private') /\ HasReached(given, disk', over', targets, 29)
  BY <1>2 DEF RootInv
<1>4. Later(p, 30)
  <2>1. \A k \in 0..33 : k > 31 => k > 30
    OBVIOUS
  <2> QED
    BY <2>1, RankIs DEF Later
<1>5. C!ShellPresent' = C!ShellPresent
  BY DEF C!ShellPresent, C!Sought, C!Open, C!Kind
<1>6. Shelf'
  <2>1. PICK word : Shelved(given, disk, over, private, word) /\ ((private = {} /\ C!ShellPresent) \/ \A q \in Wanted(given) : InPlace(given, disk, word, q))
    BY ShelfDone DEF ShellDone
  <2>2. CASE private = {} /\ C!ShellPresent
    BY <1>5, <2>1, <2>2 DEF Shelf
  <2>3. CASE \A q \in Wanted(given) : InPlace(given, disk, word, q)
    BY <1>4, <2>1, <2>3 DEF Shelf
  <2> QED
    BY <2>1, <2>2, <2>3
<1> QED
  BY <1>3, <1>4, <1>6, LateStep

\* EnteredRoot, the pivot
LEMMA PivotKeeps ==
  ASSUME RootInv, C!Pivot
  PROVE  RootInv'
<1>1. PICK h \in Legal(given) : First(todo, h) /\ h[1] = "pivot" /\ h = Head(todo) /\ C!View = h[2] /\ C!What = h[3] /\ phase = "setup"
  BY StepIs DEF C!Pivot
<1>2. h = <<"pivot", "root", "tree">>
  BY <1>1, LegalIs
<1>3. Rank(h) = 32 /\ Rank(h) > 31 /\ Rank(h) >= 30 /\ Rank(h) # 31
  <2>1. Rank(h) = 32
    BY <1>2 DEF Rank
  <2> QED
    BY <2>1
<1>4. Spans(todo, 0, 34, Legal(given)) /\ \A op : Holds(Tail(todo), op) => Rank(op) > 32
  BY <1>1, <1>3, LateIs
<1>5. Holds(Tail(todo), Start3) /\ Spans(Tail(todo), 0, 34, Legal(given))
  <2>1. Holds(todo, Start3) /\ Start3 # h
    BY <1>1, <1>2 DEF RootInv, Going, Start3
  <2> QED
    BY <1>1, <1>4, <2>1, Remains
<1>6. Later(Tail(todo), 31)
  <2>1. \A k \in 0..33 : k > 32 => k > 31
    OBVIOUS
  <2> QED
    BY <1>4, <2>1, RankIs DEF Later
<1>7. PICK t : t = Tail(todo)
  OBVIOUS
<1>8. /\ todo' = t /\ given' = given /\ phase' = phase /\ fault' = fault /\ targets' = targets /\ loose' = loose
      /\ disk' = disk /\ over' = over /\ private' = private
  BY <1>7 DEF C!Pivot, C!Done, C!CloneOfTree
<1>9. Spans(t, 0, 34, Legal(given)) /\ Later(t, 31) /\ Holds(t, Start3)
  BY <1>5, <1>6, <1>7
<1> QED
  BY <1>1, <1>3, <1>8, <1>9, LateAgain

\* EnteredRoot::restrict, RestrictedCommand::start
LEMMA StartKeeps ==
  ASSUME RootInv, C!Start
  PROVE  RootInv'
<1>1. PICK h \in Legal(given) : First(todo, h) /\ h[1] = "start" /\ h = Head(todo) /\ C!View = h[2] /\ C!What = h[3] /\ phase = "setup"
  BY StepIs DEF C!Start
<1>2. h = Start3
  BY <1>1, LegalIs DEF Start3
<1>3. Rank(h) > 31 /\ Rank(h) >= 30
  <2>1. Rank(h) = 33
    BY <1>2, PlaceRank
  <2> QED
    BY <2>1
<1>4. HasReached(given, disk, over, targets, 29)
  BY <1>1, <1>3, LateIs
<1>5. Whole(given, disk, over, targets, private) /\ given \in Inputs /\ Image(disk, over) /\ GrewFrom(given, disk)
  BY DEF RootInv, Whole
<1>6. CASE C!Shows("root", <<"proc">>) # "proc" \/ given.extra
  <2>1. C!Fail
    BY <1>6 DEF C!Start
  <2>2. ASSUME Bare(given), ~given.extra PROVE FALSE
    <3>1. "root" \in C!Views /\ "root" \in Use(given) /\ "proc" \in Names3
      BY DEF C!Views, Use, Names3
    <3>2. PlainTop(given, "root", "proc")
      BY <2>2, <3>1 DEF Bare
    <3>3. AllDirs(disk, "root", "proc")
      <4>1. ASSUME NEW n \in C!EntryOf(disk, C!TopOf("root"), "proc") PROVE disk[n].kind = "dir"
        <5>1. n \in DOMAIN disk /\ disk[n].up = C!TopOf("root")[2] /\ disk[n].name = "proc"
          BY <4>1 DEF C!EntryOf
        <5> QED
          BY <1>5, <3>1, <3>2, <5>1, PlainIs
      <4> QED
        BY <4>1 DEF AllDirs
    <3>4. Shown(disk, over, "root", <<"proc">>) = "proc"
      BY <1>4, <1>5, <3>1, <3>3, OrdinaryIs
    <3> QED
      BY <1>6, <2>2, <3>4, ShownIs
  <2> QED
    BY <2>1, <2>2, EndStep
<1>7. CASE ~(C!Shows("root", <<"proc">>) # "proc" \/ given.extra)
  <2>1. /\ todo' = <<>> /\ given' = given /\ phase' = "started" /\ fault' = fault /\ targets' = targets /\ loose' = loose
        /\ disk' = disk /\ over' = over /\ private' = private
    BY <1>7 DEF C!Start, C!mounted
  <2>2. PICK t : t = <<>>
    OBVIOUS
  <2>3. Spans(t, 0, 34, Legal(given)) /\ Later(t, 31)
    BY <2>2, None0 DEF Later
  <2>4. C!Shows("root", <<"proc">>)' = "proc"
    BY <1>7, <2>1 DEF C!Shows, C!Open
  <2> QED
    BY <1>1, <1>3, <2>1, <2>2, <2>3, <2>4, LateAgain
<1> QED
  BY <1>6, <1>7

\* A system call fails.
LEMMA InterruptedKeeps ==
  ASSUME RootInv, C!Interrupted
  PROVE  RootInv'
<1>1. fault'
  BY DEF C!Interrupted
<1> QED
  BY <1>1, EndStep

\* CommandRoot::enter
LEMMA RootBegins ==
  ASSUME C!Init
  PROVE  RootInv
<1>1. /\ given \in Inputs /\ disk = given.disk /\ over = given.over /\ todo = C!Enter(given.bootstrap)
      /\ targets = <<>> /\ loose = {} /\ private = {} /\ phase = "setup" /\ fault = FALSE
  BY DEF C!Init
<1>2. /\ Image(given.disk, given.over) /\ GrewFrom(given, given.disk) /\ News(given, given.disk) = {}
      /\ given.bootstrap \in BOOLEAN /\ \A n \in DOMAIN given.disk : given.disk[n].layer \in {"root", "output", "stage"}
  BY <1>1, GivenIs
<1>3. Spans(todo, 0, 34, Steps3(given)) /\ \A op \in Steps3(given) : Holds(todo, op)
  BY <1>1, <1>2, EnterIs
<1>4. DOMAIN targets = {}
  BY <1>1
<1>5. Whole(given, disk, over, targets, private)
  <2>1. Keys(given, disk, over, targets, private)
    BY <1>1 DEF Keys
  <2>2. PinsOf(given, disk, targets)
    BY <1>4 DEF PinsOf
  <2> QED
    BY <1>1, <1>2, <2>1, <2>2 DEF Whole
<1>6. Progress(given, disk, over, targets, todo)
  <2>1. ASSUME NEW view \in Use(given), NEW name \in Names3 PROVE Holds(todo, <<"directory", view, name>>)
    BY <1>3 DEF Steps3, Legal
  <2>2. ASSUME NEW view \in Use(given) PROVE Holds(todo, <<"check", view, "targets">>)
    BY <1>3 DEF Steps3, Legal
  <2>3. ASSUME NEW view \in Use(given), NEW name \in {"proc", "sys"} PROVE Holds(todo, <<"attach", view, name>>)
    BY <1>3 DEF Steps3, Legal
  <2>4. Holds(todo, <<"attach", "root", "dev">>) /\ Holds(todo, <<"below", "root", "pts">>) /\ Holds(todo, <<"below", "root", "shm">>)
    BY <1>3 DEF Steps3, Legal
  <2>5. given.bootstrap => Holds(todo, <<"clone", "output", "dev">>)
    BY <1>3 DEF Steps3, Legal
  <2> QED
    BY <2>1, <2>2, <2>3, <2>4, <2>5 DEF Progress, Prog
<1>7. NoShell(given, disk)
  BY <1>1, <1>2 DEF NoShell
<1>8. Untouched(given, disk, over, private, todo)
  BY <1>1, <1>2, <1>7 DEF Untouched
<1>9. Holds(todo, Shell3) /\ Holds(todo, Start3)
  BY <1>3 DEF Steps3, Legal, Shell3, Start3
<1>10. Shelf
  BY <1>1, <1>7, <1>9, EmptyShelf DEF Shelf
<1>11. Going
  <2>1. Spans(todo, 0, 34, Legal(given))
    <3>1. todo \in Seq(Steps3(given)) /\ Steps3(given) \subseteq Legal(given)
      BY <1>3 DEF Spans, Steps3
    <3>2. todo \in Seq(Legal(given))
      BY <3>1
    <3> QED
      BY <1>3, <3>2 DEF Spans
  <2>2. \A op : Holds(todo, op) => op[1] # "place"
    BY <1>3 DEF Spans, Holds, Steps3
  <2> QED
    BY <1>1, <1>9, <2>1, <2>2 DEF Going
<1>12. Refused
  BY <1>1 DEF Refused
<1> QED
  BY <1>5, <1>6, <1>8, <1>10, <1>11, <1>12 DEF RootInv

\* A step of another part leaves the root alone.
LEMMA RootRests ==
  ASSUME RootInv, UNCHANGED C!vars
  PROVE  RootInv'
<1>1. /\ given' = given /\ disk' = disk /\ over' = over /\ todo' = todo /\ targets' = targets /\ loose' = loose /\ private' = private
      /\ phase' = phase /\ fault' = fault
  BY DEF C!vars, C!mounted
<1>2. C!ShellPresent' = C!ShellPresent /\ C!Shows("root", <<"proc">>)' = C!Shows("root", <<"proc">>)
  BY <1>1 DEF C!ShellPresent, C!Sought, C!Open, C!Kind, C!Shows
<1>3. Shelf'
  BY <1>1, <1>2 DEF RootInv, Shelf
<1>4. Going'
  BY <1>1, <1>2 DEF RootInv, Going
<1>5. Refused'
  BY <1>1 DEF RootInv, Refused
<1> QED
  BY <1>1, <1>3, <1>4, <1>5 DEF RootInv

\* The setup's steps.
LEMMA RootKeeps ==
  ASSUME RootInv, C!Next
  PROVE  RootInv'
BY DirectoryKeeps, CheckKeeps, AttachKeeps, BelowKeeps, CloneKeeps, ChooseKeeps, PlaceKeeps, PivotKeeps, StartKeeps, InterruptedKeeps
DEF C!Next

-----------------------------------------------------------------------------
(* What it means for a command *)

LEMMA TypeHolds ==
  ASSUME RootInv
  PROVE  C!TypeOK
<1>1. Image(disk, over) /\ PinsOf(given, disk, targets)
  BY DEF RootInv, Whole
<1>2. phase \in {"setup", "started", "failed"} /\ fault \in BOOLEAN /\ loose = {}
  BY DEF RootInv, Going
<1>3. \A n \in DOMAIN disk : disk[n].up \in 0..(n - 1) /\ disk[n].layer \in C!Layers
  BY <1>1 DEF Image, C!TreeOf
<1>4. \A l \in DOMAIN over : l[2] \in DOMAIN disk /\ over[l][2] \in DOMAIN disk /\ C!Kind(over[l]) = "dir"
  <2>1. ASSUME NEW l \in DOMAIN over PROVE l[2] \in DOMAIN disk /\ over[l][2] \in DOMAIN disk /\ C!Kind(over[l]) = "dir"
    <3>1. l \in C!Views \X DOMAIN disk /\ over[l] \in C!Views \X DOMAIN disk /\ disk[over[l][2]].kind = "dir"
      BY <1>1, <2>1 DEF Image
    <3> QED
      BY <3>1 DEF C!Kind
  <2> QED
    BY <2>1
<1>5. \A t \in DOMAIN targets : targets[t][1] = t[1] /\ C!Kind(targets[t]) = "dir"
  BY <1>1 DEF PinsOf, PinnedAt, C!Kind
<1>6. loose \subseteq C!Views \X C!Range(C!Controls)
  BY <1>2
<1> QED
  BY <1>2, <1>3, <1>4, <1>5, <1>6 DEF C!TypeOK

\* A command that was started has everything mounted.
LEMMA AllReached ==
  ASSUME RootInv, phase = "started"
  PROVE  HasReached(given, disk, over, targets, 29) /\ Whole(given, disk, over, targets, private) /\ \A op : ~Holds(todo, op)
<1>1. \A op : ~Holds(todo, op)
  BY None0 DEF RootInv, Going
<1>2. /\ \A view \in Use(given), name \in Names3 : <<view, name>> \in DOMAIN targets
      /\ \A view \in Use(given) : Checked(targets, view)
      /\ \A view \in Use(given), name \in {"proc", "sys"} : Attached(disk, over, targets, view, name)
      /\ RootDev(disk, over, targets)
      /\ \A x \in {"pts", "shm"} : BelowIs(disk, over, "root", x)
      /\ given.bootstrap => Cloned(disk, over, targets)
  BY <1>1 DEF RootInv, Progress, Prog
<1>3. HasReached(given, disk, over, targets, 29)
  BY <1>2 DEF HasReached
<1> QED
  BY <1>1, <1>3 DEF RootInv

LEMMA RuntimeHolds ==
  ASSUME RootInv
  PROVE  C!RuntimeShown
<1>1. SUFFICES ASSUME phase = "started", NEW view \in C!InUse, NEW i \in 1..3, NEW name, name = C!RuntimeNames[i]
      PROVE  /\ C!Shows(view, <<name>>) \notin {"root", "output", "stage"}
             /\ C!Ordinary(view, name) \/ <<view, name>> = <<"root", "proc">> => C!Shows(view, <<name>>) = name
             /\ name = "dev" /\ C!Shows(view, <<"dev">>) = "dev" =>
                  C!Shows(view, <<"dev", "pts">>) = "pts" /\ C!Shows(view, <<"dev", "shm">>) = "shm"
  BY Zenon DEF C!RuntimeShown
<1>2. HasReached(given, disk, over, targets, 29) /\ Whole(given, disk, over, targets, private)
  BY <1>1, AllReached
<1>3. view \in Use(given) /\ name \in Names3
  <2>1. i = 1 \/ i = 2 \/ i = 3
    BY <1>1
  <2>2. name \in Names3
    BY <1>1, <2>1 DEF C!RuntimeNames, Names3
  <2> QED
    BY <2>2 DEF C!InUse, Use
<1>4. C!Shows(view, <<name>>) \notin {"root", "output", "stage"}
  BY <1>2, <1>3, NotOfTheImage, ShownIs
<1>5. ASSUME C!Ordinary(view, name) \/ <<view, name>> = <<"root", "proc">> PROVE C!Shows(view, <<name>>) = name
  <2>1. CASE C!Ordinary(view, name)
    <3>1. AllDirs(disk, view, name)
      BY <2>1 DEF AllDirs, C!Ordinary, C!Entry, C!Kind
    <3> QED
      BY <1>2, <1>3, <3>1, OrdinaryIs, ShownIs
  <2>2. CASE <<view, name>> = <<"root", "proc">>
    <3>1. view = "root" /\ name = "proc"
      BY <2>2
    <3>2. C!Shows("root", <<"proc">>) = "proc"
      BY <1>1 DEF RootInv, Going
    <3> QED
      BY <3>1, <3>2
  <2> QED
    BY <1>5, <2>1, <2>2
<1>6. ASSUME name = "dev", C!Shows(view, <<"dev">>) = "dev", NEW x \in {"pts", "shm"} PROVE C!Shows(view, <<"dev", x>>) = x
  <2>1. Shown(disk, over, view, <<"dev">>) = "dev"
    BY <1>6, ShownIs
  <2>2. Shown(disk, over, view, <<"dev", x>>) = x
    BY <1>2, <1>3, <1>6, <2>1, DevicesComplete
  <2> QED
    BY <2>2, ShownIs
<1> QED
  BY <1>4, <1>5, <1>6

LEMMA LayersHold ==
  ASSUME RootInv
  PROVE  C!LayersKeepClean
<1>1. given \in Inputs /\ Image(disk, over) /\ GrewFrom(given, disk)
  BY DEF RootInv, Whole
<1>2. Image(given.disk, given.over) /\ DOMAIN given.disk = 1..Len(given.disk) /\ Len(given.disk) \in Nat
  BY <1>1, GivenIs
<1>3. \A n \in DOMAIN given.disk : disk[n] = given.disk[n]
  BY <1>1 DEF GrewFrom, Extends
<1>4. 1 \in DOMAIN given.disk /\ 2 \in DOMAIN given.disk /\ \A n \in 1..2 : n \in DOMAIN given.disk
  BY <1>2 DEF Image
<1>5. ASSUME NEW x \in News(given, disk), disk[x].up # 0
      PROVE  disk[x].up \in 1..2 \/ disk[x].up \in Hidden(given, disk)
  <2>1. NewNode(given, disk, disk[x])
    BY <1>1, <1>5 DEF GrewFrom
  <2> QED
    BY <1>5, <2>1 DEF NewNode
<1>6. ASSUME NEW n \in DOMAIN given.disk, NEW x \in DOMAIN disk, disk[x].up = n PROVE x \in DOMAIN given.disk \/ n \in 1..2
  <2>1. n # 0
    BY <1>2, <1>6
  <2>2. n \notin Hidden(given, disk)
    BY <1>6 DEF Hidden, News
  <2>3. CASE x \in News(given, disk)
    BY <1>5, <1>6, <2>1, <2>2, <2>3
  <2> QED
    BY <2>3 DEF News
<1>7. ASSUME NEW n \in News(given, disk), disk[n].layer \in {"root", "output"}
      PROVE  disk[n].kind = "dir" /\ disk[n].up \in 1..2 /\ \A x \in DOMAIN disk : disk[x].up # n
  <2>1. NewNode(given, disk, disk[n])
    BY <1>1, <1>7 DEF GrewFrom
  <2>2. disk[n].kind = "dir" /\ disk[n].up \in 1..2
    BY <1>7, <2>1 DEF NewNode
  <2>3. ASSUME NEW x \in DOMAIN disk, disk[x].up = n PROVE FALSE
    <3>1. n \notin DOMAIN given.disk /\ n \in DOMAIN disk
      BY DEF News
    <3>2. n \in Nat /\ n # 0
      BY <1>1, <3>1 DEF Image
    <3>3. CASE x \in DOMAIN given.disk
      <4>1. disk[x].up \in 0..(x - 1) /\ x \in 1..Len(given.disk)
        BY <1>2, <1>3, <3>3 DEF Image, C!TreeOf
      <4>2. n \in 1..Len(given.disk)
        BY <1>2, <2>3, <3>2, <4>1
      <4> QED
        BY <1>2, <3>1, <4>2
    <3>4. CASE x \in News(given, disk)
      <4>1. n \in 1..2 \/ n \in Hidden(given, disk)
        BY <1>5, <2>3, <3>2, <3>4
      <4>2. n \notin 1..2
        BY <1>4, <3>1
      <4>3. n \notin Hidden(given, disk)
        BY <1>7 DEF Hidden
      <4> QED
        BY <4>1, <4>2, <4>3
    <3> QED
      BY <3>3, <3>4 DEF News
  <2> QED
    BY <2>2, <2>3
<1> QED
  BY <1>3, <1>6, <1>7 DEF C!LayersKeepClean, News

\* Each node of the private filesystems is found by its path.
FoundBy(d, o, word, n) == C!OpenIn(d, o, C!TopOf("root"), word[n], Both) = C!Found(<<"root", n>>)
ShelfTops(g, d, o, priv, word) ==
  \A top \in priv : top \in STRING /\ \E n \in ShellOf(g, d), m \in DOMAIN d :
    /\ word[n] = <<top>> /\ d[n].up = 0
    /\ d[m].up = 1 /\ d[m].name = top /\ d[m].kind = "dir" /\ <<"root", m>> \in DOMAIN o /\ o[<<"root", m>>] = <<"root", n>>
LEMMA ShellFound ==
  ASSUME NEW g, NEW d, NEW o, NEW ts, NEW priv, Whole(g, d, o, ts, priv), NEW word, Shelved(g, d, o, priv, word)
  PROVE  \A n \in ShellOf(g, d) : FoundBy(d, o, word, n)
<1>1. g \in Inputs /\ Image(d, o) /\ GrewFrom(g, d) /\ Keys(g, d, o, ts, priv) /\ PinsOf(g, d, ts)
  BY DEF Whole
<1>2. ShellOf(g, d) \subseteq DOMAIN d /\ ShellOf(g, d) \subseteq Nat /\ ShellOf(g, d) \subseteq Hidden(g, d)
  BY <1>1 DEF ShellOf, News, Hidden, Image
<1>3. "root" \in C!Views /\ C!TopOf("root") = <<"root", 1>> /\ C!TopOf("root")[2] = 1
  BY DEF C!Views, C!TopOf
<1>4. C!TopOf("root") \in C!Views \X DOMAIN d
  BY <1>1, <1>3, TopIs
<1> DEFINE Lost == {n \in ShellOf(g, d) : ~FoundBy(d, o, word, n)}
<1>5. SUFFICES ASSUME Lost # {} PROVE FALSE
  OBVIOUS
<1>6. Lost \subseteq Nat
  BY <1>2
<1>7. PICK n \in Lost : \A k \in Lost : n <= k
  BY <1>5, <1>6, LeastNumber
<1>8. n \in ShellOf(g, d) /\ ~FoundBy(d, o, word, n) /\ n \in DOMAIN d /\ n \in Nat /\ n \in Hidden(g, d) /\ d[n].layer = "shell" /\ n \in News(g, d)
  BY <1>2, <1>7 DEF ShellOf
<1> HIDE DEF Lost
<1>9. d[n].kind \in {"dir", "file"} /\ d[n].kind # "link" /\ (d[n].up = 0 \/ d[n].up \in Hidden(g, d))
  <2>1. d[n].kind \in {"dir", "file"} /\ (d[n].up = 0 \/ d[n].up \in Hidden(g, d))
    BY <1>1, <1>8, NotHidden
  <2> QED
    BY <2>1
<1>10. /\ word[n] \in Seq(STRING)
       /\ d[n].up = 0 => \E top \in priv : word[n] = <<top>>
       /\ d[n].up # 0 => d[d[n].up].kind = "dir" /\ word[n] = Append(word[d[n].up], d[n].name)
  BY <1>8 DEF Shelved
<1>11. "mounts" \in Both
  BY DEF Both
<1>12. CASE d[n].up = 0
  <2>1. PICK top \in priv : word[n] = <<top>>
    BY <1>10, <1>12
  <2>2. top \in STRING
    <3>1. Len(word[n]) = 1 /\ word[n][1] = top
      BY <2>1
    <3> QED
      BY <1>10, <3>1
  <2>3. PICK k \in ShellOf(g, d), m \in DOMAIN d :
          /\ word[k] = <<top>>
          /\ d[m].up = 1 /\ d[m].name = top /\ d[m].kind = "dir" /\ <<"root", m>> \in DOMAIN o /\ o[<<"root", m>>] = <<"root", k>>
    <3>1. ShelfTops(g, d, o, priv, word)
      BY Zenon DEF Shelved, ShelfTops
    <3> QED
      BY <2>1, <3>1, Zenon DEF ShelfTops
  <2>4. k = n
    BY <1>8, <2>1, <2>3 DEF Shelved
  <2>5. d[m].kind # "link" /\ d[m].up = C!TopOf("root")[2]
    BY <1>3, <2>3
  <2>6. C!OpenIn(d, o, C!TopOf("root"), <<top>>, Both) = C!Found(C!Cross(o, <<"root", m>>))
    BY <1>1, <1>3, <1>11, <2>2, <2>3, <2>5, OpenIs
  <2>7. C!Cross(o, <<"root", m>>) = <<"root", n>>
    BY <2>3, <2>4 DEF C!Cross
  <2> QED
    BY <1>8, <2>1, <2>6, <2>7 DEF FoundBy
<1>13. CASE d[n].up # 0
  <2>1. PICK u : u = d[n].up
    OBVIOUS
  <2>2. u \in Hidden(g, d) /\ d[u].layer = "shell" /\ u \in ShellOf(g, d)
    <3>1. u \in Hidden(g, d)
      BY <1>9, <1>13, <2>1
    <3>2. d[u].layer = d[n].layer
      BY <1>1, <1>8, <2>1, <3>1, NotHidden
    <3> QED
      BY <1>8, <3>1, <3>2 DEF ShellOf, Hidden
  <2>3. u < n
    <3>1. d[n].up \in 0..(n - 1)
      BY <1>1, <1>8 DEF Image, C!TreeOf
    <3> QED
      BY <1>8, <2>1, <3>1
  <2>4. FoundBy(d, o, word, u)
    <3>1. u \notin Lost
      BY <1>2, <1>7, <1>8, <2>2, <2>3
    <3> QED
      BY <2>2, <3>1 DEF Lost
  <2>5. PICK x : x = d[n].name
    OBVIOUS
  <2>6. x \in STRING
    BY <1>1, <1>8, <2>5 DEF Image, C!TreeOf
  <2>7. word[u] \in Seq(STRING) /\ word[n] = Append(word[u], x) /\ d[u].kind = "dir"
    BY <1>10, <1>13, <2>1, <2>2, <2>5 DEF Shelved
  <2>8. word[n] = word[u] \o <<x>>
    BY <2>6, <2>7
  <2>9. PICK r : r = C!OpenIn(d, o, C!TopOf("root"), word[n], Both)
    OBVIOUS
  <2>10. <<"root", u>> \in C!Views \X DOMAIN d /\ <<"root", u>>[2] = u /\ <<"root", u>>[1] = "root"
    BY <1>2, <1>3, <2>2
  <2>11. OnwardFrom(d, o, C!TopOf("root"), Both, word[u], x, <<"root", u>>, r)
    <3>1. [at |-> C!TopOf("root"), path |-> word[u], links |-> MaxLinks] \in Ways(d)
      BY <1>4, <2>7, Links DEF Ways
    <3> QED
      BY <2>4, <2>8, <2>9, <3>1 DEF OnwardFrom, FoundBy, C!OpenIn
  <2>12. PICK k \in 0..MaxLinks : OneIs(d, o, C!TopOf("root"), Both, <<"root", u>>, x, k, r)
    BY <1>1, <1>4, <2>6, <2>11, OneAfter
  <2>13. OneIs(d, o, C!TopOf("root"), Both, <<"root", u>>, x, k, C!Found(C!Cross(o, <<"root", n>>)))
    BY <1>1, <1>4, <1>8, <1>9, <1>11, <2>1, <2>5, <2>6, <2>7, <2>10, OneStep
  <2>14. r = C!Found(C!Cross(o, <<"root", n>>))
    BY <2>12, <2>13 DEF OneIs
  <2>15. <<"root", n>> \notin DOMAIN o
    <3>1. SUFFICES ASSUME <<"root", n>> \in DOMAIN o PROVE FALSE
      OBVIOUS
    <3>2. <<"root", n>> \notin DOMAIN g.over
      <4>1. DOMAIN g.over \subseteq C!Views \X DOMAIN g.disk
        BY <1>1, GivenIs DEF Image
      <4>2. n \notin DOMAIN g.disk
        BY <1>8 DEF News
      <4> QED
        BY <4>1, <4>2
    <3>3. KeyGood(g, d, ts, priv, <<"root", n>>, o[<<"root", n>>])
      BY <1>1, <3>1, <3>2 DEF Keys
    <3>4. PICK l : l = <<"root", n>>
      OBVIOUS
    <3>5. l[1] = "root" /\ l[2] = n
      BY <3>4
    <3>6. \/ \E name \in Names3 : <<"root", name>> \in DOMAIN ts /\ l = ts[<<"root", name>>]
          \/ d[n].layer = "dev"
          \/ d[n].up = 1
      BY <3>3, <3>4, <3>5 DEF KeyGood
    <3>7. ASSUME NEW name \in Names3, <<"root", name>> \in DOMAIN ts, l = ts[<<"root", name>>] PROVE FALSE
      <4>1. "root" \in Use(g)
        BY DEF Use, C!Views
      <4>2. ts[<<"root", name>>][2] \notin Hidden(g, d)
        BY <3>7, <4>1, TargetIs
      <4> QED
        BY <1>8, <3>5, <3>7, <4>2
    <3>8. d[n].up # 1
      BY <1>1, <2>1, <2>2, NotHidden
    <3> QED
      BY <1>8, <3>6, <3>7, <3>8
  <2>16. r = C!Found(<<"root", n>>)
    BY <2>14, <2>15 DEF C!Cross
  <2> QED
    BY <1>8, <2>9, <2>16 DEF FoundBy
<1> QED
  BY <1>12, <1>13

\* So each file that was placed is.
LEMMA PlacedFound ==
  ASSUME Whole(given, disk, over, targets, private), NEW word, Shelved(given, disk, over, private, word), NEW p, InPlace(given, disk, word, p)
  PROVE  LET r == C!Open(C!Root, p, {"links", "mounts"})
         IN  r.err = "ok" /\ C!Kind(r.at) = "file" /\ disk[r.at[2]].layer = "shell"
<1>1. PICK n \in ShellOf(given, disk) : word[n] = p /\ disk[n].kind = "file"
  BY DEF InPlace
<1>2. FoundBy(disk, over, word, n)
  BY ShellFound
<1>3. PICK r : r = C!Open(C!Root, p, {"links", "mounts"})
  OBVIOUS
<1>4. r = C!Found(<<"root", n>>)
  BY <1>1, <1>2, <1>3 DEF FoundBy, C!Open, C!Root, Both
<1>5. r.err = "ok" /\ r.at = <<"root", n>>
  BY <1>4 DEF C!Found
<1>6. r.at[2] = n /\ disk[n].layer = "shell"
  BY <1>5 DEF ShellOf
<1> QED
  BY <1>1, <1>3, <1>5, <1>6 DEF C!Kind

LEMMA ShellHolds ==
  ASSUME RootInv
  PROVE  C!ShellWorks
<1>1. SUFFICES ASSUME phase = "started" PROVE
        /\ C!ShellPresent
        /\ private # {} =>
             /\ disk[C!Sought.at[2]].layer = "shell"
             /\ \A i \in DOMAIN given.libraries :
                  LET r == C!Open(C!Root, given.libraries[i], {"links", "mounts"}) IN r.err = "ok" /\ C!Kind(r.at) = "file"
  BY Zenon DEF C!ShellWorks
<1>2. Whole(given, disk, over, targets, private) /\ given \in Inputs /\ \A op : ~Holds(todo, op)
  BY <1>1, AllReached DEF Whole
<1>3. PICK word : /\ Shelved(given, disk, over, private, word)
                  /\ (private = {} /\ C!ShellPresent) \/ \A p \in Wanted(given) : InPlace(given, disk, word, p)
  BY <1>2 DEF RootInv, Shelf
<1>4. CASE private = {} /\ C!ShellPresent
  BY <1>4
<1>5. CASE \A p \in Wanted(given) : InPlace(given, disk, word, p)
  <2>1. <<"bin", "sh">> \in Wanted(given) /\ \A i \in DOMAIN given.libraries : given.libraries[i] \in Wanted(given)
    BY <1>2, AppliancePaths
  <2>2. C!Sought.err = "ok" /\ C!Kind(C!Sought.at) = "file" /\ disk[C!Sought.at[2]].layer = "shell"
    BY <1>2, <1>3, <1>5, <2>1, PlacedFound DEF C!Sought
  <2>3. ASSUME NEW i \in DOMAIN given.libraries
        PROVE  LET r == C!Open(C!Root, given.libraries[i], {"links", "mounts"}) IN r.err = "ok" /\ C!Kind(r.at) = "file"
    BY <1>2, <1>3, <1>5, <2>1, PlacedFound
  <2> QED
    BY <2>2, <2>3 DEF C!ShellPresent
<1> QED
  BY <1>3, <1>4, <1>5

LEMMA BareHolds ==
  ASSUME RootInv
  PROVE  C!BareRootsWork
<1>1. given \in Inputs /\ Image(disk, over) /\ GrewFrom(given, disk)
  BY DEF RootInv, Whole
<1>2. DOMAIN given.disk \subseteq DOMAIN disk /\ \A n \in DOMAIN given.disk : disk[n] = given.disk[n]
  BY <1>1, ImageGiven DEF GrewFrom, Extends
<1> DEFINE Straight(view, name) ==
      \A n \in C!Entry(C!TopOf(view), name) \cap DOMAIN given.disk : given.disk[n].kind = "dir" /\ <<view, n>> \notin DOMAIN given.over
<1> DEFINE tops == {Head(given.libraries[i]) : i \in DOMAIN given.libraries} \cup {"bin"}
<1> DEFINE plain == /\ \A view \in C!Views, i \in 1..3 : Straight(view, C!RuntimeNames[i])
                    /\ \A top \in tops : Straight("root", top)
                    /\ \A n \in DOMAIN given.disk : given.disk[n].name \in {"sh", "cat"} => given.disk[n].kind = "file"
<1>3. ASSUME NEW view, NEW name, Straight(view, name) PROVE PlainTop(given, view, name)
  BY <1>2, <1>3 DEF PlainTop, C!Entry, C!EntryOf
<1>4. ASSUME plain PROVE Bare(given)
  <2>1. ASSUME NEW view \in C!Views, NEW name \in Names3 PROVE PlainTop(given, view, name)
    <3>1. \E i \in 1..3 : name = C!RuntimeNames[i]
      <4>1. C!RuntimeNames[1] = "dev" /\ C!RuntimeNames[2] = "proc" /\ C!RuntimeNames[3] = "sys" /\ 1 \in 1..3 /\ 2 \in 1..3 /\ 3 \in 1..3
        BY DEF C!RuntimeNames
      <4> QED
        BY <4>1 DEF Names3
    <3> QED
      BY <1>3, <1>4, <3>1
  <2>2. ASSUME NEW p \in Wanted(given) PROVE PlainTop(given, "root", Head(p))
    <3>1. Head(p) \in tops
      <4>1. PICK i \in DOMAIN All(given) : p = All(given)[i]
        BY DEF Wanted
      <4>2. given.libraries \in Seq(Seq(STRING))
        BY <1>1, RootIsSound DEF C!RootAssumption, C!LibraryAssumption
      <4>3. C!Tools \in Seq(Seq(STRING)) /\ Len(C!Tools) = 2 /\ C!Tools[1] = <<"bin", "sh">> /\ C!Tools[2] = <<"bin", "cat">>
        <5>1. <<"bin", "sh">> \in Seq(STRING) /\ <<"bin", "cat">> \in Seq(STRING)
          BY Words
        <5> QED
          BY <5>1 DEF C!Tools
      <4>4. /\ DOMAIN All(given) = 1..(2 + Len(given.libraries)) /\ Len(given.libraries) \in Nat /\ DOMAIN given.libraries = 1..Len(given.libraries)
            /\ \A j \in 1..(2 + Len(given.libraries)) : All(given)[j] = IF j <= 2 THEN C!Tools[j] ELSE given.libraries[j - 2]
        <5>1. PICK l \in Seq(Seq(STRING)) : l = given.libraries
          BY <4>2
        <5>2. PICK t \in Seq(Seq(STRING)) : t = C!Tools
          BY <4>3
        <5>3. PICK all3 : all3 = t \o l
          OBVIOUS
        <5>4. /\ DOMAIN all3 = 1..(Len(t) + Len(l)) /\ Len(l) \in Nat /\ DOMAIN l = 1..Len(l)
              /\ \A j \in 1..(Len(t) + Len(l)) : all3[j] = IF j <= Len(t) THEN t[j] ELSE l[j - Len(t)]
          BY <5>3, JoinIs
        <5>5. Len(t) = 2 /\ All(given) = all3
          BY <4>3, <5>1, <5>2, <5>3 DEF All
        <5>6. /\ DOMAIN all3 = 1..(2 + Len(l))
              /\ \A j \in 1..(2 + Len(l)) : all3[j] = IF j <= 2 THEN t[j] ELSE l[j - 2]
          BY <5>4, <5>5
        <5> QED
          BY <5>1, <5>2, <5>4, <5>5, <5>6
      <4>5. i = 1 \/ i = 2 \/ (i - 2 \in DOMAIN given.libraries /\ ~(i <= 2))
        BY <4>4
      <4>6. CASE i = 1 \/ i = 2
        <5>1. p = <<"bin", "sh">> \/ p = <<"bin", "cat">>
          BY <4>1, <4>3, <4>4, <4>6
        <5>2. Head(p) = "bin"
          BY <5>1
        <5> QED
          BY <5>2
      <4>7. CASE i - 2 \in DOMAIN given.libraries /\ ~(i <= 2)
        <5>1. p = given.libraries[i - 2]
          BY <4>1, <4>4, <4>7
        <5> QED
          BY <4>7, <5>1
      <4> QED
        BY <4>5, <4>6, <4>7
    <3> QED
      BY <1>3, <1>4, <3>1
  <2> QED
    BY <1>4, <2>1, <2>2 DEF Bare
<1>5. phase = "failed" /\ ~fault /\ ~given.extra => ~plain
  BY <1>4 DEF RootInv, Refused
<1> QED
  BY <1>5, Zenon DEF C!BareRootsWork

LEMMA RootSafe ==
  ASSUME RootInv
  PROVE  C!RootIsSafe
<1>1. C!ControlsAreReadOnly
  BY DEF RootInv, Going, C!ControlsAreReadOnly
<1> QED
  BY <1>1, TypeHolds, RuntimeHolds, LayersHold, ShellHolds, BareHolds DEF C!RootIsSafe

-----------------------------------------------------------------------------
(* The theorems *)

ChosenInv == machine = "root" => RootInv

\* The inductive invariant holds of every setup: where all mounts and targets are, what the
\* steps taken have left and what those to come find (CommandRoot::enter).
THEOREM RootInductive == StagesSpec => []ChosenInv
<1>1. StagesInit => ChosenInv
  <2>1. ASSUME StagesInit, machine = "root" PROVE C!Init
    BY <2>1 DEF StagesInit
  <2> QED
    BY <2>1, RootBegins DEF ChosenInv
<1>2. ChosenInv /\ [StagesNext]_all => ChosenInv'
  <2>1. ASSUME ChosenInv, StagesNext, machine' = "root" PROVE RootInv'
    <3>1. CASE Ordering /\ O!Next
      BY <2>1, <3>1 DEF Ordering, ChosenInv
    <3>2. CASE Mounting /\ Next
      BY <2>1, <3>2 DEF Mounting, ChosenInv
    <3>3. CASE Entering /\ C!Next
      BY <2>1, <3>3, RootKeeps DEF Entering, ChosenInv
    <3> QED
      BY <2>1, <3>1, <3>2, <3>3 DEF StagesNext
  <2>2. ASSUME ChosenInv, UNCHANGED all, machine' = "root" PROVE RootInv'
    <3>1. machine = "root" /\ UNCHANGED C!vars
      BY <2>2 DEF all, command, C!vars, C!mounted
    <3> QED
      BY <2>2, <3>1, RootRests DEF ChosenInv
  <2> QED
    BY <2>1, <2>2 DEF ChosenInv
<1> QED
  BY <1>1, <1>2, PTL DEF StagesSpec

\* What is mounted in a command's root covers a directory that is there, and every mount
\* point that was pinned is a directory of its view (RuntimeTargets).
RootTyped == machine = "root" => C!TypeOK
THEOREM RootTypes == StagesSpec => []RootTyped
<1>1. ChosenInv => RootTyped
  BY TypeHolds DEF ChosenInv, RootTyped
<1> QED
  BY <1>1, RootInductive, PTL

\* However the image arranged its names, whatever it links to, however many libraries the
\* appliance has and wherever the setup stops: a command that is started finds the runtime's
\* filesystems and a shell, no control file it could write and no image refused for nothing,
\* and the layers that are sealed later gain nothing but empty mount points (CommandRoot::enter,
\* RuntimeTargets::resolve, shell::install, RestrictedCommand::start).
THEOREM RootHolds == StagesSpec => []RootIsSafe
<1>1. ChosenInv => RootIsSafe
  BY RootSafe DEF ChosenInv, RootIsSafe
<1> QED
  BY <1>1, RootInductive, PTL

=============================================================================
