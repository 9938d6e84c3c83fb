---------------------------- MODULE StagesProofs ------------------------------
(***************************************************************************)
(* Proofs about the stages of a plan: the order they are built in, for     *)
(* every finite set of names and every plan over them, and the mounts of   *)
(* one of them, for every plan of mounts and every image.  Each machine    *)
(* has an inductive invariant of its own, O!IInv and IInv, which holds     *)
(* while it is the one that was chosen.                                    *)
(***************************************************************************)
EXTENDS MCStages, FiniteSetTheorems, SequenceTheorems, WellFoundedInduction, TLAPS

-----------------------------------------------------------------------------
(* The order of the stages *)

\* StageOrder counts as FiniteSets does.
LEMMA SameCount == \A T : O!Cardinality(T) = Cardinality(T)
  BY DEF O!Cardinality, Cardinality

Marked == [name : StageNames, mark : {"enter", "leave"}]

\* A set of names is finite, and a sequence of its members lists them.
LEMMA Listing ==
    ASSUME NEW S \in SUBSET StageNames, NEW q \in O!Sorted(S) \cup O!Reversed(S)
    PROVE  /\ q \in Seq(StageNames)
           /\ DOMAIN q = 1..Len(q) /\ Len(q) \in Nat
           /\ \A i \in 1..Len(q) : q[i] \in S
           /\ \A s \in S : \E i \in 1..Len(q) : q[i] = s
           /\ O!Range(q) = S
  <1>1. Cardinality(S) \in Nat
    BY NamesAssumption, FS_Subset, FS_CardinalityType
  <1>2. q \in [1..Cardinality(S) -> S] /\ O!Range(q) = S
    BY SameCount DEF O!Sorted, O!Reversed
  <1>3. q \in Seq(S) /\ Len(q) = Cardinality(S)
    BY <1>1, <1>2
  <1> QED
    BY <1>1, <1>2, <1>3 DEF O!Range

\* The stack without its top.
LEMMA Popped ==
    ASSUME NEW s \in Seq(Marked), s # <<>>
    PROVE  LET t == SubSeq(s, 1, Len(s) - 1) IN
           /\ Len(s) \in Nat /\ Len(s) > 0
           /\ t \in Seq(Marked) /\ Len(t) = Len(s) - 1
           /\ \A i \in 1..(Len(s) - 1) : t[i] = s[i]
  <1>1. Len(s) \in Nat /\ Len(s) > 0
    OBVIOUS
  <1> QED
    BY <1>1

\* The elements of a concatenation, by position.
LEMMA Concat ==
    ASSUME NEW S, NEW u \in Seq(S), NEW r \in Seq(S), NEW t, t = u \o r
    PROVE  /\ t \in Seq(S) /\ Len(u) \in Nat /\ Len(r) \in Nat
           /\ Len(t) = Len(u) + Len(r)
           /\ \A i \in 1..Len(u) : t[i] = u[i]
           /\ \A i \in 1..Len(r) : t[Len(u) + i] = r[i]
  OBVIOUS

\* t is p, then x in slot n, then r.
JoinedAt(S, p, n, x, r, t) ==
    /\ t \in Seq(S) /\ Len(r) \in Nat
    /\ Len(t) = n + Len(r)
    /\ \A i \in 1..(n - 1) : t[i] = p[i]
    /\ t[n] = x
    /\ \A i \in 1..Len(r) : t[n + i] = r[i]

\* An element put between two parts of a stack is found at its position.
LEMMA Stacked ==
    ASSUME NEW S, NEW p \in Seq(S), NEW x \in S, NEW r \in Seq(S),
           NEW n \in Nat, n = Len(p) + 1,
           NEW t, t = (p \o <<x>>) \o r
    PROVE  JoinedAt(S, p, n, x, r, t)
  <1>1. /\ p \o <<x>> \in Seq(S) /\ Len(p) \in Nat
        /\ Len(p \o <<x>>) = Len(p) + 1
        /\ \A i \in 1..Len(p) : (p \o <<x>>)[i] = p[i]
        /\ (p \o <<x>>)[Len(p) + 1] = x
    OBVIOUS
  <1>2. \A i \in 1..Len(p) : i \in 1..Len(p \o <<x>>)
    BY <1>1
  <1> QED
    BY <1>1, <1>2, Concat DEF JoinedAt

\* What is in a sequence is at one of its positions.
LEMMA RangeOf ==
    ASSUME NEW S, NEW u \in Seq(S)
    PROVE  \A s : s \in O!Range(u) <=> \E i \in 1..Len(u) : u[i] = s
  BY DEF O!Range

\* The fields of the two kinds of entry.
LEMMA Marks ==
    \A d : /\ O!Enter(d).name = d /\ O!Enter(d).mark = "enter"
           /\ O!Leave(d).name = d /\ O!Leave(d).mark = "leave"
  BY DEF O!Enter, O!Leave

Entries(q) == [i \in DOMAIN q |-> O!Enter(q[i])]
Onto(s, name, q) == SubSeq(s, 1, Len(s) - 1) \o <<O!Leave(name)>> \o Entries(q)

\* t is s with its top made the exit marker of name, and D entered above it.
StageEntered(s, name, D, t) ==
    /\ t \in Seq(Marked)
    /\ Len(s) \in Nat /\ Len(s) > 0 /\ Len(t) \in Nat /\ Len(t) >= Len(s)
    /\ \A i \in 1..(Len(s) - 1) : t[i] = s[i]
    /\ t[Len(s)] = O!Leave(name)
    /\ \A i \in (Len(s) + 1)..Len(t) : t[i].mark = "enter" /\ t[i].name \in D
    /\ \A d \in D : \E i \in (Len(s) + 1)..Len(t) : t[i].name = d

\* The stack when a stage is entered: its top becomes an exit marker, and the
\* dependencies lie above it.
LEMMA Pushed ==
    ASSUME NEW s \in Seq(Marked), s # <<>>,
           NEW name \in StageNames, NEW D \in SUBSET StageNames, NEW q \in O!Reversed(D),
           NEW t, t = Onto(s, name, q)
    PROVE  StageEntered(s, name, D, t)
  <1>1. /\ Len(q) \in Nat /\ DOMAIN q = 1..Len(q)
        /\ \A i \in 1..Len(q) : q[i] \in D
        /\ \A d \in D : \E i \in 1..Len(q) : q[i] = d
    BY Listing
  <1>2. PICK p : p = SubSeq(s, 1, Len(s) - 1)
    OBVIOUS
  <1>3. /\ Len(s) \in Nat /\ Len(s) > 0 /\ p \in Seq(Marked) /\ Len(p) = Len(s) - 1
        /\ \A i \in 1..(Len(s) - 1) : p[i] = s[i]
    BY <1>2, Popped
  <1>4. O!Leave(name) \in Marked /\ \A d \in StageNames : O!Enter(d) \in Marked
    BY DEF O!Leave, O!Enter, Marked
  <1>5. PICK r : r = Entries(q)
    OBVIOUS
  <1>6. r \in Seq(Marked) /\ Len(r) = Len(q) /\ \A i \in 1..Len(q) : r[i] = O!Enter(q[i])
    <2>1. r \in [1..Len(q) -> Marked]
      BY <1>1, <1>4, <1>5 DEF Entries
    <2> QED
      BY <1>1, <1>5, <2>1 DEF Entries
  <1>7. JoinedAt(Marked, p, Len(s), O!Leave(name), r, t)
    <2>1. t = (p \o <<O!Leave(name)>>) \o r
      BY <1>2, <1>5 DEF Onto
    <2>2. Len(s) = Len(p) + 1
      BY <1>3
    <2> QED
      BY <1>3, <1>4, <1>6, <2>1, <2>2, Stacked
  <1>8. /\ t \in Seq(Marked) /\ Len(t) = Len(s) + Len(q)
        /\ \A i \in 1..(Len(s) - 1) : t[i] = s[i]
        /\ t[Len(s)] = O!Leave(name)
        /\ \A i \in 1..Len(q) : t[Len(s) + i] = O!Enter(q[i])
    BY <1>3, <1>6, <1>7 DEF JoinedAt
  <1>9. \A i \in (Len(s) + 1)..Len(t) : t[i].mark = "enter" /\ t[i].name \in D
    <2> TAKE i \in (Len(s) + 1)..Len(t)
    <2>0. i - Len(s) \in 1..Len(q) /\ Len(s) + (i - Len(s)) = i
      BY <1>1, <1>3, <1>8
    <2>1. PICK k \in 1..Len(q) : Len(s) + k = i
      BY <2>0
    <2>2. t[i] = O!Enter(q[k]) /\ q[k] \in D
      BY <1>1, <1>8, <2>1
    <2> QED
      BY <2>2 DEF O!Enter
  <1>10. \A d \in D : \E i \in (Len(s) + 1)..Len(t) : t[i].name = d
    <2> TAKE d \in D
    <2>1. PICK k \in 1..Len(q) : q[k] = d
      BY <1>1
    <2>2. Len(s) + k \in (Len(s) + 1)..Len(t)
      BY <1>1, <1>3, <1>8
    <2>3. t[Len(s) + k] = O!Enter(d)
      BY <1>8, <2>1
    <2>4. t[Len(s) + k].name = d
      BY <2>3, Marks
    <2> QED
      BY <2>2, <2>4
  <1>11. Len(t) \in Nat /\ Len(t) >= Len(s)
    BY <1>1, <1>3, <1>8
  <1> QED
    BY <1>3, <1>8, <1>9, <1>10, <1>11 DEF StageEntered

-----------------------------------------------------------------------------
(* The initial states. *)

\* Every plan starts the first walk with all of its stages as roots.
LEMMA InitInv == O!Init => O!IInv
  <1> SUFFICES ASSUME O!Init PROVE O!IInv
    OBVIOUS
  <1> USE DEF O!Init
  <1>1. /\ roots \in Seq(StageNames) /\ O!Range(roots) = stages
    BY Listing
  <1>2. PICK n \in 0..MaxSelectors : selectors \in [1..n -> StageNames]
    OBVIOUS
  <1>3. selectors \in Seq(StageNames)
    BY <1>2, SelectorsAssumption
  <1>4. O!TypeOK
    BY <1>1, <1>3 DEF O!TypeOK
  <1>5. O!Slots = {} /\ O!Exits = {}
    BY DEF O!Slots, O!Exits
  <1>6. O!StackInv /\ O!PromiseInv
    BY <1>5 DEF O!StackInv, O!PromiseInv
  <1>7. O!DoneInv
    BY DEF O!DoneInv, O!Cyclic
  <1>8. O!CoverInv
    BY <1>1, <1>5 DEF O!CoverInv, O!Waiting, O!Named
  <1> QED
    BY <1>4, <1>6, <1>7, <1>8
       DEF O!IInv, O!OrderInv, O!ResultInv, O!DependenciesFirst, O!RejectedIsFaulty

-----------------------------------------------------------------------------
(* The steps.  Each lemma below is one action under the invariant. *)

\* What the top of the stack is.
LEMMA TopSlot ==
    ASSUME O!TypeOK, stack # <<>>
    PROVE  /\ Len(stack) \in Nat /\ Len(stack) > 0
           /\ O!Slots = 1..Len(stack) /\ Len(stack) \in O!Slots
           /\ O!Top \in Marked /\ O!Top.name \in StageNames
           /\ O!Pop \in Seq(Marked) /\ Len(O!Pop) = Len(stack) - 1
           /\ \A i \in 1..(Len(stack) - 1) : O!Pop[i] = stack[i]
  <1>1. stack \in Seq(Marked)
    BY DEF O!TypeOK, Marked
  <1>2. /\ Len(stack) \in Nat /\ Len(stack) > 0
        /\ O!Slots = 1..Len(stack) /\ Len(stack) \in O!Slots
        /\ O!Top \in Marked
    BY <1>1 DEF O!Slots, O!Top
  <1>3. O!Top.name \in StageNames
    BY <1>2 DEF Marked
  <1> QED
    BY <1>1, <1>2, <1>3, Popped DEF O!Pop

\* The slots that are left when the top is popped.
LEMMA PoppedSlots ==
    ASSUME O!TypeOK, stack # <<>>, stack' = O!Pop
    PROVE  /\ stack' \in Seq(Marked)
           /\ O!Slots' = 1..(Len(stack) - 1)
           /\ \A i \in O!Slots' : i \in O!Slots /\ stack'[i] = stack[i]
           /\ O!Exits' = O!Exits \ {Len(stack)}
  <1>1. /\ stack' \in Seq(Marked) /\ Len(stack') = Len(stack) - 1
        /\ O!Slots = 1..Len(stack) /\ Len(stack) \in Nat /\ Len(stack) > 0
        /\ \A i \in 1..(Len(stack) - 1) : stack'[i] = stack[i]
    BY TopSlot
  <1>2. O!Slots' = 1..(Len(stack) - 1)
    BY <1>1 DEF O!Slots
  <1> QED
    BY <1>1, <1>2 DEF O!Exits

\* An order that is left alone still lists dependencies first.
LEMMA OrderKept ==
    ASSUME O!DependenciesFirst, UNCHANGED <<stages, deps>>,
           pass' = "order" => pass = "order" /\ order' = order
    PROVE  O!DependenciesFirst'
  <1> SUFFICES ASSUME pass' = "order", NEW i \in 1..Len(order')
               PROVE  /\ order'[i] \in stages'
                      /\ deps'[order'[i]] \subseteq O!Before(i)'
                      /\ order'[i] \notin O!Before(i)'
    BY DEF O!DependenciesFirst
  <1>1. O!Before(i)' = O!Before(i)
    BY DEF O!Before
  <1> QED
    BY <1>1 DEF O!DependenciesFirst

\* The next root is put on an empty stack.
LEMMA StartWalkStep == ASSUME O!IInv, O!StartWalk PROVE O!IInv'
  <1> USE DEF O!IInv
  <1>0. UNCHANGED <<stages, deps, selectors, pass, done, result>> /\ result = "pending"
    BY DEF O!StartWalk, O!plan
  <1>1. /\ Head(roots) \in StageNames /\ Tail(roots) \in Seq(StageNames)
        /\ \A s : s \in O!Range(roots) <=> s = Head(roots) \/ s \in O!Range(Tail(roots))
    <2>1. roots \in Seq(StageNames) /\ roots # <<>>
      BY DEF O!TypeOK, O!StartWalk
    <2>2. /\ Head(roots) = roots[1] /\ Head(roots) \in StageNames /\ Tail(roots) \in Seq(StageNames)
          /\ Len(roots) \in Nat /\ Len(roots) > 0 /\ Len(Tail(roots)) = Len(roots) - 1
          /\ \A i \in 1..(Len(roots) - 1) : Tail(roots)[i] = roots[i + 1]
      BY <2>1
    <2>3. \A s : s \in O!Range(roots) => s = Head(roots) \/ s \in O!Range(Tail(roots))
      <3> TAKE s
      <3> HAVE s \in O!Range(roots)
      <3>1. PICK i \in 1..Len(roots) : roots[i] = s
        BY <2>1 DEF O!Range
      <3>2. CASE i = 1
        BY <2>2, <3>1, <3>2
      <3>3. CASE i # 1
        <4>1. i - 1 \in 1..Len(Tail(roots)) /\ (i - 1) + 1 = i
          BY <2>2, <3>3
        <4>2. Tail(roots)[i - 1] = s
          BY <2>2, <3>1, <4>1
        <4> QED
          BY <2>2, <4>1, <4>2, RangeOf
      <3> QED
        BY <3>2, <3>3
    <2>4. \A s : s = Head(roots) \/ s \in O!Range(Tail(roots)) => s \in O!Range(roots)
      BY <2>1, <2>2 DEF O!Range
    <2> QED
      BY <2>2, <2>3, <2>4
  <1>2. /\ stack = <<>> /\ stack' = <<O!Enter(Head(roots))>>
        /\ roots' = Tail(roots) /\ visiting' = {}
    BY DEF O!StartWalk
  <1>3. /\ O!Slots = {} /\ O!Slots' = {1} /\ O!Exits' = {}
        /\ stack'[1].name = Head(roots)
    BY <1>2, Marks DEF O!Slots, O!Exits
  <1>4. order' \in Seq(StageNames) /\ (pass = "order" => order' = order)
    BY DEF O!StartWalk, O!TypeOK
  <1>5. O!TypeOK'
    <2>1. O!Enter(Head(roots)) \in Marked
      BY <1>1 DEF O!Enter, Marked
    <2>2. stack' \in Seq(Marked)
      BY <1>2, <2>1
    <2> QED
      BY <1>0, <1>1, <1>2, <1>4, <2>2 DEF O!TypeOK, Marked
  <1>6. O!StackInv' /\ O!PromiseInv'
    BY <1>2, <1>3 DEF O!StackInv, O!PromiseInv
  <1>7. O!DoneInv'
    BY <1>0 DEF O!DoneInv, O!Cyclic
  <1>8. \A s : O!Waiting(s)' <=> O!Waiting(s)
    BY <1>1, <1>2, <1>3 DEF O!Waiting
  <1>9. O!CoverInv'
    BY <1>0, <1>8 DEF O!CoverInv, O!Named
  <1>10. O!OrderInv'
    BY <1>0, <1>4, <1>8 DEF O!OrderInv, O!Sound, O!Cyclic
  <1>11. O!ResultInv' /\ O!RejectedIsFaulty'
    BY <1>0 DEF O!ResultInv, O!RejectedIsFaulty
  <1>12. O!DependenciesFirst'
    BY <1>0, <1>4, OrderKept
  <1> QED
    BY <1>5, <1>6, <1>7, <1>9, <1>10, <1>11, <1>12

\* A stage that is done is passed over.
LEMMA SkipDoneStep == ASSUME O!IInv, O!SkipDone PROVE O!IInv'
  <1> USE DEF O!IInv
  <1> DEFINE n == Len(stack)
  <1>0. /\ UNCHANGED <<stages, deps, selectors, pass, roots, visiting, done, order, result>>
        /\ stack # <<>> /\ stack' = O!Pop /\ O!Top.mark = "enter" /\ O!Top.name \in done
    BY DEF O!SkipDone, O!Walking, O!plan
  <1>1. /\ n \in Nat /\ n > 0 /\ O!Slots = 1..n /\ O!Slots' = 1..(n - 1)
        /\ \A i \in O!Slots' : i \in O!Slots /\ stack'[i] = stack[i]
        /\ stack' \in Seq(Marked) /\ O!Top = stack[n]
    BY <1>0, TopSlot, PoppedSlots DEF O!Top
  <1>2. /\ O!Exits' = O!Exits
        /\ \A i \in O!Exits : i \in O!Slots' /\ i \in O!Slots /\ stack'[i] = stack[i]
    BY <1>0, <1>1, PoppedSlots DEF O!Exits
  <1>3. O!TypeOK'
    BY <1>0, <1>1 DEF O!TypeOK, Marked
  <1>4. O!StackInv'
    <2>1. \A i, j : O!Adjacent(i, j)' <=> O!Adjacent(i, j)
      BY <1>2 DEF O!Adjacent
    <2>2. \A s \in StageNames : s \in visiting' <=> \E i \in O!Exits' : stack'[i].name = s
      BY <1>0, <1>2 DEF O!StackInv
    <2>5. \A i, j \in O!Exits' : stack'[i].name = stack'[j].name => i = j
      BY <1>2 DEF O!StackInv
    <2>3. \A i \in O!Exits', j \in O!Slots' :
            i < j /\ O!Adjacent(i, j)' => stack'[j].name \in deps'[stack'[i].name]
      BY <1>0, <1>1, <1>2, <2>1 DEF O!StackInv
    <2>4. \A i \in O!Exits' : (\E k \in O!Exits' : i < k) =>
            \E k \in O!Exits' : i < k /\ O!Adjacent(i, k)'
      BY <1>2, <2>1 DEF O!StackInv
    <2> QED
      BY <1>0, <2>2, <2>3, <2>4, <2>5 DEF O!StackInv
  <1>5. O!PromiseInv'
    <2> SUFFICES ASSUME NEW i \in O!Exits, NEW d \in deps[stack[i].name], d \notin done
                 PROVE  \E j \in O!Slots' : i < j /\ stack'[j].name = d
      BY <1>0, <1>1, <1>2 DEF O!PromiseInv
    <2>1. PICK j \in O!Slots : i < j /\ stack[j].name = d
      BY DEF O!PromiseInv
    <2>2. j # n
      BY <1>0, <1>1, <2>1
    <2> QED
      BY <1>1, <2>1, <2>2
  <1>6. O!DoneInv'
    BY <1>0 DEF O!DoneInv, O!Cyclic
  <1>7. \A s : /\ O!Waiting(s)' => O!Waiting(s)
               /\ O!Waiting(s) => O!Waiting(s)' \/ s \in done
    <2> TAKE s
    <2>1. O!Waiting(s)' => O!Waiting(s)
      BY <1>0, <1>1 DEF O!Waiting
    <2>2. ASSUME O!Waiting(s), s \notin done PROVE O!Waiting(s)'
      <3>1. CASE s \in O!Range(roots)
        BY <1>0, <3>1 DEF O!Waiting
      <3>2. CASE \E j \in O!Slots : stack[j].name = s
        <4>1. PICK j \in O!Slots : stack[j].name = s
          BY <3>2
        <4>2. j # n
          BY <1>0, <1>1, <2>2, <4>1
        <4> QED
          BY <1>1, <4>1, <4>2 DEF O!Waiting
      <3> QED
        BY <2>2, <3>1, <3>2 DEF O!Waiting
    <2> QED
      BY <2>1, <2>2
  <1>8. O!CoverInv'
    BY <1>0, <1>7 DEF O!CoverInv, O!Named
  <1>9. O!OrderInv'
    BY <1>0, <1>7 DEF O!OrderInv, O!Sound, O!Cyclic
  <1>10. result = "pending"
    BY DEF O!SkipDone, O!Walking
  <1>11. O!ResultInv' /\ O!RejectedIsFaulty' /\ O!DependenciesFirst'
    BY <1>0, <1>10, OrderKept DEF O!ResultInv, O!RejectedIsFaulty
  <1> QED
    BY <1>3, <1>4, <1>5, <1>6, <1>8, <1>9, <1>11

\* A stage whose dependencies are done adds no cycle to what is done.
LEMMA NoNewCycle ==
    ASSUME O!DoneInv, NEW x \in stages, x \notin done, deps[x] \subseteq done,
           NEW S \in SUBSET (done \cup {x})
    PROVE  ~O!Cyclic(S)
  <1> SUFFICES ASSUME O!Cyclic(S) PROVE FALSE
    OBVIOUS
  <1>1. S \ {x} \in SUBSET done /\ \A s \in S \ {x} : deps[s] \cap (S \ {x}) # {}
    <2> SUFFICES ASSUME NEW s \in S \ {x} PROVE deps[s] \cap (S \ {x}) # {}
      OBVIOUS
    <2>1. s \in done /\ deps[s] \subseteq done
      BY DEF O!DoneInv
    <2>2. PICK d : d \in deps[s] /\ d \in S
      BY DEF O!Cyclic
    <2>3. d # x
      BY <2>1, <2>2
    <2> QED
      BY <2>2, <2>3
  <1>2. S \ {x} = {}
    BY <1>1 DEF O!DoneInv, O!Cyclic
  <1>3. x \in S
    BY <1>2 DEF O!Cyclic
  <1>4. PICK d : d \in deps[x] /\ d \in S
    BY <1>3 DEF O!Cyclic
  <1> QED
    BY <1>2, <1>4

\* Appending a stage to the order after its dependencies.
LEMMA OrderGrows ==
    ASSUME O!TypeOK, NEW x \in stages, order' = Append(order, x),
           UNCHANGED <<stages, deps, pass>>, O!DependenciesFirst,
           pass = "order" => O!Range(order) = done /\ x \notin done /\ deps[x] \subseteq done
    PROVE  /\ order' \in Seq(StageNames)
           /\ O!Range(order') = O!Range(order) \cup {x}
           /\ O!DependenciesFirst'
  <1>1. /\ order \in Seq(StageNames) /\ x \in StageNames
        /\ Len(order) \in Nat /\ order' \in Seq(StageNames) /\ Len(order') = Len(order) + 1
        /\ \A i \in 1..Len(order) : order'[i] = order[i]
        /\ order'[Len(order) + 1] = x
    BY DEF O!TypeOK
  <1>2. O!Range(order') = O!Range(order) \cup {x}
    <2>1. \A s : s \in O!Range(order') <=> \E i \in 1..Len(order') : order'[i] = s
      <3>1. order' \in Seq(StageNames)
        BY <1>1
      <3> QED
        BY ONLY <3>1, RangeOf
    <2>2. \A s : s \in O!Range(order) <=> \E i \in 1..Len(order) : order[i] = s
      <3>1. order \in Seq(StageNames)
        BY <1>1
      <3> QED
        BY ONLY <3>1, RangeOf
    <2>3. 1..Len(order') = 1..Len(order) \cup {Len(order) + 1}
      BY <1>1
    <2>4. \A s : s \in O!Range(order') <=> s \in O!Range(order) \/ s = x
      BY <1>1, <2>1, <2>2, <2>3
    <2> QED
      BY <2>4
  <1>3. \A i \in 1..Len(order) : O!Before(i)' = O!Before(i)
    <2> TAKE i \in 1..Len(order)
    <2>1. \A j \in 1..(i - 1) : order'[j] = order[j]
      BY <1>1
    <2> QED
      BY <2>1 DEF O!Before
  <1>4. \A i : i = Len(order) + 1 => \A s : s \in O!Before(i)' <=> s \in O!Range(order)
    <2> SUFFICES ASSUME NEW i, i = Len(order) + 1, NEW s
                 PROVE  s \in O!Before(i)' <=> s \in O!Range(order)
      OBVIOUS
    <2>1. s \in O!Before(i)' <=> \E j \in 1..(i - 1) : order'[j] = s
      BY DEF O!Before
    <2>2. 1..(i - 1) = 1..Len(order)
      BY <1>1
    <2>3. s \in O!Range(order) <=> \E j \in 1..Len(order) : order[j] = s
      BY <1>1, RangeOf
    <2> QED
      BY <1>1, <2>1, <2>2, <2>3
  <1>5. O!DependenciesFirst'
    <2> SUFFICES ASSUME pass' = "order", NEW i \in 1..Len(order')
                 PROVE  /\ order'[i] \in stages'
                        /\ deps'[order'[i]] \subseteq O!Before(i)'
                        /\ order'[i] \notin O!Before(i)'
      BY DEF O!DependenciesFirst
    <2>1. CASE i \in 1..Len(order)
      <3>1. O!Before(i)' = O!Before(i) /\ order'[i] = order[i]
        BY <1>1, <1>3, <2>1
      <3> QED
        BY <2>1, <3>1 DEF O!DependenciesFirst
    <2>2. CASE i = Len(order) + 1
      <3>1. order'[i] = x /\ \A s : s \in O!Before(i)' <=> s \in done
        BY <1>1, <1>4, <2>2
      <3> QED
        BY <3>1
    <2>3. i \in 1..Len(order) \/ i = Len(order) + 1
      BY <1>1
    <2> QED
      BY <2>1, <2>2, <2>3
  <1> QED
    BY <1>1, <1>2, <1>5

\* A stage is done when its exit marker comes up: everything it needs is.
LEMMA LeaveStageStep == ASSUME O!IInv, O!LeaveStage PROVE O!IInv'
  <1> USE DEF O!IInv
  <1>0. /\ UNCHANGED <<stages, deps, selectors, pass, roots, result>>
        /\ result = "pending" /\ stack # <<>> /\ stack' = O!Pop
        /\ O!Top.mark = "leave"
        /\ visiting' = visiting \ {O!Top.name} /\ done' = done \cup {O!Top.name}
        /\ order' = Append(order, O!Top.name)
    BY DEF O!LeaveStage, O!Walking, O!plan
  <1>1. PICK n, x : n = Len(stack) /\ x = O!Top.name
    OBVIOUS
  <1>2. /\ n \in Nat /\ n > 0 /\ O!Slots = 1..n /\ O!Slots' = 1..(n - 1)
        /\ \A i \in O!Slots' : i \in O!Slots /\ stack'[i] = stack[i]
        /\ stack' \in Seq(Marked) /\ stack[n].name = x /\ stack[n].mark = "leave"
        /\ x \in StageNames
    BY <1>0, <1>1, TopSlot, PoppedSlots DEF O!Top
  <1>3. /\ n \in O!Exits /\ O!Exits' = O!Exits \ {n}
        /\ \A i \in O!Exits' : i \in O!Exits /\ i \in O!Slots' /\ i \in O!Slots /\ stack'[i] = stack[i]
    BY <1>0, <1>1, <1>2, PoppedSlots DEF O!Exits
  <1>4. x \in visiting /\ x \in stages /\ x \notin done
    BY <1>2, <1>3 DEF O!StackInv
  <1>5. deps[x] \subseteq done
    <2>1. \A j \in O!Slots : ~(n < j)
      BY <1>2
    <2> QED
      BY <1>2, <1>3, <2>1 DEF O!PromiseInv, O!TypeOK
  <1>6. /\ order' \in Seq(StageNames) /\ O!Range(order') = O!Range(order) \cup {x}
        /\ O!DependenciesFirst'
    BY <1>0, <1>1, <1>4, <1>5, OrderGrows DEF O!OrderInv
  <1>7. O!TypeOK'
    BY <1>0, <1>1, <1>2, <1>6 DEF O!TypeOK, Marked
  <1>8. O!StackInv'
    <2>1. \A i \in O!Exits, j \in O!Slots' : O!Adjacent(i, j)' => O!Adjacent(i, j)
      <3>1. \A j \in O!Slots' : ~(n < j)
        BY <1>2
      <3> QED
        BY <1>3, <3>1 DEF O!Adjacent
    <2>2. \A i, j : O!Adjacent(i, j) => O!Adjacent(i, j)'
      BY <1>3 DEF O!Adjacent
    <2>3. \A s \in StageNames : s \in visiting' <=> \E i \in O!Exits' : stack'[i].name = s
      <3> TAKE s \in StageNames
      <3>1. s \in visiting <=> \E i \in O!Exits : stack[i].name = s
        BY DEF O!StackInv
      <3>2. \A i \in O!Exits : stack[i].name = x => i = n
        BY <1>2, <1>3 DEF O!StackInv
      <3> QED
        BY <1>0, <1>1, <1>2, <1>3, <3>1, <3>2
    <2>4. visiting' \subseteq stages' /\ visiting' \cap done' = {}
      BY <1>0, <1>1 DEF O!StackInv
    <2>5. \A i, j \in O!Exits' : stack'[i].name = stack'[j].name => i = j
      BY <1>3 DEF O!StackInv
    <2>6. \A i \in O!Exits', j \in O!Slots' :
            i < j /\ O!Adjacent(i, j)' => stack'[j].name \in deps'[stack'[i].name]
      BY <1>0, <1>2, <1>3, <2>1 DEF O!StackInv
    <2>7. \A i \in O!Exits' : (\E k \in O!Exits' : i < k) =>
            \E k \in O!Exits' : i < k /\ O!Adjacent(i, k)'
      <3> SUFFICES ASSUME NEW i \in O!Exits', NEW m \in O!Exits', i < m
                   PROVE  \E k \in O!Exits' : i < k /\ O!Adjacent(i, k)'
        OBVIOUS
      <3>1. PICK k \in O!Exits : i < k /\ O!Adjacent(i, k)
        BY <1>3 DEF O!StackInv
      <3>2. m < n
        BY <1>2, <1>3
      <3>3. k # n
        BY <1>3, <3>1, <3>2 DEF O!Adjacent
      <3> QED
        BY <1>3, <2>2, <3>1, <3>3
    <2> QED
      BY <2>3, <2>4, <2>5, <2>6, <2>7 DEF O!StackInv
  <1>9. O!PromiseInv'
    <2> SUFFICES ASSUME NEW i \in O!Exits', NEW d \in deps[stack[i].name], d \notin done'
                 PROVE  \E j \in O!Slots' : i < j /\ stack'[j].name = d
      BY <1>0, <1>3 DEF O!PromiseInv
    <2>1. d \notin done /\ d # x
      BY <1>0, <1>1
    <2>2. PICK j \in O!Slots : i < j /\ stack[j].name = d
      BY <1>3, <2>1 DEF O!PromiseInv
    <2>3. j # n
      BY <1>2, <2>1, <2>2
    <2> QED
      BY <1>2, <2>2, <2>3
  <1>10. O!DoneInv'
    <2>1. done' \subseteq stages' /\ \A s \in done' : deps'[s] \subseteq done'
      BY <1>0, <1>1, <1>4, <1>5 DEF O!DoneInv
    <2>2. \A S \in SUBSET done' : ~O!Cyclic(S)'
      <3> TAKE S \in SUBSET done'
      <3>1. ~O!Cyclic(S)
        BY <1>0, <1>1, <1>4, <1>5, NoNewCycle
      <3> QED
        BY <1>0, <3>1 DEF O!Cyclic
    <2> QED
      BY <2>1, <2>2 DEF O!DoneInv
  <1>11. \A s : /\ O!Waiting(s)' => O!Waiting(s)
                /\ O!Waiting(s) => O!Waiting(s)' \/ s = x
    <2> TAKE s
    <2>1. O!Waiting(s)' => O!Waiting(s)
      BY <1>0, <1>2 DEF O!Waiting
    <2>2. ASSUME NEW j \in O!Slots, stack[j].name = s, s # x PROVE O!Waiting(s)'
      <3>1. j # n
        BY <1>2, <2>2
      <3> QED
        BY <1>2, <2>2, <3>1 DEF O!Waiting
    <2>3. s \in O!Range(roots) => O!Waiting(s)'
      BY <1>0 DEF O!Waiting
    <2> QED
      BY <2>1, <2>2, <2>3 DEF O!Waiting
  <1>12. O!CoverInv'
    BY <1>0, <1>1, <1>11 DEF O!CoverInv, O!Named
  <1>13. O!Waiting(x)
    BY <1>2 DEF O!Waiting
  <1>14. O!OrderInv'
    <2>1. O!Sound' <=> O!Sound
      BY <1>0 DEF O!Sound, O!Cyclic
    <2>2. pass = "order" => O!Range(order') = done'
      BY <1>0, <1>1, <1>6 DEF O!OrderInv
    <2>3. ASSUME pass = "order", NEW K \in SUBSET stages,
                 O!Range(selectors) \subseteq K, \A s \in K : deps[s] \subseteq K
          PROVE  done' \subseteq K /\ \A s \in StageNames : O!Waiting(s)' => s \in K
      <3>1. done \subseteq K /\ \A s \in StageNames : O!Waiting(s) => s \in K
        BY <2>3 DEF O!OrderInv
      <3> QED
        BY <1>0, <1>1, <1>2, <1>11, <1>13, <3>1
    <2> QED
      BY <1>0, <2>1, <2>2, <2>3 DEF O!OrderInv
  <1>15. O!ResultInv' /\ O!RejectedIsFaulty'
    BY <1>0 DEF O!ResultInv, O!RejectedIsFaulty
  <1> QED
    BY <1>6, <1>7, <1>8, <1>9, <1>10, <1>12, <1>14, <1>15

\* The markers from a revisited stage upwards form a cycle: each depends on the
\* next, and the last on the stage revisited.
LEMMA CycleFound ==
    ASSUME O!IInv, stack # <<>>, O!Top.mark = "enter", O!Top.name \in visiting
    PROVE  \E S \in SUBSET stages : O!Cyclic(S)
  <1> USE DEF O!IInv
  <1>1. PICK n : n = Len(stack)
    OBVIOUS
  <1>2. /\ n \in Nat /\ n > 0 /\ O!Slots = 1..n /\ n \in O!Slots /\ n \notin O!Exits
        /\ O!Top = stack[n] /\ O!Top.name \in StageNames
    BY <1>1, TopSlot DEF O!Top, O!Exits
  <1>3. PICK p \in O!Exits : stack[p].name = stack[n].name
    BY <1>2 DEF O!StackInv
  <1>4. \A i \in O!Exits : /\ i \in O!Slots /\ i \in Nat /\ i < n
                         /\ stack[i].name \in visiting /\ stack[i].name \in stages
    <2> TAKE i \in O!Exits
    <2>1. i \in 1..n /\ i # n
      BY <1>2 DEF O!Exits
    <2>2. stack[i].name \in StageNames
      <3>1. stack \in Seq(Marked)
        BY DEF O!TypeOK, Marked
      <3>2. stack[i] \in Marked
        BY <1>1, <2>1, <3>1
      <3> QED
        BY <3>2 DEF Marked
    <2>3. stack[i].name \in visiting /\ stack[i].name \in stages
      BY <2>2 DEF O!StackInv
    <2>4. i \in O!Slots /\ i \in Nat /\ i < n
      BY <1>2, <2>1
    <2> QED
      BY <2>3, <2>4
  <1> DEFINE S == {stack[i].name : i \in {k \in O!Exits : p <= k}}
  <1>5. S \in SUBSET stages /\ S # {}
    BY <1>3, <1>4
  <1>6. ASSUME NEW i \in O!Exits, p <= i
        PROVE  \E d \in deps[stack[i].name] : d \in S
    <2>1. CASE \E k \in O!Exits : i < k
      <3>1. PICK k \in O!Exits : i < k /\ O!Adjacent(i, k)
        BY <2>1 DEF O!StackInv
      <3>2. stack[k].name \in deps[stack[i].name]
        BY <1>4, <3>1 DEF O!StackInv
      <3>3. p <= k
        BY <1>3, <1>4, <1>6, <3>1
      <3> QED
        BY <3>2, <3>3
    <2>2. CASE ~\E k \in O!Exits : i < k
      <3>1. i < n /\ O!Adjacent(i, n)
        BY <1>4, <2>2 DEF O!Adjacent
      <3>2. stack[n].name \in deps[stack[i].name]
        BY <1>2, <3>1 DEF O!StackInv
      <3>3. stack[n].name \in S
        BY <1>3, <1>4
      <3> QED
        BY <3>2, <3>3
    <2> QED
      BY <2>1, <2>2
  <1>7. O!Cyclic(S)
    BY <1>5, <1>6 DEF O!Cyclic
  <1> QED
    BY <1>5, <1>7

\* A stage that is met on its own path is a witness of a cycle.
LEMMA RejectCycleStep == ASSUME O!IInv, O!RejectCycle PROVE O!IInv'
  <1> USE DEF O!IInv
  <1>0. /\ UNCHANGED <<stages, deps, selectors, pass, roots, stack, visiting, done, order>>
        /\ stack # <<>> /\ O!Top.mark = "enter" /\ O!Top.name \in visiting
        /\ result' = "cycle"
    BY DEF O!RejectCycle, O!Walking, O!plan
  <1>1. \E S \in SUBSET stages : O!Cyclic(S)
    BY <1>0, CycleFound
  <1>2. pass = "check"
    BY <1>1 DEF O!OrderInv, O!Sound, O!TypeOK
  <1>3. O!TypeOK' /\ O!StackInv' /\ O!PromiseInv' /\ O!DoneInv'
    BY <1>0 DEF O!TypeOK, O!StackInv, O!PromiseInv, O!DoneInv, O!Exits, O!Slots, O!Adjacent, O!Cyclic
  <1>4. O!CoverInv' /\ O!OrderInv' /\ O!ResultInv' /\ O!DependenciesFirst'
    BY <1>0, <1>2, OrderKept DEF O!CoverInv, O!OrderInv, O!ResultInv, O!Waiting, O!Named, O!Slots
  <1>5. O!RejectedIsFaulty'
    BY <1>0, <1>1 DEF O!RejectedIsFaulty, O!Cyclic
  <1> QED
    BY <1>3, <1>4, <1>5

\* A name that no stage has is refused.
LEMMA RejectUnknownStep == ASSUME O!IInv, O!RejectUnknown PROVE O!IInv'
  <1> USE DEF O!IInv
  <1>0. /\ UNCHANGED <<stages, deps, selectors, pass, roots, stack, visiting, done, order>>
        /\ stack # <<>> /\ O!Top.name \notin stages
        /\ result' = "unknown"
    BY DEF O!RejectUnknown, O!Walking, O!plan
  <1>1. O!Waiting(O!Top.name) /\ O!Top.name \in StageNames
    BY <1>0, TopSlot DEF O!Waiting, O!Top
  <1>2. ~(O!Named \subseteq stages)
    BY <1>0, <1>1 DEF O!CoverInv
  <1>3. O!TypeOK' /\ O!StackInv' /\ O!PromiseInv' /\ O!DoneInv'
    BY <1>0 DEF O!TypeOK, O!StackInv, O!PromiseInv, O!DoneInv, O!Exits, O!Slots, O!Adjacent, O!Cyclic
  <1>4. O!CoverInv' /\ O!ResultInv' /\ O!DependenciesFirst'
    BY <1>0, OrderKept DEF O!CoverInv, O!ResultInv, O!Waiting, O!Named, O!Slots
  <1>5. O!OrderInv'
    BY <1>0 DEF O!OrderInv, O!Waiting, O!Slots, O!Sound, O!Cyclic
  <1>6. O!RejectedIsFaulty'
    BY <1>0, <1>2 DEF O!RejectedIsFaulty, O!Cyclic, O!Named
  <1> QED
    BY <1>3, <1>4, <1>5, <1>6

\* A stage is put on the path, and its dependencies above its exit marker.
LEMMA EnterStageStep == ASSUME O!IInv, O!EnterStage PROVE O!IInv'
  <1> USE DEF O!IInv
  <1>0. /\ UNCHANGED <<stages, deps, selectors, pass, roots, done, order, result>>
        /\ result = "pending" /\ stack # <<>> /\ O!Top.mark = "enter"
        /\ O!Top.name \notin done /\ O!Top.name \in stages /\ O!Top.name \notin visiting
        /\ visiting' = visiting \cup {O!Top.name}
        /\ \E q \in O!Reversed(deps[O!Top.name]) :
             stack' = O!Pop \o <<O!Leave(O!Top.name)>> \o [i \in DOMAIN q |-> O!Enter(q[i])]
    BY DEF O!EnterStage, O!Walking, O!plan
  <1>1. PICK n, x : n = Len(stack) /\ x = O!Top.name
    OBVIOUS
  <1>2. /\ n \in Nat /\ n > 0 /\ O!Slots = 1..n /\ n \in O!Slots /\ n \notin O!Exits
        /\ stack[n].name = x /\ x \in StageNames /\ deps[x] \subseteq StageNames
        /\ stack \in Seq(Marked)
    BY <1>0, <1>1, TopSlot DEF O!Top, O!Exits, O!TypeOK, Marked
  <1>3. PICK q \in O!Reversed(deps[x]) : stack' = Onto(stack, x, q)
    BY <1>0, <1>1 DEF O!Pop, Onto, Entries
  <1>4. PICK m : m = Len(stack')
    OBVIOUS
  <1>5. /\ stack' \in Seq(Marked) /\ m \in Nat /\ m >= n
        /\ \A i \in 1..(n - 1) : stack'[i] = stack[i]
        /\ stack'[n] = O!Leave(x)
        /\ \A i \in (n + 1)..m : stack'[i].mark = "enter" /\ stack'[i].name \in deps[x]
        /\ \A d \in deps[x] : \E i \in (n + 1)..m : stack'[i].name = d
    <2>1. deps[x] \in SUBSET StageNames
      BY <1>2
    <2>2. stack # <<>> /\ stack \in Seq(Marked) /\ x \in StageNames
      BY <1>0, <1>2
    <2>3. StageEntered(stack, x, deps[x], stack')
      BY <1>3, <2>1, <2>2, Pushed
    <2> QED
      BY <1>1, <1>4, <2>3 DEF StageEntered
  <1>6. /\ O!Slots' = 1..m
        /\ \A i \in O!Slots : i \in O!Slots' /\ stack'[i].name = stack[i].name
        /\ stack'[n].name = x
        /\ \A i \in O!Slots' : i \in O!Slots \/ i \in (n + 1)..m
    BY <1>2, <1>4, <1>5, Marks DEF O!Slots
  <1>7. O!Exits' = O!Exits \cup {n}
    <2>1. \A i \in 1..(n - 1) : i \in O!Exits' <=> i \in O!Exits
      BY <1>2, <1>5, <1>6 DEF O!Exits
    <2>2. n \in O!Exits'
      BY <1>2, <1>5, <1>6, Marks DEF O!Exits
    <2>3. \A i \in (n + 1)..m : i \notin O!Exits'
      BY <1>5 DEF O!Exits
    <2>4. \A i \in O!Exits' : i \in 1..(n - 1) \/ i = n \/ i \in (n + 1)..m
      BY <1>2, <1>5, <1>6 DEF O!Exits
    <2>5. \A i \in O!Exits : i \in 1..(n - 1)
      BY <1>2 DEF O!Exits
    <2> QED
      BY <2>1, <2>2, <2>3, <2>4, <2>5
  <1>8. \A i \in O!Exits : i \in O!Slots /\ i < n
    BY <1>2 DEF O!Exits
  <1>9. O!TypeOK'
    BY <1>0, <1>1, <1>2, <1>5 DEF O!TypeOK, Marked
  <1>10. O!StackInv'
    <2>1. \A i, j : O!Adjacent(i, j)' => O!Adjacent(i, j)
      BY <1>7 DEF O!Adjacent
    <2>2. \A i, j \in O!Slots : O!Adjacent(i, j) => O!Adjacent(i, j)'
      <3>1. \A j \in O!Slots : ~(n < j)
        BY <1>2
      <3> QED
        BY <1>7, <3>1 DEF O!Adjacent
    <2>3. \A s \in StageNames : s \in visiting' <=> \E i \in O!Exits' : stack'[i].name = s
      <3> TAKE s \in StageNames
      <3>1. s \in visiting <=> \E i \in O!Exits : stack[i].name = s
        BY DEF O!StackInv
      <3> QED
        BY <1>0, <1>1, <1>6, <1>7, <1>8, <3>1
    <2>4. visiting' \subseteq stages' /\ visiting' \cap done' = {}
      BY <1>0, <1>1 DEF O!StackInv
    <2>5. \A i, j \in O!Exits' : stack'[i].name = stack'[j].name => i = j
      <3>1. \A i \in O!Exits : stack[i].name # x
        BY <1>0, <1>1, <1>2 DEF O!StackInv
      <3> QED
        BY <1>6, <1>7, <1>8, <3>1 DEF O!StackInv
    <2>6. ASSUME NEW i \in O!Exits', NEW j \in O!Slots', i < j, O!Adjacent(i, j)'
          PROVE  stack'[j].name \in deps'[stack'[i].name]
      <3>1. CASE i \in O!Exits /\ j \in O!Slots
        BY <1>0, <1>6, <1>8, <2>1, <2>6, <3>1 DEF O!StackInv
      <3>2. CASE i \in O!Exits /\ j \in (n + 1)..m
        <4>1. i < n /\ n < j
          BY <1>2, <1>8, <3>2
        <4> QED
          BY <1>7, <2>6, <4>1 DEF O!Adjacent
      <3>3. CASE i = n
        <4>1. j \in (n + 1)..m
          BY <1>2, <1>6, <2>6, <3>3
        <4> QED
          BY <1>0, <1>5, <1>6, <3>3, <4>1
      <3> QED
        BY <1>6, <1>7, <3>1, <3>2, <3>3
    <2>7. ASSUME NEW i \in O!Exits', NEW l \in O!Exits', i < l
          PROVE  \E k \in O!Exits' : i < k /\ O!Adjacent(i, k)'
      <3>1. i \in O!Exits
        BY <1>2, <1>7, <1>8, <2>7
      <3>2. CASE \E k \in O!Exits : i < k
        <4>1. PICK k \in O!Exits : i < k /\ O!Adjacent(i, k)
          BY <3>1, <3>2 DEF O!StackInv
        <4> QED
          BY <1>7, <1>8, <2>2, <3>1, <4>1
      <3>3. CASE ~\E k \in O!Exits : i < k
        <4>1. i < n /\ \A k \in O!Exits' : ~(i < k /\ k < n)
          BY <1>2, <1>7, <1>8, <3>1, <3>3
        <4> QED
          BY <1>7, <4>1 DEF O!Adjacent
      <3> QED
        BY <3>2, <3>3
    <2> QED
      BY <2>3, <2>4, <2>5, <2>6, <2>7 DEF O!StackInv
  <1>11. O!PromiseInv'
    <2> SUFFICES ASSUME NEW i \in O!Exits', NEW d \in deps[stack'[i].name], d \notin done
                 PROVE  \E j \in O!Slots' : i < j /\ stack'[j].name = d
      BY <1>0 DEF O!PromiseInv
    <2>1. CASE i \in O!Exits
      <3>1. d \in deps[stack[i].name]
        BY <1>6, <1>8, <2>1
      <3>2. PICK j \in O!Slots : i < j /\ stack[j].name = d
        BY <2>1, <3>1 DEF O!PromiseInv
      <3> QED
        BY <1>6, <3>2
    <2>2. CASE i = n
      <3>1. PICK j \in (n + 1)..m : stack'[j].name = d
        BY <1>5, <1>6, <2>2
      <3> QED
        BY <1>2, <1>5, <1>6, <2>2, <3>1
    <2> QED
      BY <1>7, <2>1, <2>2
  <1>12. O!DoneInv'
    BY <1>0 DEF O!DoneInv, O!Cyclic
  <1>13. /\ \A s : O!Waiting(s) => O!Waiting(s)'
         /\ \A s : O!Waiting(s)' => O!Waiting(s) \/ s \in deps[x]
    <2>1. ASSUME NEW s, O!Waiting(s) PROVE O!Waiting(s)'
      <3>1. CASE s \in O!Range(roots)
        BY <1>0, <3>1 DEF O!Waiting
      <3>2. CASE \E j \in O!Slots : stack[j].name = s
        BY <1>6, <3>2 DEF O!Waiting
      <3> QED
        BY <2>1, <3>1, <3>2 DEF O!Waiting
    <2>2. ASSUME NEW j \in O!Slots' PROVE O!Waiting(stack'[j].name) \/ stack'[j].name \in deps[x]
      BY <1>5, <1>6 DEF O!Waiting
    <2>3. ASSUME NEW s, O!Waiting(s)' PROVE O!Waiting(s) \/ s \in deps[x]
      <3>1. CASE s \in O!Range(roots)
        BY <3>1 DEF O!Waiting
      <3>2. CASE \E j \in O!Slots' : stack'[j].name = s
        BY <2>2, <3>2
      <3> QED
        BY <1>0, <2>3, <3>1, <3>2 DEF O!Waiting
    <2> QED
      BY <2>1, <2>3
  <1>14. O!Waiting(x) /\ deps[x] \subseteq UNION O!Range(deps)
    BY <1>0, <1>1, <1>2 DEF O!Waiting, O!TypeOK, O!Range
  <1>15. O!CoverInv'
    BY <1>0, <1>13, <1>14 DEF O!CoverInv, O!Named
  <1>16. O!OrderInv'
    <2>1. O!Sound' <=> O!Sound
      BY <1>0 DEF O!Sound, O!Cyclic
    <2>2. ASSUME pass = "order", NEW K \in SUBSET stages,
                 O!Range(selectors) \subseteq K, \A s \in K : deps[s] \subseteq K
          PROVE  done \subseteq K /\ \A s \in StageNames : O!Waiting(s)' => s \in K
      <3>1. done \subseteq K /\ \A s \in StageNames : O!Waiting(s) => s \in K
        BY <2>2 DEF O!OrderInv
      <3>2. deps[x] \subseteq K
        BY <1>2, <1>14, <2>2, <3>1
      <3> QED
        BY <1>13, <3>1, <3>2
    <2> QED
      BY <1>0, <2>1, <2>2 DEF O!OrderInv
  <1>17. O!ResultInv' /\ O!RejectedIsFaulty' /\ O!DependenciesFirst'
    BY <1>0, OrderKept DEF O!ResultInv, O!RejectedIsFaulty
  <1> QED
    BY <1>9, <1>10, <1>11, <1>12, <1>15, <1>16, <1>17

\* The second pass starts over with the selected stages.
LEMMA StartOrderStep == ASSUME O!IInv, O!StartOrder PROVE O!IInv'
  <1> USE DEF O!IInv
  <1>0. /\ UNCHANGED <<stages, deps, selectors, stack, visiting, result>>
        /\ result = "pending" /\ pass = "check" /\ pass' = "order"
        /\ stack = <<>> /\ roots = <<>> /\ roots' = selectors
        /\ done' = {} /\ order' = <<>>
    BY DEF O!StartOrder, O!plan
  <1>1. O!Slots = {} /\ O!Slots' = {} /\ O!Exits = {} /\ O!Exits' = {}
    BY <1>0 DEF O!Slots, O!Exits
  <1>2. \A s : ~O!Waiting(s)
    BY <1>0, <1>1 DEF O!Waiting, O!Range
  <1>3. stages = done
    BY <1>0, <1>2 DEF O!CoverInv, O!DoneInv
  <1>4. O!Sound'
    BY <1>0, <1>3 DEF O!Sound, O!DoneInv, O!Cyclic
  <1>5. \A s : O!Waiting(s)' <=> s \in O!Range(selectors)
    BY <1>0, <1>1 DEF O!Waiting
  <1>6. O!TypeOK'
    BY <1>0 DEF O!TypeOK
  <1>7. O!StackInv' /\ O!PromiseInv'
    BY <1>0, <1>1 DEF O!StackInv, O!PromiseInv
  <1>8. O!DoneInv'
    BY <1>0 DEF O!DoneInv, O!Cyclic
  <1>9. O!CoverInv'
    <2>1. \A s \in O!Range(selectors) : O!Waiting(s)'
      BY <1>5
    <2>2. \A s \in StageNames : O!Waiting(s)' => s \in O!Named'
      BY <1>0, <1>5 DEF O!Named
    <2>3. (IF pass = "check" THEN stages ELSE O!Range(selectors))' = O!Range(selectors)
      BY <1>0
    <2> QED
      BY <2>1, <2>2, <2>3 DEF O!CoverInv
  <1>10. O!OrderInv'
    <2>1. O!Range(order') = done'
      BY <1>0 DEF O!Range
    <2> QED
      BY <1>0, <1>4, <1>5, <2>1 DEF O!OrderInv
  <1>11. O!ResultInv' /\ O!RejectedIsFaulty' /\ O!DependenciesFirst'
    BY <1>0 DEF O!ResultInv, O!RejectedIsFaulty, O!DependenciesFirst
  <1> QED
    BY <1>6, <1>7, <1>8, <1>9, <1>10, <1>11

\* A pass that has emptied its stack has accepted.
LEMMA AcceptStep == ASSUME O!IInv, O!Accept PROVE O!IInv'
  <1> USE DEF O!IInv
  <1>0. /\ UNCHANGED <<stages, deps, selectors, pass, roots, stack, visiting, done, order>>
        /\ result = "pending" /\ result' = "accepted"
        /\ pass = "order" /\ stack = <<>> /\ roots = <<>>
    BY DEF O!Accept, O!plan
  <1>1. O!TypeOK' /\ O!StackInv' /\ O!PromiseInv' /\ O!DoneInv'
    BY <1>0 DEF O!TypeOK, O!StackInv, O!PromiseInv, O!DoneInv, O!Exits, O!Slots, O!Adjacent, O!Cyclic
  <1>2. O!CoverInv' /\ O!DependenciesFirst'
    BY <1>0, OrderKept DEF O!CoverInv, O!Waiting, O!Named, O!Slots
  <1>3. O!OrderInv'
    BY <1>0 DEF O!OrderInv, O!Waiting, O!Slots, O!Sound, O!Cyclic
  <1>4. O!ResultInv' /\ O!RejectedIsFaulty'
    BY <1>0 DEF O!ResultInv, O!RejectedIsFaulty
  <1> QED
    BY <1>1, <1>2, <1>3, <1>4

\* The invariant is about the variables of the search only.
LEMMA StutterStep == ASSUME O!IInv, UNCHANGED O!vars PROVE O!IInv'
  <1> USE DEF O!IInv, O!vars, O!plan
  <1>1. O!TypeOK' /\ O!StackInv' /\ O!PromiseInv' /\ O!DoneInv'
    BY DEF O!TypeOK, O!StackInv, O!PromiseInv, O!DoneInv, O!Exits, O!Slots, O!Adjacent, O!Cyclic
  <1>2. O!CoverInv' /\ O!DependenciesFirst'
    BY OrderKept DEF O!CoverInv, O!Waiting, O!Named, O!Slots
  <1>3. O!OrderInv'
    BY DEF O!OrderInv, O!Waiting, O!Slots, O!Sound, O!Cyclic
  <1>4. O!ResultInv' /\ O!RejectedIsFaulty'
    BY DEF O!ResultInv, O!RejectedIsFaulty, O!Named, O!Cyclic
  <1> QED
    BY <1>1, <1>2, <1>3, <1>4

\* The invariant of the search is inductive.
LEMMA NextStep == O!IInv /\ [O!Next]_(O!vars) => O!IInv'
  <1> SUFFICES ASSUME O!IInv, [O!Next]_(O!vars) PROVE O!IInv'
    OBVIOUS
  <1>1. CASE O!StartWalk     BY <1>1, StartWalkStep
  <1>2. CASE O!LeaveStage    BY <1>2, LeaveStageStep
  <1>3. CASE O!SkipDone      BY <1>3, SkipDoneStep
  <1>4. CASE O!RejectUnknown BY <1>4, RejectUnknownStep
  <1>5. CASE O!RejectCycle   BY <1>5, RejectCycleStep
  <1>6. CASE O!EnterStage    BY <1>6, EnterStageStep
  <1>7. CASE O!StartOrder    BY <1>7, StartOrderStep
  <1>8. CASE O!Accept        BY <1>8, AcceptStep
  <1>9. CASE O!Planned       BY <1>9, StutterStep DEF O!Planned
  <1>10. CASE UNCHANGED O!vars BY <1>10, StutterStep
  <1> QED
    BY <1>1, <1>2, <1>3, <1>4, <1>5, <1>6, <1>7, <1>8, <1>9, <1>10 DEF O!Next

-----------------------------------------------------------------------------
(* What the order and the verdict are *)

\* In the order the pipeline builds, each stage comes once and after all it is
\* built from (Plan::walk pushes the exit marker below the dependencies).
LEMMA OrderFollows == O!IInv => O!DependenciesFirst
  BY DEF O!IInv

\* The accepted order is the selected stages and what they need, no more and
\* no less (Plan::try_from clears the set of walked stages between its passes).
LEMMA ExactFollows == O!IInv => O!ExactlyTheSelected
  <1> SUFFICES ASSUME O!IInv, result = "accepted" PROVE O!ExactlyTheSelected
    BY DEF O!ExactlyTheSelected
  <1>1. pass = "order" /\ stack = <<>> /\ roots = <<>>
    BY DEF O!IInv, O!ResultInv
  <1>2. \A s : ~O!Waiting(s)
    BY <1>1 DEF O!Waiting, O!Slots, O!Range
  <1>3. O!Range(selectors) \subseteq done /\ O!Range(order) = done
    BY <1>1, <1>2 DEF O!IInv, O!CoverInv, O!OrderInv
  <1>4. ASSUME NEW K \in SUBSET stages,
               O!Range(selectors) \subseteq K, \A s \in K : deps[s] \subseteq K
        PROVE  done \subseteq K
    BY <1>1, <1>4 DEF O!IInv, O!OrderInv
  <1> QED
    BY <1>3, <1>4 DEF O!ExactlyTheSelected

\* A plan that names an unknown stage or has a cycle anywhere is not accepted
\* (Plan::try_from walks every stage first).
LEMMA AcceptFollows == O!IInv => O!AcceptedIsSound
  <1> SUFFICES ASSUME O!IInv, result = "accepted" PROVE O!AcceptedIsSound
    BY DEF O!AcceptedIsSound
  <1>1. pass = "order" /\ stack = <<>> /\ roots = <<>>
    BY DEF O!IInv, O!ResultInv
  <1>2. \A s : ~O!Waiting(s)
    BY <1>1 DEF O!Waiting, O!Slots, O!Range
  <1>3. O!Range(selectors) \subseteq done /\ done \subseteq stages
    BY <1>1, <1>2 DEF O!IInv, O!CoverInv, O!DoneInv
  <1>4. O!Sound
    BY <1>1 DEF O!IInv, O!OrderInv
  <1> QED
    BY <1>3, <1>4 DEF O!AcceptedIsSound, O!Sound

\* A plan that is refused as cyclic has a cycle, and one refused for a name has
\* a name that is not defined (the Undefined and Cycle errors of Plan::walk).
LEMMA RejectFollows == O!IInv => O!RejectedIsFaulty
  BY DEF O!IInv

\* After the first pass only a selector of the image can be refused.
LEMMA CheckFollows == O!IInv => O!CheckedOnce
  <1> SUFFICES ASSUME O!IInv, pass = "order", result # "accepted", result # "pending"
               PROVE  result = "unknown" /\ ~(O!Range(selectors) \subseteq stages)
    BY DEF O!CheckedOnce
  <1>1. result = "unknown"
    BY DEF O!IInv, O!TypeOK, O!ResultInv
  <1>2. \A s \in stages : deps[s] \subseteq stages
    BY DEF O!IInv, O!OrderInv, O!Sound
  <1>3. (UNION O!Range(deps)) \subseteq stages
    BY <1>2 DEF O!IInv, O!TypeOK, O!Range
  <1>4. ~(O!Named \subseteq stages)
    BY <1>1 DEF O!IInv, O!RejectedIsFaulty
  <1> QED
    BY <1>1, <1>3, <1>4 DEF O!Named

-----------------------------------------------------------------------------
(* Recursion along a tree *)

Grounded(up) ==
  /\ \A x \in DOMAIN up : up[x] = None \/ up[x] \in DOMAIN up
  /\ None \notin DOMAIN up
  /\ \A S \in SUBSET DOMAIN up : S # {} => \E x \in S : up[x] \notin S

\* One member's steps, from those of the member above it.
Onward(up, step, f, x) == IF up[x] = None THEN <<>> ELSE f[up[x]] \o step[x]

\* A set of members with all above them, and their steps.
Upward(up, T) == T \subseteq DOMAIN up /\ \A x \in T : up[x] = None \/ up[x] \in T
Solves(up, step, f, T) == Upward(up, T) /\ f = [x \in T |-> Onward(up, step, f, x)]

\* Two solutions agree where both are defined.
LEMMA SolutionsAgree ==
  ASSUME NEW up, NEW step, Grounded(up), NEW f, NEW T, NEW g, NEW U, Solves(up, step, f, T), Solves(up, step, g, U)
  PROVE  \A x \in T \cap U : f[x] = g[x]
<1> DEFINE S == {x \in T \cap U : f[x] # g[x]}
<1> SUFFICES ASSUME S # {} PROVE FALSE
  OBVIOUS
<1>1. S \subseteq DOMAIN up
  BY DEF Solves, Upward
<1>2. PICK x \in S : up[x] \notin S
  BY <1>1 DEF Grounded
<1>3. x \in T /\ x \in U
  OBVIOUS
<1>4. up[x] # None => f[up[x]] = g[up[x]]
  BY <1>2, <1>3 DEF Solves, Upward
<1>5. Onward(up, step, f, x) = Onward(up, step, g, x)
  BY <1>4 DEF Onward
<1>6. f[x] = Onward(up, step, f, x) /\ g[x] = Onward(up, step, g, x)
  BY <1>3 DEF Solves
<1> QED
  BY <1>5, <1>6

\* Each member has a solution that reaches it.
LEMMA SolutionExists ==
  ASSUME NEW up, NEW step, Grounded(up), NEW y \in DOMAIN up
  PROVE  \E T, f : y \in T /\ Solves(up, step, f, T)
<1> DEFINE P == {x \in DOMAIN up : \E T, f : x \in T /\ Solves(up, step, f, T)}
<1> SUFFICES ASSUME DOMAIN up \ P # {} PROVE FALSE
  OBVIOUS
<1>1. PICK x \in DOMAIN up \ P : up[x] \notin DOMAIN up \ P
  BY DEF Grounded
<1>2. CASE up[x] = None
  <2> DEFINE f == [z \in {x} |-> <<>>]
  <2>1. Solves(up, step, f, {x})
    BY <1>1, <1>2 DEF Solves, Upward, Onward
  <2> QED
    BY <1>1, <2>1
<1>3. CASE up[x] # None
  <2>1. up[x] \in P
    BY <1>1, <1>3 DEF Grounded
  <2>2. PICK T, f : up[x] \in T /\ Solves(up, step, f, T)
    BY <2>1
  <2> DEFINE U == T \cup {x}
             g == [z \in U |-> IF z \in T THEN f[z] ELSE f[up[x]] \o step[x]]
  <2>3. x \notin T
    BY <1>1, <2>2
  <2>4. Upward(up, U)
    BY <1>1, <2>2 DEF Solves, Upward
  <2>5. \A z \in T : g[z] = f[z]
    OBVIOUS
  <2>6. g[x] = f[up[x]] \o step[x] /\ g[up[x]] = f[up[x]]
    BY <2>2, <2>3
  <2> HIDE DEF g
  <2>7. \A z \in T : Onward(up, step, g, z) = Onward(up, step, f, z) /\ f[z] = Onward(up, step, f, z)
    BY <2>2, <2>5 DEF Onward, Solves, Upward
  <2>8. Onward(up, step, g, x) = g[x]
    BY <1>3, <2>6 DEF Onward
  <2>9. \A z \in U : g[z] = Onward(up, step, g, z)
    BY <2>5, <2>7, <2>8
  <2>10. g = [z \in U |-> g[z]]
    BY DEF g
  <2>11. g = [z \in U |-> Onward(up, step, g, z)]
    BY <2>9, <2>10
  <2> QED
    BY <1>1, <2>4, <2>11 DEF Solves
<1> QED
  BY <1>2, <1>3

\* What Along is, by its equation.
LEMMA AlongIs ==
  ASSUME NEW up, NEW step, Grounded(up)
  PROVE  Solves(up, step, Along(up, step), DOMAIN up)
<1> DEFINE F == [x \in DOMAIN up |-> CHOOSE v : \E T, f : x \in T /\ Solves(up, step, f, T) /\ v = f[x]]
<1>1. ASSUME NEW T, NEW f, Solves(up, step, f, T), NEW x \in T PROVE F[x] = f[x]
  <2>1. x \in DOMAIN up
    BY <1>1 DEF Solves, Upward
  <2>2. PICK U, g : x \in U /\ Solves(up, step, g, U) /\ F[x] = g[x]
    BY <1>1, <2>1
  <2> QED
    BY <1>1, <2>2, SolutionsAgree
<1>2. F = [x \in DOMAIN up |-> F[x]]
  OBVIOUS
<1> HIDE DEF F
<1>3. ASSUME NEW x \in DOMAIN up PROVE F[x] = Onward(up, step, F, x)
  <2>1. PICK T, f : x \in T /\ Solves(up, step, f, T)
    BY SolutionExists
  <2>2. F[x] = f[x] /\ f[x] = Onward(up, step, f, x)
    BY <1>1, <2>1 DEF Solves
  <2>3. up[x] # None => F[up[x]] = f[up[x]]
    BY <1>1, <2>1 DEF Solves, Upward
  <2> QED
    BY <2>2, <2>3 DEF Onward
<1>4. F = [x \in DOMAIN up |-> Onward(up, step, F, x)]
  BY <1>2, <1>3
<1>5. F = [x \in DOMAIN up |-> IF up[x] = None THEN <<>> ELSE F[up[x]] \o step[x]]
  BY <1>4 DEF Onward
<1>6. Along(up, step) = [x \in DOMAIN up |-> IF up[x] = None THEN <<>> ELSE Along(up, step)[up[x]] \o step[x]]
  BY <1>5 DEF Along
<1> QED
  BY <1>6 DEF Solves, Upward, Onward, Grounded

\* On a part that two trees share, they have the same steps.
LEMMA AlongAgrees ==
  ASSUME NEW up, NEW step, Grounded(up), NEW up2, NEW step2, Grounded(up2),
         NEW T, Upward(up, T), T \subseteq DOMAIN up2, \A x \in T : up2[x] = up[x] /\ step2[x] = step[x]
  PROVE  \A x \in T : Along(up2, step2)[x] = Along(up, step)[x]
<1> DEFINE S == {x \in T : Along(up2, step2)[x] # Along(up, step)[x]}
<1> SUFFICES ASSUME S # {} PROVE FALSE
  OBVIOUS
<1>1. S \subseteq DOMAIN up
  BY DEF Upward
<1>2. PICK x \in S : up[x] \notin S
  BY <1>1 DEF Grounded
<1>3. x \in T /\ x \in DOMAIN up /\ x \in DOMAIN up2
  BY DEF Upward
<1>4. Along(up, step)[x] = Onward(up, step, Along(up, step), x)
  BY <1>3, AlongIs DEF Solves
<1>5. Along(up2, step2)[x] = Onward(up2, step2, Along(up2, step2), x)
  BY <1>3, AlongIs DEF Solves
<1>6. up[x] # None => Along(up2, step2)[up[x]] = Along(up, step)[up[x]]
  BY <1>2, <1>3 DEF Upward
<1>7. up2[x] = up[x] /\ step2[x] = step[x]
  BY <1>3
<1>8. Onward(up2, step2, Along(up2, step2), x) = Onward(up, step, Along(up, step), x)
  BY <1>6, <1>7 DEF Onward
<1> QED
  BY <1>4, <1>5, <1>8

\* The steps are of their kind.
LEMMA AlongType ==
  ASSUME NEW up, NEW step, Grounded(up), NEW V, \A x \in DOMAIN up : up[x] # None => step[x] \in Seq(V)
  PROVE  Along(up, step) \in [DOMAIN up -> Seq(V)]
<1> DEFINE A == Along(up, step)
           S == {x \in DOMAIN up : A[x] \notin Seq(V)}
<1>1. A = [x \in DOMAIN up |-> Onward(up, step, A, x)]
  BY AlongIs DEF Solves
<1> HIDE DEF A
<1>2. S = {}
  <2> SUFFICES ASSUME S # {} PROVE FALSE
    OBVIOUS
  <2>1. PICK x \in S : up[x] \notin S
    BY DEF Grounded
  <2>2. A[x] = Onward(up, step, A, x)
    BY <1>1
  <2>3. up[x] # None => A[up[x]] \in Seq(V) /\ step[x] \in Seq(V)
    BY <2>1 DEF Grounded
  <2>4. Onward(up, step, A, x) \in Seq(V)
    <3>1. CASE up[x] = None
      BY <3>1 DEF Onward
    <3>2. CASE up[x] # None
      <4>1. A[up[x]] \o step[x] \in Seq(V)
        BY <2>3, <3>2
      <4> QED
        BY <3>2, <4>1 DEF Onward
    <3> QED
      BY <3>1, <3>2
  <2> QED
    BY <2>2, <2>4
<1> QED
  BY <1>1, <1>2 DEF A

-----------------------------------------------------------------------------
(* Directories *)

UpOf(D) == [d \in DOMAIN D |-> D[d].up]
RelOf(D) == Along(UpOf(D), [d \in DOMAIN D |-> <<D[d].name>>])
ParentsOf(D) == Along(UpOf(D), [d \in DOMAIN D |-> <<D[d].up>>])
AboveOf(D, d) == {d} \cup Range(ParentsOf(D)[d])

\* What a forest says of each directory.
Placed(D, n, d) ==
  /\ d \in Nat \X Nat /\ d = <<d[1], d[2]>> /\ d[1] <= n
  /\ D[d] \in [up : DOMAIN D \cup {None}, name : STRING, link : BOOLEAN]
  /\ d[2] = 0 => D[d].up = None
  /\ d[2] # 0 => D[d].up \in DOMAIN D /\ D[d].up[1] = d[1] /\ D[d].up # None
  /\ D[d].up = None => d[2] = 0
  /\ \A x \in DOMAIN D : D[x].up = D[d].up /\ D[x].name = D[d].name /\ D[d].up # None => x = d

\* What a forest says of each directory, and that there is no way around in it.
LEMMA ForestFacts ==
  ASSUME NEW n \in Nat, NEW D, Forest(D, n)
  PROVE  /\ \A d \in DOMAIN D : Placed(D, n, d)
         /\ \A fs \in 0..n : <<fs, 0>> \in DOMAIN D
         /\ None \notin DOMAIN D /\ Grounded(UpOf(D))
<1> DEFINE In(fs) == {d \in DOMAIN D : d[1] = fs}
<1>1. /\ DOMAIN D = UNION {In(fs) : fs \in 0..n}
      /\ \A fs \in 0..n : IsFiniteSet(In(fs)) /\ In(fs) = {fs} \X (0..(Cardinality(In(fs)) - 1)) /\ <<fs, 0>> \in In(fs)
      /\ \A d \in DOMAIN D :
           /\ D[d] \in [up : DOMAIN D \cup {None}, name : STRING, link : BOOLEAN]
           /\ IF d[2] = 0 THEN D[d].up = None ELSE D[d].up \in In(d[1])
           /\ \A x \in DOMAIN D : D[x].up = D[d].up /\ D[x].name = D[d].name /\ d[2] # 0 => x = d
      /\ \A S \in SUBSET DOMAIN D : S # {} => \E d \in S : D[d].up \notin S
  BY DEF Forest
<1>2. None \notin Nat \X Nat
  BY StageIsSound DEF StageAssumption
<1>3. ASSUME NEW d \in DOMAIN D PROVE d \in Nat \X Nat /\ d = <<d[1], d[2]>> /\ d[1] <= n
  <2>0. d \in UNION {In(fs) : fs \in 0..n}
    BY <1>1, Zenon
  <2>1. PICK fs \in 0..n : d \in In(fs)
    BY <2>0
  <2>2. In(fs) = {fs} \X (0..(Cardinality(In(fs)) - 1)) /\ Cardinality(In(fs)) \in Nat
    BY <1>1, FS_CardinalityType
  <2> HIDE DEF In
  <2>3. d \in {fs} \X (0..(Cardinality(In(fs)) - 1))
    BY <2>1, <2>2
  <2> QED
    BY <2>2, <2>3
<1>4. None \notin DOMAIN D
  BY <1>2, <1>3
<1>5. ASSUME NEW d \in DOMAIN D PROVE Placed(D, n, d)
  <2>0. d[2] # 0 => D[d].up \in In(d[1])
    BY <1>1, Zenon
  <2>1. d[2] # 0 => D[d].up \in DOMAIN D /\ D[d].up[1] = d[1] /\ D[d].up # None
    BY <2>0, <1>4
  <2> QED
    BY <1>1, <1>3, <2>1 DEF Placed
<1>6. \A fs \in 0..n : <<fs, 0>> \in DOMAIN D
  BY <1>1
<1>7. Grounded(UpOf(D))
  <2>1. DOMAIN UpOf(D) = DOMAIN D /\ \A d \in DOMAIN D : UpOf(D)[d] = D[d].up
    BY DEF UpOf
  <2>2. \A d \in DOMAIN D : D[d].up = None \/ D[d].up \in DOMAIN D
    BY <1>5 DEF Placed
  <2>3. \A S \in SUBSET DOMAIN D : S # {} => \E d \in S : D[d].up \notin S
    BY <1>1
  <2> QED
    BY <1>4, <2>1, <2>2, <2>3 DEF Grounded
<1> QED
  BY <1>4, <1>5, <1>6, <1>7

\* Paths of directories.
LEMMA RelFacts ==
  ASSUME NEW n \in Nat, NEW D, Forest(D, n), NEW d \in DOMAIN D
  PROVE  /\ RelOf(D)[d] \in Seq(STRING)
         /\ d[2] = 0 => RelOf(D)[d] = <<>>
         /\ d[2] # 0 => RelOf(D)[d] = RelOf(D)[D[d].up] \o <<D[d].name>>
<1> DEFINE step == [x \in DOMAIN D |-> <<D[x].name>>]
<1>1. \A x \in DOMAIN D : Placed(D, n, x)
  BY ForestFacts
<1>2. Grounded(UpOf(D)) /\ DOMAIN UpOf(D) = DOMAIN D /\ \A x \in DOMAIN D : UpOf(D)[x] = D[x].up
  BY ForestFacts DEF UpOf
<1>3. \A x \in DOMAIN D : D[x].name \in STRING
  BY <1>1 DEF Placed
<1>4. \A x \in DOMAIN UpOf(D) : UpOf(D)[x] # None => step[x] \in Seq(STRING)
  BY <1>2, <1>3
<1> HIDE DEF step
<1>5. Along(UpOf(D), step) \in [DOMAIN D -> Seq(STRING)]
  BY <1>2, <1>4, AlongType
<1>6. Along(UpOf(D), step)[d] = Onward(UpOf(D), step, Along(UpOf(D), step), d)
  BY <1>2, AlongIs DEF Solves
<1>7. RelOf(D) = Along(UpOf(D), step)
  BY DEF RelOf, step
<1>8. step[d] = <<D[d].name>>
  BY DEF step
<1> QED
  BY <1>1, <1>2, <1>5, <1>6, <1>7, <1>8 DEF Onward, Placed

\* What a sequence holds after an append.
LEMMA RangeOfAppended ==
  ASSUME NEW V, NEW s \in Seq(V), NEW x \in V
  PROVE  Range(s \o <<x>>) = Range(s) \cup {x}
<1> DEFINE t == s \o <<x>>
<1>1. Len(t) = Len(s) + 1 /\ DOMAIN t = 1..Len(t) /\ DOMAIN s = 1..Len(s) /\ Len(s) \in Nat
  OBVIOUS
<1>2. t[Len(s) + 1] = x /\ \A i \in 1..Len(s) : t[i] = s[i]
  OBVIOUS
<1> HIDE DEF t
<1>3. \A y \in Range(t) : y \in Range(s) \cup {x}
  BY <1>1, <1>2 DEF Range
<1>4. \A y \in Range(s) \cup {x} : y \in Range(t)
  BY <1>1, <1>2 DEF Range
<1> QED
  BY <1>3, <1>4 DEF t

\* A directory is above itself, with what is above the one it is in.
LEMMA AboveFacts ==
  ASSUME NEW n \in Nat, NEW D, Forest(D, n), NEW d \in DOMAIN D
  PROVE  /\ d \in AboveOf(D, d) /\ AboveOf(D, d) \subseteq DOMAIN D
         /\ d[2] = 0 => AboveOf(D, d) = {d}
         /\ d[2] # 0 => AboveOf(D, d) = {d} \cup AboveOf(D, D[d].up)
<1> DEFINE step == [x \in DOMAIN D |-> <<D[x].up>>]
<1>1. \A x \in DOMAIN D : Placed(D, n, x)
  BY ForestFacts
<1>2. Grounded(UpOf(D)) /\ DOMAIN UpOf(D) = DOMAIN D /\ \A x \in DOMAIN D : UpOf(D)[x] = D[x].up
  BY ForestFacts DEF UpOf
<1>3. \A x \in DOMAIN D : D[x].up = None \/ D[x].up \in DOMAIN D
  BY <1>1 DEF Placed
<1>4. \A x \in DOMAIN UpOf(D) : UpOf(D)[x] # None => step[x] \in Seq(DOMAIN D)
  BY <1>2, <1>3
<1> HIDE DEF step
<1>5. Along(UpOf(D), step) \in [DOMAIN D -> Seq(DOMAIN D)]
  BY <1>2, <1>4, AlongType
<1>6. Along(UpOf(D), step)[d] = Onward(UpOf(D), step, Along(UpOf(D), step), d)
  BY <1>2, AlongIs DEF Solves
<1>7. ParentsOf(D) = Along(UpOf(D), step) /\ step[d] = <<D[d].up>>
  BY DEF ParentsOf, step
<1>8. ParentsOf(D)[d] \in Seq(DOMAIN D)
  BY <1>5, <1>7
<1>9. Range(ParentsOf(D)[d]) \subseteq DOMAIN D
  BY <1>8 DEF Range
<1>10. CASE d[2] = 0
  <2>1. ParentsOf(D)[d] = <<>>
    BY <1>1, <1>2, <1>6, <1>7, <1>10 DEF Onward, Placed
  <2>2. Range(<<>>) = {}
    BY DEF Range
  <2> QED
    BY <1>9, <1>10, <2>1, <2>2 DEF AboveOf
<1>11. CASE d[2] # 0
  <2>1. D[d].up \in DOMAIN D /\ D[d].up # None
    BY <1>1, <1>11 DEF Placed
  <2>2. ParentsOf(D)[d] = ParentsOf(D)[D[d].up] \o <<D[d].up>>
    BY <1>2, <1>6, <1>7, <2>1 DEF Onward
  <2>3. ParentsOf(D)[D[d].up] \in Seq(DOMAIN D)
    BY <1>5, <1>7, <2>1
  <2>4. Range(ParentsOf(D)[d]) = Range(ParentsOf(D)[D[d].up]) \cup {D[d].up}
    BY <2>1, <2>2, <2>3, RangeOfAppended
  <2> QED
    BY <1>9, <1>11, <2>4 DEF AboveOf
<1> QED
  BY <1>10, <1>11

\* What is above is closed upwards.
LEMMA AboveClosed ==
  ASSUME NEW n \in Nat, NEW D, Forest(D, n), NEW d \in DOMAIN D
  PROVE  \A x \in AboveOf(D, d) : D[x].up # None => D[x].up \in AboveOf(D, d)
<1> DEFINE S == {y \in DOMAIN D : \E x \in AboveOf(D, y) : D[x].up # None /\ D[x].up \notin AboveOf(D, y)}
<1> SUFFICES ASSUME S # {} PROVE FALSE
  OBVIOUS
<1>1. PICK y \in S : D[y].up \notin S
  BY DEF Forest
<1>2. Placed(D, n, y)
  BY ForestFacts
<1>3. PICK x \in AboveOf(D, y) : D[x].up # None /\ D[x].up \notin AboveOf(D, y)
  BY <1>1
<1>4. y[2] # 0
  BY <1>2, <1>3, AboveFacts DEF Placed
<1>5. D[y].up \in DOMAIN D /\ AboveOf(D, y) = {y} \cup AboveOf(D, D[y].up)
  BY <1>2, <1>4, AboveFacts DEF Placed
<1>6. D[y].up \in AboveOf(D, D[y].up)
  BY <1>5, AboveFacts
<1>7. x # y
  BY <1>3, <1>5, <1>6
<1>8. x \in AboveOf(D, D[y].up) /\ D[x].up \notin AboveOf(D, D[y].up)
  BY <1>3, <1>5, <1>7
<1> QED
  BY <1>1, <1>3, <1>5, <1>8

\* Other parents and names in the same filesystems.
Fits(E, D, d) ==
  /\ E[d] \in [up : DOMAIN D \cup {None}, name : STRING, link : BOOLEAN]
  /\ d[2] = 0 => E[d].up = None
  /\ d[2] # 0 => E[d].up \in DOMAIN D /\ E[d].up[1] = d[1]
  /\ \A x \in DOMAIN D : E[x].up = E[d].up /\ E[x].name = E[d].name /\ d[2] # 0 => x = d

\* Directories that are moved without a cycle form a forest again.
LEMMA Rearranged ==
  ASSUME NEW n \in Nat, NEW D, Forest(D, n), NEW E, DOMAIN E = DOMAIN D, \A d \in DOMAIN D : Fits(E, D, d),
         \A S \in SUBSET DOMAIN D : S # {} => \E d \in S : E[d].up \notin S
  PROVE  Forest(E, n)
<1> DEFINE In(fs) == {d \in DOMAIN D : d[1] = fs}
           InE(fs) == {d \in DOMAIN E : d[1] = fs}
<1>1. \A fs : InE(fs) = In(fs)
  OBVIOUS
<1>2. /\ DOMAIN D = UNION {In(fs) : fs \in 0..n}
      /\ \A fs \in 0..n : IsFiniteSet(In(fs)) /\ In(fs) = {fs} \X (0..(Cardinality(In(fs)) - 1)) /\ <<fs, 0>> \in In(fs)
  BY DEF Forest
<1>3. \A d \in DOMAIN D : d[2] # 0 => E[d].up \in In(d[1])
  BY DEF Fits
<1> HIDE DEF In
<1>4. DOMAIN E = UNION {InE(fs) : fs \in 0..n}
  <2> HIDE DEF InE
  <2>1. \A d : d \in UNION {InE(fs) : fs \in 0..n} <=> d \in UNION {In(fs) : fs \in 0..n}
    BY <1>1
  <2> QED
    BY <1>2, <2>1
<1>5. \A fs \in 0..n : IsFiniteSet(InE(fs)) /\ InE(fs) = {fs} \X (0..(Cardinality(InE(fs)) - 1)) /\ <<fs, 0>> \in InE(fs)
  BY <1>1, <1>2
<1>6. ASSUME NEW d \in DOMAIN E
      PROVE  /\ E[d] \in [up : DOMAIN E \cup {None}, name : STRING, link : BOOLEAN]
             /\ IF d[2] = 0 THEN E[d].up = None ELSE E[d].up \in InE(d[1])
             /\ \A x \in DOMAIN E : E[x].up = E[d].up /\ E[x].name = E[d].name /\ d[2] # 0 => x = d
  BY <1>1, <1>3 DEF Fits
<1> HIDE DEF InE
<1>7. \A S \in SUBSET DOMAIN E : S # {} => \E d \in S : E[d].up \notin S
  OBVIOUS
<1> QED
  BY <1>4, <1>5, <1>6, <1>7 DEF Forest, InE

\* A directory that is made gets the next number.
NextFree(D, u) == <<u[1], Cardinality({d \in DOMAIN D : d[1] = u[1]})>>
Made(D, u, name) == With(D, NextFree(D, u), [up |-> u, name |-> name, link |-> FALSE])
Grew(D, u, name, n) ==
  /\ Forest(Made(D, u, name), n) /\ DOMAIN Made(D, u, name) = DOMAIN D \cup {NextFree(D, u)} /\ NextFree(D, u) \notin DOMAIN D
  /\ NextFree(D, u)[2] # 0 /\ Made(D, u, name)[NextFree(D, u)] = [up |-> u, name |-> name, link |-> FALSE]
  /\ \A x \in DOMAIN D : Made(D, u, name)[x] = D[x]

\* A directory that is made under a new name keeps the forest.
LEMMA Grown ==
  ASSUME NEW n \in Nat, NEW D, Forest(D, n), NEW u \in DOMAIN D, NEW name \in STRING,
         \A x \in DOMAIN D : D[x].up # u \/ D[x].name # name
  PROVE  Grew(D, u, name, n)
<1> DEFINE free == NextFree(D, u)
           E == Made(D, u, name)
<1>0. free = <<u[1], Cardinality({d \in DOMAIN D : d[1] = u[1]})>> /\ E = With(D, free, [up |-> u, name |-> name, link |-> FALSE])
  BY DEF NextFree, Made
<1> HIDE DEF free, E
<1> DEFINE In(fs) == {d \in DOMAIN D : d[1] = fs}
           InE(fs) == {d \in DOMAIN E : d[1] = fs}
           c == Cardinality(In(u[1]))
           new == [up |-> u, name |-> name, link |-> FALSE]
<1>1. /\ DOMAIN D = UNION {In(fs) : fs \in 0..n}
      /\ \A fs \in 0..n : IsFiniteSet(In(fs)) /\ In(fs) = {fs} \X (0..(Cardinality(In(fs)) - 1)) /\ <<fs, 0>> \in In(fs)
      /\ \A S \in SUBSET DOMAIN D : S # {} => \E d \in S : D[d].up \notin S
  BY DEF Forest
<1>2. \A d \in DOMAIN D : Placed(D, n, d)
  BY ForestFacts
<1>3. u[1] \in 0..n /\ u \in In(u[1]) /\ None \notin DOMAIN D
  BY <1>2, ForestFacts DEF Placed
<1>4. free = <<u[1], c>>
  BY <1>0
<1>5. /\ IsFiniteSet(In(u[1])) /\ In(u[1]) = {u[1]} \X (0..(c - 1)) /\ <<u[1], 0>> \in In(u[1])
  BY <1>1, <1>3
<1>6. c \in Nat
  BY <1>5, FS_CardinalityType
<1> HIDE DEF c
<1>7. c # 0 /\ free \notin In(u[1])
  BY <1>4, <1>5, <1>6
<1>8. free \notin DOMAIN D /\ free[1] = u[1] /\ free[2] = c
  BY <1>4, <1>7
<1>9. DOMAIN E = DOMAIN D \cup {free} /\ E[free] = new /\ \A x \in DOMAIN D : E[x] = D[x]
  <2> HIDE DEF new
  <2>1. E = With(D, free, new)
    BY <1>0 DEF new
  <2>2. E = [x \in DOMAIN D \cup {free} |-> IF x = free THEN new ELSE D[x]]
    BY <2>1 DEF With
  <2> QED
    BY <1>8, <2>2
<1>10. InE(u[1]) = In(u[1]) \cup {free} /\ \A fs : fs # u[1] => InE(fs) = In(fs)
  BY <1>8, <1>9
<1>11. \A d \in DOMAIN D : D[d].up # None => D[d].up \in In(d[1])
  BY <1>2 DEF Placed
<1>12. \A fs : In(fs) \subseteq InE(fs)
  BY <1>9
<1>13. \A d \in DOMAIN D : d \in In(d[1])
  OBVIOUS
<1>x. \A fs : InE(fs) \subseteq DOMAIN E
  OBVIOUS
<1> HIDE DEF In, InE, new
<1>14. Cardinality(InE(u[1])) = c + 1 /\ IsFiniteSet(InE(u[1]))
  <2>1. IsFiniteSet(In(u[1]) \cup {free}) /\ Cardinality(In(u[1]) \cup {free}) = Cardinality(In(u[1])) + 1
    BY <1>5, <1>7, FS_AddElement
  <2> QED
    BY <1>10, <2>1 DEF c
<1>15. InE(u[1]) = {u[1]} \X (0..(Cardinality(InE(u[1])) - 1)) /\ <<u[1], 0>> \in InE(u[1])
  BY <1>4, <1>5, <1>6, <1>10, <1>14
<1>16. \A fs \in 0..n : IsFiniteSet(InE(fs)) /\ InE(fs) = {fs} \X (0..(Cardinality(InE(fs)) - 1)) /\ <<fs, 0>> \in InE(fs)
  <2>1. ASSUME NEW fs \in 0..n, fs # u[1] PROVE IsFiniteSet(InE(fs)) /\ InE(fs) = {fs} \X (0..(Cardinality(InE(fs)) - 1)) /\ <<fs, 0>> \in InE(fs)
    <3> DEFINE Full(T) == IsFiniteSet(T) /\ T = {fs} \X (0..(Cardinality(T) - 1)) /\ <<fs, 0>> \in T
    <3>1. InE(fs) = In(fs)
      BY <1>10, <2>1
    <3>2. Full(In(fs))
      BY <1>1
    <3>3. Full(InE(fs))
      <4> HIDE DEF Full
      <4> QED
        BY <3>1, <3>2
    <3> QED
      BY <3>3
  <2> QED
    BY <1>14, <1>15, <2>1
<1>17. DOMAIN E = UNION {InE(fs) : fs \in 0..n}
  <2>1. ASSUME NEW d \in DOMAIN E PROVE d[1] \in 0..n /\ d \in InE(d[1])
    <3>1. CASE d = free
      BY <1>3, <1>8, <1>10, <3>1
    <3>2. CASE d \in DOMAIN D
      BY <1>2, <1>12, <1>13, <3>2 DEF Placed
    <3> QED
      BY <1>9, <3>1, <3>2
  <2>2. \A d \in UNION {InE(fs) : fs \in 0..n} : d \in DOMAIN E
    BY <1>x
  <2>3. \A d \in DOMAIN E : d \in UNION {InE(fs) : fs \in 0..n}
    BY <2>1
  <2> QED
    BY <2>2, <2>3
<1>18. ASSUME NEW d \in DOMAIN E
       PROVE  /\ E[d] \in [up : DOMAIN E \cup {None}, name : STRING, link : BOOLEAN]
              /\ IF d[2] = 0 THEN E[d].up = None ELSE E[d].up \in InE(d[1])
              /\ \A x \in DOMAIN E : E[x].up = E[d].up /\ E[x].name = E[d].name /\ d[2] # 0 => x = d
  <2>1. CASE d = free
    <3>1. E[d] = new /\ d[2] # 0 /\ d[1] = u[1]
      BY <1>7, <1>8, <1>9, <2>1
    <3>2. E[d].up = u /\ E[d].name = name /\ E[d] \in [up : DOMAIN E \cup {None}, name : STRING, link : BOOLEAN]
      <4>1. u \in DOMAIN E /\ E[d] = [up |-> u, name |-> name, link |-> FALSE]
        BY <1>9, <3>1 DEF new
      <4>2. [up |-> u, name |-> name, link |-> FALSE] \in [up : DOMAIN E \cup {None}, name : STRING, link : BOOLEAN]
        BY <4>1
      <4>3. E[d].up = u /\ E[d].name = name
        BY <4>1
      <4> QED
        BY <4>1, <4>2, <4>3, Zenon
    <3>3. u \in InE(u[1])
      BY <1>3, <1>12
    <3>4. \A x \in DOMAIN E : E[x].up = u /\ E[x].name = name => x = free
      BY <1>9
    <3> QED
      BY <2>1, <3>1, <3>2, <3>3, <3>4
  <2>2. CASE d \in DOMAIN D
    <3>1. E[d] = D[d] /\ Placed(D, n, d)
      BY <1>2, <1>9, <2>2
    <3>2. E[d] \in [up : DOMAIN E \cup {None}, name : STRING, link : BOOLEAN]
      BY <1>9, <3>1 DEF Placed
    <3>3. IF d[2] = 0 THEN E[d].up = None ELSE E[d].up \in InE(d[1])
      BY <1>11, <1>12, <2>2, <3>1 DEF Placed
    <3>4. \A x \in DOMAIN E : E[x].up = E[d].up /\ E[x].name = E[d].name /\ d[2] # 0 => x = d
      <4>1. ASSUME NEW x \in DOMAIN E, E[x].up = E[d].up, E[x].name = E[d].name, d[2] # 0 PROVE x = d
        <5>1. CASE x = free
          BY <1>9, <2>2, <3>1, <4>1, <5>1 DEF new
        <5>2. CASE x \in DOMAIN D
          BY <1>9, <3>1, <4>1, <5>2 DEF Placed
        <5> QED
          BY <1>9, <5>1, <5>2
      <4> QED
        BY <4>1
    <3> QED
      BY <3>2, <3>3, <3>4
  <2> QED
    BY <1>9, <2>1, <2>2
<1>19. ASSUME NEW S \in SUBSET DOMAIN E, S # {} PROVE \E d \in S : E[d].up \notin S
  <2>1. CASE S \cap DOMAIN D # {}
    <3>1. PICK d \in S \cap DOMAIN D : D[d].up \notin S \cap DOMAIN D
      BY <1>1, <2>1
    <3>2. D[d].up \in DOMAIN D \cup {None}
      BY <1>2, <3>1 DEF Placed
    <3>3. None \notin DOMAIN E
      <4>1. None \notin Nat \X Nat
        BY StageIsSound DEF StageAssumption
      <4>2. free \in Nat \X Nat
        BY <1>2, <1>4, <1>6 DEF Placed
      <4> QED
        BY <1>3, <1>9, <4>1, <4>2
    <3> QED
      BY <1>9, <3>1, <3>2, <3>3
  <2>2. CASE S \cap DOMAIN D = {}
    <3>1. free \in S /\ E[free].up = u
      <4>1. E[free].up = u
        BY <1>9 DEF new
      <4> QED
        BY <1>9, <1>19, <2>2, <4>1
    <3> QED
      BY <2>2, <3>1
  <2> QED
    BY <2>1, <2>2
<1>20. Forest(E, n)
  BY <1>16, <1>17, <1>18, <1>19 DEF Forest, InE
<1> QED
  BY <1>7, <1>8, <1>9, <1>20 DEF new, Grew, free, E

\* What is the same in a forest that keeps its parents and names.
LEMMA SamePaths ==
  ASSUME NEW n \in Nat, NEW D, Forest(D, n), NEW E, Forest(E, n), DOMAIN D \subseteq DOMAIN E,
         \A d \in DOMAIN D : E[d].up = D[d].up /\ E[d].name = D[d].name, NEW d \in DOMAIN D
  PROVE  RelOf(E)[d] = RelOf(D)[d] /\ AboveOf(E, d) = AboveOf(D, d)
<1>1. Grounded(UpOf(D)) /\ Grounded(UpOf(E))
  BY ForestFacts
<1>2. Upward(UpOf(D), DOMAIN D)
  BY <1>1 DEF Upward, Grounded, UpOf
<1>3. \A x \in DOMAIN D : UpOf(E)[x] = UpOf(D)[x] /\ DOMAIN D \subseteq DOMAIN UpOf(E)
  BY DEF UpOf
<1>4. RelOf(E)[d] = RelOf(D)[d]
  <2> DEFINE s == [x \in DOMAIN D |-> <<D[x].name>>]
             t == [x \in DOMAIN E |-> <<E[x].name>>]
  <2>1. \A x \in DOMAIN D : t[x] = s[x]
    OBVIOUS
  <2> HIDE DEF s, t
  <2>2. Along(UpOf(E), t)[d] = Along(UpOf(D), s)[d]
    BY <1>1, <1>2, <1>3, <2>1, AlongAgrees
  <2> QED
    BY <2>2 DEF RelOf, s, t
<1>5. ParentsOf(E)[d] = ParentsOf(D)[d]
  <2> DEFINE s == [x \in DOMAIN D |-> <<D[x].up>>]
             t == [x \in DOMAIN E |-> <<E[x].up>>]
  <2>1. \A x \in DOMAIN D : t[x] = s[x]
    OBVIOUS
  <2> HIDE DEF s, t
  <2>2. Along(UpOf(E), t)[d] = Along(UpOf(D), s)[d]
    BY <1>1, <1>2, <1>3, <2>1, AlongAgrees
  <2> QED
    BY <2>2 DEF ParentsOf, s, t
<1> QED
  BY <1>4, <1>5 DEF AboveOf

\* A directory moves to a place that is not below it.
LEMMA Moved ==
  ASSUME NEW n \in Nat, NEW D, Forest(D, n), NEW d \in DOMAIN D, d[2] # 0, NEW to \in DOMAIN D, to[1] = d[1],
         d \notin AboveOf(D, to), NEW name \in STRING, \A x \in DOMAIN D : D[x].up # to \/ D[x].name # name,
         NEW E, E = [D EXCEPT ![d].up = to, ![d].name = name]
  PROVE  Forest(E, n) /\ DOMAIN E = DOMAIN D /\ \A x \in DOMAIN D : x # d => E[x] = D[x]
<1>1. \A x \in DOMAIN D : Placed(D, n, x)
  BY ForestFacts
<1>2. None \notin DOMAIN D /\ \A S \in SUBSET DOMAIN D : S # {} => \E x \in S : D[x].up \notin S
  BY ForestFacts DEF Forest
<1>3. DOMAIN E = DOMAIN D /\ \A x \in DOMAIN D : x # d => E[x] = D[x]
  OBVIOUS
<1>4. E[d].up = to /\ E[d].name = name /\ E[d] \in [up : DOMAIN D \cup {None}, name : STRING, link : BOOLEAN]
  BY <1>1 DEF Placed
<1>5. to # None /\ d # None
  BY <1>2
<1>6. ASSUME NEW x \in DOMAIN D PROVE Fits(E, D, x)
  <2>1. CASE x = d
    BY <1>3, <1>4, <2>1 DEF Fits
  <2>2. CASE x # d
    <3>1. E[x] = D[x] /\ Placed(D, n, x)
      BY <1>1, <1>3, <2>2
    <3>2. ASSUME NEW y \in DOMAIN D, E[y].up = E[x].up, E[y].name = E[x].name, x[2] # 0 PROVE y = x
      <4>1. y # d
        BY <1>4, <3>1, <3>2
      <4>2. E[y] = D[y]
        BY <1>3, <4>1
      <4> QED
        BY <3>1, <3>2, <4>2 DEF Placed
    <3> QED
      BY <3>1, <3>2 DEF Placed, Fits
  <2> QED
    BY <2>1, <2>2
<1>7. ASSUME NEW S \in SUBSET DOMAIN D, S # {} PROVE \E x \in S : E[x].up \notin S
  <2> SUFFICES ASSUME \A x \in S : E[x].up \in S PROVE FALSE
    OBVIOUS
  <2>1. PICK x \in S : D[x].up \notin S
    BY <1>2, <1>7
  <2>2. x = d
    BY <1>3, <2>1
  <2>3. to \in S
    BY <1>4, <2>2
  <2> DEFINE T == S \cap AboveOf(D, to)
  <2>4. to \in T /\ T \subseteq DOMAIN D /\ d \notin T
    BY <2>3, AboveFacts
  <2>5. PICK y \in T : D[y].up \notin T
    BY <1>2, <2>4
  <2>6. D[y].up \in S
    BY <1>3, <2>4, <2>5
  <2>7. D[y].up \in AboveOf(D, to)
    <3>1. \A z \in AboveOf(D, to) : D[z].up # None => D[z].up \in AboveOf(D, to)
      BY AboveClosed
    <3>2. D[y].up # None
      BY <1>2, <2>6
    <3> QED
      BY <2>5, <3>1, <3>2
  <2> QED
    BY <2>5, <2>6, <2>7
<1> HIDE DEF Forest
<1>8. Forest(E, n)
  BY <1>3, <1>6, <1>7, Rearranged
<1> QED
  BY <1>3, <1>8

\* A directory becomes a link.
Relinked(D, E, x) ==
  E[x].up = D[x].up /\ E[x].name = D[x].name /\ E[x] \in [up : DOMAIN D \cup {None}, name : STRING, link : BOOLEAN]

\* Putting a link in the place of an empty directory keeps the forest.
LEMMA Linked ==
  ASSUME NEW n \in Nat, NEW D, Forest(D, n), NEW E, DOMAIN E = DOMAIN D,
         \A x \in DOMAIN D : Relinked(D, E, x)
  PROVE  Forest(E, n)
<1>1. \A x \in DOMAIN D : Placed(D, n, x)
  BY ForestFacts
<1>2. \A S \in SUBSET DOMAIN D : S # {} => \E x \in S : D[x].up \notin S
  BY DEF Forest
<1>3. DOMAIN E = DOMAIN D
  OBVIOUS
<1>4. ASSUME NEW x \in DOMAIN D
      PROVE  E[x].up = D[x].up /\ E[x].name = D[x].name /\ E[x] \in [up : DOMAIN D \cup {None}, name : STRING, link : BOOLEAN]
  BY DEF Relinked
<1>5. ASSUME NEW x \in DOMAIN D PROVE Fits(E, D, x)
  <2>1. Placed(D, n, x)
    BY <1>1
  <2>2. E[x].up = D[x].up /\ E[x].name = D[x].name /\ \A y \in DOMAIN D : E[y].up = D[y].up /\ E[y].name = D[y].name
    BY <1>4
  <2>3. E[x] \in [up : DOMAIN D \cup {None}, name : STRING, link : BOOLEAN]
    BY <1>4
  <2>4. /\ x[2] = 0 => E[x].up = None
        /\ x[2] # 0 => E[x].up \in DOMAIN D /\ E[x].up[1] = x[1]
    BY <2>1, <2>2 DEF Placed
  <2>5. \A y \in DOMAIN D : E[y].up = E[x].up /\ E[y].name = E[x].name /\ x[2] # 0 => y = x
    BY <2>1, <2>2 DEF Placed
  <2> HIDE DEF Placed
  <2> QED
    BY <2>3, <2>4, <2>5 DEF Fits
<1>6. \A S \in SUBSET DOMAIN D : S # {} => \E x \in S : E[x].up \notin S
  BY <1>2, <1>4
<1>7. Forest(E, n)
  BY <1>3, <1>5, <1>6, Rearranged
<1> QED
  BY <1>3, <1>4, <1>7

-----------------------------------------------------------------------------
(* Mounts *)

\* A set of numbers that is not empty has a least one.
LEMMA LeastNumber == ASSUME NEW S, S \subseteq Nat, S # {} PROVE \E m \in S : \A k \in S : m <= k
<1> DEFINE R == {ss \in Nat \X Nat : ss[1] < ss[2]}
<1>1. R = OpToRel(<, Nat)
  BY DEF OpToRel
<1> HIDE DEF R
<1>2. IsWellFoundedOn(R, Nat)
  BY <1>1, NatLessThanWellFounded
<1>3. \E x \in S : \A y \in S : ~(<<y, x>> \in R)
  BY <1>2, WFMin
<1>4. \A x, y \in S : ~(<<y, x>> \in R) => x <= y
  BY DEF R
<1> QED
  BY <1>3, <1>4

\* The shape of the names of mounts.
LEMMA IdFacts == None \notin Ids /\ None \notin Nat \X Nat /\ \A m \in Ids : m[2] \in Nat /\ m = <<m[1], m[2]>> /\ m[1] \in {"own", "supervisor", "tool", "helper"}
  BY StageIsSound DEF StageAssumption, Ids

\* A mount is in an older one, or in one that is in none.
Ranked(D, M) ==
  \A m \in DOMAIN M :
    /\ m \in Ids
    /\ M[m].parent # None =>
         /\ M[m].parent \in DOMAIN M /\ M[m].on \in DOMAIN D
         /\ M[m].parent[2] < m[2] \/ M[M[m].parent].parent = None
HoldersOf(M) == [m \in DOMAIN M |-> M[m].parent]
PathsOf(D, M) ==
  Along(HoldersOf(M), [m \in DOMAIN M |-> IF M[m].parent = None THEN <<>> ELSE RelOf(D)[M[m].on]])

\* Mounts lie in older ones, so that there is no way around among them.
LEMMA RankedGrounded ==
  ASSUME NEW D, NEW M, Ranked(D, M)
  PROVE  Grounded(HoldersOf(M)) /\ DOMAIN HoldersOf(M) = DOMAIN M /\ \A m \in DOMAIN M : HoldersOf(M)[m] = M[m].parent
<1>1. DOMAIN HoldersOf(M) = DOMAIN M /\ \A m \in DOMAIN M : HoldersOf(M)[m] = M[m].parent
  BY DEF HoldersOf
<1>2. \A m \in DOMAIN M : m \in Ids /\ m[2] \in Nat
  BY IdFacts DEF Ranked
<1>3. None \notin DOMAIN M
  BY <1>2, IdFacts
<1>4. ASSUME NEW S \in SUBSET DOMAIN M, S # {} PROVE \E m \in S : M[m].parent \notin S
  <2> DEFINE N == {m[2] : m \in S}
  <2>1. N \subseteq Nat /\ N # {} /\ \A m \in S : m[2] \in N
    BY <1>2, <1>4
  <2>2. PICK k \in N : \A j \in N : k <= j
    BY <2>1, LeastNumber
  <2>3. PICK m \in S : m[2] = k
    BY <2>2
  <2>4. M[m].parent \in S => M[m].parent[2] \in N /\ (M[m].parent[2] < m[2] \/ M[M[m].parent].parent = None)
    BY <1>3, <2>1 DEF Ranked
  <2> HIDE DEF N
  <2>5. M[m].parent \in S => M[M[m].parent].parent = None
    BY <2>1, <2>2, <2>3, <2>4
  <2>6. None \notin S
    BY <1>3
  <2> QED
    BY <2>3, <2>5, <2>6
<1> QED
  BY <1>1, <1>3, <1>4 DEF Grounded, Ranked

Led(D, M, m) ==
  /\ PathsOf(D, M)[m] \in Seq(STRING)
  /\ M[m].parent = None => PathsOf(D, M)[m] = <<>>
  /\ M[m].parent # None => PathsOf(D, M)[m] = PathsOf(D, M)[M[m].parent] \o RelOf(D)[M[m].on]

\* The path of a mount is that of the one it lies in and of the place there.
LEMMA PathsFacts ==
  ASSUME NEW n \in Nat, NEW D, Forest(D, n), NEW M, Ranked(D, M)
  PROVE  \A m \in DOMAIN M : Led(D, M, m)
<1> SUFFICES ASSUME NEW m \in DOMAIN M PROVE Led(D, M, m)
  OBVIOUS
<1> DEFINE step == [x \in DOMAIN M |-> IF M[x].parent = None THEN <<>> ELSE RelOf(D)[M[x].on]]
<1>1. Grounded(HoldersOf(M)) /\ DOMAIN HoldersOf(M) = DOMAIN M /\ \A x \in DOMAIN M : HoldersOf(M)[x] = M[x].parent
  BY RankedGrounded
<1>2. \A x \in DOMAIN M : M[x].parent # None => step[x] = RelOf(D)[M[x].on] /\ step[x] \in Seq(STRING)
  BY RelFacts DEF Ranked
<1>3. PathsOf(D, M) = Along(HoldersOf(M), step)
  BY DEF PathsOf
<1> HIDE DEF step
<1>4. PathsOf(D, M) \in [DOMAIN M -> Seq(STRING)]
  BY <1>1, <1>2, <1>3, AlongType
<1>5. PathsOf(D, M)[m] = Onward(HoldersOf(M), step, PathsOf(D, M), m)
  BY <1>1, <1>3, AlongIs DEF Solves
<1> QED
  BY <1>1, <1>2, <1>4, <1>5 DEF Onward, Led

\* Mounts whose holders and places stay keep their paths.
LEMMA PathsKept ==
  ASSUME NEW D, NEW M, Ranked(D, M), NEW E, NEW N, Ranked(E, N), NEW T, T \subseteq DOMAIN M, T \subseteq DOMAIN N,
         \A m \in T : /\ N[m].parent = M[m].parent /\ N[m].on = M[m].on
                      /\ M[m].parent # None => M[m].parent \in T /\ RelOf(E)[M[m].on] = RelOf(D)[M[m].on]
  PROVE  \A m \in T : PathsOf(E, N)[m] = PathsOf(D, M)[m]
<1> DEFINE s == [x \in DOMAIN M |-> IF M[x].parent = None THEN <<>> ELSE RelOf(D)[M[x].on]]
           t == [x \in DOMAIN N |-> IF N[x].parent = None THEN <<>> ELSE RelOf(E)[N[x].on]]
<1>1. Grounded(HoldersOf(M)) /\ DOMAIN HoldersOf(M) = DOMAIN M /\ \A x \in DOMAIN M : HoldersOf(M)[x] = M[x].parent
  BY RankedGrounded
<1>2. Grounded(HoldersOf(N)) /\ DOMAIN HoldersOf(N) = DOMAIN N /\ \A x \in DOMAIN N : HoldersOf(N)[x] = N[x].parent
  BY RankedGrounded
<1>3. Upward(HoldersOf(M), T)
  BY <1>1 DEF Upward
<1>4. \A x \in T : HoldersOf(N)[x] = HoldersOf(M)[x] /\ t[x] = s[x]
  BY <1>1, <1>2
<1> HIDE DEF s, t
<1>5. \A x \in T : Along(HoldersOf(N), t)[x] = Along(HoldersOf(M), s)[x]
  BY <1>1, <1>2, <1>3, <1>4, AlongAgrees
<1> QED
  BY <1>5 DEF PathsOf, s, t

-----------------------------------------------------------------------------
(* Lookups *)

\* The operators of the model, as functions of the directories and mounts.
LEMMA Views ==
  /\ Rel = RelOf(dirs) /\ Paths = PathsOf(dirs, mounts)
  /\ \A d : Above(d) = AboveOf(dirs, d)
<1>1. Ups = UpOf(dirs)
  BY DEF Ups, UpOf
<1>2. Rel = RelOf(dirs)
  BY <1>1 DEF Rel, RelOf
<1>3. [x \in DOMAIN dirs |-> <<dirs[x].up>>] = [d \in DOMAIN dirs |-> <<dirs[d].up>>]
  OBVIOUS
<1>4. \A d : Above(d) = AboveOf(dirs, d)
  BY <1>1 DEF Above, AboveOf, ParentsOf
<1>5. Paths = PathsOf(dirs, mounts)
  BY <1>2 DEF Paths, PathsOf, HoldersOf
<1> QED
  BY <1>2, <1>4, <1>5

\* The mounts in a state are ranked, and of its forest.
LEMMA TreeFacts ==
  ASSUME PlanInv, TreeInv
  PROVE  /\ Len(plan) \in Nat /\ Len(plan) + 1 \in Nat /\ Forest(dirs, Len(plan) + 1) /\ Ranked(dirs, mounts)
         /\ DOMAIN mounts \subseteq Ids /\ None \notin DOMAIN mounts
         /\ \A m \in DOMAIN mounts : /\ mounts[m].fs = m[2] /\ Top(m) = [m |-> m, d |-> <<m[2], 0>>] /\ <<m[2], 0>> \in DOMAIN dirs
                                     /\ On(Top(m)) = {}
<1>1. Len(plan) \in Nat /\ Len(plan) + 1 \in Nat /\ Forest(dirs, Len(plan) + 1)
  BY DEF PlanInv
<1>2. Ranked(dirs, mounts) /\ DOMAIN mounts \subseteq Ids
  BY DEF TreeInv, Ranked
<1>3. None \notin DOMAIN mounts
  BY <1>2, IdFacts
<1>4. ASSUME NEW m \in DOMAIN mounts
      PROVE  mounts[m].fs = m[2] /\ Top(m) = [m |-> m, d |-> <<m[2], 0>>] /\ <<m[2], 0>> \in DOMAIN dirs /\ On(Top(m)) = {}
  <2>1. m[2] \in 0..(Len(plan) + 1) /\ mounts[m] = [fs |-> m[2], parent |-> mounts[m].parent, on |-> mounts[m].on]
    BY <1>1, <1>2, IdFacts DEF TreeInv
  <2>2. mounts[m].fs = m[2]
    BY <2>1
  <2>3. <<m[2], 0>> \in DOMAIN dirs
    BY <1>1, <2>1, ForestFacts
  <2>4. Top(m) = [m |-> m, d |-> <<m[2], 0>>]
    BY <2>2 DEF Top
  <2>5. ASSUME NEW x \in DOMAIN mounts, mounts[x].parent = m, mounts[x].on = <<m[2], 0>> PROVE FALSE
    BY <1>3, <2>5 DEF TreeInv
  <2> QED
    BY <2>2, <2>3, <2>4, <2>5 DEF On
<1> QED
  BY <1>1, <1>2, <1>3, <1>4

\* A location that is crossed leads to the top of the one mount there, or is what it is.
LEMMA CrossIs ==
  ASSUME PlanInv, TreeInv, NEW l, l.m \in DOMAIN mounts
  PROVE  /\ On(l) = {} => Cross(l) = l
         /\ \A x \in On(l) : x \in DOMAIN mounts /\ On(l) = {x} /\ Cross(l) = Top(x)
<1> DEFINE one(x) == CHOOSE m \in On(x) : TRUE
           F == [m \in DOMAIN mounts |-> Top(m)]
           G == CHOOSE f : f = [m \in DOMAIN mounts |-> IF On(Top(m)) = {} THEN Top(m) ELSE f[one(Top(m))]]
<1>1. \A m \in DOMAIN mounts : On(Top(m)) = {}
  BY TreeFacts
<1>2. F = [m \in DOMAIN mounts |-> IF On(Top(m)) = {} THEN Top(m) ELSE F[one(Top(m))]]
  BY <1>1
<1>3. G = [m \in DOMAIN mounts |-> IF On(Top(m)) = {} THEN Top(m) ELSE G[one(Top(m))]]
  <2> HIDE DEF F
  <2> QED
    BY <1>2
<1>4. Cross(l) = IF On(l) = {} THEN l ELSE G[one(l)]
  BY DEF Cross
<1> HIDE DEF G
<1>5. \A m \in DOMAIN mounts : G[m] = Top(m)
  BY <1>1, <1>3
<1>6. ASSUME NEW x \in On(l) PROVE x \in DOMAIN mounts /\ On(l) = {x} /\ one(l) = x
  <2>1. x \in DOMAIN mounts /\ mounts[x].parent = l.m /\ mounts[x].on = l.d
    BY DEF On
  <2>2. mounts[x].parent # None
    BY <2>1, TreeFacts
  <2>3. \A y \in On(l) : y = x
    BY <2>1, <2>2 DEF On, TreeInv
  <2> QED
    BY <2>1, <2>3
<1> QED
  BY <1>4, <1>5, <1>6

\* What holds at 0, and one further whenever it holds, holds up to n.
LEMMA Climbs ==
  ASSUME NEW n \in Nat, NEW P, 0 \in P, \A k \in 0..(n - 1) : k \in P => k + 1 \in P
  PROVE  0..n \subseteq P
<1> SUFFICES ASSUME (0..n) \ P # {} PROVE FALSE
  OBVIOUS
<1>1. PICK m \in (0..n) \ P : \A k \in (0..n) \ P : m <= k
  <2>1. (0..n) \ P \subseteq Nat
    OBVIOUS
  <2> QED
    BY <2>1, LeastNumber
<1>2. m # 0 /\ m - 1 \in 0..(n - 1) /\ (m - 1) + 1 = m /\ m - 1 \in 0..n
  OBVIOUS
<1>3. m - 1 \in P
  BY <1>1, <1>2
<1> QED
  BY <1>2, <1>3

\* One component of a path.
Stepped(ls, name) == UNION {{Cross(At(l, d)) : d \in Plain(l, name)} : l \in ls}
Walks(from, path, n, f) == f = [i \in 0..n |-> IF i = 0 THEN {from} ELSE Stepped(f[i - 1], path[i])]

\* A lookup is a sequence of sets of locations, one per component.
LEMMA WalkIs ==
  ASSUME NEW from, NEW path, Len(path) \in Nat
  PROVE  \E at : Walks(from, path, Len(path), at) /\ Walk(from, path) = at[Len(path)]
<1> DEFINE P == {k \in 0..Len(path) : \E f : Walks(from, path, k, f)}
<1>1. 0 \in P
  <2>1. Walks(from, path, 0, [i \in 0..0 |-> {from}])
    BY DEF Walks
  <2> QED
    BY <2>1
<1>2. ASSUME NEW k \in 0..(Len(path) - 1), k \in P PROVE k + 1 \in P
  <2>1. PICK f : Walks(from, path, k, f)
    BY <1>2
  <2> DEFINE g == [i \in 0..(k + 1) |-> IF i \in 0..k THEN f[i] ELSE Stepped(f[k], path[i])]
  <2>a. \A i \in 0..k : f[i] = IF i = 0 THEN {from} ELSE Stepped(f[i - 1], path[i])
    <3> HIDE DEF g
    <3> QED
      BY <2>1 DEF Walks
  <2>b. \A i \in 0..k : g[i] = f[i]
    OBVIOUS
  <2>2. \A i \in 0..k : g[i] = f[i] /\ f[i] = IF i = 0 THEN {from} ELSE Stepped(f[i - 1], path[i])
    <3> HIDE DEF g
    <3> QED
      BY <2>a, <2>b
  <2>3. g[k + 1] = Stepped(f[k], path[k + 1]) /\ g[k] = f[k]
    OBVIOUS
  <2>4. g = [i \in 0..(k + 1) |-> g[i]]
    OBVIOUS
  <2> HIDE DEF g
  <2>5. \A i \in 0..(k + 1) : g[i] = IF i = 0 THEN {from} ELSE Stepped(g[i - 1], path[i])
    <3>1. ASSUME NEW i \in 0..k PROVE g[i] = IF i = 0 THEN {from} ELSE Stepped(g[i - 1], path[i])
      <4>1. i # 0 => i - 1 \in 0..k
        OBVIOUS
      <4> QED
        BY <2>2, <4>1
    <3>2. (k + 1) - 1 = k /\ k + 1 # 0 /\ \A i \in 0..(k + 1) : i \in 0..k \/ i = k + 1
      OBVIOUS
    <3>3. g[k + 1] = IF k + 1 = 0 THEN {from} ELSE Stepped(g[(k + 1) - 1], path[k + 1])
      BY <2>3, <3>2
    <3> QED
      BY <3>1, <3>2, <3>3
  <2>6. Walks(from, path, k + 1, g)
    BY <2>4, <2>5 DEF Walks
  <2> QED
    BY <2>6
<1>3. 0..Len(path) \subseteq P
  <2> HIDE DEF P
  <2> QED
    BY <1>1, <1>2, Climbs
<1>4. PICK f : Walks(from, path, Len(path), f)
  BY <1>3
<1> DEFINE G == CHOOSE h : h = [i \in 0..Len(path) |-> IF i = 0 THEN {from} ELSE Stepped(h[i - 1], path[i])]
<1>5. Walks(from, path, Len(path), G)
  BY <1>4 DEF Walks
<1>6. Walk(from, path) = G[Len(path)]
  BY DEF Walk, Stepped
<1> QED
  BY <1>5, <1>6

\* A location of one side.
Place(side, l) == l.m \in DOMAIN mounts /\ l.m[1] = side /\ l.d \in DOMAIN dirs /\ l = [m |-> l.m, d |-> l.d]

\* A place is a location.
LEMMA PlaceIsLocation ==
  ASSUME PlanInv, TreeInv, NEW side, NEW l, Place(side, l)
  PROVE  l \in Locations /\ l \in AnyLocation
<1>1. l.m \in Ids /\ l.d \in DOMAIN dirs /\ l.d \in Nat \X Nat
  BY TreeFacts, ForestFacts DEF Place, Placed
<1> QED
  BY <1>1 DEF Place, Locations, AnyLocation

\* Crossing mounts leads to a place of the same side.
LEMMA CrossedPlace ==
  ASSUME PlanInv, TreeInv, NEW side, NEW l, Place(side, l)
  PROVE  Place(side, Cross(l))
<1>1. CASE On(l) = {}
  BY <1>1, CrossIs DEF Place
<1>2. CASE On(l) # {}
  <2>1. PICK x \in On(l) : x \in DOMAIN mounts /\ Cross(l) = Top(x)
    BY <1>2, CrossIs DEF Place
  <2>2. mounts[x].parent = l.m /\ l.m # None
    BY <2>1, TreeFacts DEF On, Place
  <2>3. x[1] = side
    BY <2>1, <2>2 DEF TreeInv, Place
  <2>4. Top(x) = [m |-> x, d |-> <<x[2], 0>>] /\ <<x[2], 0>> \in DOMAIN dirs
    BY <2>1, TreeFacts
  <2> QED
    BY <2>1, <2>3, <2>4 DEF Place
<1> QED
  BY <1>1, <1>2

\* A lookup stays on the side it began on.
LEMMA WalkWithin ==
  ASSUME PlanInv, TreeInv, NEW side, NEW from, Place(side, from), NEW path, Len(path) \in Nat
  PROVE  \A l \in Walk(from, path) : Place(side, l)
<1>1. PICK at : Walks(from, path, Len(path), at) /\ Walk(from, path) = at[Len(path)]
  BY WalkIs
<1> DEFINE P == {k \in 0..Len(path) : \A l \in at[k] : Place(side, l)}
<1>2. \A i \in 0..Len(path) : at[i] = IF i = 0 THEN {from} ELSE Stepped(at[i - 1], path[i])
  BY <1>1 DEF Walks
<1>3. 0 \in P
  BY <1>2
<1>4. ASSUME NEW k \in 0..(Len(path) - 1), k \in P PROVE k + 1 \in P
  <2>1. k + 1 \in 0..Len(path) /\ at[k + 1] = Stepped(at[k], path[k + 1])
    BY <1>2
  <2>2. ASSUME NEW l \in at[k], NEW d \in Plain(l, path[k + 1]) PROVE Place(side, Cross(At(l, d)))
    <3>1. Place(side, l)
      BY <1>4
    <3>2. Place(side, At(l, d))
      BY <3>1 DEF Place, At, Plain, Entry
    <3> QED
      BY <3>2, CrossedPlace
  <2>3. \A x \in at[k + 1] : Place(side, x)
    BY <2>1, <2>2 DEF Stepped
  <2> QED
    BY <2>1, <2>3
<1>5. 0..Len(path) \subseteq P
  <2> HIDE DEF P
  <2> QED
    BY <1>3, <1>4, Climbs
<1> QED
  BY <1>1, <1>5

\* A lookup of one name.
LEMMA WalkOne ==
  ASSUME NEW from, NEW name
  PROVE  Walk(from, <<name>>) = {Cross(At(from, d)) : d \in Plain(from, name)}
<1>1. Len(<<name>>) = 1
  OBVIOUS
<1>2. PICK at : Walks(from, <<name>>, 1, at) /\ Walk(from, <<name>>) = at[1]
  BY <1>1, WalkIs
<1>3. at[0] = {from} /\ at[1] = Stepped(at[0], <<name>>[1]) /\ <<name>>[1] = name
  BY <1>2 DEF Walks
<1> QED
  BY <1>2, <1>3 DEF Stepped

\* The path of a mount, from that of the one it is in.
LEMMA PathOf ==
  ASSUME PlanInv, TreeInv, NEW m \in DOMAIN mounts
  PROVE  /\ Paths[m] \in Seq(STRING)
         /\ mounts[m].parent = None => Paths[m] = <<>>
         /\ mounts[m].parent # None => Paths[m] = Paths[mounts[m].parent] \o Rel[mounts[m].on]
<1> DEFINE n == Len(plan) + 1
<1>1. n \in Nat /\ Forest(dirs, n) /\ Ranked(dirs, mounts)
  BY TreeFacts
<1>2. Paths = PathsOf(dirs, mounts) /\ Rel = RelOf(dirs)
  BY Views
<1> HIDE DEF n
<1>3. Led(dirs, mounts, m)
  BY <1>1, PathsFacts
<1> QED
  BY <1>2, <1>3 DEF Led

\* The path of a mount is longer than that of the one it is in.
LEMMA LongerPath ==
  ASSUME PlanInv, TreeInv, NEW m \in DOMAIN mounts, mounts[m].parent # None
  PROVE  /\ Len(Paths[m]) \in Nat /\ Len(Paths[mounts[m].parent]) \in Nat
         /\ Len(Paths[mounts[m].parent]) < Len(Paths[m])
<1> DEFINE up == mounts[m].parent
           on == mounts[m].on
<1>1. up \in DOMAIN mounts /\ on \in DOMAIN dirs /\ on[2] # 0
  BY DEF TreeInv
<1>a. Len(plan) + 1 \in Nat /\ Forest(dirs, Len(plan) + 1) /\ Ranked(dirs, mounts) /\ Paths = PathsOf(dirs, mounts)
  BY TreeFacts, Views
<1>2. Paths[up] \in Seq(STRING) /\ Paths[m] = Paths[up] \o RelOf(dirs)[on]
  <2> HIDE DEF up, on
  <2>1. Paths[up] \in Seq(STRING)
    BY <1>1, PathOf
  <2>2. Paths[m] = Paths[mounts[m].parent] \o RelOf(dirs)[mounts[m].on]
    BY Views, PathOf
  <2> QED
    BY <2>1, <2>2 DEF up, on
<1>3. dirs[on].up \in DOMAIN dirs /\ dirs[on].name \in STRING
  BY <1>1, TreeFacts, ForestFacts DEF Placed
<1>4. RelOf(dirs)[dirs[on].up] \in Seq(STRING) /\ RelOf(dirs)[on] = RelOf(dirs)[dirs[on].up] \o <<dirs[on].name>>
  BY <1>1, <1>3, <1>a, RelFacts
<1> DEFINE a == RelOf(dirs)[dirs[on].up]
           b == RelOf(dirs)[on]
<1> HIDE DEF a, b, up, on
<1>5. a \in Seq(STRING) /\ b = a \o <<dirs[on].name>> /\ b \in Seq(STRING) /\ Len(b) = Len(a) + 1 /\ Len(a) \in Nat
  BY <1>3, <1>4 DEF a, b
<1>6. Paths[m] = Paths[up] \o b
  BY <1>2 DEF b
<1>7. Len(Paths[m]) = Len(Paths[up]) + Len(b) /\ Len(Paths[up]) \in Nat
  BY <1>2, <1>5, <1>6
<1>8. Len(Paths[up]) \in Nat /\ Len(Paths[m]) \in Nat /\ Len(Paths[up]) < Len(Paths[m])
  <2>1. Len(b) \in Nat /\ Len(b) > 0
    BY <1>5
  <2> QED
    BY <1>7, <2>1
<1> QED
  BY <1>8 DEF up

\* What a capture finds is where the mount is.
LEMMA FoundIs ==
  ASSUME PlanInv, TreeInv, Base \in DOMAIN mounts, NEW m \in DOMAIN mounts, NEW p \in Found(m)
  PROVE  /\ p.mount = m /\ Pinned(p) /\ p.parent.m[1] = "helper" /\ p.parent \in Locations
         /\ p \in [mount : Ids, parent : AnyLocation, name : STRING]
         /\ mounts[m].parent # None
<1> DEFINE path == Paths[m]
<1>1. path \in Seq(STRING)
  BY PathOf
<1>2. Len(Front(path)) \in Nat
  BY <1>1 DEF Front
<1>3. PICK l \in Walk(Top(Base), Front(path)) : Walk(l, <<Last(path)>>) = {Top(m)} /\ p = [mount |-> m, parent |-> l, name |-> Last(path)]
  BY DEF Found
<1>4. Place("helper", Top(Base))
  <2>1. Base[1] = "helper"
    BY DEF Base, View, ToolView
  <2>2. Top(Base) = [m |-> Base, d |-> <<Base[2], 0>>] /\ <<Base[2], 0>> \in DOMAIN dirs
    BY TreeFacts
  <2> QED
    BY <2>1, <2>2 DEF Place
<1>5. Place("helper", l)
  BY <1>2, <1>3, <1>4, WalkWithin
<1>6. PICK d \in Plain(l, Last(path)) : Cross(At(l, d)) = Top(m)
  BY <1>3, WalkOne
<1>7. d \in DOMAIN dirs /\ dirs[d].up = l.d /\ dirs[d].name = Last(path) /\ l.d \in DOMAIN dirs
  BY <1>5, <1>6 DEF Plain, Entry, Place
<1>8. d[2] # 0 /\ dirs[d].name \in STRING
  BY <1>7, TreeFacts, ForestFacts DEF Placed
<1>9. Top(m) = [m |-> m, d |-> <<m[2], 0>>]
  BY TreeFacts
<1>10. On(At(l, d)) # {}
  <2> SUFFICES ASSUME On(At(l, d)) = {} PROVE FALSE
    OBVIOUS
  <2>1. At(l, d).m \in DOMAIN mounts /\ At(l, d).d = d
    BY <1>5 DEF Place, At
  <2>2. At(l, d) = Top(m)
    BY <1>6, <2>1, CrossIs
  <2> QED
    BY <1>8, <1>9, <2>1, <2>2
<1>11. PICK x \in On(At(l, d)) : x \in DOMAIN mounts /\ Cross(At(l, d)) = Top(x)
  BY <1>5, <1>10, CrossIs DEF Place, At
<1>12. x = m
  <2>1. Top(x) = [m |-> x, d |-> <<x[2], 0>>]
    BY <1>11, TreeFacts
  <2> QED
    BY <1>6, <1>9, <1>11, <2>1
<1>13. mounts[m].parent = l.m /\ mounts[m].on = d
  BY <1>11, <1>12 DEF On, At
<1>14. l \in Locations /\ l \in AnyLocation /\ m \in Ids /\ l.m # None
  BY <1>5, PlaceIsLocation, TreeFacts DEF Place
<1>15. p.mount = m /\ p.parent = l /\ p.name = Last(path)
  BY <1>3
<1>16. Pinned(p)
  BY <1>7, <1>13, <1>14, <1>15 DEF Pinned
<1>17. p \in [mount : Ids, parent : AnyLocation, name : STRING]
  BY <1>3, <1>7, <1>8, <1>14
<1> QED
  BY <1>5, <1>13, <1>14, <1>15, <1>16, <1>17 DEF Place

-----------------------------------------------------------------------------
(* What the plan shows *)

\* A path that ends a prefix of another one by one name.
LEMMA Prefix ==
  ASSUME NEW V, NEW s \in Seq(V), NEW x \in V, NEW path \in Seq(V), NEW k \in 0..Len(path), s \o <<x>> = SubSeq(path, 1, k)
  PROVE  k # 0 /\ k - 1 \in 0..Len(path) /\ s = SubSeq(path, 1, k - 1) /\ x = path[k]
<1> DEFINE t == s \o <<x>>
           p == SubSeq(path, 1, k)
           q == SubSeq(path, 1, k - 1)
<1>1. t \in Seq(V) /\ Len(t) = Len(s) + 1 /\ t[Len(s) + 1] = x /\ Len(s) \in Nat /\ \A i \in 1..Len(s) : t[i] = s[i]
  OBVIOUS
<1>2. Len(path) \in Nat /\ k \in Nat /\ k <= Len(path)
  OBVIOUS
<1>3. Len(p) = k /\ \A i \in 1..k : p[i] = path[i]
  BY <1>2
<1>4. k = Len(s) + 1
  <2> HIDE DEF t, p
  <2>1. t = p
    BY DEF t, p
  <2> QED
    BY <1>1, <1>3, <2>1
<1>5. q \in Seq(V) /\ Len(q) = k - 1 /\ \A i \in 1..(k - 1) : q[i] = path[i]
  BY <1>1, <1>2, <1>4
<1>6. \A i \in 1..Len(s) : s[i] = q[i]
  <2> HIDE DEF t, p, q
  <2>1. t = p
    BY DEF t, p
  <2> QED
    BY <1>1, <1>3, <1>4, <1>5, <2>1
<1>7. s = q
  <2> HIDE DEF q
  <2> QED
    BY <1>1, <1>4, <1>5, <1>6
<1>8. x = path[k]
  <2> HIDE DEF t, p
  <2>1. t = p
    BY DEF t, p
  <2> QED
    BY <1>1, <1>3, <1>4, <2>1
<1> QED
  BY <1>1, <1>2, <1>4, <1>7, <1>8

\* A location of one side that is reached by its path.
Good(side, l) == Place(side, l) /\ l.d[1] = l.m[2] /\ Clear(l)

\* The location before a place in a mount, and before a mount.
Before(l) == [m |-> l.m, d |-> dirs[l.d].up]
Under(m) == [m |-> mounts[m].parent, d |-> dirs[mounts[m].on].up]

Opened(side, base) ==
  \A m \in Of(side) :
    IF mounts[m].parent = None THEN m = base ELSE ~dirs[mounts[m].on].link /\ Clear(Under(m))

\* Directories by their names.
LEMMA RelOfDir ==
  ASSUME PlanInv, NEW d \in DOMAIN dirs
  PROVE  /\ Rel[d] \in Seq(STRING) /\ Placed(dirs, Len(plan) + 1, d)
         /\ d[2] = 0 => Rel[d] = <<>>
         /\ d[2] # 0 => Rel[d] = Rel[dirs[d].up] \o <<dirs[d].name>> /\ Rel[dirs[d].up] \in Seq(STRING) /\ dirs[d].name \in STRING
<1> DEFINE n == Len(plan) + 1
<1>1. n \in Nat /\ Forest(dirs, n)
  BY DEF PlanInv
<1>2. Rel = RelOf(dirs)
  BY Views
<1> HIDE DEF n
<1>3. \A x \in DOMAIN dirs : Placed(dirs, n, x)
  BY <1>1, ForestFacts
<1>4. \A x \in DOMAIN dirs : RelOf(dirs)[x] \in Seq(STRING)
  BY <1>1, RelFacts
<1>5. /\ d[2] = 0 => RelOf(dirs)[d] = <<>>
      /\ d[2] # 0 => RelOf(dirs)[d] = RelOf(dirs)[dirs[d].up] \o <<dirs[d].name>>
  BY <1>1, RelFacts
<1>6. d[2] # 0 => dirs[d].up \in DOMAIN dirs /\ dirs[d].name \in STRING
  BY <1>3 DEF Placed
<1> QED
  BY <1>2, <1>3, <1>4, <1>5, <1>6 DEF n

\* One step further.
LEMMA OneFurther ==
  ASSUME PlanInv, TreeInv, NEW side, NEW l, Place(side, l), NEW d \in DOMAIN dirs, d[2] # 0, dirs[d].up = l.d, ~dirs[d].link
  PROVE  Stepped({l}, dirs[d].name) = {Cross(At(l, d))}
<1>1. Placed(dirs, Len(plan) + 1, d)
  BY RelOfDir
<1>2. d[1] = l.d[1] /\ l.d # None
  BY <1>1 DEF Placed
<1>3. d \in Plain(l, dirs[d].name)
  BY <1>2 DEF Plain, Entry
<1>4. \A x \in Plain(l, dirs[d].name) : x = d
  BY <1>1, <1>2 DEF Plain, Entry, Placed
<1>5. Plain(l, dirs[d].name) = {d}
  BY <1>3, <1>4
<1> QED
  BY <1>5 DEF Stepped

\* AboveFacts, for the directories of the state.
LEMMA AboveDir ==
  ASSUME PlanInv, NEW d \in DOMAIN dirs
  PROVE  /\ d \in Above(d) /\ Above(d) \subseteq DOMAIN dirs
         /\ d[2] = 0 => Above(d) = {d}
         /\ d[2] # 0 => Above(d) = {d} \cup Above(dirs[d].up) /\ dirs[d].up \in DOMAIN dirs
<1>1. Len(plan) + 1 \in Nat /\ Forest(dirs, Len(plan) + 1)
  BY DEF PlanInv
<1>2. d[2] # 0 => dirs[d].up \in DOMAIN dirs
  BY RelOfDir DEF Placed
<1> QED
  BY <1>1, <1>2, Views, AboveFacts

\* Concatenation is associative for one more element,
LEMMA Joined ==
  ASSUME NEW V, NEW a \in Seq(V), NEW b \in Seq(V), NEW x \in V, NEW e, e = b \o <<x>>
  PROVE  a \o e = (a \o b) \o <<x>> /\ a \o b \in Seq(V)
<1>1. <<x>> \in Seq(V)
  OBVIOUS
<1>2. a \o (b \o <<x>>) = (a \o b) \o <<x>>
  BY <1>1, ConcatAssociative
<1>3. a \o b \in Seq(V)
  BY ConcatProperties
<1> QED
  BY <1>2, <1>3

\* and so it is for names.
LEMMA JoinedNames ==
  \A a, b \in Seq(STRING), x \in STRING : a \o (b \o <<x>>) = (a \o b) \o <<x>> /\ a \o b \in Seq(STRING)
<1> DEFINE V == STRING
<1> HIDE DEF V
<1>1. \A a, b \in Seq(V), x \in V : a \o (b \o <<x>>) = (a \o b) \o <<x>> /\ a \o b \in Seq(V)
  BY Joined
<1> QED
  BY <1>1 DEF V

\* A location and the one before it, d in between.
Follows(side, x, y, d) ==
  /\ Good(side, y) /\ d \in DOMAIN dirs /\ d[2] # 0 /\ dirs[d].up = y.d /\ ~dirs[d].link /\ Cross(At(y, d)) = x
  /\ PathTo(y) \in Seq(STRING) /\ dirs[d].name \in STRING /\ PathTo(x) = PathTo(y) \o <<dirs[d].name>>

\* A location that no mount hides is what its path shows.
LEMMA Reached ==
  ASSUME PlanInv, TreeInv, NEW side, NEW base, Opened(side, base), NEW path \in Seq(STRING), NEW l, Good(side, l), PathTo(l) = path
  PROVE  Walk(Top(base), path) = {l}
<1>1. PICK at : Walks(Top(base), path, Len(path), at) /\ Walk(Top(base), path) = at[Len(path)]
  BY WalkIs
<1> DEFINE P == {k \in 0..Len(path) : \A x : Good(side, x) /\ PathTo(x) = SubSeq(path, 1, k) => at[k] = {x}}
<1>2. \A i \in 0..Len(path) : at[i] = IF i = 0 THEN {Top(base)} ELSE Stepped(at[i - 1], path[i])
  BY <1>1 DEF Walks
\* A location, and the one before it.
<1>3. ASSUME NEW x, Good(side, x) PROVE
        (x = Top(base) /\ PathTo(x) = <<>>) \/ \E y, d : Follows(side, x, y, d)
  <2>1. /\ x.m \in DOMAIN mounts /\ x.m[1] = side /\ x.d \in DOMAIN dirs /\ x = [m |-> x.m, d |-> x.d]
        /\ x.d[1] = x.m[2] /\ Clear(x)
    BY <1>3 DEF Good, Place
  <2>2. Paths[x.m] \in Seq(STRING)
    BY <2>1, PathOf
  <2>3. CASE x.d[2] # 0
    <3> DEFINE y == Before(x)
    <3>1. /\ dirs[x.d].up \in DOMAIN dirs /\ dirs[x.d].up[1] = x.d[1] /\ dirs[x.d].name \in STRING
          /\ Rel[dirs[x.d].up] \in Seq(STRING) /\ Rel[x.d] = Rel[dirs[x.d].up] \o <<dirs[x.d].name>>
      BY <2>1, <2>3, RelOfDir DEF Placed
    <3>2. y.m = x.m /\ y.d = dirs[x.d].up /\ y = [m |-> y.m, d |-> y.d]
      BY DEF Before
    <3>3. Above(x.d) = {x.d} \cup Above(y.d)
      BY <2>1, <2>3, <3>2, AboveDir
    <3>4. ~dirs[x.d].link /\ On(At(x, x.d)) = {} /\ At(x, x.d) = x /\ At(y, x.d) = x
      BY <2>1, <2>3, <3>2, <3>3 DEF Clear, At
    <3>5. Clear(y)
      BY <2>1, <3>2, <3>3 DEF Clear, At
    <3>6. Good(side, y)
      BY <2>1, <3>1, <3>2, <3>5 DEF Good, Place
    <3>7. Cross(At(y, x.d)) = x
      BY <2>1, <3>4, CrossIs
    <3>8. PathTo(y) \in Seq(STRING) /\ PathTo(x) = PathTo(y) \o <<dirs[x.d].name>>
      <4>1. PathTo(y) = Paths[x.m] \o Rel[dirs[x.d].up] /\ PathTo(x) = Paths[x.m] \o Rel[x.d]
        BY <3>2 DEF PathTo
      <4> DEFINE a == Paths[x.m]
                 b == Rel[dirs[x.d].up]
                 e == Rel[x.d]
                 name == dirs[x.d].name
      <4>2. a \in Seq(STRING) /\ b \in Seq(STRING) /\ name \in STRING /\ e = b \o <<name>>
        BY <2>2, <3>1
      <4>3. PathTo(y) = a \o b /\ PathTo(x) = a \o e
        BY <4>1
      <4> HIDE DEF a, b, e, name, y
      <4>4. PathTo(y) \in Seq(STRING) /\ PathTo(x) = PathTo(y) \o <<name>>
        <5>1. a \o e = (a \o b) \o <<name>> /\ a \o b \in Seq(STRING)
          BY <4>2, JoinedNames
        <5> QED
          BY <4>3, <5>1
      <4> QED
        BY <4>4 DEF name
    <3>9. Follows(side, x, y, x.d)
      <4> HIDE DEF y
      <4> QED
        BY <2>1, <2>3, <3>1, <3>2, <3>4, <3>6, <3>7, <3>8 DEF Follows
    <3> HIDE DEF y
    <3> QED
      BY <3>9
  <2>4. CASE x.d[2] = 0
    <3>1. x = Top(x.m) /\ Rel[x.d] = <<>>
      <4>1. x.d = <<x.d[1], x.d[2]>>
        BY <2>1, RelOfDir DEF Placed
      <4>2. Rel[x.d] = <<>>
        BY <2>1, <2>4, RelOfDir
      <4> QED
        BY <2>1, <2>4, <4>1, <4>2, TreeFacts
    <3>2. x.m \in Of(side)
      BY <2>1 DEF Of
    <3>3. CASE mounts[x.m].parent = None
      <4>1. x = Top(base)
        BY <3>1, <3>2, <3>3 DEF Opened
      <4>2. PathTo(x) = <<>>
        <5>1. Paths[x.m] = <<>>
          BY <2>1, <3>3, PathOf
        <5> QED
          BY <3>1, <5>1 DEF PathTo
      <4> QED
        BY <4>1, <4>2
    <3>4. CASE mounts[x.m].parent # None
      <4> DEFINE y == Under(x.m)
                 d == mounts[x.m].on
      <4>1. /\ mounts[x.m].parent \in DOMAIN mounts /\ mounts[x.m].parent[1] = side /\ d \in DOMAIN dirs
            /\ d[1] = mounts[x.m].parent[2] /\ d[2] # 0
        BY <2>1, <3>4 DEF TreeInv
      <4>2. y.m = mounts[x.m].parent /\ y.d = dirs[d].up /\ y = [m |-> y.m, d |-> y.d]
        BY DEF Under
      <4>3. /\ dirs[d].up \in DOMAIN dirs /\ dirs[d].up[1] = d[1] /\ dirs[d].name \in STRING
            /\ Rel[dirs[d].up] \in Seq(STRING) /\ Rel[d] = Rel[dirs[d].up] \o <<dirs[d].name>>
        BY <4>1, RelOfDir DEF Placed
      <4>4. ~dirs[d].link /\ Clear(y)
        BY <3>2, <3>4 DEF Opened
      <4>5. Good(side, y)
        BY <4>1, <4>2, <4>3, <4>4 DEF Good, Place
      <4>6. Cross(At(y, d)) = x
        <5>1. x.m \in On(At(y, d)) /\ At(y, d).m \in DOMAIN mounts
          BY <2>1, <4>1, <4>2 DEF On, At
        <5> QED
          BY <3>1, <5>1, CrossIs
      <4>7. PathTo(y) \in Seq(STRING) /\ PathTo(x) = PathTo(y) \o <<dirs[d].name>>
        <5>1. Paths[x.m] = Paths[mounts[x.m].parent] \o Rel[d] /\ Paths[mounts[x.m].parent] \in Seq(STRING)
          BY <2>1, <3>4, <4>1, PathOf
        <5>2. PathTo(y) = Paths[mounts[x.m].parent] \o Rel[dirs[d].up] /\ PathTo(x) = Paths[x.m] \o <<>>
          BY <3>1, <4>2 DEF PathTo
        <5>3. PathTo(x) = Paths[x.m]
          BY <2>2, <5>2, ConcatEmptySeq
        <5> DEFINE a == Paths[mounts[x.m].parent]
                   b == Rel[dirs[d].up]
                   e == Rel[d]
                   name == dirs[d].name
        <5>4. a \in Seq(STRING) /\ b \in Seq(STRING) /\ name \in STRING /\ e = b \o <<name>>
          BY <4>3, <5>1
        <5>5. PathTo(y) = a \o b /\ PathTo(x) = a \o e
          BY <5>1, <5>2, <5>3
        <5> HIDE DEF a, b, e, name, y, d
        <5>6. PathTo(y) \in Seq(STRING) /\ PathTo(x) = PathTo(y) \o <<name>>
          <6>1. a \o e = (a \o b) \o <<name>> /\ a \o b \in Seq(STRING)
            BY <5>4, JoinedNames
          <6> QED
            BY <5>5, <6>1
        <5> QED
          BY <5>6 DEF name
      <4>8. Follows(side, x, y, d)
        <5> HIDE DEF y, d
        <5> QED
          BY <4>1, <4>2, <4>3, <4>4, <4>5, <4>6, <4>7 DEF Follows
      <4> HIDE DEF y, d
      <4> QED
        BY <4>8
    <3> QED
      BY <3>3, <3>4
  <2> QED
    BY <2>3, <2>4
<1>4. ASSUME NEW k \in 0..Len(path), k = 0 \/ k - 1 \in P PROVE k \in P
  <2> SUFFICES ASSUME NEW x, Good(side, x), PathTo(x) = SubSeq(path, 1, k) PROVE at[k] = {x}
    OBVIOUS
  <2>1. CASE x = Top(base) /\ PathTo(x) = <<>>
    <3>1. SubSeq(path, 1, k) = <<>>
      BY <2>1
    <3>2. Len(SubSeq(path, 1, k)) = k
      OBVIOUS
    <3>3. k = 0
      BY <3>1, <3>2
    <3> QED
      BY <1>2, <2>1, <3>3
  <2>2. ASSUME NEW y, NEW d, Follows(side, x, y, d) PROVE at[k] = {x}
    <3>1. k # 0 /\ k - 1 \in 0..Len(path) /\ PathTo(y) = SubSeq(path, 1, k - 1) /\ dirs[d].name = path[k]
      BY <2>2, Prefix DEF Follows
    <3>2. at[k - 1] = {y}
      BY <1>4, <2>2, <3>1 DEF Follows
    <3>3. at[k] = Stepped({y}, dirs[d].name)
      BY <1>2, <3>1, <3>2
    <3> QED
      BY <2>2, <3>3, OneFurther DEF Good, Follows
  <2> QED
    BY <1>3, <2>1, <2>2
<1>5. 0..Len(path) \subseteq P
  <2> HIDE DEF P
  <2>1. 0 \in P
    BY <1>4
  <2>2. \A k \in 0..(Len(path) - 1) : k \in P => k + 1 \in P
    <3>1. ASSUME NEW k \in 0..(Len(path) - 1), k \in P PROVE k + 1 \in P
      <4>1. k + 1 \in 0..Len(path) /\ (k + 1) - 1 = k
        OBVIOUS
      <4> QED
        BY <1>4, <3>1, <4>1
    <3> QED
      BY <3>1
  <2> QED
    BY <2>1, <2>2, Climbs
<1>6. SubSeq(path, 1, Len(path)) = path
  OBVIOUS
<1> QED
  BY <1>1, <1>5, <1>6

-----------------------------------------------------------------------------
(* The next state *)

\* Views, in the next state.
LEMMA NextViews ==
  /\ Rel' = RelOf(dirs') /\ Paths' = PathsOf(dirs', mounts')
  /\ \A d : Above(d)' = AboveOf(dirs', d)
<1>2. Ups' = UpOf(dirs')
  BY DEF Ups, UpOf
<1>3. Rel' = RelOf(dirs')
  BY <1>2 DEF Rel, RelOf
<1>1. Rel' = RelOf(dirs') /\ Paths' = PathsOf(dirs', mounts')
  BY <1>3 DEF Paths, PathsOf, HoldersOf
<1> QED
  BY <1>1, <1>2 DEF Above, AboveOf, ParentsOf

\* The parts of the invariant that the lemmas on trees ask for,
LEMMA TreeFactsHold ==
  PlanInv /\ TreeInv =>
    /\ Len(plan) \in Nat /\ Len(plan) + 1 \in Nat /\ Forest(dirs, Len(plan) + 1) /\ Ranked(dirs, mounts)
    /\ DOMAIN mounts \subseteq Ids /\ None \notin DOMAIN mounts
  BY TreeFacts

\* and the same in the next state.
LEMMA NextTreeFacts ==
  ASSUME PlanInv', TreeInv'
  PROVE  /\ Len(plan') \in Nat /\ Len(plan') + 1 \in Nat /\ Forest(dirs', Len(plan') + 1) /\ Ranked(dirs', mounts')
         /\ DOMAIN mounts' \subseteq Ids /\ None \notin DOMAIN mounts'
<1>1. (PlanInv /\ TreeInv =>
    /\ Len(plan) \in Nat /\ Len(plan) + 1 \in Nat /\ Forest(dirs, Len(plan) + 1) /\ Ranked(dirs, mounts)
    /\ DOMAIN mounts \subseteq Ids /\ None \notin DOMAIN mounts)'
  BY TreeFactsHold, PTL
<1> QED
  BY <1>1

\* Nothing above a location, by the directories and the mounts.
OnOf(M, l, d) == {m \in DOMAIN M : M[m].parent = l.m /\ M[m].on = d}
ClearOf(D, M, l) == \A d \in AboveOf(D, l.d) : d[2] # 0 => ~D[d].link /\ OnOf(M, l, d) = {}

\* Clear as a function of directories and mounts.
LEMMA ClearIs == \A l : (Clear(l) <=> ClearOf(dirs, mounts, l)) /\ (Clear(l)' <=> ClearOf(dirs', mounts', l))
<1> TAKE l
<1>1. Clear(l) <=> ClearOf(dirs, mounts, l)
  <2>1. \A d : On(At(l, d)) = OnOf(mounts, l, d)
    BY DEF On, At, OnOf
  <2> QED
    BY <2>1, Views DEF Clear, ClearOf
<1>2. Clear(l)' <=> ClearOf(dirs', mounts', l)
  <2>1. \A d : On(At(l, d))' = OnOf(mounts', l, d)
    BY DEF On, At, OnOf
  <2>2. Above(l.d)' = AboveOf(dirs', l.d)
    BY NextViews
  <2> QED
    BY <2>1, <2>2 DEF Clear, ClearOf
<1> QED
  BY <1>1, <1>2

\* A location stays clear while no directory of its own changes and nothing is mounted above it.
LEMMA ClearKept ==
  ASSUME NEW n \in Nat, NEW D, Forest(D, n), NEW E, Forest(E, n), DOMAIN D \subseteq DOMAIN E,
         \A d \in DOMAIN D : E[d] = D[d], NEW M, NEW N, NEW l, l.d \in DOMAIN D,
         \A d \in AboveOf(D, l.d), m \in DOMAIN N : N[m].parent = l.m /\ N[m].on = d => m \in OnOf(M, l, d), ClearOf(D, M, l)
  PROVE  ClearOf(E, N, l)
<1>1. AboveOf(E, l.d) = AboveOf(D, l.d)
  BY SamePaths
<1>2. AboveOf(D, l.d) \subseteq DOMAIN D
  BY AboveFacts
<1>3. ASSUME NEW d \in AboveOf(D, l.d), d[2] # 0 PROVE ~E[d].link /\ OnOf(N, l, d) = {}
  <2>1. ~D[d].link /\ OnOf(M, l, d) = {}
    BY <1>3 DEF ClearOf
  <2>2. OnOf(N, l, d) = {}
    BY <2>1 DEF OnOf
  <2> QED
    BY <1>2, <2>1, <2>2
<1> QED
  BY <1>1, <1>3 DEF ClearOf

\* What is above a directory has a path that is no longer.
LEMMA AboveIsShorter ==
  ASSUME NEW n \in Nat, NEW D, Forest(D, n)
  PROVE  \A d \in DOMAIN D : \A x \in AboveOf(D, d) : Len(RelOf(D)[x]) <= Len(RelOf(D)[d]) /\ Len(RelOf(D)[x]) \in Nat /\ Len(RelOf(D)[d]) \in Nat
<1> DEFINE Fine(d) == \A x \in AboveOf(D, d) : Len(RelOf(D)[x]) <= Len(RelOf(D)[d]) /\ Len(RelOf(D)[x]) \in Nat /\ Len(RelOf(D)[d]) \in Nat
           S == {d \in DOMAIN D : ~Fine(d)}
<1>1. Grounded(UpOf(D)) /\ DOMAIN UpOf(D) = DOMAIN D /\ \A d \in DOMAIN D : Placed(D, n, d) /\ UpOf(D)[d] = D[d].up
  BY ForestFacts DEF UpOf
<1>2. SUFFICES ASSUME S # {} PROVE FALSE
  OBVIOUS
<1>3. PICK d \in S : UpOf(D)[d] \notin S
  BY <1>1, <1>2 DEF Grounded
<1>4. d \in DOMAIN D /\ RelOf(D)[d] \in Seq(STRING) /\ Len(RelOf(D)[d]) \in Nat
  <2>1. d \in DOMAIN D
    BY <1>3
  <2> HIDE DEF S, Fine
  <2>2. RelOf(D)[d] \in Seq(STRING)
    BY <2>1, RelFacts
  <2> QED
    BY <2>1, <2>2
<1>5. CASE d[2] = 0
  <2>1. AboveOf(D, d) = {d}
    BY <1>4, <1>5, AboveFacts
  <2>2. Fine(d)
    BY <1>4, <2>1
  <2> QED
    BY <1>3, <2>2
<1>6. CASE d[2] # 0
  <2>1. D[d].up \in DOMAIN D /\ D[d].name \in STRING
    BY <1>1, <1>4, <1>6 DEF Placed
  <2>2. Fine(D[d].up)
    BY <1>1, <1>3, <2>1
  <2>3. RelOf(D)[d] = RelOf(D)[D[d].up] \o <<D[d].name>> /\ RelOf(D)[D[d].up] \in Seq(STRING)
    BY <1>4, <1>6, <2>1, RelFacts
  <2>4. Len(RelOf(D)[d]) = Len(RelOf(D)[D[d].up]) + 1 /\ Len(RelOf(D)[D[d].up]) \in Nat
    BY <2>1, <2>3
  <2>5. AboveOf(D, d) = {d} \cup AboveOf(D, D[d].up)
    BY <1>4, <1>6, AboveFacts
  <2>6. ASSUME NEW x \in AboveOf(D, d) PROVE Len(RelOf(D)[x]) <= Len(RelOf(D)[d]) /\ Len(RelOf(D)[x]) \in Nat /\ Len(RelOf(D)[d]) \in Nat
    <3>1. CASE x = d
      BY <1>4, <3>1
    <3>2. CASE x \in AboveOf(D, D[d].up)
      <4>1. Len(RelOf(D)[x]) <= Len(RelOf(D)[D[d].up]) /\ Len(RelOf(D)[x]) \in Nat
        BY <2>2, <3>2
      <4> QED
        BY <1>4, <2>4, <4>1
    <3> QED
      BY <2>5, <3>1, <3>2
  <2> QED
    BY <1>3, <2>6
<1> QED
  BY <1>5, <1>6

-----------------------------------------------------------------------------
(* The stage's mounts *)

\* How far the plan and the leases go.
LEMMA LengthsAre ==
  ASSUME PlanInv, LeaseInv
  PROVE  Len(plan) \in Nat /\ Len(leases) \in Nat /\ DOMAIN leases = 1..Len(leases) /\ DOMAIN plan = 1..Len(plan) /\ Nth \in Int /\ Nth <= Len(plan) + 1
<1>1. Len(plan) \in Nat /\ DOMAIN plan = 1..Len(plan)
  BY DEF PlanInv
<1>2. Len(leases) \in Nat /\ DOMAIN leases = 1..Len(leases) /\ Len(leases) <= 2 * Len(plan) + 1
  BY DEF LeaseInv
<1> QED
  BY <1>1, <1>2 DEF Nth

\* Which mounts there are, by their leases.
LEMMA LeasedMount ==
  ASSUME PlanInv, TreeInv, LeaseInv, NEW i \in DOMAIN leases
  PROVE  /\ Leased(i) \in DOMAIN mounts /\ leases[i].mount = Leased(i)
         /\ i <= Len(plan) => Leased(i) = <<"own", i>>
         /\ i > Len(plan) => Leased(i) = <<"supervisor", i - Len(plan) - 1>>
         /\ IF i <= Len(plan) + 1 THEN leases[i].parent = None /\ mounts[Leased(i)].parent = None
            ELSE Pinned(leases[i]) /\ leases[i].parent # None
<1>1. Len(plan) \in Nat /\ i \in Nat
  BY LengthsAre
<1>2. leases[i].mount = Leased(i) /\ IF i <= Len(plan) + 1 THEN leases[i].parent = None /\ mounts[Leased(i)].parent = None ELSE Pinned(leases[i])
  BY DEF LeaseInv
<1>3. leases[i].mount \in {leases[j].mount : j \in DOMAIN leases}
  OBVIOUS
<1>4. leases[i].mount \in Of("own") \cup Of("supervisor")
  BY <1>3 DEF LeaseInv
<1>5. leases[i].mount \in DOMAIN mounts
  BY <1>4 DEF Of
<1>6. i <= Len(plan) => Leased(i) = <<"own", i>>
  BY DEF Leased, Own
<1>7. i > Len(plan) => Leased(i) = <<"supervisor", i - Len(plan) - 1>>
  BY <1>1 DEF Leased, Clone
<1>8. Pinned(leases[i]) => leases[i].parent # None
  <2>1. None \notin AnyLocation
    BY StageIsSound DEF StageAssumption
  <2>2. Locations \subseteq AnyLocation
    <3>1. DOMAIN dirs \subseteq Nat \X Nat
      BY TreeFacts, ForestFacts DEF Placed
    <3> QED
      BY <3>1 DEF Locations, AnyLocation
  <2> QED
    BY <2>1, <2>2 DEF Pinned
<1> QED
  BY <1>2, <1>5, <1>6, <1>7, <1>8

\* A clone of the stage's tree, and the location it lies in.
CloneAt(i) ==
  /\ Clone(i) \in Of("supervisor") /\ Clone(i)[2] = i /\ Leased(Len(plan) + 1 + i) = Clone(i)
  /\ i = 0 => mounts[Clone(i)].parent = None
  /\ i # 0 => /\ mounts[Clone(i)].parent \in Of("supervisor") /\ mounts[Clone(i)].parent # None
              /\ mounts[Clone(i)].on \in DOMAIN dirs /\ mounts[Clone(i)].on[2] # 0
              /\ Place("supervisor", Under(Clone(i))) /\ Under(Clone(i)).d[1] = Under(Clone(i)).m[2]

\* Where the mounts below the root are on record.
LEMMA CloneFacts ==
  ASSUME PlanInv, TreeInv, LeaseInv, NEW i \in 0..(Nth - 1)
  PROVE  CloneAt(i)
<1>1. /\ Len(plan) \in Nat /\ Len(leases) \in Nat /\ DOMAIN leases = 1..Len(leases) /\ Nth = Len(leases) - Len(plan)
      /\ Nth \in Int
  BY LengthsAre DEF Nth
<1> DEFINE k == Len(plan) + 1 + i
<1>2. k \in DOMAIN leases /\ k > Len(plan) /\ k - Len(plan) - 1 = i /\ (k <= Len(plan) + 1 <=> i = 0)
  BY <1>1
<1> HIDE DEF k
<1>3. Leased(k) \in DOMAIN mounts /\ Leased(k) = Clone(i) /\ (IF i = 0 THEN mounts[Leased(k)].parent = None ELSE Pinned(leases[k])) /\ leases[k].mount = Leased(k)
  BY <1>2, LeasedMount DEF Clone
<1>4. Clone(i) \in Of("supervisor") /\ Clone(i)[2] = i
  BY <1>3 DEF Of, Clone
<1>5. ASSUME i # 0 PROVE
        /\ mounts[Clone(i)].parent \in Of("supervisor") /\ mounts[Clone(i)].parent # None
        /\ mounts[Clone(i)].on \in DOMAIN dirs /\ mounts[Clone(i)].on[2] # 0
        /\ Place("supervisor", Under(Clone(i))) /\ Under(Clone(i)).d[1] = Under(Clone(i)).m[2]
  <2> DEFINE m == Clone(i)
  <2>1. Pinned(leases[k]) /\ leases[k].mount = m /\ m \in DOMAIN mounts /\ m[1] = "supervisor"
    BY <1>3, <1>4, <1>5 DEF Of
  <2> HIDE DEF m
  <2>2. mounts[m].parent = leases[k].parent.m /\ leases[k].parent.m \in Ids
    BY <2>1 DEF Pinned, Locations
  <2>3. mounts[m].parent # None
    BY <2>2, IdFacts
  <2>4. mounts[m].parent \in DOMAIN mounts /\ mounts[m].parent[1] = "supervisor" /\ mounts[m].on \in DOMAIN dirs /\ mounts[m].on[2] # 0 /\ mounts[m].on[1] = mounts[m].parent[2]
    BY <2>1, <2>3 DEF TreeInv
  <2>5. dirs[mounts[m].on].up \in DOMAIN dirs /\ dirs[mounts[m].on].up[1] = mounts[m].on[1]
    BY <2>4, RelOfDir DEF Placed
  <2>6. Place("supervisor", Under(m)) /\ Under(m).d[1] = Under(m).m[2]
    BY <2>4, <2>5 DEF Place, Under
  <2> QED
    BY <2>3, <2>4, <2>6 DEF Of, m
<1> QED
  BY <1>3, <1>4, <1>5 DEF CloneAt, k

\* And there are no other ones.
LEMMA OnlyClones ==
  ASSUME PlanInv, TreeInv, LeaseInv, NEW m \in Of("supervisor")
  PROVE  \E i \in 0..(Nth - 1) : m = Clone(i)
<1>1. m \in {leases[j].mount : j \in DOMAIN leases} /\ m[1] = "supervisor"
  <2>1. m \in Of("own") \cup Of("supervisor")
    OBVIOUS
  <2> QED
    BY <2>1 DEF LeaseInv, Of
<1>2. PICK j \in DOMAIN leases : m = leases[j].mount
  BY <1>1
<1>3. /\ Len(plan) \in Nat /\ Len(leases) \in Nat /\ j \in 1..Len(leases) /\ Nth = Len(leases) - Len(plan)
  BY LengthsAre DEF Nth
<1>4. m = Leased(j) /\ (j <= Len(plan) => Leased(j) = <<"own", j>>) /\ (j > Len(plan) => Leased(j) = <<"supervisor", j - Len(plan) - 1>>)
  BY <1>2, LeasedMount
<1>5. j > Len(plan)
  BY <1>1, <1>3, <1>4
<1>6. j - Len(plan) - 1 \in 0..(Nth - 1) /\ m = Clone(j - Len(plan) - 1)
  BY <1>3, <1>4, <1>5 DEF Clone
<1> QED
  BY <1>6

\* The stage filesystems in the runtime directory lie in no other mount.
LEMMA OnlyOwns ==
  ASSUME PlanInv, TreeInv, LeaseInv, NEW m \in Of("own")
  PROVE  mounts[m].parent = None /\ \E i \in DOMAIN leases : i <= Len(plan) /\ m = Leased(i)
<1>1. m \in {leases[j].mount : j \in DOMAIN leases} /\ m[1] = "own"
  <2>1. m \in Of("own") \cup Of("supervisor")
    OBVIOUS
  <2> QED
    BY <2>1 DEF LeaseInv, Of
<1>2. PICK j \in DOMAIN leases : m = leases[j].mount
  BY <1>1
<1>3. Len(plan) \in Nat /\ Len(leases) \in Nat /\ j \in 1..Len(leases)
  BY LengthsAre
<1>4. m = Leased(j) /\ (j > Len(plan) => Leased(j) = <<"supervisor", j - Len(plan) - 1>>)
  BY <1>2, LeasedMount
<1>5. j <= Len(plan)
  BY <1>1, <1>3, <1>4
<1> QED
  BY <1>3, <1>4, <1>5, LeasedMount

-----------------------------------------------------------------------------
(* What stays when the stage's mounts do *)

DirsKept == DOMAIN dirs \subseteq DOMAIN dirs' /\ \A d \in DOMAIN dirs : dirs'[d] = dirs[d]
StageKept == \A m \in Of("supervisor") : m \in DOMAIN mounts' /\ mounts'[m] = mounts[m]

\* A step that leaves the supervisor's mounts and the directories above them leaves paths.
LEMMA PathsStay ==
  ASSUME PlanInv, TreeInv, PlanInv', TreeInv', plan' = plan, DirsKept, StageKept
  PROVE  /\ \A m \in Of("supervisor") : Paths'[m] = Paths[m]
         /\ \A d \in DOMAIN dirs : Rel'[d] = Rel[d] /\ Above(d)' = Above(d)
<1> DEFINE n == Len(plan) + 1
           T == Of("supervisor")
<1>1. n \in Nat /\ Forest(dirs, n) /\ Ranked(dirs, mounts)
  BY TreeFacts
<1>2. Forest(dirs', n) /\ Ranked(dirs', mounts')
  BY NextTreeFacts
<1>3. \A d \in DOMAIN dirs : RelOf(dirs')[d] = RelOf(dirs)[d] /\ AboveOf(dirs', d) = AboveOf(dirs, d)
  <2> HIDE DEF n
  <2> QED
    BY <1>1, <1>2, SamePaths DEF DirsKept
<1>4. \A m \in T : /\ m \in DOMAIN mounts /\ m \in DOMAIN mounts' /\ mounts'[m].parent = mounts[m].parent /\ mounts'[m].on = mounts[m].on
                   /\ mounts[m].parent # None => mounts[m].parent \in T /\ mounts[m].on \in DOMAIN dirs
  BY DEF StageKept, Of, TreeInv
<1>5. \A m \in T : PathsOf(dirs', mounts')[m] = PathsOf(dirs, mounts)[m]
  <2> HIDE DEF T, n
  <2>1. T \subseteq DOMAIN mounts /\ T \subseteq DOMAIN mounts'
    BY <1>4
  <2>2. \A m \in T : /\ mounts'[m].parent = mounts[m].parent /\ mounts'[m].on = mounts[m].on
                     /\ mounts[m].parent # None => mounts[m].parent \in T /\ RelOf(dirs')[mounts[m].on] = RelOf(dirs)[mounts[m].on]
    BY <1>3, <1>4
  <2> QED
    BY <1>1, <1>2, <2>1, <2>2, PathsKept
<1> QED
  BY <1>3, <1>5, Views, NextViews

\* What is free of links and mounts stays so when the new mounts are elsewhere.
LEMMA ClearStays ==
  ASSUME PlanInv, TreeInv, PlanInv', TreeInv', plan' = plan, DirsKept, StageKept, NEW l, Place("supervisor", l), Clear(l),
         \A m \in DOMAIN mounts' \ Of("supervisor") : mounts'[m].parent = l.m => mounts'[m].on \notin Above(l.d)
  PROVE  Clear(l)' /\ Place("supervisor", l)'
<1> DEFINE n == Len(plan) + 1
<1>1. n \in Nat /\ Forest(dirs, n) /\ Forest(dirs', n)
  BY TreeFacts, NextTreeFacts
<1>2. l.m \in Of("supervisor") /\ l.d \in DOMAIN dirs
  BY DEF Place, Of
<1>3. ClearOf(dirs, mounts, l)
  BY ClearIs
<1>4. Above(l.d) = AboveOf(dirs, l.d)
  BY Views
<1>5. \A d \in AboveOf(dirs, l.d), m \in DOMAIN mounts' : mounts'[m].parent = l.m /\ mounts'[m].on = d => m \in OnOf(mounts, l, d)
  <2> SUFFICES ASSUME NEW d \in AboveOf(dirs, l.d), NEW m \in DOMAIN mounts', mounts'[m].parent = l.m, mounts'[m].on = d
               PROVE  m \in OnOf(mounts, l, d)
    OBVIOUS
  <2>1. m \in Of("supervisor")
    BY <1>4
  <2> QED
    BY <2>1 DEF StageKept, Of, OnOf
<1>6. ClearOf(dirs', mounts', l)
  <2> HIDE DEF n
  <2> QED
    BY <1>1, <1>2, <1>3, <1>5, ClearKept DEF DirsKept
<1>7. Place("supervisor", l)'
  BY <1>2 DEF Place, DirsKept, StageKept
<1> QED
  BY <1>6, <1>7, ClearIs

\* The mounts that are not the stage's lie elsewhere.
LEMMA Elsewhere ==
  ASSUME PlanInv', TreeInv', Of("supervisor")' = Of("supervisor"), NEW l, l.m \in Ids, l.m[1] = "supervisor", NEW m \in DOMAIN mounts' \ Of("supervisor")
  PROVE  mounts'[m].parent # l.m
<1>1. m[1] # "supervisor"
  BY DEF Of
<1>2. mounts'[m].parent # None => mounts'[m].parent[1] = m[1]
  BY DEF TreeInv
<1> QED
  BY <1>1, <1>2, IdFacts

\* Nothing that concerns the walk or what the plan shows.
LEMMA WalkShownKept ==
  ASSUME PlanInv, TreeInv, LeaseInv, WalkInv, ShownInv, PlanInv', TreeInv', plan' = plan, DirsKept, StageKept,
         Of("supervisor")' = Of("supervisor"), Nth' = Nth,
         phase' \in {"attach", "mounted"} /\ helper' \in Starting => phase \in {"attach", "mounted"} /\ helper \in Starting
  PROVE  (walk' = walk => WalkInv') /\ ShownInv'
<1>1. \A m \in Of("supervisor") : Paths'[m] = Paths[m]
  BY PathsStay
<1>2. \A d \in DOMAIN dirs : Rel'[d] = Rel[d] /\ Above(d)' = Above(d)
  BY PathsStay
<1>3. ASSUME NEW l, Place("supervisor", l), Clear(l) PROVE Clear(l)' /\ Place("supervisor", l)'
  <2>1. l.m \in Ids /\ l.m[1] = "supervisor"
    BY <1>3, TreeFacts DEF Place
  <2>2. \A m \in DOMAIN mounts' \ Of("supervisor") : mounts'[m].parent # l.m
    BY <2>1, Elsewhere
  <2> QED
    BY <1>3, <2>2, ClearStays
<1>4. Len(plan) \in Nat /\ Nth \in Int /\ Nth <= Len(plan) + 1
  BY LengthsAre
<1>5. ASSUME walk' = walk, walk # None PROVE
        /\ Nth' \in DOMAIN plan' /\ walk'.left \in Seq(STRING) \ {<<>>}
        /\ walk'.at \in Locations' /\ walk'.at.m \in Of("supervisor")' /\ walk'.at.d[1] = walk'.at.m[2]
        /\ Clear(walk.at)' /\ PathTo(walk.at)' \o walk.left = plan'[Nth']
  <2>1. /\ Nth \in DOMAIN plan /\ walk.left \in Seq(STRING) \ {<<>>}
        /\ walk.at \in Locations /\ walk.at.m \in Of("supervisor") /\ walk.at.d[1] = walk.at.m[2]
        /\ Clear(walk.at) /\ PathTo(walk.at) \o walk.left = plan[Nth]
    BY <1>5 DEF WalkInv
  <2>2. Place("supervisor", walk.at)
    BY <2>1 DEF Place, Locations, Of
  <2>3. Clear(walk.at)'
    <3>1. ASSUME NEW l, l = walk.at PROVE Clear(l)'
      BY <1>3, <2>1, <2>2, <3>1
    <3>2. walk'.at = walk.at
      BY <1>5
    <3> QED
      BY <3>1, <3>2
  <2>4. Paths'[walk.at.m] = Paths[walk.at.m] /\ Rel'[walk.at.d] = Rel[walk.at.d]
    BY <1>1, <1>2, <2>1 DEF Locations
  <2>5. PathTo(walk.at)' = PathTo(walk.at)
    BY <1>5, <2>4 DEF PathTo
  <2>6. walk'.at \in Locations'
    BY <1>5, <2>1 DEF Locations, DirsKept
  <2> QED
    BY <1>5, <2>1, <2>3, <2>5, <2>6
<1>6. walk' = walk => WalkInv'
  <2> SUFFICES ASSUME walk' = walk, walk # None PROVE WalkInv'
    BY DEF WalkInv
  <2> QED
    BY <1>5 DEF WalkInv, PathTo
<1>7. ASSUME phase' \in {"attach", "mounted"}, helper' \in Starting, NEW i \in 1..(Nth - 1) PROVE
        /\ Paths'[Clone(i)] = plan'[i] /\ ~dirs'[mounts'[Clone(i)].on].link
        /\ Under(Clone(i))' = Under(Clone(i)) /\ Clear(Under(Clone(i)))'
  <2>1. CloneAt(i) /\ i # 0
    BY <1>4, CloneFacts
  <2>2. Paths[Clone(i)] = plan[i] /\ ~dirs[mounts[Clone(i)].on].link /\ Clear(Under(Clone(i)))
    BY <1>7 DEF ShownInv, Under
  <2>3. mounts'[Clone(i)] = mounts[Clone(i)] /\ mounts[Clone(i)].on \in DOMAIN dirs /\ Place("supervisor", Under(Clone(i)))
    BY <2>1 DEF CloneAt, StageKept
  <2>4. dirs'[mounts[Clone(i)].on] = dirs[mounts[Clone(i)].on]
    BY <2>3 DEF DirsKept
  <2>5. Under(Clone(i))' = Under(Clone(i))
    BY <2>3, <2>4 DEF Under, Clone
  <2>6. ASSUME NEW l, l = Under(Clone(i)) PROVE Clear(l)'
    BY <1>3, <2>2, <2>3, <2>6
  <2>7. Clear(Under(Clone(i)))'
    BY <2>5, <2>6
  <2> QED
    BY <1>1, <2>1, <2>2, <2>3, <2>4, <2>5, <2>7 DEF CloneAt
<1>8. ShownInv'
  BY <1>7 DEF ShownInv, Under, Starting
<1> QED
  BY <1>6, <1>8

-----------------------------------------------------------------------------
(* The parts of the invariant that a step leaves alone *)

Basic ==
  /\ bootstrap \in BOOLEAN /\ pinned \in BOOLEAN /\ fault \in BOOLEAN
  /\ moves \in 0..MaxMoves /\ directives \in 0..MaxDirectives /\ lazy \cup held \subseteq Ids
  /\ phase \in Phases
  /\ helper \in {"none", "prepared", "viewed", "attach", "capture", "running", "closing", "closed", "retained", "failed", "lost"}

\* The type invariant follows from the other parts and Basic.
LEMMA TypesFollow == Basic /\ PlanInv /\ TreeInv /\ LeaseInv /\ ToolInv /\ WalkInv /\ HelperInv => TypeOK
<1> SUFFICES ASSUME Basic, PlanInv, TreeInv, LeaseInv, ToolInv, WalkInv, HelperInv PROVE TypeOK
  OBVIOUS
<1>1. DOMAIN mounts \cup lazy \cup held \subseteq Ids
  BY TreeFacts DEF Basic
<1>2. \A m \in DOMAIN mounts : mounts[m].parent # None => mounts[m].parent \in DOMAIN mounts /\ mounts[m].on \in DOMAIN dirs
  BY DEF TreeInv
<1>3. \A d \in DOMAIN dirs : dirs[d].up # None => dirs[d].up \in DOMAIN dirs
  BY TreeFacts, ForestFacts DEF Placed
<1>4. walk # None => walk.at \in Locations
  BY DEF WalkInv
<1>5. \A i \in DOMAIN leases : leases[i].parent # None => leases[i].parent \in Locations
  <2> TAKE i \in DOMAIN leases
  <2>1. Pinned(leases[i]) \/ leases[i].parent = None
    BY DEF LeaseInv
  <2> QED
    BY <2>1 DEF Pinned
<1>6. \A i \in DOMAIN points : points[i].parent \in Locations
  BY DEF HelperInv
<1> QED
  BY <1>1, <1>2, <1>3, <1>4, <1>5, <1>6 DEF TypeOK, Basic, ToolInv

\* The parts give the invariant,
LEMMA Together ==
  ASSUME Basic', PlanInv', TreeInv', LeaseInv', ToolInv', PhaseInv', WalkInv', ShownInv', HelperInv', ViewInv', UseInv'
  PROVE  IInv'
<1>1. (Basic /\ PlanInv /\ TreeInv /\ LeaseInv /\ ToolInv /\ WalkInv /\ HelperInv => TypeOK)'
  BY TypesFollow, PTL
<1> QED
  BY <1>1 DEF IInv

\* and the invariant its parts.
LEMMA Parts ==
  ASSUME IInv
  PROVE  Basic /\ PlanInv /\ TreeInv /\ LeaseInv /\ ToolInv /\ PhaseInv /\ WalkInv /\ ShownInv /\ HelperInv /\ ViewInv /\ UseInv
  BY DEF IInv, TypeOK, Basic

\* The places of the mounts keep their names.
PointsKept ==
  /\ DOMAIN dirs \subseteq DOMAIN dirs'
  /\ \A m \in DOMAIN mounts : mounts[m].on \in DOMAIN dirs =>
       dirs'[mounts[m].on].up = dirs[mounts[m].on].up /\ dirs'[mounts[m].on].name = dirs[mounts[m].on].name

\* A pinned name keeps leading to its mount while both stay.
LEMMA PinnedStays ==
  ASSUME TreeInv, NEW p, Pinned(p), PointsKept, p.mount \in DOMAIN mounts', mounts'[p.mount] = mounts[p.mount]
  PROVE  Pinned(p)'
<1>1. /\ p.mount \in DOMAIN mounts /\ p.parent \in Locations /\ mounts[p.mount].parent = p.parent.m
      /\ dirs[mounts[p.mount].on].up = p.parent.d /\ dirs[mounts[p.mount].on].name = p.name
  BY DEF Pinned
<1>2. p.parent.m \in Ids
  BY <1>1 DEF Locations
<1>3. mounts[p.mount].on \in DOMAIN dirs
  BY <1>1, <1>2, IdFacts DEF TreeInv
<1>4. p.parent \in Locations'
  BY <1>1 DEF Locations, PointsKept
<1> QED
  BY <1>1, <1>3, <1>4 DEF Pinned, PointsKept

\* The stage's mounts and their leases.
OwnKept == \A m \in Of("own") : m \in DOMAIN mounts' /\ mounts'[m] = mounts[m]
StageSame == OwnKept /\ StageKept /\ Of("own")' = Of("own") /\ Of("supervisor")' = Of("supervisor")

\* Leases hold while the supervisor's mounts and the names they are pinned by stay.
LEMMA LeasesStay ==
  ASSUME PlanInv, TreeInv, LeaseInv, plan' = plan, leases' = leases, PointsKept, StageSame
  PROVE  LeaseInv'
<1>1. Of("own")' \cup Of("supervisor")' = {leases'[i].mount : i \in DOMAIN leases'}
  BY DEF LeaseInv, StageSame
<1>2. ASSUME NEW i \in DOMAIN leases
      PROVE  /\ leases[i].mount = Leased(i)
             /\ IF i <= Len(plan) + 1 THEN leases[i].parent = None /\ mounts'[Leased(i)].parent = None ELSE Pinned(leases[i])'
  <2>1. leases[i].mount = Leased(i) /\ Leased(i) \in DOMAIN mounts
    BY LeasedMount
  <2>2. Leased(i) \in Of("own") \cup Of("supervisor")
    <3>1. leases[i].mount \in {leases[j].mount : j \in DOMAIN leases}
      OBVIOUS
    <3> QED
      BY <2>1, <3>1 DEF LeaseInv
  <2>3. Leased(i) \in DOMAIN mounts' /\ mounts'[Leased(i)] = mounts[Leased(i)]
    BY <2>2 DEF StageSame, OwnKept, StageKept
  <2>4. CASE i <= Len(plan) + 1
    BY <2>1, <2>3, <2>4 DEF LeaseInv
  <2>5. CASE ~(i <= Len(plan) + 1)
    <3>1. Pinned(leases[i])
      BY <2>5 DEF LeaseInv
    <3>2. ASSUME NEW p, p = leases[i] PROVE Pinned(p)'
      BY <2>1, <2>3, <3>1, <3>2, PinnedStays
    <3>3. leases'[i] = leases[i]
      OBVIOUS
    <3>4. Pinned(leases[i])'
      BY <3>2, <3>3
    <3> QED
      BY <2>1, <2>5, <3>4
  <2> QED
    BY <2>4, <2>5
<1>3. \A i \in DOMAIN leases : Leased(i)' = Leased(i)
  BY DEF Leased, Own, Clone
<1>4. leases' \in Seq([mount : Ids, parent : AnyLocation \cup {None}, name : STRING \cup {None}, open : BOOLEAN]) /\ Len(leases') <= 2 * Len(plan') + 1
  BY DEF LeaseInv
<1> QED
  BY <1>1, <1>2, <1>3, <1>4 DEF LeaseInv

HelperKept == \A m \in Of("helper") : m \in DOMAIN mounts' /\ mounts'[m] = mounts[m]

\* The helper's captures hold while its mounts and their names stay.
LEMMA HelperStays ==
  ASSUME PlanInv, TreeInv, HelperInv, plan' = plan, bootstrap' = bootstrap, PointsKept, HelperKept, Of("helper")' = Of("helper"),
         helper' = helper, pinned' = pinned, points' = points
  PROVE  HelperInv'
<1>1. Base' = Base /\ ToolView' = ToolView /\ Children' = Children /\ \A i : View(i)' = View(i)
  BY DEF Base, ToolView, View, Children
<1>2. \A i \in DOMAIN points : points[i].parent \in Locations => points'[i].parent \in Locations'
  BY DEF Locations, PointsKept
<1>3. ASSUME helper \in {"running", "closing"}, NEW i \in DOMAIN points
      PROVE Pinned(points[i])' /\ mounts'[points[i].mount] = mounts[points[i].mount]
  <2>1. Pinned(points[i]) /\ Children = {points[j].mount : j \in DOMAIN points}
    BY <1>3 DEF HelperInv
  <2>2. points[i].mount \in Of("helper")
    BY <2>1 DEF Children
  <2>3. points[i].mount \in DOMAIN mounts' /\ mounts'[points[i].mount] = mounts[points[i].mount]
    BY <2>2 DEF HelperKept
  <2>4. ASSUME NEW p, p = points[i] PROVE Pinned(p)'
    BY <2>1, <2>3, <2>4, PinnedStays
  <2>5. points'[i] = points[i]
    OBVIOUS
  <2> QED
    BY <2>3, <2>4, <2>5
<1>4. Base \in DOMAIN mounts => Base \in DOMAIN mounts' /\ mounts'[Base] = mounts[Base]
  BY DEF HelperKept, Of, Base, ToolView, View
<1>5. /\ helper' \in {"none", "prepared", "closed", "failed", "lost"} => Of("helper")' = {} /\ points' = <<>> /\ ~pinned'
      /\ helper' \in Viewing => Of("helper")' = {View(i) : i \in 0..Len(plan)} \cup (IF bootstrap THEN {ToolView} ELSE {})
      /\ helper' \in Viewing \ {"running"} => points' = <<>>
      /\ points' \in Seq([mount : Ids, parent : AnyLocation, name : STRING])
      /\ helper' = "closing" => ~pinned'
  BY DEF HelperInv
<1>6. \A i \in DOMAIN points' : points'[i].parent \in Locations' /\ points'[i].parent.m[1] = "helper" /\ points'[i].mount # Base
  BY <1>2 DEF HelperInv
<1>7. helper' \in {"running", "closing"} =>
       /\ \A i \in DOMAIN points' : Pinned(points[i])'
       /\ \A i, j \in DOMAIN points' :
            (points'[i].mount = points'[j].mount => i = j) /\ (i < j => mounts'[points'[i].mount].parent # points'[j].mount)
       /\ Base \in DOMAIN mounts' /\ mounts'[Base].parent = None /\ Children' = {points'[i].mount : i \in DOMAIN points'}
  BY <1>1, <1>3, <1>4 DEF HelperInv
<1> QED
  BY <1>1, <1>5, <1>6, <1>7 DEF HelperInv, Viewing, ToolView, View

\* The tools' mount, and what the view shows.
ToolKept == \A m \in Of("tool") : m \in DOMAIN mounts' /\ mounts'[m] = mounts[m]

\* The mount of the tools is not nothing.
LEMMA ToolFacts == [open |-> TRUE] # None /\ [open |-> FALSE] # None
<1>1. None \notin [open : BOOLEAN]
  BY StageIsSound DEF StageAssumption
<1>2. [open |-> TRUE] \in [open : BOOLEAN] /\ [open |-> FALSE] \in [open : BOOLEAN]
  OBVIOUS
<1> QED
  BY <1>1, <1>2

\* The tools stay as long as their mount does.
LEMMA ToolStays ==
  ASSUME ToolInv, plan' = plan, tool' = tool, ToolKept, Of("tool")' = Of("tool")
  PROVE  ToolInv'
<1>1. Tool' = Tool
  BY DEF Tool
<1>2. tool # None => mounts'[Tool] = mounts[Tool]
  BY DEF ToolInv, ToolKept
<1> QED
  BY <1>1, <1>2 DEF ToolInv

\* Nothing is said of a view that is not there, or that a command uses.
LEMMA NoView == helper' \notin {"viewed", "attach", "capture"} => ViewInv'
  BY DEF ViewInv

\* A step that leaves mounts and directories disturbs no part about them.
LEMMA Unmoved ==
  ASSUME PlanInv, TreeInv, plan' = plan, dirs' = dirs, mounts' = mounts
  PROVE  PlanInv' /\ TreeInv' /\ DirsKept /\ PointsKept /\ StageSame /\ HelperKept /\ Of("helper")' = Of("helper") /\ StageKept
         /\ ToolKept /\ Of("tool")' = Of("tool")
<1>1. PlanInv' /\ TreeInv'
  BY DEF PlanInv, TreeInv
<1>2. \A side : Of(side)' = Of(side)
  BY DEF Of
<1>3. \A m : m \in Of("own") \/ m \in Of("supervisor") \/ m \in Of("helper") \/ m \in Of("tool") => m \in DOMAIN mounts'
  BY DEF Of
<1> QED
  BY <1>1, <1>2, <1>3 DEF DirsKept, PointsKept, StageSame, OwnKept, StageKept, HelperKept, ToolKept

\* A step that only the supervisor's phase and walk take part in.
LEMMA QuietStep ==
  ASSUME IInv, plan' = plan, dirs' = dirs, mounts' = mounts, leases' = leases, helper' \in Starting => helper \in Starting,
         phase' \in {"attach", "mounted"} => phase \in {"attach", "mounted"}
  PROVE  PlanInv' /\ TreeInv' /\ LeaseInv' /\ (tool' = tool => ToolInv') /\ ShownInv' /\ (walk' = walk => WalkInv') /\ Nth' = Nth
<1>1. Basic /\ PlanInv /\ TreeInv /\ LeaseInv /\ ToolInv /\ PhaseInv /\ WalkInv /\ ShownInv /\ HelperInv /\ UseInv
  BY Parts
<1>2. PlanInv' /\ TreeInv' /\ DirsKept /\ PointsKept /\ StageSame /\ ToolKept /\ Of("tool")' = Of("tool") /\ StageKept
  BY <1>1, Unmoved
<1>3. LeaseInv'
  BY <1>1, <1>2, LeasesStay
<1>4. Nth' = Nth /\ Of("supervisor")' = Of("supervisor")
  BY <1>2 DEF Nth, StageSame
<1>5. (walk' = walk => WalkInv') /\ ShownInv'
  BY <1>1, <1>2, <1>4, WalkShownKept
<1>6. tool' = tool => ToolInv'
  BY <1>1, <1>2, ToolStays
<1> QED
  BY <1>2, <1>3, <1>4, <1>5, <1>6

\* Such a step leaves the helper as it is.
LEMMA QuietHelper ==
  ASSUME IInv, plan' = plan, bootstrap' = bootstrap, dirs' = dirs, mounts' = mounts, helper' = helper, pinned' = pinned, points' = points
  PROVE  HelperInv' /\ ViewInv'
<1>1. PlanInv /\ TreeInv /\ HelperInv /\ ViewInv
  BY Parts
<1>2. PointsKept /\ HelperKept /\ Of("helper")' = Of("helper")
  BY <1>1, Unmoved
<1>3. HelperInv'
  BY <1>1, <1>2, HelperStays
<1>4. ViewInv'
  BY <1>1 DEF ViewInv, Base, ToolView, View, Clone
<1> QED
  BY <1>3, <1>4

\* Giving up before the stage is mounted keeps the leases.
LEMMA UndoKept ==
  ASSUME IInv, Undo, fault' \in BOOLEAN, fault => fault', phase \in {"populate", "root", "attach"}
  PROVE  IInv'
<1>1. Basic /\ PhaseInv /\ UseInv
  BY Parts
<1>2. /\ plan' = plan /\ bootstrap' = bootstrap /\ dirs' = dirs /\ mounts' = mounts /\ lazy' = lazy /\ held' = held /\ leases' = leases
      /\ tool' = tool /\ helper' = helper /\ pinned' = pinned /\ points' = points /\ moves' = moves /\ directives' = directives
      /\ phase' = "rollback" /\ walk' = None
  BY DEF Undo, stage, helperState
<1>3. PlanInv' /\ TreeInv' /\ LeaseInv' /\ ToolInv' /\ ShownInv'
  BY <1>2, QuietStep
<1>4. HelperInv' /\ ViewInv'
  BY <1>2, QuietHelper
<1>5. WalkInv'
  BY <1>2 DEF WalkInv
<1>6. Basic' /\ PhaseInv' /\ UseInv'
  BY <1>1, <1>2 DEF Basic, Phases, PhaseInv, UseInv, RetainedForCause
<1> QED
  BY <1>3, <1>4, <1>5, <1>6, Together

\* A call that fails is an undo.
LEMMA FailKept == ASSUME IInv, Fail, phase \in {"populate", "root", "attach"} PROVE IInv'
  BY UndoKept DEF Fail

\* Two leases are never for one mount.
LEMMA LeasedDiffer ==
  ASSUME Len(plan) \in Nat, NEW i \in Nat \ {0}, NEW j \in Nat \ {0}
  PROVE  /\ Leased(i) = Leased(j) => i = j
         /\ Leased(i) \in Ids /\ Leased(i)[1] \in {"own", "supervisor"} /\ Leased(i)[2] <= i
         /\ i <= Len(plan) => Leased(i) = <<"own", i>>
         /\ i > Len(plan) => Leased(i) = <<"supervisor", i - Len(plan) - 1>>
<1>1. \A k \in Nat \ {0} : /\ k <= Len(plan) => Leased(k) = <<"own", k>>
                           /\ k > Len(plan) => Leased(k) = <<"supervisor", k - Len(plan) - 1>> /\ k - Len(plan) - 1 \in Nat
  BY DEF Leased, Own, Clone
<1>2. Leased(i) = Leased(j) => i = j
  BY <1>1
<1>3. Leased(i) \in Ids /\ Leased(i)[1] \in {"own", "supervisor"} /\ Leased(i)[2] <= i
  <2>1. CASE i <= Len(plan)
    BY <1>1, <2>1 DEF Ids
  <2>2. CASE i > Len(plan)
    BY <1>1, <2>2 DEF Ids
  <2> QED
    BY <2>1, <2>2
<1> QED
  BY <1>1, <1>2, <1>3

\* The mounts that have a lease.
LEMMA MountsAreLeased ==
  ASSUME PlanInv, TreeInv, LeaseInv, NEW m \in DOMAIN mounts, m[1] \notin {"helper", "tool"}
  PROVE  \E i \in DOMAIN leases : i \in Nat \ {0} /\ i <= Len(leases) /\ m = Leased(i)
<1>1. m \in Ids /\ m[1] \in {"own", "supervisor"}
  BY TreeFacts, IdFacts
<1>2. m \in Of("own") \cup Of("supervisor")
  BY <1>1 DEF Of
<1>3. m \in {leases[i].mount : i \in DOMAIN leases}
  BY <1>2 DEF LeaseInv
<1>4. PICK i \in DOMAIN leases : m = leases[i].mount
  BY <1>3
<1>5. leases[i].mount = Leased(i) /\ i \in 1..Len(leases) /\ Len(leases) \in Nat
  BY LeasedMount, LengthsAre
<1> QED
  BY <1>4, <1>5

\* A mount that lies nowhere is new.
LEMMA MountAdded ==
  ASSUME PlanInv, TreeInv, NEW m \in Ids \ DOMAIN mounts, m[2] <= Len(plan) + 1, mounts' = With(mounts, m, Detached(m[2])),
         plan' = plan, dirs' = dirs
  PROVE  /\ PlanInv' /\ TreeInv'
         /\ DOMAIN mounts' = DOMAIN mounts \cup {m} /\ mounts'[m] = Detached(m[2]) /\ \A x \in DOMAIN mounts : mounts'[x] = mounts[x]
<1>1. DOMAIN mounts' = DOMAIN mounts \cup {m} /\ mounts'[m] = Detached(m[2]) /\ \A x \in DOMAIN mounts : mounts'[x] = mounts[x]
  BY DEF With
<1>2. PlanInv'
  BY DEF PlanInv
<1>3. mounts'[m].parent = None /\ mounts'[m] = [fs |-> m[2], parent |-> None, on |-> None]
  BY <1>1 DEF Detached
<1>4. \A x \in DOMAIN mounts : mounts[x].parent # None => mounts[x].parent \in DOMAIN mounts
  BY DEF TreeInv
<1>5. \A x \in DOMAIN mounts' :
        LET y == mounts'[x] IN
          /\ x \in Ids /\ x[2] <= Len(plan) + 1 /\ y = [fs |-> x[2], parent |-> y.parent, on |-> y.on]
          /\ y.parent # None =>
               /\ y.parent \in DOMAIN mounts /\ y.parent[1] = x[1]
               /\ y.parent[2] < x[2] \/ (x[2] = 0 /\ mounts[y.parent].parent = None)
               /\ y.on \in DOMAIN dirs /\ y.on[1] = y.parent[2] /\ y.on[2] # 0
               /\ \A z \in DOMAIN mounts : mounts[z].parent = y.parent /\ mounts[z].on = y.on => z = x
  <2> TAKE x \in DOMAIN mounts'
  <2>1. CASE x = m
    BY <1>3, <2>1
  <2>2. CASE x \in DOMAIN mounts
    BY <1>1, <2>2 DEF TreeInv
  <2> QED
    BY <1>1, <2>1, <2>2
<1>6. TreeInv'
  BY <1>1, <1>3, <1>4, <1>5 DEF TreeInv
<1> QED
  BY <1>1, <1>2, <1>6

\* A filesystem of its own is mounted.
LEMMA OwnMounted ==
  ASSUME IInv, NEW m, NEW fs, m = Leased(Len(leases) + 1), m[2] = fs, fs <= Len(plan), Len(leases) <= Len(plan), MountOwn(m, fs),
         plan' = plan, bootstrap' = bootstrap, dirs' = dirs, tool' = tool, Of("helper") = {}, helper' = helper, pinned' = pinned, points' = points
  PROVE  PlanInv' /\ TreeInv' /\ LeaseInv' /\ ToolInv' /\ HelperInv' /\ Len(leases') = Len(leases) + 1
<1>1. Basic /\ PlanInv /\ TreeInv /\ LeaseInv /\ ToolInv /\ PhaseInv /\ HelperInv
  BY Parts
<1>2. Len(plan) \in Nat /\ Len(leases) \in Nat /\ DOMAIN leases = 1..Len(leases)
  BY <1>1, LengthsAre
<1>3. m \in Ids /\ m[1] \in {"own", "supervisor"} /\ m[2] \in Nat
  BY <1>2, LeasedDiffer, IdFacts
<1>4. m \notin DOMAIN mounts
  <2> SUFFICES ASSUME m \in DOMAIN mounts PROVE FALSE
    OBVIOUS
  <2>1. PICK i \in DOMAIN leases : i \in Nat \ {0} /\ i <= Len(leases) /\ m = Leased(i)
    BY <1>1, <1>3, MountsAreLeased
  <2> QED
    BY <1>2, <2>1, LeasedDiffer
<1>5. /\ DOMAIN mounts' = DOMAIN mounts \cup {m} /\ mounts'[m] = Detached(fs) /\ \A x \in DOMAIN mounts : mounts'[x] = mounts[x]
      /\ leases' = Append(leases, Lease(m, None, None)) /\ PlanInv' /\ TreeInv'
  <2>1. mounts' = With(mounts, m, Detached(m[2])) /\ m[2] <= Len(plan) + 1 /\ leases' = Append(leases, Lease(m, None, None))
    BY <1>2, <1>3 DEF MountOwn
  <2> QED
    BY <1>1, <1>3, <1>4, <2>1, MountAdded
<1>8. Len(leases') = Len(leases) + 1 /\ DOMAIN leases' = 1..(Len(leases) + 1) /\ leases'[Len(leases) + 1] = Lease(m, None, None)
      /\ \A i \in 1..Len(leases) : leases'[i] = leases[i]
  BY <1>2, <1>5 DEF LeaseInv
<1>9. LeaseInv'
  <2>1. leases' \in Seq([mount : Ids, parent : AnyLocation \cup {None}, name : STRING \cup {None}, open : BOOLEAN])
    <3>1. Lease(m, None, None) \in [mount : Ids, parent : AnyLocation \cup {None}, name : STRING \cup {None}, open : BOOLEAN]
      BY <1>3 DEF Lease
    <3>2. leases \in Seq([mount : Ids, parent : AnyLocation \cup {None}, name : STRING \cup {None}, open : BOOLEAN])
      BY <1>1 DEF LeaseInv
    <3> QED
      BY <1>5, <3>1, <3>2
  <2>2. Len(leases') <= 2 * Len(plan') + 1
    BY <1>2, <1>8
  <2>3. Of("own")' \cup Of("supervisor")' = {leases'[i].mount : i \in DOMAIN leases'}
    <3>1. Of("own")' \cup Of("supervisor")' = Of("own") \cup Of("supervisor") \cup {m}
      BY <1>3, <1>5 DEF Of
    <3>2. {leases'[i].mount : i \in DOMAIN leases'} = {leases[i].mount : i \in DOMAIN leases} \cup {m}
      BY <1>2, <1>8 DEF Lease
    <3> QED
      BY <1>1, <3>1, <3>2 DEF LeaseInv
  <2>4. \A i : Leased(i)' = Leased(i)
    BY DEF Leased, Own, Clone
  <2>5. ASSUME NEW i \in DOMAIN leases' PROVE i <= Len(plan) + 1 /\ leases'[i].mount = Leased(i) /\ leases'[i].parent = None /\ mounts'[Leased(i)].parent = None
    <3>1. CASE i = Len(leases) + 1
      BY <1>2, <1>5, <1>8, <3>1 DEF Lease, Detached
    <3>2. CASE i \in 1..Len(leases)
      <4>1. i \in DOMAIN leases /\ i <= Len(plan) + 1
        BY <1>2, <3>2
      <4> QED
        BY <1>1, <1>5, <1>8, <3>2, <4>1, LeasedMount
    <3> QED
      BY <1>2, <1>8, <3>1, <3>2
  <2> QED
    BY <2>1, <2>2, <2>3, <2>4, <2>5 DEF LeaseInv
<1>10. HelperInv'
  <2>1. Of("helper")' = {}
    BY <1>3, <1>5 DEF Of
  <2>2. PointsKept /\ HelperKept
    BY <1>5 DEF PointsKept, HelperKept
  <2> QED
    BY <1>1, <2>1, <2>2, HelperStays
<1>11. ToolInv'
  <2>1. Of("tool")' = Of("tool") /\ ToolKept
    BY <1>3, <1>5 DEF Of, ToolKept
  <2> QED
    BY <1>1, <2>1, ToolStays
<1> QED
  BY <1>5, <1>8, <1>9, <1>10, <1>11

-----------------------------------------------------------------------------
(* The supervisor mounts *)

\* StageMounts::populate.
LEMMA PopulateKept == ASSUME IInv, Populate PROVE IInv'
<1>1. Basic /\ PlanInv /\ TreeInv /\ LeaseInv /\ PhaseInv /\ WalkInv /\ ShownInv /\ HelperInv /\ UseInv
  BY Parts
<1>2. phase = "populate" /\ helper = "none" /\ walk = None /\ Len(plan) \in Nat /\ Len(leases) \in Nat /\ Len(leases) <= Len(plan)
  BY <1>1, LengthsAre DEF Populate, PhaseInv
<1>3. CASE /\ Len(leases) < Len(plan) /\ MountOwn(Own(Len(leases) + 1), Len(leases) + 1)
           /\ UNCHANGED <<stage, dirs, lazy, held, phase, walk, tool, helperState, history>>
  <2> DEFINE m == Own(Len(leases) + 1)
             fs == Len(leases) + 1
  <2>1. m = Leased(Len(leases) + 1) /\ m[2] = fs /\ fs <= Len(plan)
    BY <1>2, <1>3 DEF Leased, Own
  <2>2. /\ plan' = plan /\ bootstrap' = bootstrap /\ dirs' = dirs /\ lazy' = lazy /\ held' = held /\ phase' = phase /\ walk' = walk /\ tool' = tool
        /\ helper' = helper /\ pinned' = pinned /\ points' = points /\ moves' = moves /\ directives' = directives /\ fault' = fault
    BY <1>3 DEF stage, helperState, history
  <2>3. Of("helper") = {} /\ MountOwn(m, fs)
    BY <1>1, <1>2, <1>3 DEF HelperInv
  <2> HIDE DEF m, fs
  <2>4. PlanInv' /\ TreeInv' /\ LeaseInv' /\ ToolInv' /\ HelperInv' /\ Len(leases') = Len(leases) + 1
    BY <1>2, <2>1, <2>2, <2>3, OwnMounted
  <2>5. WalkInv' /\ ShownInv' /\ ViewInv' /\ Basic' /\ UseInv'
    BY <1>1, <1>2, <2>2, NoView DEF WalkInv, ShownInv, Basic, UseInv, RetainedForCause
  <2>6. PhaseInv'
    BY <1>1, <1>2, <1>3, <2>2, <2>4 DEF PhaseInv
  <2> QED
    BY <2>4, <2>5, <2>6, Together
<1>4. CASE /\ Len(leases) = Len(plan) /\ phase' = "idle"
           /\ UNCHANGED <<stage, dirs, mounts, lazy, held, walk, leases, tool, helperState, history>>
  <2>1. /\ plan' = plan /\ bootstrap' = bootstrap /\ dirs' = dirs /\ mounts' = mounts /\ lazy' = lazy /\ held' = held /\ walk' = walk
        /\ leases' = leases /\ tool' = tool
        /\ helper' = helper /\ pinned' = pinned /\ points' = points /\ moves' = moves /\ directives' = directives /\ fault' = fault
    BY <1>4 DEF stage, helperState, history
  <2>2. PlanInv' /\ TreeInv' /\ LeaseInv' /\ ToolInv' /\ ShownInv' /\ WalkInv' /\ HelperInv' /\ ViewInv'
    BY <1>4, <2>1, QuietStep, QuietHelper
  <2>3. Basic' /\ PhaseInv' /\ UseInv'
    BY <1>1, <1>2, <1>4, <2>1 DEF Basic, Phases, PhaseInv, UseInv, RetainedForCause
  <2> QED
    BY <2>2, <2>3, Together
<1>5. CASE Fail
  BY <1>2, <1>5, FailKept
<1> QED
  BY <1>3, <1>4, <1>5 DEF Populate

\* What is dropped is all that there is: the stage filesystems.
LEMMA DropKept ==
  ASSUME IInv, Drop, fault' \in BOOLEAN, fault => fault', phase \in {"idle", "tool", "undo"}, Len(leases) = Len(plan), tool = None
  PROVE  IInv'
<1>1. Basic /\ PlanInv /\ TreeInv /\ LeaseInv /\ ToolInv /\ PhaseInv /\ HelperInv /\ UseInv
  BY Parts
<1>2. /\ plan' = plan /\ bootstrap' = bootstrap /\ dirs' = dirs /\ held' = held /\ walk' = walk /\ tool' = tool
      /\ helper' = helper /\ pinned' = pinned /\ points' = points /\ moves' = moves /\ directives' = directives
      /\ phase' = "refused" /\ leases' = <<>> /\ mounts' = Without(Of("own")) /\ lazy' = lazy \cup (Of("own") \cap held)
  BY DEF Drop, Detach, stage, helperState
<1>3. helper \in {"none", "lost"} /\ walk = None
  BY <1>1 DEF PhaseInv
<1>4. Len(plan) \in Nat /\ DOMAIN leases = 1..Len(plan)
  BY <1>1, LengthsAre
<1>5. Of("helper") = {} /\ Of("tool") = {} /\ points = <<>> /\ ~pinned
  BY <1>1, <1>3 DEF HelperInv, ToolInv
<1>6. DOMAIN mounts' = {}
  <2> SUFFICES ASSUME NEW m \in DOMAIN mounts, m \notin Of("own") PROVE FALSE
    BY <1>2 DEF Without
  <2>1. m[1] \notin {"helper", "tool"}
    BY <1>5 DEF Of
  <2>2. PICK i \in DOMAIN leases : i \in Nat \ {0} /\ m = Leased(i)
    BY <1>1, <2>1, MountsAreLeased
  <2>3. m[1] = "own"
    BY <1>4, <2>2 DEF Leased, Own
  <2> QED
    BY <2>3 DEF Of
<1>7. \A side : Of(side)' = {}
  BY <1>6 DEF Of
<1>8. PlanInv' /\ TreeInv' /\ WalkInv' /\ ShownInv' /\ ViewInv' /\ ToolInv'
  BY <1>1, <1>2, <1>3, <1>6, <1>7, NoView DEF PlanInv, TreeInv, WalkInv, ShownInv, ToolInv
<1>9. LeaseInv'
  <2>1. leases' = <<>> /\ Len(leases') = 0 /\ DOMAIN leases' = {}
    BY <1>2
  <2>2. <<>> \in Seq([mount : Ids, parent : AnyLocation \cup {None}, name : STRING \cup {None}, open : BOOLEAN])
    OBVIOUS
  <2>3. 0 <= 2 * Len(plan) + 1
    BY <1>4
  <2> QED
    BY <1>2, <1>7, <2>1, <2>2, <2>3 DEF LeaseInv
<1>10. HelperInv'
  BY <1>1, <1>2, <1>3, <1>5, <1>7 DEF HelperInv, Viewing
<1>11. Basic' /\ PhaseInv' /\ UseInv'
  BY <1>1, <1>2, <1>3 DEF Basic, Phases, PhaseInv, UseInv, RetainedForCause
<1> QED
  BY <1>8, <1>9, <1>10, <1>11, Together

\* directives_with_inputs, the next directive.
LEMMA BeginKept == ASSUME IInv, Begin PROVE IInv'
<1>1. Basic /\ PhaseInv /\ UseInv
  BY Parts
<1>2. phase = "idle" /\ helper = "none" /\ walk = None /\ Len(leases) = Len(plan) /\ tool = None
  BY <1>1 DEF Begin, PhaseInv
<1>3. CASE /\ directives < MaxDirectives /\ directives' = directives + 1
           /\ phase' = IF bootstrap THEN "tool" ELSE "root"
           /\ UNCHANGED <<stage, dirs, mounts, lazy, held, walk, leases, tool, helperState, moves, fault>>
  <2>1. /\ plan' = plan /\ bootstrap' = bootstrap /\ dirs' = dirs /\ mounts' = mounts /\ lazy' = lazy /\ held' = held /\ walk' = walk
        /\ leases' = leases /\ tool' = tool
        /\ helper' = helper /\ pinned' = pinned /\ points' = points /\ moves' = moves /\ fault' = fault
        /\ phase' = IF bootstrap THEN "tool" ELSE "root"
    BY <1>3 DEF stage, helperState
  <2>2. PlanInv' /\ TreeInv' /\ LeaseInv' /\ ToolInv' /\ ShownInv' /\ WalkInv' /\ HelperInv' /\ ViewInv'
    BY <2>1, QuietStep, QuietHelper
  <2>3. directives' \in 0..MaxDirectives
    BY <1>1, <1>3, StageIsSound DEF Basic, StageAssumption
  <2>4. Basic' /\ PhaseInv' /\ UseInv'
    BY <1>1, <1>2, <2>1, <2>3 DEF Basic, Phases, PhaseInv, UseInv, RetainedForCause
  <2> QED
    BY <2>2, <2>4, Together
<1>4. CASE ~fault /\ fault' = TRUE /\ Drop
  BY <1>2, <1>4, DropKept
<1> QED
  BY <1>3, <1>4 DEF Begin

\* BootstrapVolumes::mount_root_until, the tools.
LEMMA MountToolKept == ASSUME IInv, MountTool PROVE IInv'
<1>1. Basic /\ PlanInv /\ TreeInv /\ LeaseInv /\ ToolInv /\ PhaseInv /\ HelperInv /\ UseInv
  BY Parts
<1>2. phase = "tool" /\ helper = "none" /\ walk = None /\ Len(leases) = Len(plan) /\ tool = None /\ bootstrap /\ Len(plan) \in Nat
  BY <1>1, LengthsAre DEF MountTool, PhaseInv
<1>3. CASE /\ mounts' = With(mounts, Tool, Detached(Len(plan) + 1)) /\ tool' = [open |-> TRUE] /\ phase' = "root"
           /\ UNCHANGED <<stage, dirs, lazy, held, walk, leases, helperState, history>>
  <2>1. /\ plan' = plan /\ bootstrap' = bootstrap /\ dirs' = dirs /\ lazy' = lazy /\ held' = held /\ walk' = walk /\ leases' = leases
        /\ helper' = helper /\ pinned' = pinned /\ points' = points /\ moves' = moves /\ directives' = directives /\ fault' = fault
        /\ tool' = [open |-> TRUE] /\ phase' = "root"
    BY <1>3 DEF stage, helperState, history
  <2>2. Tool \in Ids \ DOMAIN mounts /\ Tool[1] = "tool" /\ Tool[2] = Len(plan) + 1 /\ Tool' = Tool
    BY <1>1, <1>2, <2>1 DEF Tool, Ids, ToolInv, Of
  <2>3. /\ PlanInv' /\ TreeInv' /\ DOMAIN mounts' = DOMAIN mounts \cup {Tool} /\ mounts'[Tool] = Detached(Tool[2])
        /\ \A x \in DOMAIN mounts : mounts'[x] = mounts[x]
    <3>1. mounts' = With(mounts, Tool, Detached(Tool[2])) /\ Tool[2] <= Len(plan) + 1
      BY <1>2, <1>3, <2>2
    <3> QED
      BY <1>1, <2>1, <2>2, <3>1, MountAdded
  <2>4. /\ Of("own")' = Of("own") /\ Of("supervisor")' = Of("supervisor") /\ Of("helper")' = Of("helper")
        /\ Of("tool")' = Of("tool") \cup {Tool}
    BY <2>2, <2>3 DEF Of
  <2>5. StageSame /\ PointsKept /\ HelperKept
    BY <2>1, <2>3, <2>4 DEF StageSame, OwnKept, StageKept, PointsKept, HelperKept, Of
  <2>6. LeaseInv' /\ HelperInv'
    BY <1>1, <2>1, <2>4, <2>5, LeasesStay, HelperStays
  <2>7. ToolInv'
    <3>1. Of("tool")' = {Tool} /\ mounts'[Tool].parent = None /\ tool' # None
      BY <1>1, <1>2, <2>1, <2>3, <2>4, ToolFacts DEF ToolInv, Detached
    <3> QED
      BY <2>1, <2>2, <3>1 DEF ToolInv
  <2>8. WalkInv' /\ ShownInv' /\ ViewInv'
    BY <1>2, <2>1, NoView DEF WalkInv, ShownInv
  <2>9. Basic' /\ PhaseInv' /\ UseInv'
    BY <1>1, <1>2, <2>1, ToolFacts DEF Basic, Phases, PhaseInv, UseInv, RetainedForCause
  <2> QED
    BY <2>3, <2>6, <2>7, <2>8, <2>9, Together
<1>4. CASE ~fault /\ fault' = TRUE /\ Drop
  BY <1>2, <1>4, DropKept
<1> QED
  BY <1>3, <1>4 DEF MountTool

\* Volume::mount_ext4, the root.
LEMMA MountRootKept == ASSUME IInv, MountRoot PROVE IInv'
<1>1. Basic /\ PlanInv /\ TreeInv /\ LeaseInv /\ PhaseInv /\ WalkInv /\ ShownInv /\ HelperInv /\ UseInv
  BY Parts
<1>2. phase = "root" /\ helper = "none" /\ walk = None /\ Len(plan) \in Nat /\ Len(leases) = Len(plan)
  BY <1>1, LengthsAre DEF MountRoot, PhaseInv
<1>3. CASE MountOwn(Root, 0) /\ phase' = "attach" /\ UNCHANGED <<stage, dirs, lazy, held, walk, tool, helperState, history>>
  <2> DEFINE m == Root
             fs == 0
  <2>1. m = Leased(Len(leases) + 1) /\ m[2] = fs /\ fs <= Len(plan)
    BY <1>2 DEF Leased, Clone, Root
  <2>2. /\ plan' = plan /\ bootstrap' = bootstrap /\ dirs' = dirs /\ lazy' = lazy /\ held' = held /\ walk' = walk /\ tool' = tool /\ phase' = "attach"
        /\ helper' = helper /\ pinned' = pinned /\ points' = points /\ moves' = moves /\ directives' = directives /\ fault' = fault
    BY <1>3 DEF stage, helperState, history
  <2>3. Of("helper") = {} /\ MountOwn(m, fs)
    BY <1>1, <1>2, <1>3 DEF HelperInv
  <2> HIDE DEF m, fs
  <2>4. PlanInv' /\ TreeInv' /\ LeaseInv' /\ ToolInv' /\ HelperInv' /\ Len(leases') = Len(leases) + 1
    BY <1>2, <2>1, <2>2, <2>3, OwnMounted
  <2>5. Nth' = 1
    BY <1>2, <2>2, <2>4 DEF Nth
  <2>6. WalkInv' /\ ShownInv' /\ ViewInv'
    BY <1>2, <2>2, <2>5, NoView DEF WalkInv, ShownInv
  <2>7. Basic' /\ UseInv' /\ PhaseInv'
    BY <1>1, <1>2, <2>2, <2>4 DEF Basic, Phases, UseInv, RetainedForCause, PhaseInv
  <2> QED
    BY <2>4, <2>6, <2>7, Together
<1>4. CASE Fail
  BY <1>2, <1>4, FailKept
<1> QED
  BY <1>3, <1>4 DEF MountRoot

\* Volume::mount_ext4, the end.
LEMMA MountedKept == ASSUME IInv, Mounted PROVE IInv'
<1>1. Basic /\ PlanInv /\ TreeInv /\ LeaseInv /\ PhaseInv /\ UseInv
  BY Parts
<1>2. /\ plan' = plan /\ bootstrap' = bootstrap /\ dirs' = dirs /\ mounts' = mounts /\ lazy' = lazy /\ held' = held /\ walk' = walk
      /\ leases' = leases /\ tool' = tool
      /\ helper' = helper /\ pinned' = pinned /\ points' = points /\ moves' = moves /\ directives' = directives /\ fault' = fault
      /\ phase = "attach" /\ phase' = "mounted" /\ walk = None /\ Nth > Len(plan)
  BY DEF Mounted, stage, helperState, history
<1>3. Len(plan) \in Nat /\ Len(leases) \in Nat /\ Nth <= Len(plan) + 1 /\ Nth = Len(leases) - Len(plan)
  BY <1>1, LengthsAre DEF Nth
<1>4. PlanInv' /\ TreeInv' /\ LeaseInv' /\ ToolInv' /\ ShownInv' /\ WalkInv' /\ HelperInv' /\ ViewInv'
  BY <1>2, QuietStep, QuietHelper
<1>5. PhaseInv'
  BY <1>1, <1>2, <1>3 DEF PhaseInv
<1>6. Basic' /\ UseInv'
  BY <1>1, <1>2 DEF Basic, Phases, UseInv, RetainedForCause
<1> QED
  BY <1>4, <1>5, <1>6, Together

\* Volume::unmount begins.
LEMMA FinishKept == ASSUME IInv, Finish PROVE IInv'
<1>1. Basic /\ LeaseInv /\ PlanInv /\ TreeInv /\ PhaseInv /\ HelperInv /\ UseInv
  BY Parts
<1>2. /\ plan' = plan /\ bootstrap' = bootstrap /\ dirs' = dirs /\ mounts' = mounts /\ lazy' = lazy /\ held' = held /\ walk' = walk
      /\ leases' = leases /\ tool' = tool
      /\ helper' = "none" /\ pinned' = pinned /\ points' = points /\ moves' = moves /\ directives' = directives /\ fault' = fault
      /\ phase = "mounted" /\ phase' \in {"close", "undo"} /\ helper \in {"none", "prepared"}
  BY DEF Finish, stage, history
<1>3. PlanInv' /\ TreeInv' /\ LeaseInv' /\ ToolInv' /\ ShownInv' /\ WalkInv' /\ ViewInv'
  BY <1>2, QuietStep, NoView DEF Starting
<1>4. Of("helper")' = {} /\ points' = <<>> /\ ~pinned'
  BY <1>1, <1>2 DEF HelperInv, Of
<1>5. HelperInv'
  BY <1>1, <1>2, <1>4 DEF HelperInv, Viewing
<1>6. Len(plan) \in Nat /\ Len(leases) = 2 * Len(plan) + 1
  BY <1>1, <1>2, LengthsAre DEF PhaseInv
<1>7. Basic' /\ UseInv' /\ PhaseInv'
  BY <1>1, <1>2, <1>6 DEF Basic, Phases, UseInv, RetainedForCause, PhaseInv
<1> QED
  BY <1>3, <1>5, <1>7, Together

\* A step of the supervisor that changes its phase alone.
LEMMA TurnKept ==
  ASSUME IInv, phase \in {"idle", "seal", "close", "rollback"}, phase' \in {"seal", "idle", "unmounted", "refused"},
         UNCHANGED <<stage, dirs, mounts, lazy, held, walk, leases, tool, helperState, history>>, PhaseInv'
  PROVE  IInv'
<1>1. Basic /\ PhaseInv /\ UseInv
  BY Parts
<1>2. /\ plan' = plan /\ bootstrap' = bootstrap /\ dirs' = dirs /\ mounts' = mounts /\ lazy' = lazy /\ held' = held /\ walk' = walk
      /\ leases' = leases /\ tool' = tool
      /\ helper' = helper /\ pinned' = pinned /\ points' = points /\ moves' = moves /\ directives' = directives /\ fault' = fault
  BY DEF stage, helperState, history
<1>3. PlanInv' /\ TreeInv' /\ LeaseInv' /\ ToolInv' /\ ShownInv' /\ WalkInv' /\ HelperInv' /\ ViewInv'
  BY <1>2, QuietStep, QuietHelper
<1>4. Basic' /\ UseInv'
  BY <1>1, <1>2 DEF Basic, Phases, UseInv, RetainedForCause
<1> QED
  BY <1>3, <1>4, Together

\* Volume::into_snapshot begins.
LEMMA SealKept == ASSUME IInv, Seal PROVE IInv'
<1>1. PhaseInv
  BY Parts
<1>2. PhaseInv'
  BY <1>1 DEF PhaseInv, Seal, stage, helperState
<1> QED
  BY <1>2, TurnKept DEF Seal

\* A directive's mounts are gone: the next one may begin, or all is dropped.
LEMMA UnmountedKept == ASSUME IInv, Unmounted PROVE IInv'
<1>1. Basic /\ PhaseInv
  BY Parts
<1>2. CASE /\ phase = "close" /\ phase' = "idle"
           /\ UNCHANGED <<stage, dirs, mounts, lazy, held, walk, leases, tool, helperState, history>>
  <2>1. PhaseInv'
    BY <1>1, <1>2 DEF PhaseInv, Unmounted, stage, helperState
  <2> QED
    BY <1>2, <2>1, TurnKept
<1>3. CASE phase = "undo" /\ Drop /\ UNCHANGED fault
  BY <1>1, <1>3, DropKept DEF Unmounted, Basic
<1> QED
  BY <1>2, <1>3 DEF Unmounted

\* All that the stage mounted is gone.
LEMMA ClosedKept == ASSUME IInv, Closed PROVE IInv'
<1>1. PhaseInv
  BY Parts
<1>2. PhaseInv'
  BY <1>1 DEF PhaseInv, Closed, stage, helperState
<1> QED
  BY <1>2, TurnKept DEF Closed

\* Somebody keeps a file open.
LEMMA HoldKept == ASSUME IInv, Hold PROVE IInv'
<1>1. Basic /\ PlanInv /\ TreeInv /\ PhaseInv /\ UseInv
  BY Parts
<1>2. /\ plan' = plan /\ bootstrap' = bootstrap /\ dirs' = dirs /\ mounts' = mounts /\ lazy' = lazy /\ walk' = walk /\ leases' = leases /\ tool' = tool
      /\ helper' = helper /\ pinned' = pinned /\ points' = points /\ moves' = moves /\ directives' = directives /\ fault' = fault /\ phase' = phase
      /\ \E m \in DOMAIN mounts : held' = {m}
  BY DEF Hold, stage, supervisor, helperState, history
<1>3. PlanInv' /\ TreeInv' /\ LeaseInv' /\ ToolInv' /\ ShownInv' /\ WalkInv' /\ HelperInv' /\ ViewInv'
  BY <1>2, QuietStep, QuietHelper
<1>4. held' \subseteq Ids /\ held' # {}
  BY <1>1, <1>2, TreeFacts
<1>5. Basic' /\ UseInv' /\ PhaseInv'
  BY <1>1, <1>2, <1>4 DEF Basic, UseInv, RetainedForCause, PhaseInv
<1> QED
  BY <1>3, <1>5, Together

\* Paths depend on directories and mounts only.
LEMMA SameViews ==
  ASSUME dirs' = dirs, mounts' = mounts
  PROVE  Paths' = Paths /\ Rel' = Rel /\ \A l : Clear(l)' <=> Clear(l)
<1>1. Paths' = Paths /\ Rel' = Rel
  BY Views, NextViews
<1>2. \A l : Clear(l)' <=> Clear(l)
  BY ClearIs
<1> QED
  BY <1>1, <1>2

\* StageAttachments, the next path.
LEMMA ResolveKept == ASSUME IInv, Resolve PROVE IInv'
<1>1. Basic /\ PlanInv /\ TreeInv /\ LeaseInv /\ PhaseInv /\ HelperInv /\ UseInv
  BY Parts
<1> DEFINE at == [m |-> Root, d |-> <<0, 0>>]
<1>2. /\ plan' = plan /\ bootstrap' = bootstrap /\ dirs' = dirs /\ mounts' = mounts /\ lazy' = lazy /\ held' = held /\ leases' = leases /\ tool' = tool
      /\ helper' = helper /\ pinned' = pinned /\ points' = points /\ moves' = moves /\ directives' = directives /\ fault' = fault
      /\ phase = "attach" /\ phase' = phase /\ Nth <= Len(plan) /\ walk' = [at |-> at, left |-> plan[Nth]]
  BY DEF Resolve, stage, helperState, history
<1>3. Len(plan) \in Nat /\ Len(leases) \in Nat /\ DOMAIN plan = 1..Len(plan) /\ Nth = Len(leases) - Len(plan) /\ Len(leases) > Len(plan)
  BY <1>1, <1>2, LengthsAre DEF Nth, PhaseInv
<1>4. PlanInv' /\ TreeInv' /\ LeaseInv' /\ ToolInv' /\ ShownInv' /\ HelperInv' /\ ViewInv' /\ Nth' = Nth
  BY <1>2, QuietStep, QuietHelper
<1>5. Nth \in DOMAIN plan /\ plan[Nth] \in Seq(STRING) \ {<<>>}
  BY <1>1, <1>2, <1>3 DEF PlanInv
<1>6. Root \in Of("supervisor") /\ mounts[Root].parent = None /\ Root[2] = 0 /\ Root \in Ids /\ Root \in DOMAIN mounts
  <2>1. CloneAt(0) /\ Clone(0) = Root
    BY <1>1, <1>3, CloneFacts DEF Clone, Root
  <2> QED
    BY <1>1, <2>1, TreeFacts DEF CloneAt, Of
<1>7. <<0, 0>> \in DOMAIN dirs /\ <<0, 0>>[2] = 0 /\ Rel[<<0, 0>>] = <<>> /\ Above(<<0, 0>>) = {<<0, 0>>} /\ Paths[Root] = <<>>
  <2>1. <<0, 0>> \in DOMAIN dirs
    BY <1>1, <1>3, TreeFacts, ForestFacts
  <2> QED
    BY <1>1, <1>6, <2>1, RelOfDir, AboveDir, PathOf
<1>8. at.m = Root /\ at.d = <<0, 0>> /\ at \in Locations /\ Clear(at) /\ PathTo(at) \o plan[Nth] = plan[Nth]
  <2>1. at.m = Root /\ at.d = <<0, 0>> /\ at \in Locations
    BY <1>6, <1>7 DEF Locations
  <2> HIDE DEF at
  <2>2. Clear(at)
    BY <1>7, <2>1 DEF Clear
  <2>3. PathTo(at) = <<>>
    BY <1>7, <2>1 DEF PathTo
  <2>4. <<>> \o plan[Nth] = plan[Nth]
    BY <1>5, ConcatEmptySeq
  <2> QED
    BY <2>1, <2>2, <2>3, <2>4
<1>9. WalkInv'
  <2>1. Paths' = Paths /\ Rel' = Rel /\ \A l : Clear(l)' <=> Clear(l)
    BY <1>2, SameViews
  <2>2. walk'.at = at /\ walk'.left = plan[Nth]
    BY <1>2
  <2>3. Clear(walk.at)'
    <3>1. ASSUME NEW l, l = at PROVE Clear(l)'
      BY <1>8, <2>1, <3>1
    <3> HIDE DEF at
    <3> QED
      BY <2>2, <3>1
  <2>4. PathTo(walk.at)' = PathTo(at)
    BY <2>1, <2>2 DEF PathTo
  <2>5. walk'.at \in Locations' /\ Of("supervisor")' = Of("supervisor")
    BY <1>2, <1>8, <2>2 DEF Locations, Of
  <2> HIDE DEF at
  <2> QED
    BY <1>2, <1>4, <1>5, <1>6, <1>8, <2>2, <2>3, <2>4, <2>5 DEF WalkInv
<1>10. Basic' /\ UseInv' /\ PhaseInv'
  BY <1>1, <1>2 DEF Basic, UseInv, RetainedForCause, PhaseInv
<1> QED
  BY <1>4, <1>9, <1>10, Together

\* Volume::prepare_output_mountpoint.
LEMMA PrepareOutputKept == ASSUME IInv, PrepareOutput PROVE IInv'
<1>1. Basic /\ PlanInv /\ TreeInv /\ LeaseInv /\ ToolInv /\ PhaseInv /\ WalkInv /\ ShownInv /\ HelperInv /\ UseInv
  BY Parts
<1> DEFINE n == Len(plan) + 1
           u == <<n, 0>>
           free == <<n, Cardinality({d \in DOMAIN dirs : d[1] = n})>>
           new == [up |-> u, name |-> Mnt, link |-> FALSE]
<1>a. phase = "mounted" /\ helper = "none" /\ bootstrap /\ plan' = plan
  BY DEF PrepareOutput, stage
<1>b. Tool \in DOMAIN mounts /\ Tool = <<"tool", n>> /\ Tool[2] = n /\ n \in Nat /\ Len(plan) \in Nat
  <2>1. Of("tool") = {Tool}
    BY <1>1, <1>a DEF PhaseInv, ToolInv
  <2>2. Len(plan) \in Nat
    BY <1>1, TreeFacts
  <2> QED
    BY <2>1, <2>2 DEF Of, Tool
<1>c. Top(Tool).d = u /\ u \in DOMAIN dirs /\ Top(Tool).d[1] = n
  <2> HIDE DEF n
  <2>1. Top(Tool) = [m |-> Tool, d |-> <<n, 0>>] /\ <<n, 0>> \in DOMAIN dirs
    BY <1>1, <1>b, TreeFacts
  <2> QED
    BY <2>1
<1>2. /\ plan' = plan /\ bootstrap' = bootstrap /\ mounts' = mounts /\ lazy' = lazy /\ held' = held
      /\ pinned' = pinned /\ points' = points /\ moves' = moves /\ directives' = directives /\ fault' = fault
      /\ walk' = walk /\ leases' = leases /\ tool' = tool
      /\ \/ Entry(Top(Tool), Mnt) = {} /\ dirs' = With(dirs, free, new) /\ helper' = "prepared" /\ phase' = phase
         \/ dirs' = dirs /\ helper' = "prepared" /\ phase' = phase
         \/ dirs' = dirs /\ phase' = "undo" /\ helper' = helper
  <2>1. UNCHANGED <<stage, mounts, lazy, held, walk, leases, tool, pinned, points, history>>
    BY DEF PrepareOutput
  <2>2. /\ plan' = plan /\ bootstrap' = bootstrap /\ mounts' = mounts /\ lazy' = lazy /\ held' = held
        /\ pinned' = pinned /\ points' = points /\ moves' = moves /\ directives' = directives /\ fault' = fault
        /\ walk' = walk /\ leases' = leases /\ tool' = tool
    BY <2>1 DEF stage, history
  <2> DEFINE t == Top(Tool)
             f == <<t.d[1], Cardinality({d \in DOMAIN dirs : d[1] = t.d[1]})>>
             g == [up |-> t.d, name |-> Mnt, link |-> FALSE]
  <2>3. \/ Entry(t, Mnt) = {} /\ dirs' = With(dirs, f, g) /\ helper' = "prepared" /\ phase' = phase
        \/ dirs' = dirs /\ helper' = "prepared" /\ phase' = phase
        \/ dirs' = dirs /\ phase' = "undo" /\ helper' = helper
    <3> HIDE DEF n, u, free, new
    <3> QED
      BY DEF PrepareOutput
  <2>4. f = free /\ g = new
    <3> HIDE DEF u, n
    <3> QED
      BY <1>c
  <2> HIDE DEF n, u, free, new, f, g, t
  <2> QED
    BY <2>2, <2>3, <2>4 DEF t
<1>3. CASE dirs' = dirs /\ ((helper' = "prepared" /\ phase' = phase) \/ (helper' = helper /\ phase' = "undo"))
  <2>1. PlanInv' /\ TreeInv' /\ LeaseInv' /\ ToolInv' /\ ShownInv' /\ WalkInv' /\ ViewInv'
    BY <1>a, <1>2, <1>3, QuietStep, NoView DEF Starting
  <2>2. Of("helper")' = {} /\ points' = <<>> /\ ~pinned'
    BY <1>1, <1>a, <1>2 DEF HelperInv, Of
  <2>3. HelperInv'
    BY <1>1, <1>a, <1>2, <1>3, <2>2 DEF HelperInv, Viewing
  <2>4. Len(leases) = 2 * Len(plan) + 1
    BY <1>1, <1>a DEF PhaseInv
  <2>5. Basic' /\ UseInv' /\ PhaseInv'
    BY <1>1, <1>a, <1>b, <1>2, <1>3, <2>4 DEF Basic, Phases, UseInv, RetainedForCause, PhaseInv
  <2> QED
    BY <2>1, <2>3, <2>5, Together
<1>4. CASE Entry(Top(Tool), Mnt) = {} /\ dirs' = With(dirs, free, new) /\ helper' = "prepared" /\ phase' = phase
  <2>1. Forest(dirs, n)
    BY <1>1, TreeFacts
  <2>3. \A x \in DOMAIN dirs : dirs[x].up # u \/ dirs[x].name # Mnt
    <3> SUFFICES ASSUME NEW x \in DOMAIN dirs, dirs[x].up = u, dirs[x].name = Mnt PROVE FALSE
      OBVIOUS
    <3>1. x[1] = u[1] /\ u[1] = n
      <4>1. Placed(dirs, n, x) /\ u # None
        <5>1. u \in Nat \X Nat
          BY <1>b
        <5> QED
          BY <1>1, <5>1, RelOfDir, IdFacts
      <4> QED
        BY <4>1 DEF Placed
    <3> HIDE DEF u, n
    <3>2. x \in Entry(Top(Tool), Mnt)
      BY <1>c, <3>1 DEF Entry
    <3> QED
      BY <1>4, <3>2
  <2>4. /\ Forest(dirs', n) /\ DOMAIN dirs' = DOMAIN dirs \cup {free} /\ free \notin DOMAIN dirs
        /\ \A x \in DOMAIN dirs : dirs'[x] = dirs[x]
    <3>1. n \in Nat /\ Forest(dirs, n) /\ u \in DOMAIN dirs /\ Mnt \in STRING /\ \A x \in DOMAIN dirs : dirs[x].up # u \/ dirs[x].name # Mnt
      BY <1>b, <1>c, <2>1, <2>3, StageIsSound DEF StageAssumption
    <3>2. free = NextFree(dirs, u) /\ dirs' = Made(dirs, u, Mnt)
      BY <1>4 DEF NextFree, Made
    <3> HIDE DEF u, n, free
    <3>3. Grew(dirs, u, Mnt, n)
      BY <3>1, Grown
    <3> QED
      BY <3>2, <3>3 DEF Grew
  <2> HIDE DEF free, new
  <2>5. DirsKept /\ PointsKept
    BY <1>2, <2>4 DEF DirsKept, PointsKept
  <2>6. PlanInv' /\ TreeInv'
    <3>1. PlanInv'
      BY <1>1, <1>2, <2>4 DEF PlanInv
    <3>2. TreeInv'
      <4> HIDE DEF n
      <4> QED
        BY <1>1, <1>2, <2>4 DEF TreeInv
    <3> QED
      BY <3>1, <3>2
  <2>7. StageSame /\ StageKept /\ Of("helper")' = {} /\ Of("supervisor")' = Of("supervisor") /\ ToolInv'
    <3>1. \A side : Of(side)' = Of(side)
      BY <1>2 DEF Of
    <3>2. Of("helper") = {}
      BY <1>1, <1>a DEF HelperInv
    <3>3. ToolKept
      BY <1>2 DEF ToolKept, Of
    <3>4. ToolInv'
      BY <1>1, <1>2, <3>1, <3>3, ToolStays
    <3> QED
      BY <1>2, <3>1, <3>2, <3>4 DEF StageSame, OwnKept, StageKept, Of
  <2>8. LeaseInv'
    BY <1>1, <1>2, <2>5, <2>7, LeasesStay
  <2>9. WalkInv' /\ ShownInv' /\ ViewInv'
    <3>1. Nth' = Nth /\ helper \in Starting
      BY <1>a, <1>2 DEF Nth, Starting
    <3> QED
      BY <1>1, <1>2, <1>4, <2>5, <2>6, <2>7, <3>1, WalkShownKept, NoView
  <2>10. HelperInv'
    <3>1. points' = <<>> /\ ~pinned'
      BY <1>1, <1>a, <1>2 DEF HelperInv
    <3> QED
      BY <1>1, <1>2, <1>4, <2>7, <3>1 DEF HelperInv, Viewing
  <2>11. Basic' /\ UseInv' /\ PhaseInv'
    BY <1>1, <1>a, <1>2, <1>4 DEF Basic, UseInv, RetainedForCause, PhaseInv
  <2> QED
    BY <2>6, <2>7, <2>8, <2>9, <2>10, <2>11, Together
<1> HIDE DEF n, u, free, new
<1> QED
  BY <1>2, <1>3, <1>4

-----------------------------------------------------------------------------
(* The view of a directive *)

\* All of the stage is mounted.
LEMMA StageMounted ==
  ASSUME IInv, phase = "mounted"
  PROVE  /\ Len(plan) \in Nat /\ Nth = Len(plan) + 1 /\ Of("supervisor") = {Clone(i) : i \in 0..Len(plan)}
         /\ \A i \in 0..Len(plan) : CloneAt(i)
<1>1. PlanInv /\ TreeInv /\ LeaseInv /\ PhaseInv
  BY Parts
<1>2. Len(plan) \in Nat /\ Nth = Len(plan) + 1 /\ Nth - 1 = Len(plan)
  BY <1>1, LengthsAre DEF PhaseInv, Nth
<1>3. \A i \in 0..Len(plan) : CloneAt(i)
  BY <1>1, <1>2, CloneFacts
<1>4. \A m \in Of("supervisor") : \E i \in 0..Len(plan) : m = Clone(i)
  BY <1>1, <1>2, OnlyClones
<1>5. \A i \in 0..Len(plan) : Clone(i) \in Of("supervisor")
  BY <1>3 DEF CloneAt
<1> QED
  BY <1>2, <1>3, <1>4, <1>5

\* What the view's mounts are.
Copied(i) ==
  /\ View(i) \in DOMAIN mounts'
  /\ mounts'[View(i)] = [fs |-> i, parent |-> IF mounts[Clone(i)].parent = None THEN None ELSE View(mounts[Clone(i)].parent[2]),
                         on |-> mounts[Clone(i)].on]

\* The view of the tools is a copy of their mount.
CopiedTool ==
  /\ ToolView \in DOMAIN mounts'
  /\ mounts'[ToolView] = [fs |-> Len(plan) + 1, parent |-> None, on |-> mounts[Tool].on]

\* A view is a copy of every mount of the volumes.
LEMMA ViewIs ==
  ASSUME IInv, GetView
  PROVE  /\ DOMAIN mounts' = DOMAIN mounts \cup {View(i) : i \in 0..Len(plan)} \cup (IF bootstrap THEN {ToolView} ELSE {})
         /\ \A i \in 0..Len(plan) : Copied(i)
         /\ bootstrap => CopiedTool
         /\ \A m \in DOMAIN mounts : m[1] # "helper" /\ mounts'[m] = mounts[m]
<1> DEFINE seen == Of("supervisor") \cup Of("tool")
           tree == {View(x[2]) : x \in seen}
           Copy(x) == [x EXCEPT !.parent = IF @ = None THEN None ELSE View(@[2])]
           first(m) == CHOOSE x \in seen : x[2] = m[2]
<1>1. /\ phase = "mounted" /\ helper \in {"none", "prepared"}
      /\ mounts' = [m \in DOMAIN mounts \cup tree |-> IF m[1] = "helper" THEN Copy(mounts[first(m)]) ELSE mounts[m]]
  BY DEF GetView
<1>2. Basic /\ PlanInv /\ TreeInv /\ ToolInv /\ PhaseInv /\ HelperInv
  BY Parts
<1>3. Len(plan) \in Nat /\ Of("supervisor") = {Clone(i) : i \in 0..Len(plan)} /\ \A i \in 0..Len(plan) : CloneAt(i)
  BY <1>1, StageMounted
<1>a. /\ Of("tool") = (IF bootstrap THEN {Tool} ELSE {}) /\ Tool[2] = Len(plan) + 1
      /\ bootstrap => Tool \in DOMAIN mounts /\ mounts[Tool].parent = None
  <2>1. tool # None <=> bootstrap
    BY <1>1, <1>2 DEF PhaseInv
  <2>2. Of("tool") = (IF tool = None THEN {} ELSE {Tool}) /\ (tool # None => mounts[Tool].parent = None)
    BY <1>2 DEF ToolInv
  <2>3. Tool[2] = Len(plan) + 1
    BY DEF Tool
  <2>4. Tool \in Of("tool") => Tool \in DOMAIN mounts
    BY DEF Of
  <2> QED
    BY <1>2, <2>1, <2>2, <2>3, <2>4 DEF Basic
<1>b. \A i : Clone(i)[2] = i /\ View(i)[1] = "helper" /\ View(i)[2] = i
  BY DEF Clone, View
<1>c. ToolView = View(Len(plan) + 1)
  BY DEF ToolView
<1>4. tree = {View(i) : i \in 0..Len(plan)} \cup (IF bootstrap THEN {ToolView} ELSE {})
  <2>1. \A i \in 0..Len(plan) : Clone(i) \in seen /\ View(Clone(i)[2]) = View(i)
    BY <1>3, <1>b
  <2>2. bootstrap => Tool \in seen /\ View(Tool[2]) = ToolView
    BY <1>a, <1>c
  <2>3. \A x \in seen : (\E i \in 0..Len(plan) : x = Clone(i)) \/ (bootstrap /\ x = Tool)
    BY <1>3, <1>a
  <2> HIDE DEF seen
  <2>4. \A i \in 0..Len(plan) : View(i) \in tree
    BY <2>1
  <2>5. bootstrap => ToolView \in tree
    BY <2>2
  <2>6. ASSUME NEW v \in tree PROVE (\E i \in 0..Len(plan) : v = View(i)) \/ (bootstrap /\ v = ToolView)
    <3>1. PICK x \in seen : v = View(x[2])
      OBVIOUS
    <3> QED
      BY <2>1, <2>2, <2>3, <3>1
  <2> HIDE DEF tree
  <2> QED
    BY <2>4, <2>5, <2>6
<1>d. \A i \in 0..Len(plan) : first(View(i)) = Clone(i)
  <2> TAKE i \in 0..Len(plan)
  <2>1. Clone(i) \in seen /\ Clone(i)[2] = View(i)[2]
    BY <1>3, <1>b
  <2>2. ASSUME NEW x \in seen, x[2] = View(i)[2] PROVE x = Clone(i)
    <3>1. x[2] = i /\ i # Len(plan) + 1
      BY <1>3, <1>b, <2>2
    <3>2. x \in Of("supervisor")
      BY <1>a, <2>2, <3>1
    <3> QED
      BY <1>3, <1>b, <3>1, <3>2
  <2> HIDE DEF seen
  <2> QED
    BY <2>1, <2>2
<1>e. bootstrap => first(ToolView) = Tool
  <2> SUFFICES ASSUME bootstrap PROVE first(ToolView) = Tool
    OBVIOUS
  <2>1. Tool \in seen /\ Tool[2] = ToolView[2] /\ ToolView[2] = Len(plan) + 1
    BY <1>a, <1>b, <1>c
  <2>2. ASSUME NEW x \in seen, x[2] = ToolView[2] PROVE x = Tool
    <3>1. x \notin Of("supervisor")
      <4> SUFFICES ASSUME NEW i \in 0..Len(plan), x = Clone(i) PROVE FALSE
        BY <1>3
      <4>1. i = Len(plan) + 1
        BY <1>b, <2>1, <2>2
      <4> QED
        BY <1>3, <4>1
    <3> QED
      BY <1>a, <2>2, <3>1
  <2> HIDE DEF seen
  <2> QED
    BY <2>1, <2>2
<1>5. Of("helper") = {}
  BY <1>1, <1>2 DEF HelperInv
<1>6. \A m \in DOMAIN mounts : m[1] # "helper"
  BY <1>5 DEF Of
<1> DEFINE q(p) == IF p = None THEN None ELSE View(p[2])
<1>7. \A f, p, o : Copy([fs |-> f, parent |-> p, on |-> o]) = [fs |-> f, parent |-> q(p), on |-> o]
  OBVIOUS
<1>8. ASSUME NEW m \in tree, NEW x \in DOMAIN mounts, first(m) = x, m[1] = "helper"
      PROVE  m \in DOMAIN mounts' /\ mounts'[m] = [fs |-> x[2], parent |-> q(mounts[x].parent), on |-> mounts[x].on]
  <2>1. mounts[x] = [fs |-> x[2], parent |-> mounts[x].parent, on |-> mounts[x].on]
    BY <1>2 DEF TreeInv
  <2>2. m \in DOMAIN mounts' /\ mounts'[m] = Copy(mounts[x])
    <3> HIDE DEF tree, Copy, first
    <3> QED
      BY <1>1, <1>8
  <2>3. Copy(mounts[x]) = [fs |-> x[2], parent |-> q(mounts[x].parent), on |-> mounts[x].on]
    <3> DEFINE f == x[2]
               p == mounts[x].parent
               o == mounts[x].on
    <3>1. Copy([fs |-> f, parent |-> p, on |-> o]) = [fs |-> f, parent |-> q(p), on |-> o]
      BY <1>7
    <3>2. mounts[x] = [fs |-> f, parent |-> p, on |-> o]
      BY <2>1
    <3> HIDE DEF Copy, q, f, p, o
    <3>3. Copy(mounts[x]) = [fs |-> f, parent |-> q(p), on |-> o]
      BY <3>1, <3>2
    <3> QED
      BY <3>3 DEF f, p, o
  <2> HIDE DEF Copy, q
  <2> QED
    BY <2>2, <2>3
<1> HIDE DEF Copy, first, tree, seen
<1>10. ASSUME NEW i \in 0..Len(plan) PROVE Copied(i)
  <2>1. Clone(i) \in DOMAIN mounts /\ Clone(i)[2] = i
    BY <1>3 DEF CloneAt, Of
  <2>2. View(i) \in tree
    BY <1>4
  <2> QED
    BY <1>8, <1>b, <1>d, <2>1, <2>2 DEF Copied
<1>11. DOMAIN mounts' = DOMAIN mounts \cup {View(i) : i \in 0..Len(plan)} \cup (IF bootstrap THEN {ToolView} ELSE {})
  BY <1>1, <1>4
<1>12. bootstrap => CopiedTool
  <2> SUFFICES ASSUME bootstrap PROVE CopiedTool
    OBVIOUS
  <2>1. Tool \in DOMAIN mounts /\ mounts[Tool].parent = None /\ Tool[2] = Len(plan) + 1 /\ ToolView \in tree
    BY <1>4, <1>a
  <2> QED
    BY <1>8, <1>b, <1>c, <1>e, <2>1 DEF CopiedTool
<1>13. \A m \in DOMAIN mounts : mounts'[m] = mounts[m]
  BY <1>1, <1>6
<1> QED
  BY <1>6, <1>10, <1>11, <1>12, <1>13

\* It is a tree of its own.
LEMMA ViewTree ==
  ASSUME IInv, GetView
  PROVE  PlanInv' /\ TreeInv' /\ Of("helper")' = {View(i) : i \in 0..Len(plan)} \cup (IF bootstrap THEN {ToolView} ELSE {})
         /\ \A side \in {"own", "supervisor", "tool"} : Of(side)' = Of(side)
<1>1. Basic /\ PlanInv /\ TreeInv /\ LeaseInv
  BY Parts
<1>2. phase = "mounted" /\ plan' = plan /\ dirs' = dirs /\ bootstrap' = bootstrap
  BY DEF GetView, stage
<1>3. Len(plan) \in Nat /\ Of("supervisor") = {Clone(i) : i \in 0..Len(plan)} /\ \A i \in 0..Len(plan) : CloneAt(i)
  BY <1>2, StageMounted
<1>4. /\ DOMAIN mounts' = DOMAIN mounts \cup {View(i) : i \in 0..Len(plan)} \cup (IF bootstrap THEN {ToolView} ELSE {})
      /\ \A i \in 0..Len(plan) : Copied(i)
      /\ bootstrap => CopiedTool
      /\ \A m \in DOMAIN mounts : m[1] # "helper" /\ mounts'[m] = mounts[m]
  BY ViewIs
<1>5. \A i : View(i)[1] = "helper" /\ View(i)[2] = i /\ (i \in Nat => View(i) \in Ids)
  BY DEF View, Ids
<1>6. ToolView[1] = "helper" /\ ToolView[2] = Len(plan) + 1 /\ ToolView \in Ids
  BY <1>3, <1>5 DEF ToolView
<1>7. PlanInv'
  BY <1>1, <1>2 DEF PlanInv
<1>8. \A side : Of(side)' = {m \in DOMAIN mounts' : m[1] = side}
  BY DEF Of
<1>9. Of("helper")' = {View(i) : i \in 0..Len(plan)} \cup (IF bootstrap THEN {ToolView} ELSE {}) /\ \A side \in {"own", "supervisor", "tool"} : Of(side)' = Of(side)
  <2>1. Of("helper")' = {View(i) : i \in 0..Len(plan)} \cup (IF bootstrap THEN {ToolView} ELSE {})
    BY <1>4, <1>5, <1>6, <1>8
  <2>2. \A side \in {"own", "supervisor", "tool"} : Of(side)' = Of(side)
    BY <1>4, <1>5, <1>6, <1>8 DEF Of
  <2> QED
    BY <2>1, <2>2
\* The mounts that were there.
<1>10. ASSUME NEW m \in DOMAIN mounts
       PROVE  LET x == mounts'[m] IN
              /\ m \in Ids /\ m[2] <= Len(plan) + 1 /\ x = [fs |-> m[2], parent |-> x.parent, on |-> x.on] /\ m[1] # "helper"
              /\ x.parent # None =>
                   /\ x.parent \in DOMAIN mounts /\ x.parent[1] = m[1]
                   /\ x.parent[2] < m[2] \/ (m[2] = 0 /\ mounts'[x.parent].parent = None)
                   /\ x.on \in DOMAIN dirs /\ x.on[1] = x.parent[2] /\ x.on[2] # 0
                   /\ \A y \in DOMAIN mounts : mounts[y].parent = x.parent /\ mounts[y].on = x.on => y = m
  <2>1. mounts'[m] = mounts[m] /\ m[1] # "helper"
    BY <1>4
  <2>2. mounts[m].parent # None => mounts[m].parent \in DOMAIN mounts /\ mounts'[mounts[m].parent] = mounts[mounts[m].parent]
    BY <1>1, <1>4 DEF TreeInv
  <2> QED
    BY <1>1, <2>1, <2>2 DEF TreeInv
\* Its copies.
<1>11. ASSUME NEW i \in 0..Len(plan)
       PROVE  LET x == mounts'[View(i)]
                  y == mounts[Clone(i)]
              IN
              /\ x = [fs |-> i, parent |-> x.parent, on |-> x.on]
              /\ x.parent # None =>
                   /\ y.parent # None /\ y.parent = Clone(y.parent[2]) /\ y.on = x.on
                   /\ y.parent[2] \in 0..Len(plan) /\ x.parent = View(y.parent[2]) /\ y.parent[2] < i
                   /\ x.on \in DOMAIN dirs /\ x.on[1] = x.parent[2] /\ x.on[2] # 0
  <2> DEFINE p == mounts[Clone(i)].parent
             o == mounts[Clone(i)].on
             q == IF p = None THEN None ELSE View(p[2])
  <2>1. mounts'[View(i)] = [fs |-> i, parent |-> q, on |-> o]
    BY <1>4 DEF Copied
  <2>2. Clone(i) \in DOMAIN mounts /\ Clone(i)[2] = i /\ Clone(i)[1] = "supervisor"
    BY <1>3 DEF CloneAt, Of
  <2>a. i = 0 => p = None
    BY <1>3 DEF CloneAt
  <2>3. ASSUME p # None
        PROVE  /\ p = Clone(p[2]) /\ p[2] \in 0..Len(plan) /\ p[2] < i
               /\ o \in DOMAIN dirs /\ o[1] = p[2] /\ o[2] # 0 /\ q = View(p[2]) /\ q[2] = p[2]
    <3>1. p \in DOMAIN mounts /\ p[1] = "supervisor" /\ p[2] < i /\ o \in DOMAIN dirs /\ o[1] = p[2] /\ o[2] # 0
      BY <1>1, <2>2, <2>a, <2>3 DEF TreeInv
    <3>2. p \in Of("supervisor")
      BY <3>1 DEF Of
    <3> HIDE DEF p
    <3>3. PICK j \in 0..Len(plan) : p = Clone(j)
      BY <1>3, <3>2
    <3>4. p[2] = j
      BY <3>3 DEF Clone
    <3> QED
      BY <1>5, <2>3, <3>1, <3>3, <3>4
  <2>4. q # None => p # None
    OBVIOUS
  <2>5. mounts'[View(i)].parent = q /\ mounts'[View(i)].on = o /\ mounts[Clone(i)].parent = p /\ mounts[Clone(i)].on = o
    BY <2>1
  <2> HIDE DEF p, o, q
  <2> QED
    BY <2>1, <2>3, <2>4, <2>5
<1>12. TreeInv'
  <2> SUFFICES ASSUME NEW m \in DOMAIN mounts'
      PROVE LET x == mounts'[m]
            IN  /\ m \in Ids /\ m[2] <= Len(plan) + 1 /\ x = [fs |-> m[2], parent |-> x.parent, on |-> x.on]
                /\ x.parent # None =>
                     /\ x.parent \in DOMAIN mounts' /\ x.parent[1] = m[1]
                     /\ x.parent[2] < m[2] \/ (m[2] = 0 /\ mounts'[x.parent].parent = None)
                     /\ x.on \in DOMAIN dirs /\ x.on[1] = x.parent[2] /\ x.on[2] # 0
                     /\ \A y \in DOMAIN mounts' : mounts'[y].parent = x.parent /\ mounts'[y].on = x.on => y = m
    BY <1>2 DEF TreeInv
  \* The output, the copies and the others as parents.
  <2>1. \A y \in DOMAIN mounts' : \/ y \in DOMAIN mounts \/ (\E i \in 0..Len(plan) : y = View(i)) \/ (bootstrap /\ y = ToolView)
    BY <1>4
  <2>2. bootstrap => mounts'[ToolView].parent = None /\ mounts'[ToolView] = [fs |-> Len(plan) + 1, parent |-> None, on |-> mounts[Tool].on]
    BY <1>4 DEF CopiedTool
  <2>3. CASE m \in DOMAIN mounts
    <3> DEFINE x == mounts'[m]
    <3>1. ASSUME x.parent # None, NEW y \in DOMAIN mounts', mounts'[y].parent = x.parent, mounts'[y].on = x.on PROVE y = m
      <4>1. x.parent \in DOMAIN mounts /\ x.parent[1] # "helper"
        BY <1>10, <2>3, <3>1
      <4>2. CASE y \in DOMAIN mounts
        BY <1>4, <1>10, <2>3, <3>1, <4>2
      <4>3. ASSUME NEW i \in 0..Len(plan), y = View(i) PROVE FALSE
        <5>1. mounts'[View(i)].parent = View(mounts[Clone(i)].parent[2])
          BY <1>11, <3>1, <4>3
        <5>2. mounts'[View(i)].parent = x.parent
          BY <3>1, <4>3
        <5> HIDE DEF x
        <5> QED
          BY <1>5, <4>1, <5>1, <5>2
      <4>4. CASE bootstrap /\ y = ToolView
        BY <2>2, <3>1, <4>4
      <4> QED
        BY <2>1, <4>2, <4>3, <4>4
    <3>2. x.parent # None => x.parent \in DOMAIN mounts'
      BY <1>4, <1>10, <2>3
    <3> QED
      BY <1>10, <2>3, <3>1, <3>2
  <2>4. ASSUME NEW i \in 0..Len(plan), m = View(i)
        PROVE  LET x == mounts'[m]
            IN  /\ m \in Ids /\ m[2] <= Len(plan) + 1 /\ x = [fs |-> m[2], parent |-> x.parent, on |-> x.on]
                /\ x.parent # None =>
                     /\ x.parent \in DOMAIN mounts' /\ x.parent[1] = m[1]
                     /\ x.parent[2] < m[2] \/ (m[2] = 0 /\ mounts'[x.parent].parent = None)
                     /\ x.on \in DOMAIN dirs /\ x.on[1] = x.parent[2] /\ x.on[2] # 0
                     /\ \A y \in DOMAIN mounts' : mounts'[y].parent = x.parent /\ mounts'[y].on = x.on => y = m
    <3> DEFINE x == mounts'[m]
               p == mounts[Clone(i)].parent
    <3>1. m \in Ids /\ m[2] = i /\ m[1] = "helper" /\ i <= Len(plan) + 1 /\ x = [fs |-> i, parent |-> x.parent, on |-> x.on]
      <4>1. m \in Ids /\ m[2] = i /\ m[1] = "helper" /\ i <= Len(plan) + 1
        BY <1>3, <1>5, <2>4
      <4>2. x = [fs |-> i, parent |-> x.parent, on |-> x.on]
        BY <1>11, <2>4
      <4> QED
        BY <4>1, <4>2
    <3>2. x.parent # None =>
            /\ p # None /\ p = Clone(p[2]) /\ mounts[Clone(i)].on = x.on /\ p[2] \in 0..Len(plan) /\ x.parent = View(p[2]) /\ p[2] < i
            /\ x.on \in DOMAIN dirs /\ x.on[1] = x.parent[2] /\ x.on[2] # 0
      BY <1>11, <2>4
    <3>3. x.parent # None => x.parent \in DOMAIN mounts' /\ x.parent[1] = "helper" /\ x.parent[2] < i
      <4> HIDE DEF p, x
      <4> QED
        BY <1>4, <1>5, <3>2 DEF Copied
    <3>4. ASSUME x.parent # None, NEW y \in DOMAIN mounts', mounts'[y].parent = x.parent, mounts'[y].on = x.on PROVE y = m
      <4>1. CASE y \in DOMAIN mounts
        <5>1. mounts'[y].parent # None
          BY <3>4
        <5>2. mounts'[y].parent \in DOMAIN mounts
          BY <1>10, <4>1, <5>1
        <5> QED
          BY <1>4, <3>3, <3>4, <5>2
      <4>2. ASSUME NEW j \in 0..Len(plan), y = View(j) PROVE y = m
        <5>1. mounts'[View(j)].parent # None
          BY <3>4, <4>2
        <5> DEFINE r == mounts[Clone(j)].parent
        <5>2. r # None /\ r = Clone(r[2]) /\ mounts'[View(j)].parent = View(r[2]) /\ mounts[Clone(j)].on = mounts'[View(j)].on
          BY <1>11, <5>1
        <5> HIDE DEF p, r, x
        <5>3. r[2] = p[2]
          BY <1>5, <3>2, <3>4, <4>2, <5>2
        <5>4. r = p /\ p # None /\ mounts[Clone(j)].on = mounts[Clone(i)].on
          BY <3>2, <3>4, <4>2, <5>2, <5>3
        <5>5. Clone(i) \in DOMAIN mounts /\ Clone(j) \in DOMAIN mounts /\ Clone(i)[2] = i /\ Clone(j)[2] = j
          BY <1>3 DEF CloneAt, Of
        <5>6. Clone(j) = Clone(i)
          BY <1>1, <5>4, <5>5 DEF TreeInv, p, r
        <5> QED
          BY <2>4, <4>2, <5>5, <5>6
      <4>3. CASE bootstrap /\ y = ToolView
        BY <2>2, <3>4, <4>3
      <4> QED
        BY <2>1, <4>1, <4>2, <4>3
    <3> QED
      BY <3>1, <3>2, <3>3, <3>4
  <2>5. CASE bootstrap /\ m = ToolView
    BY <1>3, <1>6, <2>2, <2>5
  <2> QED
    BY <2>1, <2>3, <2>4, <2>5
<1> QED
  BY <1>7, <1>9, <1>12

\* A step on the helper's side leaves the supervisor's alone.
LEMMA SupervisorStays ==
  ASSUME IInv, PlanInv', TreeInv', plan' = plan, dirs' = dirs, StageSame, ToolKept, Of("tool")' = Of("tool"),
         leases' = leases, walk' = walk, tool' = tool,
         phase' \in {"attach", "mounted"} /\ helper' \in Starting => phase \in {"attach", "mounted"} /\ helper \in Starting
  PROVE  LeaseInv' /\ ToolInv' /\ WalkInv' /\ ShownInv'
<1>1. Basic /\ PlanInv /\ TreeInv /\ LeaseInv /\ ToolInv /\ WalkInv /\ ShownInv
  BY Parts
<1>2. DirsKept /\ PointsKept /\ StageKept /\ Of("supervisor")' = Of("supervisor")
  BY DEF DirsKept, PointsKept, StageSame
<1>3. LeaseInv'
  BY <1>1, <1>2, LeasesStay
<1>4. ToolInv'
  BY <1>1, ToolStays
<1>5. Nth' = Nth
  BY DEF Nth
<1>6. WalkInv' /\ ShownInv'
  BY <1>1, <1>2, <1>5, WalkShownKept
<1> QED
  BY <1>3, <1>4, <1>6

\* Volume::view.
LEMMA GetViewKept == ASSUME IInv, GetView PROVE IInv'
<1>1. Basic /\ PhaseInv /\ HelperInv /\ UseInv
  BY Parts
<1>2. /\ plan' = plan /\ bootstrap' = bootstrap /\ dirs' = dirs /\ lazy' = lazy /\ held' = held /\ phase' = phase /\ walk' = walk /\ leases' = leases
      /\ tool' = tool /\ points' = points /\ moves' = moves /\ fault' = fault /\ directives' = directives
      /\ phase = "mounted" /\ helper \in {"none", "prepared"} /\ helper' = "viewed" /\ pinned' = TRUE
  BY DEF GetView, stage, supervisor, history
<1>3. PlanInv' /\ TreeInv' /\ Of("helper")' = {View(i) : i \in 0..Len(plan)} \cup (IF bootstrap THEN {ToolView} ELSE {})
      /\ \A side \in {"own", "supervisor", "tool"} : Of(side)' = Of(side)
  BY ViewTree
<1>4. /\ \A m \in DOMAIN mounts : m \in DOMAIN mounts' /\ mounts'[m] = mounts[m]
      /\ \A i \in 0..Len(plan) : Copied(i)
      /\ bootstrap => CopiedTool
  BY ViewIs
<1>5. StageSame /\ ToolKept
  BY <1>3, <1>4 DEF StageSame, OwnKept, StageKept, ToolKept, Of
<1>6. LeaseInv' /\ ToolInv' /\ WalkInv' /\ ShownInv'
  BY <1>2, <1>3, <1>5, SupervisorStays DEF Starting
<1>7. HelperInv'
  <2>1. points' = <<>> /\ DOMAIN points' = {} /\ points' \in Seq([mount : Ids, parent : AnyLocation, name : STRING])
    BY <1>1, <1>2 DEF HelperInv
  <2> QED
    BY <1>2, <1>3, <2>1 DEF HelperInv, Viewing, View, ToolView
<1>8. ViewInv'
  <2>1. Len(plan) \in Nat /\ \A i \in 0..Len(plan) : CloneAt(i)
    BY <1>2, StageMounted
  <2>2. ASSUME NEW i \in 0..Len(plan)
        PROVE  /\ mounts'[View(i)].on = mounts'[Clone(i)].on
               /\ i # 0 => mounts'[View(i)].parent = View(mounts'[Clone(i)].parent[2])
               /\ i = 0 => mounts'[View(i)].parent = None
    <3>1. /\ Clone(i) \in DOMAIN mounts /\ (i = 0 => mounts[Clone(i)].parent = None)
          /\ i # 0 => mounts[Clone(i)].parent # None
      BY <2>1 DEF CloneAt, Of
    <3>2. mounts'[Clone(i)] = mounts[Clone(i)]
      BY <1>4, <3>1
    <3> DEFINE p == mounts[Clone(i)].parent
               o == mounts[Clone(i)].on
               q == IF p = None THEN None ELSE View(p[2])
    <3>3. mounts'[View(i)] = [fs |-> i, parent |-> q, on |-> o]
      BY <1>4 DEF Copied
    <3>4. mounts'[View(i)].parent = q /\ mounts'[View(i)].on = o
      <4> HIDE DEF q, o
      <4> QED
        BY <3>3
    <3>5. (i = 0 => q = None) /\ (i # 0 => q = View(p[2]))
      BY <3>1
    <3> HIDE DEF q
    <3> QED
      BY <3>2, <3>4, <3>5
  <2>3. mounts'[Base].parent = None
    <3>1. CASE bootstrap
      BY <1>4, <3>1 DEF Base, CopiedTool
    <3>2. CASE ~bootstrap
      BY <2>1, <2>2, <3>2 DEF Base
    <3> QED
      BY <3>1, <3>2
  <2>4. mounts'[View(0)].parent = None /\ 1..Len(plan) \subseteq 0..Len(plan)
    BY <2>1, <2>2
  <2>5. Base' = Base /\ \A i : View(i)' = View(i) /\ Clone(i)' = Clone(i)
    BY <1>2 DEF Base, ToolView, View, Clone
  <2>6. \A i \in 1..Len(plan') :
          mounts'[View(i)].on = mounts'[Clone(i)].on /\ mounts'[View(i)].parent = View(mounts'[Clone(i)].parent[2])
    BY <1>2, <2>1, <2>2
  <2> QED
    BY <1>2, <2>3, <2>4, <2>5, <2>6 DEF ViewInv, View, Clone
<1>9. Basic' /\ PhaseInv' /\ UseInv'
  BY <1>1, <1>2 DEF Basic, PhaseInv, UseInv, RetainedForCause
<1> QED
  BY <1>3, <1>6, <1>7, <1>8, <1>9, Together

-----------------------------------------------------------------------------
(* The helper *)

\* Without the mounts of the helper the tree is the rest of it.
LEMMA HelperGone ==
  ASSUME IInv, plan' = plan, dirs' = dirs, mounts' = Without(Of("helper"))
  PROVE  PlanInv' /\ TreeInv' /\ StageSame /\ Of("helper")' = {} /\ ToolKept /\ Of("tool")' = Of("tool")
<1>1. PlanInv /\ TreeInv
  BY Parts
<1>2. DOMAIN mounts' = {m \in DOMAIN mounts : m[1] # "helper"} /\ \A m \in DOMAIN mounts' : mounts'[m] = mounts[m]
  BY DEF Without, Of
<1>3. PlanInv'
  BY <1>1 DEF PlanInv
<1>4. TreeInv'
  <2>1. \A m \in DOMAIN mounts' : mounts[m].parent # None => mounts[m].parent \in DOMAIN mounts' /\ mounts'[mounts[m].parent] = mounts[mounts[m].parent]
    BY <1>1, <1>2 DEF TreeInv
  <2> QED
    BY <1>1, <1>2, <2>1 DEF TreeInv
<1>5. StageSame /\ Of("helper")' = {} /\ ToolKept /\ Of("tool")' = Of("tool")
  BY <1>2 DEF StageSame, OwnKept, StageKept, ToolKept, Of
<1> QED
  BY <1>3, <1>4, <1>5

\* Who holds what: the helper's mounts are in use out of reach.
LEMMA LazyIs ==
  ASSUME UseInv, phase # "refused"
  PROVE  \A m \in lazy \cup (Of("helper") \cap held) : m[1] = "helper"
  BY DEF UseInv, Of

\* A helper that fails drops its mounts, detached or attached.
LEMMA AbandonKept == ASSUME IInv, Abandon, helper \in Viewing, fault' \in BOOLEAN, fault => fault', UNCHANGED dirs PROVE IInv'
<1>1. Basic /\ PhaseInv /\ HelperInv /\ UseInv
  BY Parts
<1>2. /\ plan' = plan /\ bootstrap' = bootstrap /\ dirs' = dirs /\ held' = held /\ phase' = phase /\ walk' = walk /\ leases' = leases
      /\ tool' = tool /\ moves' = moves /\ directives' = directives /\ helper' = "failed" /\ pinned' = FALSE /\ points' = <<>>
      /\ mounts' = Without(Of("helper")) /\ lazy' = lazy \cup (Of("helper") \cap held)
  BY DEF Abandon, Idle, Detach, stage, supervisor
<1>3. PlanInv' /\ TreeInv' /\ StageSame /\ Of("helper")' = {} /\ ToolKept /\ Of("tool")' = Of("tool")
  BY <1>2, HelperGone
<1>4. LeaseInv' /\ ToolInv' /\ WalkInv' /\ ShownInv' /\ ViewInv'
  BY <1>2, <1>3, SupervisorStays, NoView DEF Starting
<1>5. HelperInv'
  <2>1. DOMAIN points' = {} /\ points' \in Seq([mount : Ids, parent : AnyLocation, name : STRING])
    BY <1>2
  <2> QED
    BY <1>2, <1>3, <2>1 DEF HelperInv, Viewing
<1>6. Basic' /\ PhaseInv' /\ UseInv'
  <2>1. phase = "mounted"
    BY <1>1 DEF PhaseInv, Viewing
  <2>2. lazy' \subseteq Ids /\ \A m \in lazy' : m[1] = "helper"
    BY <1>1, <1>2, <2>1, LazyIs DEF Basic
  <2> QED
    BY <1>1, <1>2, <2>1, <2>2 DEF Basic, PhaseInv, UseInv, RetainedForCause
<1> QED
  BY <1>3, <1>4, <1>5, <1>6, Together

\* Mount::with_output.
LEMMA WithOutputKept == ASSUME IInv, WithOutput PROVE IInv'
<1>1. Basic /\ PhaseInv /\ HelperInv /\ ViewInv /\ UseInv /\ helper = "viewed"
  BY Parts DEF WithOutput
<1>2. CASE helper' = "attach" /\ Idle /\ UNCHANGED <<dirs, mounts, lazy, pinned, points, fault>>
  <2>1. /\ plan' = plan /\ bootstrap' = bootstrap /\ dirs' = dirs /\ mounts' = mounts /\ lazy' = lazy /\ held' = held /\ phase' = phase /\ walk' = walk
        /\ leases' = leases /\ tool' = tool /\ pinned' = pinned /\ points' = points /\ moves' = moves /\ directives' = directives /\ fault' = fault
    BY <1>2 DEF Idle, stage, supervisor
  <2>2. PlanInv' /\ TreeInv' /\ LeaseInv' /\ ToolInv' /\ ShownInv' /\ WalkInv'
    BY <1>1, <2>1, QuietStep DEF Starting
  <2>3. HelperInv' /\ ViewInv'
    <3>1. Of("helper")' = Of("helper") /\ points = <<>>
      BY <1>1, <2>1 DEF HelperInv, Viewing, Of
    <3>2. ViewInv'
      BY <1>1, <1>2, <2>1 DEF ViewInv, Base, ToolView, View, Clone
    <3> QED
      BY <1>1, <1>2, <2>1, <3>1, <3>2 DEF HelperInv, Viewing, View, ToolView
  <2>4. Basic' /\ PhaseInv' /\ UseInv'
    BY <1>1, <1>2, <2>1 DEF Basic, PhaseInv, UseInv, RetainedForCause
  <2> QED
    BY <2>2, <2>3, <2>4, Together
<1>3. CASE Abandon /\ UNCHANGED fault
  <2>1. UNCHANGED dirs /\ helper \in Viewing
    BY <1>1, <1>3 DEF Abandon, Viewing
  <2> QED
    BY <1>1, <1>3, <2>1, AbandonKept DEF Basic
<1>4. CASE HelperFails
  <2>1. UNCHANGED dirs /\ helper \in Viewing /\ Abandon /\ fault' = TRUE
    BY <1>1, <1>4 DEF HelperFails, Abandon, Viewing
  <2> QED
    BY <2>1, AbandonKept
<1> QED
  BY <1>2, <1>3, <1>4 DEF WithOutput

\* The output is mounted on an ordinary directory of the tools, where nothing else is.
LEMMA OutputMounted ==
  ASSUME IInv, helper = "attach", bootstrap, plan' = plan, dirs' = dirs, NEW d \in Ordinary(Top(ToolView), Mnt),
         mounts' = [mounts EXCEPT ![View(0)].parent = ToolView, ![View(0)].on = d]
  PROVE  /\ PlanInv' /\ TreeInv' /\ StageSame /\ Of("helper")' = Of("helper") /\ ToolKept /\ Of("tool")' = Of("tool")
         /\ dirs[d].up = <<Len(plan) + 1, 0>> /\ dirs[d].name = Mnt /\ ~dirs[d].link
         /\ DOMAIN mounts' = DOMAIN mounts /\ mounts'[View(0)].parent = ToolView /\ mounts'[View(0)].on = d
         /\ \A m \in DOMAIN mounts : m # View(0) => mounts'[m] = mounts[m]
<1>1. PlanInv /\ TreeInv /\ HelperInv /\ ViewInv
  BY Parts
<1>2. Len(plan) \in Nat /\ \A i : View(i)[1] = "helper" /\ View(i)[2] = i
  BY <1>1, TreeFacts DEF View
<1> DEFINE n == Len(plan) + 1
<1>3. /\ ToolView \in DOMAIN mounts /\ View(0) \in DOMAIN mounts /\ ToolView[1] = "helper" /\ ToolView[2] = n /\ ToolView # None
      /\ View(0) # ToolView /\ mounts[ToolView].parent = None /\ n \in Nat /\ n # 0
  <2>1. Of("helper") = {View(i) : i \in 0..Len(plan)} \cup {ToolView}
    BY <1>1 DEF HelperInv, Viewing
  <2>2. ToolView \in Of("helper") /\ View(0) \in Of("helper")
    BY <1>2, <2>1
  <2>3. None \notin DOMAIN mounts
    BY <1>1, TreeFacts
  <2>4. mounts[ToolView].parent = None
    BY <1>1 DEF ViewInv, Base
  <2> QED
    BY <1>2, <2>2, <2>3, <2>4 DEF Of, ToolView
<1> HIDE DEF n
<1>4. /\ d \in DOMAIN dirs /\ dirs[d].up = <<n, 0>> /\ d[1] = n /\ d[2] # 0 /\ dirs[d].name = Mnt /\ ~dirs[d].link
      /\ \A m \in DOMAIN mounts : ~(mounts[m].parent = ToolView /\ mounts[m].on = d)
  <2>1. Top(ToolView) = [m |-> ToolView, d |-> <<n, 0>>]
    BY <1>1, <1>3, TreeFacts
  <2>2. d \in DOMAIN dirs /\ d[1] = n /\ dirs[d].up = <<n, 0>> /\ dirs[d].name = Mnt /\ ~dirs[d].link /\ On(At(Top(ToolView), d)) = {}
    BY <2>1 DEF Ordinary, Plain, Entry
  <2>3. \A m \in DOMAIN mounts : ~(mounts[m].parent = ToolView /\ mounts[m].on = d)
    BY <2>1, <2>2 DEF On, At
  <2>4. d[2] # 0
    <3>1. <<n, 0>> \in Nat \X Nat
      BY <1>3
    <3> QED
      BY <1>1, <2>2, <3>1, RelOfDir, IdFacts DEF Placed
  <2> QED
    BY <2>2, <2>3, <2>4
<1> DEFINE v == View(0)
           o == mounts[v]
<1>5. o = [fs |-> v[2], parent |-> o.parent, on |-> o.on] /\ v \in Ids /\ v[2] = 0 /\ v[1] = "helper" /\ v \in DOMAIN mounts /\ v # ToolView
  BY <1>1, <1>2, <1>3 DEF TreeInv
<1>6. /\ DOMAIN mounts' = DOMAIN mounts
      /\ mounts'[v] = [fs |-> v[2], parent |-> ToolView, on |-> d]
      /\ \A m \in DOMAIN mounts : m # v => mounts'[m] = mounts[m]
  <2> DEFINE r == [o EXCEPT !.parent = ToolView]
             t == [r EXCEPT !.on = d]
  <2>1. /\ DOMAIN mounts' = DOMAIN mounts
        /\ mounts'[v] = t
        /\ \A m \in DOMAIN mounts : m # v => mounts'[m] = mounts[m]
    BY <1>3
  <2>2. r = [fs |-> v[2], parent |-> ToolView, on |-> o.on]
    <3>1. \A a, b, c, e : [[fs |-> a, parent |-> b, on |-> c] EXCEPT !.parent = e] = [fs |-> a, parent |-> e, on |-> c]
      OBVIOUS
    <3> HIDE DEF o, v
    <3> QED
      BY <1>5, <3>1
  <2>3. t = [fs |-> v[2], parent |-> ToolView, on |-> d]
    <3>1. \A a, b, c, e : [[fs |-> a, parent |-> b, on |-> c] EXCEPT !.on = e] = [fs |-> a, parent |-> b, on |-> e]
      OBVIOUS
    <3> HIDE DEF o, r, v
    <3> QED
      BY <2>2, <3>1
  <2> HIDE DEF o, r, t, v
  <2> QED
    BY <2>1, <2>3
<1>7. PlanInv'
  BY <1>1 DEF PlanInv
<1> HIDE DEF v, o
<1>8. TreeInv'
  <2> SUFFICES ASSUME NEW m \in DOMAIN mounts'
      PROVE LET x == mounts'[m]
            IN  /\ m \in Ids /\ m[2] <= Len(plan) + 1 /\ x = [fs |-> m[2], parent |-> x.parent, on |-> x.on]
                /\ x.parent # None =>
                     /\ x.parent \in DOMAIN mounts' /\ x.parent[1] = m[1]
                     /\ x.parent[2] < m[2] \/ (m[2] = 0 /\ mounts'[x.parent].parent = None)
                     /\ x.on \in DOMAIN dirs /\ x.on[1] = x.parent[2] /\ x.on[2] # 0
                     /\ \A y \in DOMAIN mounts' : mounts'[y].parent = x.parent /\ mounts'[y].on = x.on => y = m
    BY DEF TreeInv
  <2>1. CASE m = v
    <3>1. mounts'[ToolView].parent = None /\ ToolView \in DOMAIN mounts'
      BY <1>3, <1>5, <1>6
    <3>2. \A y \in DOMAIN mounts' : mounts'[y].parent = ToolView /\ mounts'[y].on = d => y = m
      BY <1>4, <1>6, <2>1
    <3> QED
      BY <1>2, <1>3, <1>4, <1>5, <1>6, <2>1, <3>1, <3>2
  <2>2. CASE m # v
    <3>1. mounts'[m] = mounts[m] /\ m \in DOMAIN mounts
      BY <1>6, <2>2
    <3>2. /\ m \in Ids /\ m[2] <= Len(plan) + 1 /\ mounts[m] = [fs |-> m[2], parent |-> mounts[m].parent, on |-> mounts[m].on]
          /\ mounts[m].parent # None =>
               /\ mounts[m].parent \in DOMAIN mounts /\ mounts[m].parent[1] = m[1]
               /\ mounts[m].parent[2] < m[2] \/ (m[2] = 0 /\ mounts[mounts[m].parent].parent = None)
               /\ mounts[m].on \in DOMAIN dirs /\ mounts[m].on[1] = mounts[m].parent[2] /\ mounts[m].on[2] # 0
               /\ \A y \in DOMAIN mounts : mounts[y].parent = mounts[m].parent /\ mounts[y].on = mounts[m].on => y = m
      BY <1>1, <3>1 DEF TreeInv
    <3>3. ASSUME mounts[m].parent # None, NEW y \in DOMAIN mounts, mounts'[y].parent = mounts[m].parent, mounts'[y].on = mounts[m].on PROVE y = m
      <4>1. y # v
        BY <1>4, <1>6, <3>1, <3>3
      <4> QED
        BY <1>6, <3>2, <3>3, <4>1
    <3>4. ASSUME mounts[m].parent # None PROVE mounts[m].parent[2] < m[2] \/ (m[2] = 0 /\ mounts'[mounts[m].parent].parent = None)
      <4>1. CASE mounts[m].parent = v
        <5>1. m[1] = "helper" /\ m[2] # 0
          <6>1. m = <<m[1], m[2]>> /\ v = <<v[1], v[2]>> /\ m[1] = "helper"
            BY <1>5, <3>2, <3>4, <4>1, IdFacts
          <6> QED
            BY <1>5, <2>2, <6>1
        <5> QED
          BY <3>2, <3>4, <5>1
      <4>2. CASE mounts[m].parent # v
        BY <1>6, <3>2, <3>4, <4>2
      <4> QED
        BY <4>1, <4>2
    <3> QED
      BY <1>6, <3>1, <3>2, <3>3, <3>4
  <2> QED
    BY <2>1, <2>2
<1>9. StageSame /\ Of("helper")' = Of("helper") /\ ToolKept /\ Of("tool")' = Of("tool")
  BY <1>5, <1>6 DEF StageSame, OwnKept, StageKept, ToolKept, Of
<1> QED
  BY <1>4, <1>6, <1>7, <1>8, <1>9 DEF n, v

\* Mount::attach.
LEMMA AttachKept == ASSUME IInv, Attach PROVE IInv'
<1>1. Basic /\ PlanInv /\ TreeInv /\ PhaseInv /\ HelperInv /\ ViewInv /\ UseInv /\ helper = "attach"
  BY Parts DEF Attach
<1>2. CASE /\ helper' = "capture"
           /\ IF bootstrap
              THEN \E d \in Ordinary(Top(Base), Mnt) : mounts' = [mounts EXCEPT ![View(0)].parent = Base, ![View(0)].on = d]
              ELSE UNCHANGED mounts
           /\ Idle /\ UNCHANGED <<dirs, lazy, pinned, points, fault>>
  <2>1. /\ plan' = plan /\ bootstrap' = bootstrap /\ dirs' = dirs /\ lazy' = lazy /\ held' = held /\ phase' = phase /\ walk' = walk
        /\ leases' = leases /\ tool' = tool /\ pinned' = pinned /\ points' = points /\ moves' = moves /\ directives' = directives /\ fault' = fault
    BY <1>2 DEF Idle, stage, supervisor
  <2>a. phase = "mounted" /\ Len(plan) \in Nat
    BY <1>1, TreeFacts DEF PhaseInv
  <2>b. \A i \in 0..Len(plan) : View(i) \in DOMAIN mounts /\ Clone(i) \in DOMAIN mounts /\ Clone(i) # View(0) /\ (i # 0 => View(i) # View(0))
    <3> TAKE i \in 0..Len(plan)
    <3>1. Clone(i) \in Of("supervisor")
      BY <2>a, StageMounted DEF CloneAt
    <3>2. View(i) \in Of("helper")
      BY <1>1 DEF HelperInv, Viewing
    <3> QED
      BY <3>1, <3>2 DEF Of, View, Clone
  <2>c. Base' = Base /\ Len(plan') = Len(plan) /\ \A i : View(i)' = View(i) /\ Clone(i)' = Clone(i)
    BY <2>1 DEF Base, ToolView, View, Clone
  <2>2. PlanInv' /\ TreeInv' /\ StageSame /\ Of("helper")' = Of("helper") /\ ToolKept /\ Of("tool")' = Of("tool") /\ ViewInv'
    <3>1. CASE bootstrap
      <4>1. Base = ToolView
        BY <3>1 DEF Base
      <4>2. PICK d \in Ordinary(Top(ToolView), Mnt) : mounts' = [mounts EXCEPT ![View(0)].parent = ToolView, ![View(0)].on = d]
        BY <1>2, <3>1, <4>1
      <4>3. /\ PlanInv' /\ TreeInv' /\ StageSame /\ Of("helper")' = Of("helper") /\ ToolKept /\ Of("tool")' = Of("tool")
            /\ dirs[d].up = <<Len(plan) + 1, 0>> /\ dirs[d].name = Mnt /\ ~dirs[d].link
            /\ mounts'[View(0)].parent = ToolView /\ mounts'[View(0)].on = d
            /\ \A m \in DOMAIN mounts : m # View(0) => mounts'[m] = mounts[m]
        BY <1>1, <2>1, <3>1, <4>2, OutputMounted
      <4>4. \A i \in 1..Len(plan) : mounts'[View(i)].on = mounts'[Clone(i)].on /\ mounts'[View(i)].parent = View(mounts'[Clone(i)].parent[2])
        <5> TAKE i \in 1..Len(plan)
        <5>1. mounts'[View(i)] = mounts[View(i)] /\ mounts'[Clone(i)] = mounts[Clone(i)]
          BY <2>a, <2>b, <4>3
        <5> QED
          BY <1>1, <5>1 DEF ViewInv
      <4>5. mounts'[Base].parent = None
        <5>1. ToolView # View(0) /\ mounts[ToolView].parent = None
          BY <1>1, <2>a, <4>1 DEF ViewInv, ToolView, View
        <5>2. ToolView \in DOMAIN mounts
          BY <1>1, <3>1 DEF HelperInv, Viewing, Of
        <5> QED
          BY <4>1, <4>3, <5>1, <5>2
      <4>6. ViewInv'
        BY <1>2, <2>1, <2>c, <3>1, <4>1, <4>3, <4>4, <4>5 DEF ViewInv, View, Clone
      <4> QED
        BY <4>3, <4>6
    <3>2. CASE ~bootstrap
      <4>1. mounts' = mounts
        BY <1>2, <3>2
      <4>2. ViewInv'
        BY <1>1, <1>2, <2>1, <2>c, <3>2, <4>1 DEF ViewInv, View, Clone
      <4> QED
        BY <1>1, <2>1, <4>1, <4>2, Unmoved
    <3> QED
      BY <3>1, <3>2
  <2>3. LeaseInv' /\ ToolInv' /\ WalkInv' /\ ShownInv'
    BY <1>1, <2>1, <2>2, SupervisorStays DEF Starting
  <2>4. HelperInv'
    <3>1. points = <<>>
      BY <1>1 DEF HelperInv, Viewing
    <3> QED
      BY <1>1, <1>2, <2>1, <2>2, <3>1 DEF HelperInv, Viewing, View, ToolView
  <2>5. Basic' /\ PhaseInv' /\ UseInv'
    BY <1>1, <1>2, <2>1 DEF Basic, PhaseInv, UseInv, RetainedForCause
  <2> QED
    BY <2>2, <2>3, <2>4, <2>5, Together
<1>3. CASE HelperFails
  <2>1. UNCHANGED dirs /\ helper \in Viewing /\ Abandon /\ fault' = TRUE
    BY <1>1, <1>3 DEF HelperFails, Abandon, Viewing
  <2> QED
    BY <2>1, AbandonKept
<1> QED
  BY <1>2, <1>3 DEF Attach

\* A sequence of as many members as a set has, with all of them, has each once.
LEMMA OnceEach ==
  ASSUME NEW S, IsFiniteSet(S), NEW q \in [1..Cardinality(S) -> S], Range(q) = S
  PROVE  Cardinality(S) \in Nat /\ \A i, j \in DOMAIN q : q[i] = q[j] => i = j
<1> DEFINE n == Cardinality(S)
           T == 1..n
<1>1. n \in Nat
  BY FS_CardinalityType
<1>2. IsFiniteSet(T) /\ Cardinality(T) = n
  <2>1. Cardinality(1..n) = (IF 1 > n THEN 0 ELSE n - 1 + 1) /\ IsFiniteSet(1..n)
    BY <1>1, FS_Interval
  <2> QED
    BY <1>1, <2>1
<1>3. q \in Surjection(T, S)
  BY DEF Surjection, Range
<1> HIDE DEF T
<1>4. q \in Injection(T, S)
  BY <1>2, <1>3, FS_SurjSameCardinalityImpliesInj
<1>5. DOMAIN q = T
  BY DEF T
<1> QED
  BY <1>1, <1>4, <1>5 DEF Injection, IsInjective

\* A helper has finitely many mounts.
LEMMA ChildrenFinite ==
  ASSUME PlanInv, TreeInv
  PROVE  IsFiniteSet(Children)
<1> DEFINE H == {"helper"}
           N == 0..(Len(plan) + 1)
<1>1. Len(plan) \in Nat /\ Len(plan) + 1 \in Int
  BY TreeFacts
<1>2. IsFiniteSet(N) /\ IsFiniteSet(H)
  <2>1. IsFiniteSet(N)
    BY <1>1, FS_Interval
  <2>2. IsFiniteSet(H)
    BY FS_Singleton
  <2> QED
    BY <2>1, <2>2
<1> HIDE DEF H, N
<1>3. IsFiniteSet(H \X N)
  BY <1>2, FS_Product
<1>4. Children \subseteq H \X N
  <2> SUFFICES ASSUME NEW m \in Children PROVE m \in H \X N
    OBVIOUS
  <2>1. m \in DOMAIN mounts /\ m[1] = "helper"
    BY DEF Children, Of
  <2>2. m[2] <= Len(plan) + 1 /\ m \in Ids
    BY <2>1 DEF TreeInv
  <2>3. m[2] \in Nat /\ m = <<m[1], m[2]>>
    BY <2>2, IdFacts
  <2>4. m[2] \in N
    BY <1>1, <2>2, <2>3 DEF N
  <2>5. m[1] \in H
    BY <2>1 DEF H
  <2> QED
    BY <2>3, <2>4, <2>5
<1> QED
  BY <1>3, <1>4, FS_Subset

\* MountChildren::capture.
LEMMA CaptureKept == ASSUME IInv, Capture PROVE IInv'
<1>1. Basic /\ PlanInv /\ TreeInv /\ PhaseInv /\ HelperInv /\ ViewInv /\ UseInv /\ helper = "capture"
  BY Parts DEF Capture
<1>2. ASSUME \A m \in Children : Found(m) # {}, NEW q \in ParentsFirst(Children),
             points' = [i \in DOMAIN q |-> CHOOSE p \in Found(q[i]) : TRUE], helper' = "running",
             Idle /\ UNCHANGED <<dirs, mounts, lazy, pinned, fault>>
      PROVE  IInv'
  <2>1. /\ plan' = plan /\ bootstrap' = bootstrap /\ dirs' = dirs /\ mounts' = mounts /\ lazy' = lazy /\ held' = held /\ phase' = phase /\ walk' = walk
        /\ leases' = leases /\ tool' = tool /\ pinned' = pinned /\ moves' = moves /\ directives' = directives /\ fault' = fault
    BY <1>2 DEF Idle, stage, supervisor
  <2>2. PlanInv' /\ TreeInv' /\ LeaseInv' /\ ToolInv' /\ ShownInv' /\ WalkInv' /\ ViewInv'
    BY <1>1, <1>2, <2>1, QuietStep, NoView DEF Starting
  <2>3. /\ q \in [1..Cardinality(Children) -> Children] /\ Range(q) = Children
        /\ \A i, j \in DOMAIN q : i < j => Len(Paths[q[i]]) <= Len(Paths[q[j]])
    BY <1>2 DEF ParentsFirst
  <2>4. Cardinality(Children) \in Nat /\ \A i, j \in DOMAIN q : q[i] = q[j] => i = j
    BY <1>1, <2>3, ChildrenFinite, OnceEach
  <2>5. Base \in DOMAIN mounts
    <3>1. Base \in Of("helper")
      BY <1>1, TreeFacts DEF HelperInv, Viewing, Base
    <3> QED
      BY <3>1 DEF Of
  <2>6. DOMAIN points' = DOMAIN q /\ DOMAIN q = 1..Cardinality(Children) /\ \A i \in DOMAIN q : points'[i] \in Found(q[i])
    <3>1. \A i \in DOMAIN q : q[i] \in Children
      BY <2>3
    <3> QED
      BY <1>2, <2>3, <3>1
  <2>7. \A i \in DOMAIN q :
          /\ q[i] \in DOMAIN mounts /\ q[i] # Base /\ points'[i].mount = q[i] /\ Pinned(points'[i]) /\ points'[i].parent.m[1] = "helper"
          /\ points'[i].parent \in Locations /\ mounts[q[i]].parent # None
          /\ points'[i] \in [mount : Ids, parent : AnyLocation, name : STRING]
    <3> TAKE i \in DOMAIN q
    <3>1. q[i] \in DOMAIN mounts /\ q[i] # Base
      BY <2>3 DEF Children, Of
    <3>2. points'[i] \in Found(q[i])
      BY <2>6
    <3> QED
      BY <1>1, <2>5, <3>1, <3>2, FoundIs
  <2>8. points' \in Seq([mount : Ids, parent : AnyLocation, name : STRING])
    <3>1. points' = [i \in 1..Cardinality(Children) |-> CHOOSE p \in Found(q[i]) : TRUE]
      BY <1>2, <2>6
    <3>2. \A i \in 1..Cardinality(Children) : points'[i] \in [mount : Ids, parent : AnyLocation, name : STRING]
      BY <2>6, <2>7
    <3> DEFINE V == [mount : Ids, parent : AnyLocation, name : STRING]
               n == Cardinality(Children)
    <3> HIDE DEF V, n
    <3>3. points' = [i \in 1..n |-> points'[i]] /\ n \in Nat /\ \A i \in 1..n : points'[i] \in V
      BY <2>4, <3>1, <3>2 DEF V, n
    <3>4. points' \in Seq(V)
      BY <3>3
    <3> QED
      BY <3>4 DEF V
  <2>9. \A i, j \in DOMAIN q : i < j => mounts[q[i]].parent # q[j]
    <3> SUFFICES ASSUME NEW i \in DOMAIN q, NEW j \in DOMAIN q, i < j, mounts[q[i]].parent = q[j] PROVE FALSE
      OBVIOUS
    <3>1. q[i] \in DOMAIN mounts /\ mounts[q[i]].parent # None
      BY <2>7
    <3>2. Len(Paths[q[i]]) \in Nat /\ Len(Paths[q[j]]) \in Nat /\ Len(Paths[q[j]]) < Len(Paths[q[i]])
      BY <1>1, <3>1, LongerPath
    <3> QED
      BY <2>3, <3>2
  <2>10. Children = {points'[i].mount : i \in DOMAIN points'}
    <3>1. \A m \in Children : \E i \in DOMAIN q : m = q[i]
      BY <2>3 DEF Range
    <3>2. \A i \in DOMAIN q : q[i] \in Children
      BY <2>3
    <3> QED
      BY <2>6, <2>7, <3>1, <3>2
  <2>11. Children' = Children /\ Of("helper")' = Of("helper") /\ Locations' = Locations /\ Base' = Base
    BY <2>1 DEF Children, Of, View, ToolView, Base, Locations
  <2>12. \A i \in DOMAIN points' : Pinned(points[i])'
    <3> TAKE i \in DOMAIN points'
    <3>1. Pinned(points'[i]) /\ points'[i] = points'[i]
      BY <2>6, <2>7
    <3> QED
      BY <2>1, <2>11, <3>1 DEF Pinned
  <2>13. HelperInv'
    <3>1. \A i \in DOMAIN points' : points'[i].parent \in Locations' /\ points'[i].parent.m[1] = "helper" /\ points'[i].mount # Base
      BY <2>6, <2>7, <2>11
    <3>2. \A i, j \in DOMAIN points' :
            (points'[i].mount = points'[j].mount => i = j) /\ (i < j => mounts'[points'[i].mount].parent # points'[j].mount)
      BY <2>1, <2>4, <2>6, <2>7, <2>9
    <3>3. Of("helper")' = {View(i) : i \in 0..Len(plan')} \cup (IF bootstrap' THEN {ToolView} ELSE {})
      BY <1>1, <2>1, <2>11 DEF HelperInv, Viewing
    <3>4. Base \in DOMAIN mounts' /\ mounts'[Base].parent = None /\ Children' = {points'[i].mount : i \in DOMAIN points'}
      BY <1>1, <2>1, <2>5, <2>10, <2>11 DEF ViewInv
    <3> QED
      BY <1>2, <2>1, <2>8, <2>11, <2>12, <3>1, <3>2, <3>3, <3>4 DEF HelperInv, Viewing, View, ToolView
  <2>14. Basic' /\ PhaseInv' /\ UseInv'
    BY <1>1, <1>2, <2>1 DEF Basic, PhaseInv, UseInv, RetainedForCause
  <2> QED
    BY <2>2, <2>13, <2>14, Together
<1>3. CASE Abandon /\ UNCHANGED fault
  <2>1. UNCHANGED dirs /\ helper \in Viewing
    BY <1>1, <1>3 DEF Abandon, Viewing
  <2> QED
    BY <1>1, <1>3, <2>1, AbandonKept DEF Basic
<1>4. CASE HelperFails
  <2>1. UNCHANGED dirs /\ helper \in Viewing /\ Abandon /\ fault' = TRUE
    BY <1>1, <1>4 DEF HelperFails, Abandon, Viewing
  <2> QED
    BY <2>1, AbandonKept
<1> QED
  BY <1>2, <1>3, <1>4 DEF Capture

\* What a pinned directory and a name lead to.
LEMMA NamedIs ==
  ASSUME PlanInv, TreeInv, NEW p, Pinned(p)
  PROVE  Named(p.parent, p.name) = {Top(p.mount)}
<1> DEFINE on == mounts[p.mount].on
<1>1. /\ p.mount \in DOMAIN mounts /\ p.parent \in Locations /\ mounts[p.mount].parent = p.parent.m
      /\ dirs[on].up = p.parent.d /\ dirs[on].name = p.name
  BY DEF Pinned
<1>2. p.parent.m \in Ids /\ p.parent.d \in DOMAIN dirs /\ p.parent.m # None
  BY <1>1, IdFacts DEF Locations
<1>3. on \in DOMAIN dirs /\ p.parent.m \in DOMAIN mounts /\ on[2] # 0
  BY <1>1, <1>2 DEF TreeInv
<1>4. Placed(dirs, Len(plan) + 1, on)
  BY <1>3, RelOfDir
<1> HIDE DEF on
<1>5. Entry(p.parent, p.name) = {on}
  <2>1. on[1] = p.parent.d[1] /\ dirs[on].up # None
    BY <1>1, <1>3, <1>4 DEF Placed
  <2>2. on \in Entry(p.parent, p.name)
    BY <1>1, <1>3, <2>1 DEF Entry
  <2>3. \A d \in Entry(p.parent, p.name) : d = on
    BY <1>1, <1>4, <2>1 DEF Entry, Placed
  <2> QED
    BY <2>2, <2>3
<1>6. Cross(At(p.parent, on)) = Top(p.mount)
  <2>1. p.mount \in On(At(p.parent, on)) /\ At(p.parent, on).m \in DOMAIN mounts
    BY <1>1, <1>3 DEF On, At, on
  <2> QED
    BY <2>1, CrossIs
<1> QED
  BY <1>5, <1>6 DEF Named

\* What a name leads to depends on directories and mounts only.
LEMMA PinnedSame ==
  ASSUME dirs' = dirs, mounts' = mounts
  PROVE  \A p : Pinned(p)' <=> Pinned(p)
  BY DEF Pinned, Locations

\* The command has returned, and close gives up the hold on the root.
LEMMA CommandEndsKept == ASSUME IInv, CommandEnds PROVE IInv'
<1>1. Basic /\ PhaseInv /\ HelperInv /\ UseInv /\ helper = "running"
  BY Parts DEF CommandEnds
<1>2. CASE helper' = "closing" /\ pinned' = FALSE /\ Idle /\ UNCHANGED <<dirs, mounts, lazy, points, fault>>
  <2>1. /\ plan' = plan /\ bootstrap' = bootstrap /\ dirs' = dirs /\ mounts' = mounts /\ lazy' = lazy /\ held' = held /\ phase' = phase /\ walk' = walk
        /\ leases' = leases /\ tool' = tool /\ points' = points /\ moves' = moves /\ directives' = directives /\ fault' = fault
    BY <1>2 DEF Idle, stage, supervisor
  <2>2. PlanInv' /\ TreeInv' /\ LeaseInv' /\ ToolInv' /\ ShownInv' /\ WalkInv' /\ ViewInv'
    BY <1>2, <2>1, QuietStep, NoView DEF Starting
  <2>3. \A i \in DOMAIN points : Pinned(points[i])'
    <3>1. \A i \in DOMAIN points : \A p : p = points[i] => Pinned(p)'
      BY <1>1, <2>1, PinnedSame DEF HelperInv
    <3> QED
      BY <2>1, <3>1
  <2>4. Children' = Children /\ Locations' = Locations /\ Base' = Base
    BY <2>1 DEF Children, Of, View, ToolView, Base, Locations
  <2>5. HelperInv'
    BY <1>1, <1>2, <2>1, <2>3, <2>4 DEF HelperInv, Viewing
  <2>6. Basic' /\ PhaseInv' /\ UseInv'
    BY <1>1, <1>2, <2>1 DEF Basic, PhaseInv, UseInv, RetainedForCause
  <2> QED
    BY <2>2, <2>5, <2>6, Together
<1>3. CASE HelperFails
  <2>1. UNCHANGED dirs /\ helper \in Viewing /\ Abandon /\ fault' = TRUE
    BY <1>1, <1>3 DEF HelperFails, Abandon, Viewing
  <2> QED
    BY <2>1, AbandonKept
<1> QED
  BY <1>2, <1>3 DEF CommandEnds

\* A helper retains its mounts after a failure, or for another user.
LEMMA HelperRetainsKept ==
  ASSUME IInv, HelperRetains, helper = "closing", fault' \in BOOLEAN, fault => fault', fault' \/ held # {}
  PROVE  IInv'
<1>1. Basic /\ PhaseInv /\ HelperInv /\ UseInv
  BY Parts
<1>2. /\ plan' = plan /\ bootstrap' = bootstrap /\ dirs' = dirs /\ mounts' = mounts /\ lazy' = lazy /\ held' = held /\ phase' = phase /\ walk' = walk
      /\ leases' = leases /\ tool' = tool /\ pinned' = pinned /\ points' = points /\ moves' = moves /\ directives' = directives /\ helper' = "retained"
  BY DEF HelperRetains, Idle, stage, supervisor
<1>3. PlanInv' /\ TreeInv' /\ LeaseInv' /\ ToolInv' /\ ShownInv' /\ WalkInv' /\ ViewInv'
  BY <1>2, QuietStep, NoView DEF Starting
<1>4. HelperInv'
  <2>1. Locations' = Locations /\ Base' = Base
    BY <1>2 DEF Locations, View, ToolView, Base
  <2> QED
    BY <1>1, <1>2, <2>1 DEF HelperInv, Viewing
<1>5. Basic' /\ PhaseInv' /\ UseInv'
  BY <1>1, <1>2 DEF Basic, PhaseInv, UseInv, RetainedForCause
<1> QED
  BY <1>3, <1>4, <1>5, Together

\* One mount is gone that none was in.
LEMMA MountGone ==
  ASSUME PlanInv, TreeInv, plan' = plan, dirs' = dirs, NEW m \in DOMAIN mounts, mounts' = Without({m}), \A x \in DOMAIN mounts : mounts[x].parent # m
  PROVE  /\ PlanInv' /\ TreeInv' /\ DOMAIN mounts' = DOMAIN mounts \ {m} /\ \A x \in DOMAIN mounts' : mounts'[x] = mounts[x]
         /\ \A side : Of(side)' = Of(side) \ {m}
<1>1. DOMAIN mounts' = DOMAIN mounts \ {m} /\ \A x \in DOMAIN mounts' : mounts'[x] = mounts[x]
  BY DEF Without
<1>2. PlanInv'
  BY DEF PlanInv
<1>3. TreeInv'
  <2> SUFFICES ASSUME NEW n \in DOMAIN mounts'
      PROVE LET x == mounts'[n]
            IN  /\ n \in Ids /\ n[2] <= Len(plan) + 1 /\ x = [fs |-> n[2], parent |-> x.parent, on |-> x.on]
                /\ x.parent # None =>
                     /\ x.parent \in DOMAIN mounts' /\ x.parent[1] = n[1]
                     /\ x.parent[2] < n[2] \/ (n[2] = 0 /\ mounts'[x.parent].parent = None)
                     /\ x.on \in DOMAIN dirs /\ x.on[1] = x.parent[2] /\ x.on[2] # 0
                     /\ \A y \in DOMAIN mounts' : mounts'[y].parent = x.parent /\ mounts'[y].on = x.on => y = n
    BY DEF TreeInv
  <2>1. n \in DOMAIN mounts /\ mounts'[n] = mounts[n] /\ mounts[n].parent # m
    BY <1>1
  <2>2. /\ n \in Ids /\ n[2] <= Len(plan) + 1 /\ mounts[n] = [fs |-> n[2], parent |-> mounts[n].parent, on |-> mounts[n].on]
        /\ mounts[n].parent # None =>
             /\ mounts[n].parent \in DOMAIN mounts /\ mounts[n].parent[1] = n[1]
             /\ mounts[n].parent[2] < n[2] \/ (n[2] = 0 /\ mounts[mounts[n].parent].parent = None)
             /\ mounts[n].on \in DOMAIN dirs /\ mounts[n].on[1] = mounts[n].parent[2] /\ mounts[n].on[2] # 0
             /\ \A y \in DOMAIN mounts : mounts[y].parent = mounts[n].parent /\ mounts[y].on = mounts[n].on => y = n
    BY <2>1 DEF TreeInv
  <2> QED
    BY <1>1, <2>1, <2>2
<1>4. \A side : Of(side)' = Of(side) \ {m}
  BY <1>1 DEF Of
<1> QED
  BY <1>1, <1>2, <1>3, <1>4

\* Who keeps a mount of the helper's from going, when it closes.
LEMMA HelperBusy ==
  ASSUME IInv, helper = "closing", NEW m \in Of("helper"), \A x \in DOMAIN mounts : mounts[x].parent # m,
         \A i \in DOMAIN points : points[i].parent.m # m
  PROVE  Busy(m) => held # {}
<1>1. PlanInv /\ TreeInv /\ LeaseInv /\ HelperInv
  BY Parts
<1>2. m[1] = "helper" /\ m \in DOMAIN mounts
  BY DEF Of
<1>3. ASSUME NEW i \in DOMAIN leases PROVE leases[i].mount # m /\ (leases[i].parent # None => leases[i].parent.m # m)
  <2>1. Len(plan) \in Nat /\ i \in Nat \ {0}
    BY <1>1, LengthsAre
  <2>2. leases[i].mount = Leased(i) /\ Leased(i) \in DOMAIN mounts /\ Leased(i)[1] \in {"own", "supervisor"}
    BY <1>1, <2>1, LeasedMount, LeasedDiffer
  <2>3. leases[i].parent # None => mounts[Leased(i)].parent = leases[i].parent.m /\ leases[i].parent.m \in Ids
    BY <1>1, <2>2, LeasedMount DEF Pinned, Locations
  <2>4. mounts[Leased(i)].parent # None => mounts[Leased(i)].parent[1] = Leased(i)[1]
    BY <1>1, <2>2 DEF TreeInv
  <2> QED
    BY <1>2, <2>2, <2>3, <2>4, IdFacts
<1>4. ~pinned /\ m # Tool
  BY <1>1, <1>2 DEF HelperInv, Tool
<1> QED
  BY <1>3, <1>4 DEF Busy, Pins

\* MountChildren::close.
LEMMA CloseChildKept == ASSUME IInv, CloseChild PROVE IInv'
<1>1. Basic /\ PlanInv /\ TreeInv /\ PhaseInv /\ HelperInv /\ UseInv /\ helper = "closing" /\ points # <<>>
  BY Parts DEF CloseChild
<1> DEFINE n == Len(points)
           p == Last(points)
           m == p.mount
<1>2. n \in Nat /\ n # 0 /\ DOMAIN points = 1..n /\ n \in DOMAIN points /\ p = points[n]
  <2>1. points \in Seq([mount : Ids, parent : AnyLocation, name : STRING])
    BY <1>1 DEF HelperInv
  <2> QED
    BY <1>1, <2>1 DEF Last
<1>3. /\ \A i \in DOMAIN points : Pinned(points[i]) /\ points[i].mount # Base /\ points[i].parent.m[1] = "helper"
      /\ \A i, j \in DOMAIN points :
            (points[i].mount = points[j].mount => i = j) /\ (i < j => mounts[points[i].mount].parent # points[j].mount)
      /\ Base \in DOMAIN mounts /\ mounts[Base].parent = None /\ Children = {points[i].mount : i \in DOMAIN points}
  BY <1>1 DEF HelperInv
<1> HIDE DEF p
<1>4. Pinned(p) /\ m \in DOMAIN mounts /\ m \in Children /\ m # Base
  <2>1. Pinned(p)
    BY <1>2, <1>3
  <2>2. p.mount \in {points[i].mount : i \in DOMAIN points} /\ p.mount # Base
    BY <1>2, <1>3
  <2> QED
    BY <1>3, <2>1, <2>2 DEF Pinned
<1> HIDE DEF n, m
<1>5. Lookup(p) = {Top(m)} /\ Top(m).m = m /\ m \in Of("helper")
  BY <1>1, <1>4, NamedIs DEF Lookup, Top, Children, m
\* No mount is in it.
<1>6. \A x \in DOMAIN mounts : mounts[x].parent # m
  <2> SUFFICES ASSUME NEW x \in DOMAIN mounts, mounts[x].parent = m PROVE FALSE
    OBVIOUS
  <2>1. m # None /\ m[1] = "helper" /\ m[2] \in Nat
    BY <1>1, <1>4, <1>5, TreeFacts, IdFacts DEF Of
  <2>2. mounts[m].parent # None
    BY <1>1, <1>4, IdFacts DEF Pinned, Locations, m
  <2>8. x[1] = "helper" /\ m[2] < x[2] /\ x[2] \in Nat
    BY <1>1, <2>1, <2>2, TreeFacts, IdFacts DEF TreeInv
  <2>3. x \in Children
    BY <1>3, <2>1, <2>8 DEF Children, Of
  <2>4. PICK i \in DOMAIN points : x = points[i].mount
    BY <1>3, <2>3
  <2>5. points[n].mount = m
    BY <1>2 DEF m
  <2>6. x # m
    BY <2>1, <2>8
  <2>7. i < n
    BY <1>2, <2>4, <2>5, <2>6
  <2> QED
    BY <1>2, <1>3, <2>4, <2>5, <2>7
<1>7. \A i \in DOMAIN points : points[i].parent.m # m
  <2> TAKE i \in DOMAIN points
  <2>1. mounts[points[i].mount].parent = points[i].parent.m /\ points[i].mount \in DOMAIN mounts
    BY <1>3 DEF Pinned
  <2> QED
    BY <1>6, <2>1
<1>8. Busy(m) => held # {}
  BY <1>1, <1>5, <1>6, <1>7, HelperBusy
<1>9. CASE ~fault /\ fault' = TRUE /\ HelperRetains
  BY <1>1, <1>9, HelperRetainsKept
<1>10. CASE ~(\E l \in Lookup(p) : l = Top(l.m) /\ ~Busy(l.m)) /\ HelperRetains /\ UNCHANGED fault
  <2>1. Busy(m)
    BY <1>5, <1>10
  <2> QED
    BY <1>1, <1>8, <1>10, <2>1, HelperRetainsKept DEF Basic
<1>11. ASSUME NEW l \in Lookup(p), mounts' = Without({l.m}), points' = Front(points),
              Idle /\ UNCHANGED <<dirs, lazy, helper, pinned, fault>>
       PROVE  IInv'
  <2>1. /\ plan' = plan /\ bootstrap' = bootstrap /\ dirs' = dirs /\ lazy' = lazy /\ held' = held /\ phase' = phase /\ walk' = walk
        /\ leases' = leases /\ tool' = tool /\ pinned' = pinned /\ moves' = moves /\ directives' = directives /\ fault' = fault /\ helper' = helper
        /\ mounts' = Without({m})
    <3>1. l.m = m
      BY <1>5
    <3> QED
      BY <1>11, <3>1 DEF Idle, stage, supervisor
  <2>2. /\ PlanInv' /\ TreeInv' /\ DOMAIN mounts' = DOMAIN mounts \ {m} /\ \A x \in DOMAIN mounts' : mounts'[x] = mounts[x]
        /\ \A side : Of(side)' = Of(side) \ {m}
    BY <1>1, <1>4, <1>6, <2>1, MountGone
  <2>3. StageSame /\ ToolKept /\ Of("tool")' = Of("tool")
    BY <1>5, <2>2 DEF StageSame, OwnKept, StageKept, ToolKept, Of
  <2>4. LeaseInv' /\ ToolInv' /\ WalkInv' /\ ShownInv' /\ ViewInv'
    BY <1>1, <2>1, <2>2, <2>3, SupervisorStays, NoView
  <2>5. Len(points') = n - 1 /\ DOMAIN points' = 1..(n - 1) /\ \A i \in 1..(n - 1) : points'[i] = points[i]
    BY <1>2, <1>11 DEF Front, n
  <2>6. points' \in Seq([mount : Ids, parent : AnyLocation, name : STRING])
    <3> DEFINE V == [mount : Ids, parent : AnyLocation, name : STRING]
    <3>1. points \in Seq(V)
      BY <1>1 DEF HelperInv
    <3> HIDE DEF V
    <3>2. points' = SubSeq(points, 1, n - 1)
      BY <1>11 DEF Front, n
    <3>3. points' \in Seq(V)
      BY <1>2, <3>1, <3>2
    <3> QED
      BY <3>3 DEF V
  <2>7. \A i \in 1..(n - 1) : i \in DOMAIN points /\ points[i].mount # m
    BY <1>2, <1>3 DEF m
  <2>8. \A i \in DOMAIN points' : Pinned(points[i])'
    <3> TAKE i \in DOMAIN points'
    <3>1. i \in DOMAIN points /\ points[i].mount # m /\ points'[i] = points[i]
      BY <2>5, <2>7
    <3>2. /\ points[i].mount \in DOMAIN mounts /\ points[i].parent \in Locations /\ mounts[points[i].mount].parent = points[i].parent.m
          /\ dirs[mounts[points[i].mount].on].up = points[i].parent.d /\ dirs[mounts[points[i].mount].on].name = points[i].name
      BY <1>3, <3>1 DEF Pinned
    <3> QED
      BY <2>1, <2>2, <3>1, <3>2 DEF Pinned, Locations
  <2>9. Children' = {points'[i].mount : i \in DOMAIN points'}
    <3>1. Children' = Children \ {m}
      BY <2>1, <2>2 DEF Children, View, ToolView, Base
    <3>2. {points[i].mount : i \in DOMAIN points} \ {m} = {points'[i].mount : i \in DOMAIN points'}
      BY <1>2, <2>5, <2>7 DEF m
    <3> QED
      BY <1>3, <3>1, <3>2
  <2>10. Base \in DOMAIN mounts' /\ mounts'[Base].parent = None /\ Base' = Base
    BY <1>3, <1>4, <2>1, <2>2 DEF View, ToolView, Base
  <2>11. \A i \in DOMAIN points' : points'[i].parent \in Locations' /\ points'[i].parent.m[1] = "helper" /\ points'[i].mount # Base
    BY <1>1, <1>3, <2>1, <2>5, <2>7 DEF HelperInv, Locations
  <2>12. \A i, j \in DOMAIN points' :
            (points'[i].mount = points'[j].mount => i = j) /\ (i < j => mounts'[points'[i].mount].parent # points'[j].mount)
    <3> TAKE i, j \in DOMAIN points'
    <3>1. i \in DOMAIN points /\ j \in DOMAIN points /\ points'[i] = points[i] /\ points'[j] = points[j] /\ points[i].mount # m
      BY <2>5, <2>7
    <3>2. points[i].mount \in DOMAIN mounts
      BY <1>3, <3>1 DEF Pinned
    <3> QED
      BY <1>3, <2>2, <3>1, <3>2
  <2>13. HelperInv'
    BY <1>1, <2>1, <2>6, <2>8, <2>9, <2>10, <2>11, <2>12 DEF HelperInv, Viewing
  <2>14. Basic' /\ PhaseInv' /\ UseInv'
    BY <1>1, <2>1 DEF Basic, PhaseInv, UseInv, RetainedForCause
  <2> QED
    BY <2>2, <2>4, <2>13, <2>14, Together
<1> QED
  BY <1>9, <1>10, <1>11 DEF CloseChild, p

\* AttachmentLease::close.
LEMMA CloseViewKept == ASSUME IInv, CloseView PROVE IInv'
<1>1. Basic /\ PlanInv /\ TreeInv /\ PhaseInv /\ HelperInv /\ UseInv /\ helper = "closing" /\ points = <<>>
  BY Parts DEF CloseView
<1> DEFINE m == Base
<1>2. m \in DOMAIN mounts /\ Children = {} /\ m[1] = "helper" /\ mounts[m].parent = None
  BY <1>1 DEF HelperInv, View, ToolView, Base
<1>3. m \in Of("helper") /\ Of("helper") = {m}
  BY <1>2 DEF Of, Children
<1>4. \A x \in DOMAIN mounts : mounts[x].parent # m
  <2> SUFFICES ASSUME NEW x \in DOMAIN mounts, mounts[x].parent = m PROVE FALSE
    OBVIOUS
  <2>1. m # None
    BY <1>1, <1>2, TreeFacts
  <2>2. x[1] = "helper" /\ x # m
    BY <1>1, <1>2, <2>1, TreeFacts, IdFacts DEF TreeInv
  <2> QED
    BY <1>3, <2>2 DEF Of
<1> HIDE DEF m
<1>5. Busy(m) => held # {}
  BY <1>1, <1>3, <1>4, HelperBusy
<1>6. CASE Busy(m) /\ HelperRetains /\ UNCHANGED fault
  BY <1>1, <1>5, <1>6, HelperRetainsKept DEF Basic
<1>7. CASE mounts' = Without({m}) /\ helper' = "closed" /\ Idle /\ UNCHANGED <<dirs, lazy, pinned, points, fault>>
  <2>1. /\ plan' = plan /\ bootstrap' = bootstrap /\ dirs' = dirs /\ lazy' = lazy /\ held' = held /\ phase' = phase /\ walk' = walk
        /\ leases' = leases /\ tool' = tool /\ pinned' = pinned /\ points' = points /\ moves' = moves /\ directives' = directives /\ fault' = fault
    BY <1>7 DEF Idle, stage, supervisor
  <2>2. /\ PlanInv' /\ TreeInv' /\ DOMAIN mounts' = DOMAIN mounts \ {m} /\ \A x \in DOMAIN mounts' : mounts'[x] = mounts[x]
        /\ \A side : Of(side)' = Of(side) \ {m}
    BY <1>1, <1>2, <1>4, <1>7, <2>1, MountGone
  <2>3. StageSame /\ ToolKept /\ Of("tool")' = Of("tool")
    BY <1>2, <2>2 DEF StageSame, OwnKept, StageKept, ToolKept, Of
  <2>4. LeaseInv' /\ ToolInv' /\ WalkInv' /\ ShownInv' /\ ViewInv'
    BY <1>7, <2>1, <2>2, <2>3, SupervisorStays, NoView DEF Starting
  <2>5. HelperInv'
    <3>1. Of("helper")' = {} /\ ~pinned'
      BY <1>1, <1>3, <2>1, <2>2 DEF HelperInv
    <3>2. points' = <<>> /\ DOMAIN points' = {} /\ points' \in Seq([mount : Ids, parent : AnyLocation, name : STRING])
      BY <1>1, <2>1 DEF HelperInv
    <3> QED
      BY <1>7, <3>1, <3>2 DEF HelperInv, Viewing
  <2>6. Basic' /\ PhaseInv' /\ UseInv'
    BY <1>1, <1>7, <2>1 DEF Basic, PhaseInv, UseInv, RetainedForCause
  <2> QED
    BY <2>2, <2>4, <2>5, <2>6, Together
<1> QED
  BY <1>6, <1>7 DEF CloseView, m

\* The helper's namespace goes away, with the mounts that are left in it.
LEMMA HelperExitsKept == ASSUME IInv, HelperExits PROVE IInv'
<1>1. Basic /\ PhaseInv /\ HelperInv /\ UseInv /\ helper \in {"failed", "retained", "closed"}
  BY Parts DEF HelperExits
<1>2. /\ plan' = plan /\ bootstrap' = bootstrap /\ dirs' = dirs /\ held' = held /\ walk' = walk /\ leases' = leases /\ tool' = tool
      /\ moves' = moves /\ directives' = directives /\ fault' = fault /\ pinned' = FALSE /\ points' = <<>>
      /\ mounts' = Without(Of("helper")) /\ lazy' = lazy \cup (Of("helper") \cap held)
      /\ \/ helper = "closed" /\ helper' = "none" /\ phase' \in {"close", "undo"}
         \/ helper = "failed" /\ helper' = "lost" /\ phase' = "undo"
         \/ helper = "retained" /\ helper' = "lost" /\ phase' = "retained"
  BY DEF HelperExits, Detach, stage, history
<1>3. PlanInv' /\ TreeInv' /\ StageSame /\ ToolKept /\ Of("tool")' = Of("tool") /\ Of("helper")' = {}
  BY <1>2, HelperGone
<1>7. phase = "mounted" /\ helper' \in {"none", "lost"} /\ phase' \in {"close", "undo", "retained"}
  BY <1>1, <1>2 DEF PhaseInv
<1>4. LeaseInv' /\ ToolInv' /\ WalkInv' /\ ShownInv' /\ ViewInv'
  BY <1>2, <1>3, <1>7, SupervisorStays, NoView
<1>5. HelperInv'
  <2>1. DOMAIN points' = {} /\ points' \in Seq([mount : Ids, parent : AnyLocation, name : STRING])
    BY <1>2
  <2> QED
    BY <1>2, <1>3, <2>1 DEF HelperInv, Viewing
<1>6. Basic' /\ PhaseInv' /\ UseInv'
  <2>1. lazy' \subseteq Ids /\ \A m \in lazy' : m[1] = "helper"
    BY <1>1, <1>2, <1>7, LazyIs DEF Basic
  <2>2. helper = "closed" => lazy' = {}
    BY <1>1, <1>2, <1>7 DEF HelperInv, UseInv
  <2>3. Basic'
    BY <1>1, <1>2, <1>7, <2>1 DEF Basic, Phases
  <2>4. PhaseInv'
    <3>1. Len(plan) \in Nat
      BY LengthsAre, Parts
    <3> QED
      BY <1>1, <1>2, <1>7, <3>1 DEF PhaseInv
  <2>5. UseInv'
    BY <1>1, <1>2, <1>7, <2>1, <2>2 DEF UseInv, RetainedForCause
  <2> QED
    BY <2>3, <2>4, <2>5
<1> QED
  BY <1>3, <1>4, <1>5, <1>6, Together

-----------------------------------------------------------------------------
(* The command *)

\* A command changes directories that nothing is mounted on.
LEMMA CommandKept ==
  ASSUME IInv, helper = "running", moves < MaxMoves, moves' = moves + 1, Forest(dirs', Len(plan) + 1), DOMAIN dirs' = DOMAIN dirs, PointsKept,
         UNCHANGED <<stage, mounts, lazy, held, supervisor, helperState, directives, fault>>
  PROVE  IInv'
<1>1. Basic /\ PlanInv /\ TreeInv /\ LeaseInv /\ ToolInv /\ PhaseInv /\ WalkInv /\ HelperInv /\ UseInv
  BY Parts
<1>2. /\ plan' = plan /\ bootstrap' = bootstrap /\ mounts' = mounts /\ lazy' = lazy /\ held' = held /\ phase' = phase /\ walk' = walk
      /\ leases' = leases /\ tool' = tool /\ helper' = helper /\ pinned' = pinned /\ points' = points /\ directives' = directives /\ fault' = fault
  BY DEF stage, supervisor, helperState
<1>3. PlanInv' /\ TreeInv'
  <2>1. PlanInv'
    BY <1>1, <1>2 DEF PlanInv
  <2>2. TreeInv'
    BY <1>1, <1>2 DEF TreeInv
  <2> QED
    BY <2>1, <2>2
<1>4. StageSame /\ HelperKept /\ Of("helper")' = Of("helper") /\ ToolKept /\ Of("tool")' = Of("tool")
  <2>1. \A side : Of(side)' = Of(side)
    BY <1>2 DEF Of
  <2>2. \A side : \A m \in Of(side) : m \in DOMAIN mounts
    BY DEF Of
  <2> QED
    BY <1>2, <2>1, <2>2 DEF StageSame, OwnKept, StageKept, HelperKept, ToolKept
<1>5. LeaseInv'
  BY <1>1, <1>2, <1>4, LeasesStay
<1>6. HelperInv'
  BY <1>1, <1>2, <1>4, HelperStays
<1>7. moves' \in 0..MaxMoves
  BY <1>1, StageIsSound DEF Basic, StageAssumption
<1>8. phase = "mounted" /\ walk = None
  BY <1>1 DEF PhaseInv
<1>9. WalkInv' /\ ShownInv' /\ ViewInv' /\ ToolInv'
  BY <1>1, <1>2, <1>4, <1>8, NoView, ToolStays DEF WalkInv, ShownInv, Starting
<1>10. Basic' /\ PhaseInv' /\ UseInv'
  BY <1>1, <1>2, <1>7, <1>8 DEF Basic, PhaseInv, UseInv, RetainedForCause
<1> QED
  BY <1>3, <1>5, <1>6, <1>9, <1>10, Together

\* A command moves a directory.
LEMMA MoveKept == ASSUME IInv, Move PROVE IInv'
<1>1. PlanInv /\ TreeInv /\ helper = "running" /\ moves < MaxMoves /\ moves' = moves + 1
      /\ UNCHANGED <<stage, mounts, lazy, held, supervisor, helperState, directives, fault>>
  BY Parts DEF Move
<1>2. PICK d \in DOMAIN dirs : d[2] # 0 /\ ~IsMountPoint(d) /\
       \E to \in {x \in DOMAIN dirs : x[1] = d[1] /\ ~dirs[x].link /\ d \notin Above(x)}, name \in Names :
         Free(to, name) /\ dirs' = [dirs EXCEPT ![d].up = to, ![d].name = name]
  BY DEF Move
<1>3. PICK to \in {x \in DOMAIN dirs : x[1] = d[1] /\ ~dirs[x].link /\ d \notin Above(x)}, name \in Names :
         Free(to, name) /\ dirs' = [dirs EXCEPT ![d].up = to, ![d].name = name]
  BY <1>2
<1>4. /\ to \in DOMAIN dirs /\ to[1] = d[1] /\ d \notin AboveOf(dirs, to) /\ name \in STRING
      /\ \A x \in DOMAIN dirs : dirs[x].up # to \/ dirs[x].name # name
  BY <1>3, Views, StageIsSound DEF Free, StageAssumption
<1>5. Len(plan) + 1 \in Nat /\ Forest(dirs, Len(plan) + 1)
  BY <1>1, TreeFacts
<1>6. Forest(dirs', Len(plan) + 1) /\ DOMAIN dirs' = DOMAIN dirs /\ \A x \in DOMAIN dirs : x # d => dirs'[x] = dirs[x]
  BY <1>2, <1>3, <1>4, <1>5, Moved
<1>7. PointsKept
  BY <1>2, <1>6 DEF PointsKept, IsMountPoint
<1> QED
  BY <1>1, <1>6, <1>7, CommandKept

\* A command puts a link in the place of a directory.
LEMMA PutLinkKept == ASSUME IInv, PutLink PROVE IInv'
<1>1. PlanInv /\ TreeInv /\ helper = "running" /\ moves < MaxMoves /\ moves' = moves + 1
      /\ UNCHANGED <<stage, mounts, lazy, held, supervisor, helperState, directives, fault>>
  BY Parts DEF PutLink
<1>2. PICK d \in DOMAIN dirs : dirs' = [dirs EXCEPT ![d].link = TRUE]
  BY DEF PutLink
<1>3. Len(plan) + 1 \in Nat /\ Forest(dirs, Len(plan) + 1)
  BY <1>1, TreeFacts
<1>4. DOMAIN dirs' = DOMAIN dirs /\ \A x \in DOMAIN dirs : Relinked(dirs, dirs', x)
  <2>1. \A x \in DOMAIN dirs : Placed(dirs, Len(plan) + 1, x)
    BY <1>3, ForestFacts
  <2> SUFFICES ASSUME NEW x \in DOMAIN dirs PROVE Relinked(dirs, dirs', x)
    BY <1>2
  <2>2. dirs[x] \in [up : DOMAIN dirs \cup {None}, name : STRING, link : BOOLEAN]
    BY <2>1 DEF Placed
  <2> QED
    BY <1>2, <2>2 DEF Relinked
<1>5. Forest(dirs', Len(plan) + 1)
  BY <1>3, <1>4, Linked
<1>6. PointsKept
  BY <1>4 DEF PointsKept, Relinked
<1> QED
  BY <1>1, <1>4, <1>5, <1>6, CommandKept

-----------------------------------------------------------------------------
(* The supervisor unmounts. *)

\* Whose turn it is: no helper is there any more.
LEMMA VolumeTurnIs ==
  ASSUME IInv, VolumeTurn
  PROVE  /\ phase \in {"close", "undo", "seal", "rollback"} /\ leases # <<>> /\ walk = None /\ helper \in {"none", "lost"}
         /\ phase \in {"close", "undo"} => Len(leases) > Len(plan)
<1>1. PlanInv /\ LeaseInv /\ PhaseInv
  BY Parts
<1>2. Len(plan) \in Nat /\ Len(leases) \in Nat
  BY <1>1, LengthsAre
<1>3. Len(leases) > Len(plan) => leases # <<>>
  <2> SUFFICES ASSUME Len(leases) > Len(plan), leases = <<>> PROVE FALSE
    OBVIOUS
  <2>1. Len(leases) = 0
    OBVIOUS
  <2> QED
    BY <1>2, <2>1
<1> QED
  BY <1>1, <1>3 DEF VolumeTurn, PhaseInv

\* What is retained, or stranded until the tools are away, is only for the helper's or the fault's sake.
LEMMA RetainIs ==
  ASSUME IInv, VolumeTurn, Retain, helper' = helper, walk' = walk, leases' = leases, tool' = tool, plan' = plan, bootstrap' = bootstrap
  PROVE  phase' \in {"stranded", "retained"} /\ WalkInv' /\ ShownInv' /\ PhaseInv'
<1>1. PhaseInv /\ phase \in {"close", "undo", "seal", "rollback"} /\ walk = None /\ helper \in {"none", "lost"}
  BY Parts, VolumeTurnIs
<1>2. phase' \in {"stranded", "retained"} /\ (phase' = "stranded" => helper = "none")
  BY <1>1 DEF Retain, PhaseInv
<1> QED
  BY <1>1, <1>2 DEF WalkInv, ShownInv, PhaseInv

\* MountLease::close, first half.
LEMMA ReleaseKept == ASSUME IInv, Release PROVE IInv'
<1>1. /\ Basic /\ PlanInv /\ TreeInv /\ LeaseInv /\ ToolInv /\ PhaseInv /\ HelperInv /\ ViewInv /\ UseInv
      /\ phase \in {"close", "undo", "seal", "rollback"} /\ leases # <<>>
  BY Parts, VolumeTurnIs DEF Release
<1>2. /\ plan' = plan /\ bootstrap' = bootstrap /\ dirs' = dirs /\ mounts' = mounts /\ lazy' = lazy /\ held' = held /\ walk' = walk /\ tool' = tool
      /\ helper' = helper /\ pinned' = pinned /\ points' = points /\ moves' = moves /\ directives' = directives
  BY DEF Release, stage, helperState
<1>3. PlanInv' /\ TreeInv' /\ ToolInv' /\ HelperInv' /\ ViewInv'
  BY <1>1, <1>2, Unmoved, QuietHelper, ToolStays
<1>4. walk = None /\ helper \in {"none", "lost"}
  BY VolumeTurnIs DEF Release
<1>5. CASE leases' = [leases EXCEPT ![Len(leases)].open = FALSE] /\ phase' = phase /\ fault' = fault
  <2> DEFINE n == Len(leases)
             V == [mount : Ids, parent : AnyLocation \cup {None}, name : STRING \cup {None}, open : BOOLEAN]
             last == [leases[n] EXCEPT !.open = FALSE]
  <2>1. leases \in Seq(V) /\ n \in Nat /\ n # 0 /\ n \in DOMAIN leases /\ DOMAIN leases = 1..n
    BY <1>1, LengthsAre DEF LeaseInv
  <2>2. leases' = [leases EXCEPT ![n] = last]
    BY <1>5
  <2>3. /\ last \in V /\ last.mount = leases[n].mount /\ last.parent = leases[n].parent /\ last.name = leases[n].name
    <3>1. leases[n] \in V
      <4> HIDE DEF V, n, last
      <4> QED
        BY <2>1
    <3>2. \A a, b, c, o, e : [[mount |-> a, parent |-> b, name |-> c, open |-> o] EXCEPT !.open = e] = [mount |-> a, parent |-> b, name |-> c, open |-> e]
      OBVIOUS
    <3>5. PICK a, b, c, o : leases[n] = [mount |-> a, parent |-> b, name |-> c, open |-> o]
      <4>1. leases[n] = [mount |-> leases[n].mount, parent |-> leases[n].parent, name |-> leases[n].name, open |-> leases[n].open]
        BY <3>1
      <4> HIDE DEF V
      <4> QED
        BY <4>1
    <3>3. last = [mount |-> leases[n].mount, parent |-> leases[n].parent, name |-> leases[n].name, open |-> FALSE]
      <4>1. leases[n].mount = a /\ leases[n].parent = b /\ leases[n].name = c
        BY <3>5
      <4>2. ASSUME NEW e PROVE [leases[n] EXCEPT !.open = e] = [mount |-> a, parent |-> b, name |-> c, open |-> e]
        <5> HIDE DEF V, n, last
        <5> QED
          BY <3>2, <3>5
      <4> QED
        BY <4>1, <4>2
    <3>4. leases[n].mount \in Ids /\ leases[n].parent \in AnyLocation \cup {None} /\ leases[n].name \in STRING \cup {None}
      BY <3>1
    <3> HIDE DEF last
    <3> QED
      BY <3>3, <3>4
  <2> HIDE DEF n, V, last
  <2>4. leases' \in Seq(V) /\ Len(leases') = Len(leases) /\ DOMAIN leases' = DOMAIN leases
    BY <2>1, <2>2, <2>3 DEF n
  <2>5. \A i \in DOMAIN leases : leases'[i].mount = leases[i].mount /\ leases'[i].parent = leases[i].parent /\ leases'[i].name = leases[i].name
    BY <2>1, <2>2, <2>3
  <2>6. Of("own")' \cup Of("supervisor")' = {leases'[i].mount : i \in DOMAIN leases'}
    <3>1. {leases'[i].mount : i \in DOMAIN leases'} = {leases[i].mount : i \in DOMAIN leases}
      BY <2>4, <2>5
    <3>2. \A side : Of(side)' = Of(side)
      BY <1>2 DEF Of
    <3> QED
      BY <1>1, <3>1, <3>2 DEF LeaseInv
  <2>7. \A i \in DOMAIN leases :
          /\ leases'[i].mount = Leased(i)'
          /\ IF i <= Len(plan) + 1 THEN leases'[i].parent = None /\ mounts'[Leased(i)'].parent = None ELSE Pinned(leases[i])'
    <3> TAKE i \in DOMAIN leases
    <3>1. /\ leases[i].mount = Leased(i)
          /\ IF i <= Len(plan) + 1 THEN leases[i].parent = None /\ mounts[Leased(i)].parent = None ELSE Pinned(leases[i])
      BY <1>1 DEF LeaseInv
    <3>2. Leased(i)' = Leased(i)
      BY <1>2 DEF Leased, Own, Clone
    <3>3. ASSUME Pinned(leases[i]) PROVE Pinned(leases[i])'
      <4>1. leases'[i].mount = leases[i].mount /\ leases'[i].parent = leases[i].parent /\ leases'[i].name = leases[i].name
        BY <2>5
      <4>2. ASSUME NEW p, NEW q, p.mount = q.mount, p.parent = q.parent, p.name = q.name, Pinned(p) PROVE Pinned(q)'
        BY <1>2, <4>2 DEF Pinned, Locations
      <4> QED
        BY <3>3, <4>1, <4>2
    <3> QED
      BY <1>2, <2>5, <3>1, <3>2, <3>3
  <2>8. LeaseInv'
    <3>1. leases' \in Seq([mount : Ids, parent : AnyLocation \cup {None}, name : STRING \cup {None}, open : BOOLEAN])
      BY <2>4 DEF V
    <3>2. Len(leases') <= 2 * Len(plan') + 1
      BY <1>1, <1>2, <2>4 DEF LeaseInv
    <3>3. \A i \in DOMAIN leases' :
            /\ leases'[i].mount = Leased(i)'
            /\ IF i <= Len(plan') + 1 THEN leases'[i].parent = None /\ mounts'[Leased(i)'].parent = None ELSE Pinned(leases[i])'
      BY <1>2, <2>4, <2>7
    <3> QED
      BY <2>6, <3>1, <3>2, <3>3 DEF LeaseInv
  <2>9. WalkInv' /\ ShownInv'
    BY <1>1, <1>2, <1>4, <1>5 DEF WalkInv, ShownInv
  <2>10. Basic' /\ PhaseInv' /\ UseInv'
    BY <1>1, <1>2, <1>4, <1>5 DEF Basic, PhaseInv, UseInv, RetainedForCause
  <2> QED
    BY <1>3, <2>8, <2>9, <2>10, Together
<1>6. CASE fault' = TRUE /\ Retain /\ leases' = leases
  <2>1. LeaseInv'
    BY <1>1, <1>2, <1>6, Unmoved, LeasesStay
  <2>2. phase' \in {"stranded", "retained"} /\ WalkInv' /\ ShownInv' /\ PhaseInv'
    BY <1>2, <1>6, RetainIs DEF Release
  <2>3. Basic' /\ UseInv'
    BY <1>1, <1>2, <1>4, <1>6, <2>2 DEF Basic, Phases, UseInv, RetainedForCause
  <2> QED
    BY <1>3, <2>1, <2>2, <2>3, Together
<1> QED
  BY <1>5, <1>6 DEF Release

\* The last lease is for a mount that nothing of the stage is on or uses any more.
LEMMA LastLease ==
  ASSUME PlanInv, TreeInv, LeaseInv, HelperInv, leases # <<>>, ~Last(leases).open
  PROVE  LET m == Last(leases).mount
         IN  /\ m \in DOMAIN mounts /\ m = Leased(Len(leases)) /\ m[1] \notin {"helper", "tool"} /\ Target(Last(leases)) = {Top(m)}
             /\ \A x \in DOMAIN mounts : mounts[x].parent # m
             /\ Busy(m) => held # {}
<1> DEFINE n == Len(leases)
           p == Last(leases)
           m == p.mount
<1>1. Len(plan) \in Nat /\ n \in Nat \ {0} /\ n \in DOMAIN leases /\ DOMAIN leases = 1..n /\ p = leases[n]
  BY LengthsAre DEF LeaseInv, Last
<1>2. \A i \in DOMAIN leases :
        /\ Leased(i) \in DOMAIN mounts /\ leases[i].mount = Leased(i)
        /\ IF i <= Len(plan) + 1 THEN leases[i].parent = None /\ mounts[Leased(i)].parent = None
           ELSE Pinned(leases[i]) /\ leases[i].parent # None
  BY LeasedMount
<1>3. m = Leased(n) /\ m \in DOMAIN mounts
  BY <1>1, <1>2
<1> HIDE DEF n, p
<1>4. m[1] \in {"own", "supervisor"} /\ m[2] \in Nat /\ m \in Ids /\ m # None
  BY <1>1, <1>3, LeasedDiffer, IdFacts, TreeFacts
<1>5. Target(p) = {Top(m)}
  <2>1. CASE p.parent = None
    BY <2>1 DEF Target
  <2>2. CASE p.parent # None
    <3>1. Pinned(p)
      BY <1>1, <1>2, <2>2
    <3> QED
      BY <2>2, <3>1, NamedIs DEF Target
  <2> QED
    BY <2>1, <2>2
<1> HIDE DEF m
<1>6. \A x \in DOMAIN mounts : mounts[x].parent # m
  <2> SUFFICES ASSUME NEW x \in DOMAIN mounts, mounts[x].parent = m PROVE FALSE
    OBVIOUS
  <2>1. x[1] = m[1] /\ (m[2] < x[2] \/ x[2] = 0) /\ x \in Ids /\ x[2] \in Nat
    BY <1>4, IdFacts DEF TreeInv
  <2>2. PICK i \in DOMAIN leases : i \in Nat \ {0} /\ i <= n /\ x = Leased(i)
    BY <1>4, <2>1, MountsAreLeased DEF n
  <2>3. i > Len(plan) + 1
    BY <1>1, <1>2, <1>4, <2>2
  <2>4. x = <<"supervisor", i - Len(plan) - 1>> /\ m = <<"supervisor", n - Len(plan) - 1>>
    BY <1>1, <1>3, <2>2, <2>3, LeasedDiffer
  <2>5. x[2] = i - Len(plan) - 1 /\ m[2] = n - Len(plan) - 1
    BY <2>4
  <2> QED
    BY <1>1, <2>1, <2>2, <2>3, <2>5
<1>7. ~Pins(m)
  <2>1. \A i \in DOMAIN leases : ~(leases[i].open /\ leases[i].mount = m)
    <3> SUFFICES ASSUME NEW i \in DOMAIN leases, leases[i].open, leases[i].mount = m PROVE FALSE
      OBVIOUS
    <3>1. Leased(i) = Leased(n) /\ i \in Nat \ {0}
      BY <1>1, <1>2, <1>3
    <3>2. i = n
      BY <1>1, <3>1, LeasedDiffer
    <3> QED
      BY <1>1, <3>2 DEF p
  <2>2. \A i \in DOMAIN leases : ~(leases[i].parent # None /\ leases[i].parent.m = m)
    <3> SUFFICES ASSUME NEW i \in DOMAIN leases, leases[i].parent # None, leases[i].parent.m = m PROVE FALSE
      OBVIOUS
    <3>1. Pinned(leases[i])
      BY <1>2
    <3>2. leases[i].mount \in DOMAIN mounts /\ mounts[leases[i].mount].parent = m
      BY <3>1 DEF Pinned
    <3> QED
      BY <1>6, <3>2
  <2>3. m # Base /\ m # Tool
    BY <1>4 DEF View, ToolView, Base, Tool
  <2>4. \A i \in DOMAIN points : points[i].parent.m # m
    BY <1>4 DEF HelperInv
  <2> QED
    BY <2>1, <2>2, <2>3, <2>4 DEF Pins
<1>8. Busy(m) => held # {}
  BY <1>6, <1>7 DEF Busy
<1> QED
  BY <1>3, <1>4, <1>5, <1>6, <1>8 DEF m, n, p

\* MountLease::close, second half.
LEMMA CloseKept == ASSUME IInv, Close PROVE IInv'
<1> DEFINE n == Len(leases)
           m == Last(leases).mount
<1>1. /\ Basic /\ PlanInv /\ TreeInv /\ LeaseInv /\ ToolInv /\ PhaseInv /\ HelperInv /\ UseInv
      /\ phase \in {"close", "undo", "seal", "rollback"} /\ leases # <<>> /\ ~Last(leases).open
  BY Parts, VolumeTurnIs DEF Close
<1>2. /\ plan' = plan /\ bootstrap' = bootstrap /\ dirs' = dirs /\ held' = held /\ walk' = walk /\ tool' = tool
      /\ helper' = helper /\ pinned' = pinned /\ points' = points /\ moves' = moves /\ directives' = directives /\ fault' = fault /\ lazy' = lazy
  BY DEF Close, stage, helperState, history
<1>3. walk = None /\ helper \in {"none", "lost"} /\ (phase \in {"close", "undo"} => n > Len(plan))
  BY VolumeTurnIs DEF Close
<1>4. /\ m \in DOMAIN mounts /\ m = Leased(n) /\ m[1] \notin {"helper", "tool"} /\ Target(Last(leases)) = {Top(m)}
      /\ \A x \in DOMAIN mounts : mounts[x].parent # m
      /\ Busy(m) => held # {}
  BY <1>1, LastLease
<1>5. Unmount(Top(m)) /\ Top(m).m = m
  BY <1>4 DEF Close, Top
<1>6. CASE Busy(m) /\ Retain /\ mounts' = mounts /\ leases' = leases
  <2>1. PlanInv' /\ TreeInv' /\ LeaseInv' /\ ToolInv' /\ HelperInv' /\ ViewInv'
    BY <1>1, <1>2, <1>6, Unmoved, LeasesStay, ToolStays, QuietHelper
  <2>2. phase' \in {"stranded", "retained"} /\ WalkInv' /\ ShownInv' /\ PhaseInv'
    BY <1>2, <1>6, RetainIs DEF Close
  <2>3. Basic' /\ UseInv'
    BY <1>1, <1>2, <1>3, <1>4, <1>6, <2>2 DEF Basic, Phases, UseInv, RetainedForCause
  <2> QED
    BY <2>1, <2>2, <2>3, Together
<1>7. CASE mounts' = Without({m}) /\ leases' = Front(leases) /\ phase' = phase
  <2> HIDE DEF m, n
  <2>1. /\ PlanInv' /\ TreeInv' /\ DOMAIN mounts' = DOMAIN mounts \ {m} /\ \A x \in DOMAIN mounts' : mounts'[x] = mounts[x]
        /\ \A side : Of(side)' = Of(side) \ {m}
    BY <1>1, <1>2, <1>4, <1>7, MountGone
  <2>2. n \in Nat \ {0} /\ Len(plan) \in Nat /\ DOMAIN leases = 1..n /\ n <= 2 * Len(plan) + 1
    BY <1>1, LengthsAre DEF n, LeaseInv
  <2>3. Len(leases') = n - 1 /\ DOMAIN leases' = 1..(n - 1) /\ \A i \in 1..(n - 1) : i \in DOMAIN leases /\ leases'[i] = leases[i]
    BY <1>1, <1>7, <2>2 DEF Front, n, LeaseInv
  <2>4. leases' \in Seq([mount : Ids, parent : AnyLocation \cup {None}, name : STRING \cup {None}, open : BOOLEAN])
    <3> DEFINE V == [mount : Ids, parent : AnyLocation \cup {None}, name : STRING \cup {None}, open : BOOLEAN]
    <3>1. leases \in Seq(V)
      BY <1>1 DEF LeaseInv
    <3> HIDE DEF V
    <3>2. leases' = SubSeq(leases, 1, n - 1)
      BY <1>7 DEF Front, n
    <3>3. leases' \in Seq(V)
      BY <2>2, <3>1, <3>2
    <3> QED
      BY <3>3 DEF V
  <2>5. \A i \in 1..(n - 1) :
          /\ leases[i].mount = Leased(i) /\ Leased(i) \in DOMAIN mounts /\ Leased(i) # m
          /\ IF i <= Len(plan) + 1 THEN leases[i].parent = None /\ mounts[Leased(i)].parent = None
             ELSE Pinned(leases[i]) /\ leases[i].parent # None
    <3> TAKE i \in 1..(n - 1)
    <3>1. i \in DOMAIN leases /\ i \in Nat \ {0} /\ i # n
      BY <2>2, <2>3
    <3>2. Leased(i) # m
      BY <1>4, <2>2, <3>1, LeasedDiffer
    <3> QED
      BY <1>1, <3>1, <3>2, LeasedMount
  <2>6. \A i \in DOMAIN leases' :
          /\ leases'[i].mount = Leased(i)'
          /\ IF i <= Len(plan') + 1 THEN leases'[i].parent = None /\ mounts'[Leased(i)'].parent = None ELSE Pinned(leases[i])'
    <3> TAKE i \in DOMAIN leases'
    <3>1. i \in 1..(n - 1) /\ leases'[i] = leases[i]
      BY <2>3
    <3>2. Leased(i)' = Leased(i) /\ Leased(i) \in DOMAIN mounts' /\ mounts'[Leased(i)] = mounts[Leased(i)]
      BY <1>2, <2>1, <2>5, <3>1 DEF Leased, Own, Clone
    <3>3. ASSUME Pinned(leases[i]) PROVE Pinned(leases[i])'
      <4>1. ASSUME NEW p, p = leases[i] PROVE Pinned(p)'
        <5>1. PointsKept
          BY <1>2 DEF PointsKept
        <5>2. p.mount \in DOMAIN mounts' /\ mounts'[p.mount] = mounts[p.mount]
          BY <2>5, <3>1, <3>2, <4>1
        <5>3. Pinned(p)
          BY <3>3, <4>1
        <5> QED
          BY <1>1, <5>1, <5>2, <5>3, PinnedStays
      <4> QED
        BY <3>1, <4>1
    <3> QED
      BY <1>2, <2>5, <3>1, <3>2, <3>3
  <2>7. Of("own")' \cup Of("supervisor")' = {leases'[i].mount : i \in DOMAIN leases'}
    <3>1. Of("own")' \cup Of("supervisor")' = (Of("own") \cup Of("supervisor")) \ {m}
      BY <2>1
    <3>2. leases[n].mount = m /\ \A i \in 1..(n - 1) : leases[i].mount # m
      BY <1>1, <2>2, <2>5 DEF m, n, Last
    <3>3. {leases[i].mount : i \in DOMAIN leases} \ {m} = {leases'[i].mount : i \in DOMAIN leases'}
      BY <2>2, <2>3, <3>2
    <3> QED
      BY <1>1, <3>1, <3>3 DEF LeaseInv
  <2>8. LeaseInv'
    <3>1. Len(leases') <= 2 * Len(plan') + 1
      BY <1>2, <2>2, <2>3
    <3> QED
      BY <2>4, <2>6, <2>7, <3>1 DEF LeaseInv
  <2>9. HelperInv'
    <3>1. Of("helper")' = {} /\ ~pinned'
      BY <1>1, <1>2, <1>3, <2>1 DEF HelperInv
    <3>2. points' = <<>> /\ DOMAIN points' = {} /\ points' \in Seq([mount : Ids, parent : AnyLocation, name : STRING])
      BY <1>1, <1>2, <1>3 DEF HelperInv
    <3> QED
      BY <1>2, <1>3, <3>1, <3>2 DEF HelperInv, Viewing
  <2>10. WalkInv' /\ ShownInv' /\ ViewInv'
    BY <1>1, <1>2, <1>3, <1>7, NoView DEF WalkInv, ShownInv
  <2>12. ToolInv'
    BY <1>1, <1>2, <1>4, <2>1, ToolStays DEF ToolKept, Of
  <2>13. PhaseInv'
    <3>1. Len(plan') = Len(plan) /\ (phase' \in {"close", "undo"} => Len(leases') >= Len(plan))
      BY <1>2, <1>3, <1>7, <2>2, <2>3
    <3> QED
      BY <1>1, <1>2, <1>3, <1>7, <3>1 DEF PhaseInv
  <2>11. Basic' /\ UseInv'
    BY <1>1, <1>2, <1>3, <1>7 DEF Basic, UseInv, RetainedForCause
  <2> QED
    BY <2>1, <2>8, <2>9, <2>10, <2>11, <2>12, <2>13, Together
<1> QED
  BY <1>4, <1>5, <1>6, <1>7 DEF Unmount

\* Nothing lies in the tools' mount or uses it, once the supervisor does not.
LEMMA ToolFree ==
  ASSUME PlanInv, TreeInv, LeaseInv, ToolInv, HelperInv, tool # None
  PROVE  /\ Tool \in DOMAIN mounts /\ Tool[1] = "tool" /\ \A x \in DOMAIN mounts : mounts[x].parent # Tool
         /\ ~tool.open /\ Busy(Tool) => held # {}
<1>1. Tool \in DOMAIN mounts /\ Tool[1] = "tool" /\ Of("tool") = {Tool} /\ mounts[Tool].parent = None
  BY DEF ToolInv, Tool, Of
<1>2. Tool # None
  BY <1>1, TreeFacts
<1>3. \A x \in DOMAIN mounts : mounts[x].parent # Tool
  <2> SUFFICES ASSUME NEW x \in DOMAIN mounts, mounts[x].parent = Tool PROVE FALSE
    OBVIOUS
  <2>1. x[1] = "tool"
    BY <1>1, <1>2 DEF TreeInv
  <2>2. x = Tool
    BY <1>1, <2>1 DEF Of
  <2> QED
    BY <1>1, <1>2, <2>2
<1>4. \A i \in DOMAIN leases : leases[i].mount # Tool /\ ~(leases[i].parent # None /\ leases[i].parent.m = Tool)
  <2> TAKE i \in DOMAIN leases
  <2>1. Len(plan) \in Nat /\ i \in Nat \ {0}
    BY LengthsAre
  <2>2. /\ leases[i].mount = Leased(i) /\ Leased(i) \in DOMAIN mounts /\ Leased(i)[1] \in {"own", "supervisor"}
        /\ leases[i].parent # None => Pinned(leases[i])
    BY <2>1, LeasedMount, LeasedDiffer
  <2>3. leases[i].parent # None => mounts[Leased(i)].parent = leases[i].parent.m
    BY <2>2 DEF Pinned
  <2> QED
    BY <1>1, <1>3, <2>2, <2>3
<1>5. Base # Tool
  BY DEF Base, ToolView, View, Tool
<1>6. \A i \in DOMAIN points : points[i].parent.m # Tool
  BY <1>1 DEF HelperInv
<1> QED
  BY <1>1, <1>3, <1>4, <1>5, <1>6 DEF Busy, Pins

\* Whose turn it is, with the tools.
LEMMA ToolTurnIs ==
  ASSUME IInv, ToolTurn
  PROVE  phase \in {"close", "undo", "rollback", "stranded"} /\ walk = None /\ helper \in {"none", "lost"} /\ tool # None
  BY Parts DEF ToolTurn, PhaseInv

\* The tools are synchronised, or given up.
LEMMA ReleaseToolKept == ASSUME IInv, ReleaseTool PROVE IInv'
<1>1. /\ Basic /\ PlanInv /\ TreeInv /\ LeaseInv /\ ToolInv /\ PhaseInv /\ HelperInv /\ UseInv
      /\ phase \in {"close", "undo", "rollback", "stranded"} /\ walk = None /\ helper \in {"none", "lost"} /\ tool # None
  BY Parts, ToolTurnIs DEF ReleaseTool
<1>2. /\ plan' = plan /\ bootstrap' = bootstrap /\ dirs' = dirs /\ mounts' = mounts /\ lazy' = lazy /\ held' = held /\ walk' = walk
      /\ leases' = leases /\ helper' = helper /\ pinned' = pinned /\ points' = points /\ moves' = moves /\ directives' = directives
  BY DEF ReleaseTool, stage, helperState
<1>3. \/ tool' = [open |-> FALSE] /\ phase' = phase /\ fault' = fault
      \/ fault' = TRUE /\ phase' = "retained" /\ tool' = tool
  BY DEF ReleaseTool
<1>4. PlanInv' /\ TreeInv' /\ LeaseInv' /\ HelperInv' /\ ViewInv'
  BY <1>1, <1>2, Unmoved, LeasesStay, QuietHelper
<1>5. tool' # None /\ tool' \in [open : BOOLEAN]
  <2>1. [open |-> FALSE] \in [open : BOOLEAN]
    OBVIOUS
  <2> QED
    BY <1>1, <1>3, <2>1, ToolFacts DEF ToolInv
<1>6. ToolInv'
  BY <1>1, <1>2, <1>5 DEF ToolInv, Of, Tool
<1>7. WalkInv' /\ ShownInv' /\ PhaseInv'
  BY <1>1, <1>2, <1>3, <1>5 DEF WalkInv, ShownInv, PhaseInv
<1>8. Basic' /\ UseInv'
  BY <1>1, <1>2, <1>3 DEF Basic, Phases, UseInv, RetainedForCause
<1> QED
  BY <1>4, <1>6, <1>7, <1>8, Together

\* BootstrapVolumes::unmount_until, the tools.
LEMMA CloseToolKept == ASSUME IInv, CloseTool PROVE IInv'
<1>1. /\ Basic /\ PlanInv /\ TreeInv /\ LeaseInv /\ ToolInv /\ PhaseInv /\ HelperInv /\ UseInv
      /\ phase \in {"close", "undo", "rollback", "stranded"} /\ walk = None /\ helper \in {"none", "lost"} /\ tool # None
  BY Parts, ToolTurnIs DEF CloseTool
<1>2. /\ plan' = plan /\ bootstrap' = bootstrap /\ dirs' = dirs /\ lazy' = lazy /\ held' = held /\ walk' = walk /\ fault' = fault
      /\ leases' = leases /\ helper' = helper /\ pinned' = pinned /\ points' = points /\ moves' = moves /\ directives' = directives
  BY DEF CloseTool, stage, helperState, history
<1>3. /\ Tool \in DOMAIN mounts /\ Tool[1] = "tool" /\ \A x \in DOMAIN mounts : mounts[x].parent # Tool
      /\ Busy(Tool) => held # {}
  BY <1>1, ToolFree DEF CloseTool
<1>4. CASE Busy(Tool) /\ phase' = "retained" /\ mounts' = mounts /\ tool' = tool
  <2>1. PlanInv' /\ TreeInv' /\ LeaseInv' /\ ToolInv' /\ HelperInv' /\ ViewInv'
    BY <1>1, <1>2, <1>4, Unmoved, LeasesStay, ToolStays, QuietHelper
  <2>2. WalkInv' /\ ShownInv' /\ PhaseInv'
    BY <1>1, <1>2, <1>4 DEF WalkInv, ShownInv, PhaseInv
  <2>3. Basic' /\ UseInv'
    BY <1>1, <1>2, <1>3, <1>4 DEF Basic, Phases, UseInv, RetainedForCause
  <2> QED
    BY <2>1, <2>2, <2>3, Together
<1>5. CASE mounts' = Without({Tool}) /\ tool' = None /\ phase' = IF phase = "stranded" THEN "retained" ELSE phase
  <2>1. /\ PlanInv' /\ TreeInv' /\ DOMAIN mounts' = DOMAIN mounts \ {Tool} /\ \A x \in DOMAIN mounts' : mounts'[x] = mounts[x]
        /\ \A side : Of(side)' = Of(side) \ {Tool}
    BY <1>1, <1>2, <1>3, <1>5, MountGone
  <2>2. StageSame /\ HelperKept /\ Of("helper")' = Of("helper")
    BY <1>3, <2>1 DEF StageSame, OwnKept, StageKept, HelperKept, Of
  <2>3. PointsKept
    BY <1>2 DEF PointsKept
  <2>4. LeaseInv' /\ HelperInv'
    BY <1>1, <1>2, <2>2, <2>3, LeasesStay, HelperStays
  <2>5. ToolInv'
    BY <1>1, <1>5, <2>1 DEF ToolInv
  <2>6. WalkInv' /\ ShownInv' /\ PhaseInv' /\ ViewInv'
    BY <1>1, <1>2, <1>5, NoView DEF WalkInv, ShownInv, PhaseInv
  <2>7. Basic' /\ UseInv'
    BY <1>1, <1>2, <1>5 DEF Basic, Phases, UseInv, RetainedForCause
  <2> QED
    BY <2>1, <2>4, <2>5, <2>6, <2>7, Together
<1> QED
  BY <1>4, <1>5 DEF CloseTool

-----------------------------------------------------------------------------
(* The components of a mount path *)

\* A directory in the next one, which may have been made for it.
Inside(l, d, name) ==
  d \in DOMAIN dirs' /\ d[2] # 0 /\ d[1] = l.d[1] /\ dirs'[d].up = l.d /\ dirs'[d].name = name /\ ~dirs'[d].link

\* The next component of a lookup: a directory that was there or is made.
LEMMA Entered ==
  ASSUME PlanInv, TreeInv, NEW l, l.d \in DOMAIN dirs, NEW name \in STRING, NEW d,
         IF Entry(l, name) = {} THEN dirs' = Made(dirs, l.d, name) /\ d = NextFree(dirs, l.d) ELSE dirs' = dirs /\ d \in Plain(l, name)
  PROVE  Forest(dirs', Len(plan) + 1) /\ DirsKept /\ PointsKept /\ Inside(l, d, name) /\ (d \notin DOMAIN dirs \/ dirs' = dirs)
<1> DEFINE n == Len(plan) + 1
           u == l.d
<1>1. n \in Nat /\ Forest(dirs, n) /\ \A x \in DOMAIN dirs : Placed(dirs, n, x)
  BY TreeFacts, ForestFacts
<1>2. None \notin DOMAIN dirs
  BY <1>1, ForestFacts
<1>3. \A x \in DOMAIN dirs : dirs[x].up = u => x[1] = u[1] /\ x[2] # 0
  BY <1>1, <1>2 DEF Placed
<1> HIDE DEF n
<1>4. CASE Entry(l, name) = {}
  <2>1. \A x \in DOMAIN dirs : dirs[x].up # u \/ dirs[x].name # name
    BY <1>3, <1>4 DEF Entry
  <2> HIDE DEF u
  <2>2. Grew(dirs, u, name, n) /\ dirs' = Made(dirs, u, name) /\ d = NextFree(dirs, u)
    BY <1>1, <1>4, <2>1, Grown DEF u
  <2>3. d[1] = u[1]
    BY <2>2 DEF NextFree
  <2>4. /\ Forest(dirs', n) /\ DOMAIN dirs' = DOMAIN dirs \cup {d} /\ d \notin DOMAIN dirs
        /\ d[2] # 0 /\ dirs'[d] = [up |-> u, name |-> name, link |-> FALSE]
        /\ \A x \in DOMAIN dirs : dirs'[x] = dirs[x]
    BY <2>2 DEF Grew
  <2>5. dirs'[d].up = u /\ dirs'[d].name = name /\ ~dirs'[d].link
    BY <2>4
  <2> QED
    BY <2>3, <2>4, <2>5 DEF n, u, DirsKept, PointsKept, Inside
<1>5. CASE Entry(l, name) # {}
  <2>1. d \in Entry(l, name) /\ ~dirs[d].link /\ dirs' = dirs
    BY <1>5 DEF Plain
  <2>2. d \in DOMAIN dirs /\ dirs[d].up = u /\ dirs[d].name = name
    BY <2>1 DEF Entry
  <2> QED
    BY <1>1, <1>3, <2>1, <2>2 DEF n, DirsKept, PointsKept, Inside
<1> QED
  BY <1>4, <1>5

\* What is reached by a path stays so one step further, on a mount too.
Further(l, d) ==
  Good("supervisor", l) /\ d \in DOMAIN dirs /\ d[2] # 0 /\ dirs[d].up = l.d /\ ~dirs[d].link =>
    Good("supervisor", Cross(At(l, d))) /\ PathTo(Cross(At(l, d))) = PathTo(l) \o <<dirs[d].name>> /\ PathTo(l) \in Seq(STRING)

\* A component further, a location is reached by a longer path.
LEMMA FurtherHolds == PlanInv /\ TreeInv => \A l, d : Further(l, d)
<1> SUFFICES ASSUME PlanInv, TreeInv, NEW l, NEW d, Good("supervisor", l), d \in DOMAIN dirs, d[2] # 0, dirs[d].up = l.d, ~dirs[d].link
             PROVE  Good("supervisor", Cross(At(l, d))) /\ PathTo(Cross(At(l, d))) = PathTo(l) \o <<dirs[d].name>> /\ PathTo(l) \in Seq(STRING)
  BY DEF Further
<1> DEFINE k == At(l, d)
<1>1. k.m = l.m /\ k.d = d /\ k = [m |-> k.m, d |-> k.d]
  BY DEF At
<1>2. l.m \in DOMAIN mounts /\ l.m[1] = "supervisor" /\ l.d \in DOMAIN dirs /\ l.d[1] = l.m[2] /\ Clear(l)
  BY DEF Good, Place
<1>3. d[1] = l.d[1] /\ Above(d) = {d} \cup Above(l.d)
  <2>1. Placed(dirs, Len(plan) + 1, d)
    BY RelOfDir
  <2>2. d[1] = dirs[d].up[1]
    BY <2>1 DEF Placed
  <2> QED
    BY <2>2, AboveDir
<1>4. PathTo(l) \in Seq(STRING) /\ Paths[l.m] \o Rel[d] = PathTo(l) \o <<dirs[d].name>>
  <2>1. Paths[l.m] \in Seq(STRING) /\ Rel[l.d] \in Seq(STRING) /\ dirs[d].name \in STRING /\ Rel[d] = Rel[l.d] \o <<dirs[d].name>>
    BY <1>2, PathOf, RelOfDir
  <2>2. /\ Paths[l.m] \o (Rel[l.d] \o <<dirs[d].name>>) = (Paths[l.m] \o Rel[l.d]) \o <<dirs[d].name>>
        /\ Paths[l.m] \o Rel[l.d] \in Seq(STRING)
    BY <2>1, JoinedNames, Zenon
  <2> QED
    BY <2>1, <2>2, Zenon DEF PathTo
<1> HIDE DEF k
<1>5. CASE On(k) = {}
  <2>1. Cross(k) = k
    BY <1>1, <1>2, <1>5, CrossIs
  <2>2. Clear(k)
    <3> SUFFICES ASSUME NEW x \in Above(d), x[2] # 0 PROVE ~dirs[x].link /\ On(At(k, x)) = {}
      BY <1>1 DEF Clear
    <3>1. CASE x = d
      BY <1>1, <1>5, <3>1 DEF At
    <3>2. CASE x \in Above(l.d)
      BY <1>1, <1>2, <3>2 DEF Clear, At
    <3> QED
      BY <1>3, <3>1, <3>2
  <2>3. Good("supervisor", k)
    BY <1>1, <1>2, <1>3, <2>2 DEF Good, Place
  <2> QED
    BY <1>1, <1>4, <2>1, <2>3 DEF PathTo, k
<1>6. CASE On(k) # {}
  <2>1. PICK x \in On(k) : TRUE
    BY <1>6
  <2>2. x \in DOMAIN mounts /\ Cross(k) = Top(x) /\ mounts[x].parent = l.m /\ mounts[x].on = d
    BY <1>1, <1>2, <2>1, CrossIs DEF On
  <2>3. Top(x) = [m |-> x, d |-> <<x[2], 0>>] /\ <<x[2], 0>> \in DOMAIN dirs /\ l.m # None
    BY <1>2, <2>2, TreeFacts
  <2>4. x[1] = "supervisor"
    BY <1>2, <2>2, <2>3 DEF TreeInv
  <2> DEFINE t == <<x[2], 0>>
  <2>5. t[1] = x[2] /\ t[2] = 0 /\ Top(x).m = x /\ Top(x).d = t
    BY <2>3
  <2>6. Above(t) = {t} /\ Rel[t] = <<>>
    BY <2>3, <2>5, AboveDir, RelOfDir
  <2>7. Clear(Top(x))
    BY <2>5, <2>6 DEF Clear
  <2>8. Good("supervisor", Top(x))
    BY <2>2, <2>3, <2>4, <2>5, <2>7 DEF Good, Place
  <2>9. PathTo(Top(x)) = Paths[l.m] \o Rel[d]
    <3>1. Paths[x] \in Seq(STRING) /\ Paths[x] = Paths[l.m] \o Rel[d]
      BY <2>2, <2>3, PathOf
    <3>2. Paths[x] \o <<>> = Paths[x]
      BY <3>1
    <3> QED
      BY <2>5, <2>6, <3>1, <3>2 DEF PathTo
  <2> QED
    BY <1>4, <2>2, <2>8, <2>9 DEF k
<1> QED
  BY <1>5, <1>6 DEF k

Unpacks(V, a, s) ==
  /\ Len(s) \in Nat \ {0} /\ Head(s) \in V /\ Tail(s) \in Seq(V) /\ Len(Tail(s)) = Len(s) - 1
  /\ a \o s = (a \o <<Head(s)>>) \o Tail(s)

\* A path is its first name and the rest,
LEMMA UnpackedAny == ASSUME NEW V, NEW a \in Seq(V), NEW s \in Seq(V), s # <<>> PROVE Unpacks(V, a, s)
<1>1. Len(s) \in Nat \ {0} /\ Head(s) \in V /\ Tail(s) \in Seq(V) /\ Len(Tail(s)) = Len(s) - 1
  OBVIOUS
<1> DEFINE left == a \o s
           mid == a \o <<Head(s)>>
           right == mid \o Tail(s)
<1>2. mid \in Seq(V) /\ Len(mid) = Len(a) + 1 /\ \A i \in 1..(Len(a) + 1) : mid[i] = IF i <= Len(a) THEN a[i] ELSE s[1]
  BY <1>1
<1>3. left \in Seq(V) /\ Len(left) = Len(a) + Len(s) /\ \A i \in 1..(Len(a) + Len(s)) : left[i] = IF i <= Len(a) THEN a[i] ELSE s[i - Len(a)]
  OBVIOUS
<1>4. \A i \in 1..(Len(s) - 1) : Tail(s)[i] = s[i + 1]
  OBVIOUS
<1> HIDE DEF mid
<1>5. right \in Seq(V) /\ Len(right) = Len(a) + Len(s) /\ \A i \in 1..(Len(a) + Len(s)) :
         right[i] = IF i <= Len(a) + 1 THEN mid[i] ELSE s[i - Len(a)]
  BY <1>1, <1>2, <1>4
<1> HIDE DEF left, right
<1>6. \A i \in 1..(Len(a) + Len(s)) : left[i] = right[i]
  <2> TAKE i \in 1..(Len(a) + Len(s))
  <2>1. Len(a) \in Nat
    OBVIOUS
  <2>2. CASE i <= Len(a)
    <3>1. i \in 1..(Len(a) + 1)
      BY <2>1, <2>2
    <3>2. left[i] = a[i]
      BY <1>3, <2>2
    <3>3. mid[i] = a[i]
      BY <1>2, <2>2, <3>1
    <3>4. right[i] = mid[i]
      BY <1>5, <3>1
    <3> QED
      BY <3>2, <3>3, <3>4
  <2>3. CASE i = Len(a) + 1
    BY <1>1, <1>2, <1>3, <1>5, <2>1, <2>3
  <2>4. CASE i > Len(a) + 1
    BY <1>1, <1>3, <1>5, <2>1, <2>4
  <2> QED
    BY <1>1, <2>1, <2>2, <2>3, <2>4
<1>7. left = right
  BY <1>3, <1>5, <1>6
<1> QED
  BY <1>1, <1>7 DEF left, right, mid, Unpacks

\* and so it is for names.
LEMMA Unpacked == \A a, s \in Seq(STRING) : s # <<>> => Unpacks(STRING, a, s)
<1> DEFINE V == STRING
<1> HIDE DEF V
<1>1. \A a, s \in Seq(V) : s # <<>> => Unpacks(V, a, s)
  BY UnpackedAny
<1> QED
  BY <1>1 DEF V

\* A concatenation is a sequence,
LEMMA JoinedAny == ASSUME NEW V, NEW a \in Seq(V), NEW b \in Seq(V) PROVE a \o b \in Seq(V)
  OBVIOUS

\* and so it is for names.
LEMMA JoinedSeqs == \A a, b \in Seq(STRING) : a \o b \in Seq(STRING)
<1> DEFINE V == STRING
<1> HIDE DEF V
<1>1. \A a, b \in Seq(V) : a \o b \in Seq(V)
  BY JoinedAny
<1> QED
  BY <1>1 DEF V

\* FurtherHolds, in the next state.
LEMMA NextFurther == ASSUME PlanInv', TreeInv' PROVE \A l, d : Further(l, d)'
<1>1. (PlanInv /\ TreeInv => \A l, d : Further(l, d))'
  BY FurtherHolds, PTL
<1> QED
  BY <1>1

\* What the walk has reached, and what is left of it.
LEMMA WalkedTo ==
  ASSUME IInv, phase = "attach", walk # None
  PROVE  /\ Good("supervisor", walk.at) /\ walk.at.d \in DOMAIN dirs /\ Len(walk.left) \in Nat \ {0}
         /\ Head(walk.left) \in STRING /\ Tail(walk.left) \in Seq(STRING) /\ Len(Tail(walk.left)) = Len(walk.left) - 1
         /\ PathTo(walk.at) \in Seq(STRING)
         /\ plan[Nth] = (PathTo(walk.at) \o <<Head(walk.left)>>) \o Tail(walk.left)
         /\ Nth \in DOMAIN plan /\ Len(plan) \in Nat /\ Nth \in 1..Len(plan) /\ helper = "none" /\ Of("helper") = {}
<1>1. PlanInv /\ TreeInv /\ LeaseInv /\ PhaseInv /\ WalkInv /\ HelperInv
  BY Parts
<1> DEFINE l == walk.at
           s == walk.left
<1>2. /\ Nth \in DOMAIN plan /\ s \in Seq(STRING) /\ s # <<>>
      /\ l \in Locations /\ l.m \in Of("supervisor") /\ l.d[1] = l.m[2] /\ Clear(l) /\ PathTo(l) \o s = plan[Nth]
  BY <1>1 DEF WalkInv
<1> HIDE DEF l, s
<1>3. Good("supervisor", l) /\ l.d \in DOMAIN dirs
  BY <1>2 DEF Good, Place, Of, Locations
<1>4. PathTo(l) \in Seq(STRING)
  <2>1. Paths[l.m] \in Seq(STRING) /\ Rel[l.d] \in Seq(STRING)
    BY <1>1, <1>3, PathOf, RelOfDir DEF Good, Place
  <2> QED
    BY <2>1, JoinedSeqs DEF PathTo
<1>5. Len(s) \in Nat \ {0} /\ Head(s) \in STRING /\ Tail(s) \in Seq(STRING) /\ Len(Tail(s)) = Len(s) - 1
      /\ PathTo(l) \o s = (PathTo(l) \o <<Head(s)>>) \o Tail(s)
  BY <1>2, <1>4, Unpacked DEF Unpacks
<1>6. helper = "none" /\ Of("helper") = {}
  BY <1>1 DEF PhaseInv, HelperInv
<1>7. Len(plan) \in Nat /\ Nth \in 1..Len(plan)
  BY <1>1, <1>2, LengthsAre
<1> QED
  BY <1>2, <1>3, <1>4, <1>5, <1>6, <1>7 DEF l, s

\* A component on the way.
LEMMA PassedKept ==
  ASSUME IInv, phase = "attach", walk # None, Len(walk.left) > 1, NEW d, DirsKept, PointsKept, Forest(dirs', Len(plan) + 1),
         NEW l, l = walk.at, NEW name, name = Head(walk.left), NEW rest, rest = Tail(walk.left), Inside(l, d, name),
         NEW to, to = Cross(At(l, d)), walk' = [at |-> to, left |-> rest],
         UNCHANGED <<stage, mounts, lazy, held, phase, leases, tool, helperState, history>>
  PROVE  IInv'
<1>1. Basic /\ PlanInv /\ TreeInv /\ LeaseInv /\ ToolInv /\ PhaseInv /\ WalkInv /\ ShownInv /\ HelperInv /\ UseInv
  BY Parts
<1>2. /\ plan' = plan /\ bootstrap' = bootstrap /\ mounts' = mounts /\ lazy' = lazy /\ held' = held /\ phase' = phase
      /\ leases' = leases /\ helper' = helper /\ pinned' = pinned /\ points' = points /\ directives' = directives /\ fault' = fault
      /\ moves' = moves /\ tool' = tool
  BY DEF stage, helperState, history
<1>3. PlanInv' /\ TreeInv'
  <2>1. PlanInv'
    BY <1>1, <1>2 DEF PlanInv
  <2>2. TreeInv'
    BY <1>1, <1>2 DEF TreeInv, DirsKept
  <2> QED
    BY <2>1, <2>2
<1>4. StageSame /\ StageKept /\ HelperKept /\ ToolKept /\ \A side : Of(side)' = Of(side)
  <2>1. \A side : Of(side)' = Of(side)
    BY <1>2 DEF Of
  <2>2. \A side : \A m \in Of(side) : m \in DOMAIN mounts
    BY DEF Of
  <2> QED
    BY <1>2, <2>1, <2>2 DEF StageSame, OwnKept, StageKept, HelperKept, ToolKept
<1>5. LeaseInv' /\ HelperInv' /\ ToolInv'
  BY <1>1, <1>2, <1>4, LeasesStay, HelperStays, ToolStays
<1>6. Nth' = Nth
  BY <1>2 DEF Nth
<1>7. ShownInv' /\ ViewInv'
  <2>1. helper' = "none"
    BY <1>2, WalkedTo
  <2> QED
    BY <1>1, <1>2, <1>3, <1>4, <1>6, <2>1, WalkShownKept, NoView
<1>8. /\ Good("supervisor", l) /\ l.d \in DOMAIN dirs /\ Len(walk.left) \in Nat \ {0} /\ name \in STRING /\ rest \in Seq(STRING)
      /\ Len(rest) = Len(walk.left) - 1 /\ PathTo(l) \in Seq(STRING) /\ plan[Nth] = (PathTo(l) \o <<name>>) \o rest /\ Nth \in DOMAIN plan
  BY WalkedTo
<1>9. rest # <<>>
  <2>1. Len(rest) # 0
    BY <1>8
  <2> QED
    BY <2>1
\* The location it comes from is as it was.
<1>10. Good("supervisor", l)' /\ PathTo(l)' = PathTo(l)
  <2>1. Good("supervisor", l) /\ Place("supervisor", l) /\ l.m \in Of("supervisor") /\ l.m \in Ids /\ l.m[1] = "supervisor" /\ Clear(l)
        /\ l.d[1] = l.m[2] /\ l.d \in DOMAIN dirs
    BY <1>1, <1>8, TreeFacts DEF Good, Place, Of
  <2>2. \A m \in DOMAIN mounts' \ Of("supervisor") : mounts'[m].parent # l.m
    BY <1>3, <1>4, <2>1, Elsewhere
  <2>3. Clear(l)' /\ Place("supervisor", l)'
    BY <1>1, <1>2, <1>3, <1>4, <2>1, <2>2, ClearStays
  <2>4. Paths'[l.m] = Paths[l.m] /\ Rel'[l.d] = Rel[l.d]
    BY <1>1, <1>2, <1>3, <1>4, <2>1, PathsStay
  <2> QED
    BY <2>1, <2>3, <2>4 DEF Good, PathTo
<1>11. Cross(At(l, d))' = to
  BY <1>2 DEF Cross, On, Top, At
<1>12. Good("supervisor", to)' /\ PathTo(to)' = PathTo(l) \o <<name>>
  <2>1. Further(l, d)'
    BY <1>3, NextFurther
  <2>2. d \in DOMAIN dirs' /\ d[2] # 0 /\ dirs'[d].up = l.d /\ dirs'[d].name = name /\ ~dirs'[d].link
    BY DEF Inside
  <2>3. Good("supervisor", Cross(At(l, d)))' /\ PathTo(Cross(At(l, d)))' = PathTo(l)' \o <<dirs'[d].name>>
    BY <1>10, <2>1, <2>2 DEF Further
  <2> QED
    BY <1>10, <1>11, <2>2, <2>3
<1>13. WalkInv'
  <2>1. to \in Locations' /\ to.m \in Of("supervisor")' /\ to.d[1] = to.m[2] /\ Clear(to)'
    <3>1. /\ to.m \in DOMAIN mounts' /\ to.m[1] = "supervisor" /\ to.d \in DOMAIN dirs' /\ to = [m |-> to.m, d |-> to.d]
          /\ to.d[1] = to.m[2] /\ Clear(to)'
      BY <1>12 DEF Good, Place
    <3>2. DOMAIN mounts' \subseteq Ids
      BY <1>3, NextTreeFacts
    <3> QED
      BY <3>1, <3>2 DEF Locations, Of
  <2>2. walk'.at = to /\ walk'.left = rest
    OBVIOUS
  <2>3. PathTo(to)' \o rest = plan'[Nth'] /\ Nth' \in DOMAIN plan'
    BY <1>2, <1>6, <1>8, <1>12
  <2> QED
    BY <1>8, <1>9, <2>1, <2>2, <2>3 DEF WalkInv
<1>14. Basic' /\ PhaseInv' /\ UseInv'
  BY <1>1, <1>2 DEF Basic, PhaseInv, UseInv, RetainedForCause
<1> QED
  BY <1>3, <1>5, <1>7, <1>13, <1>14, Together

\* A path with nothing to add is itself,
LEMMA NothingLeftAny == ASSUME NEW V, NEW a \in Seq(V), NEW b \in Seq(V), Len(b) = 0 PROVE a \o b = a
  OBVIOUS

\* and so it is for names.
LEMMA NothingLeft == \A a, b \in Seq(STRING) : Len(b) = 0 => a \o b = a
<1> DEFINE V == STRING
<1> HIDE DEF V
<1>1. \A a, b \in Seq(V) : Len(b) = 0 => a \o b = a
  BY NothingLeftAny
<1> QED
  BY <1>1 DEF V

\* One more name makes a path longer by one,
LEMMA OneMoreAny == ASSUME NEW V, NEW a \in Seq(V), NEW x \in V PROVE a \o <<x>> \in Seq(V) /\ Len(a \o <<x>>) = Len(a) + 1 /\ Len(a) \in Nat
  OBVIOUS

\* and so it is for names.
LEMMA OneMore == \A a \in Seq(STRING), x \in STRING : a \o <<x>> \in Seq(STRING) /\ Len(a \o <<x>>) = Len(a) + 1 /\ Len(a) \in Nat
<1> DEFINE V == STRING
<1> HIDE DEF V
<1>1. \A a \in Seq(V), x \in V : a \o <<x>> \in Seq(V) /\ Len(a \o <<x>>) = Len(a) + 1 /\ Len(a) \in Nat
  BY OneMoreAny
<1> QED
  BY <1>1 DEF V

\* The empty path adds nothing,
LEMMA NothingAddedAny == ASSUME NEW V, NEW a \in Seq(V) PROVE a \o <<>> = a
  OBVIOUS

\* and so it is for names.
LEMMA NothingAdded == \A a \in Seq(STRING) : a \o <<>> = a
<1> DEFINE V == STRING
<1> HIDE DEF V
<1>1. \A a \in Seq(V) : a \o <<>> = a
  BY NothingAddedAny
<1> QED
  BY <1>1 DEF V

\* Lengths add up,
LEMMA JoinedLenAny == ASSUME NEW V, NEW a \in Seq(V), NEW b \in Seq(V) PROVE Len(a \o b) = Len(a) + Len(b) /\ Len(a) \in Nat /\ Len(b) \in Nat
  OBVIOUS

\* and so they do for names.
LEMMA JoinedLen == \A a, b \in Seq(STRING) : Len(a \o b) = Len(a) + Len(b) /\ Len(a) \in Nat /\ Len(b) \in Nat
<1> DEFINE V == STRING
<1> HIDE DEF V
<1>1. \A a, b \in Seq(V) : Len(a \o b) = Len(a) + Len(b) /\ Len(a) \in Nat /\ Len(b) \in Nat
  BY JoinedLenAny
<1> QED
  BY <1>1 DEF V

\* The place of the last component: its path, and that no mount is on it.
LEMMA LastPlace ==
  ASSUME IInv, phase = "attach", walk # None, Len(walk.left) = 1, NEW d, DirsKept, plan' = plan, NEW l, l = walk.at, NEW name, name = Head(walk.left),
         Inside(l, d, name), d \in DOMAIN dirs => dirs' = dirs
  PROVE  /\ plan[Nth] = PathTo(l) \o <<name>> /\ On(At(l, d)) = {} /\ Cross(At(l, d)) = At(l, d)
         /\ d \in DOMAIN dirs => plan[Nth] = Paths[l.m] \o Rel[d]
<1>1. PlanInv /\ TreeInv /\ LeaseInv /\ PhaseInv /\ ShownInv
  BY Parts
<1> DEFINE rest == Tail(walk.left)
<1>2. /\ Good("supervisor", l) /\ l.d \in DOMAIN dirs /\ name \in STRING /\ rest \in Seq(STRING)
      /\ Len(rest) = 0 /\ PathTo(l) \in Seq(STRING) /\ plan[Nth] = (PathTo(l) \o <<name>>) \o rest
      /\ Len(plan) \in Nat /\ Nth \in 1..Len(plan) /\ Nth \in DOMAIN plan
  <2>1. /\ Good("supervisor", l) /\ l.d \in DOMAIN dirs /\ name \in STRING /\ rest \in Seq(STRING)
        /\ Len(rest) = Len(walk.left) - 1 /\ PathTo(l) \in Seq(STRING) /\ plan[Nth] = (PathTo(l) \o <<name>>) \o rest
        /\ Len(plan) \in Nat /\ Nth \in 1..Len(plan) /\ Nth \in DOMAIN plan
    BY WalkedTo
  <2>2. Len(rest) = 0
    BY <2>1
  <2> QED
    BY <2>1, <2>2
<1> HIDE DEF rest
<1>3. plan[Nth] = PathTo(l) \o <<name>>
  <2>1. PathTo(l) \o <<name>> \in Seq(STRING)
    BY <1>2, OneMore
  <2> QED
    BY <1>2, <2>1, NothingLeft
<1>4. ASSUME d \in DOMAIN dirs PROVE plan[Nth] = Paths[l.m] \o Rel[d]
  <2>1. d[2] # 0 /\ dirs[d].up = l.d /\ dirs[d].name = name
    BY <1>4 DEF Inside
  <2>2. Rel[d] = Rel[l.d] \o <<name>> /\ Rel[l.d] \in Seq(STRING)
    BY <1>1, <1>4, <2>1, RelOfDir
  <2>3. Paths[l.m] \in Seq(STRING)
    BY <1>1, <1>2, PathOf DEF Good, Place
  <2>4. Paths[l.m] \o (Rel[l.d] \o <<name>>) = (Paths[l.m] \o Rel[l.d]) \o <<name>>
    BY <1>2, <2>2, <2>3, JoinedNames, Zenon
  <2> QED
    BY <1>3, <2>2, <2>4, Zenon DEF PathTo
<1>5. On(At(l, d)) = {}
  <2> SUFFICES ASSUME NEW x \in On(At(l, d)) PROVE FALSE
    OBVIOUS
  <2>1. x \in DOMAIN mounts /\ mounts[x].parent = l.m /\ mounts[x].on = d
    BY DEF On, At
  <2>2. l.m \in DOMAIN mounts /\ l.m[1] = "supervisor" /\ l.m # None
    BY <1>1, <1>2, TreeFacts DEF Good, Place
  <2>3. d \in DOMAIN dirs /\ x \in Of("supervisor")
    BY <1>1, <2>1, <2>2 DEF TreeInv, Of
  <2>4. PICK i \in 0..(Nth - 1) : x = Clone(i)
    BY <1>1, <2>3, OnlyClones
  <2>5. CloneAt(i)
    BY <1>1, CloneFacts
  <2>6. i # 0
    BY <2>1, <2>2, <2>4, <2>5 DEF CloneAt
  <2>7. i \in 1..(Nth - 1) /\ i # Nth /\ i \in DOMAIN plan
    BY <1>1, <1>2, <2>6, LengthsAre
  <2>8. Paths[x] = plan[i]
    <3>1. helper = "none"
      BY WalkedTo
    <3> QED
      BY <1>1, <2>4, <2>7, <3>1 DEF ShownInv, Starting
  <2>9. Paths[x] = Paths[l.m] \o Rel[d]
    BY <1>1, <2>1, <2>2, PathOf
  <2>10. plan[i] = plan[Nth]
    BY <1>4, <2>3, <2>8, <2>9
  <2> QED
    BY <1>1, <1>2, <2>7, <2>10 DEF PlanInv
<1>6. Cross(At(l, d)) = At(l, d)
  <2>1. At(l, d).m \in DOMAIN mounts
    BY <1>2 DEF At, Good, Place
  <2> QED
    BY <1>1, <1>5, <2>1, CrossIs
<1> QED
  BY <1>3, <1>4, <1>5, <1>6

\* The last component: the clone is mounted there.
LEMMA CloneMade ==
  ASSUME IInv, phase = "attach", walk # None, Len(walk.left) = 1, NEW d, DirsKept, PointsKept, Forest(dirs', Len(plan) + 1),
         NEW l, l = walk.at, NEW name, name = Head(walk.left), Inside(l, d, name), d \in DOMAIN dirs => dirs' = dirs,
         NEW N, N = Nth, mounts' = With(mounts, Clone(N), [fs |-> N, parent |-> l.m, on |-> d]),
         leases' = Append(leases, Lease(Clone(N), l, name)), walk' = None,
         UNCHANGED <<stage, lazy, held, phase, tool, helperState, history>>
  PROVE  IInv'
<1>1. Basic /\ PlanInv /\ TreeInv /\ LeaseInv /\ ToolInv /\ PhaseInv /\ WalkInv /\ ShownInv /\ HelperInv /\ UseInv
  BY Parts
<1>2. /\ plan' = plan /\ bootstrap' = bootstrap /\ lazy' = lazy /\ held' = held /\ phase' = phase
      /\ helper' = helper /\ pinned' = pinned /\ points' = points /\ directives' = directives /\ fault' = fault /\ moves' = moves /\ tool' = tool
  BY DEF stage, helperState, history
<1>3. /\ plan[N] = PathTo(l) \o <<name>> /\ On(At(l, d)) = {}
      /\ d \in DOMAIN dirs => plan[N] = Paths[l.m] \o Rel[d]
  BY <1>2, LastPlace
<1>4. /\ Good("supervisor", l) /\ l.d \in DOMAIN dirs /\ name \in STRING /\ PathTo(l) \in Seq(STRING)
      /\ Len(plan) \in Nat /\ N \in 1..Len(plan) /\ N \in DOMAIN plan /\ helper = "none" /\ Of("helper") = {}
  BY WalkedTo
<1>5. /\ l.m \in Of("supervisor") /\ l.m \in DOMAIN mounts /\ l.m \in Ids /\ l.m[1] = "supervisor" /\ l.m # None /\ l = [m |-> l.m, d |-> l.d]
      /\ l.d[1] = l.m[2] /\ Clear(l) /\ Place("supervisor", l)
  BY <1>1, <1>4, TreeFacts DEF Good, Place, Of
<1>6. d \in DOMAIN dirs' /\ d[2] # 0 /\ d[1] = l.d[1] /\ dirs'[d].up = l.d /\ dirs'[d].name = name /\ ~dirs'[d].link
  BY DEF Inside
<1> DEFINE c == Clone(N)
<1>7. c \in Ids /\ c[1] = "supervisor" /\ c[2] = N /\ c # None
  <2>1. c \in Ids
    BY <1>4 DEF Clone, Ids
  <2> QED
    BY <2>1, IdFacts DEF Clone
<1>8. \A m \in Of("supervisor") : m[2] < N /\ m[2] \in Nat /\ m # c
  <2> TAKE m \in Of("supervisor")
  <2>1. PICK i \in 0..(Nth - 1) : m = Clone(i)
    BY <1>1, OnlyClones
  <2>2. m[2] = i
    BY <2>1 DEF Clone
  <2> QED
    BY <1>4, <1>7, <2>1, <2>2
<1>9. c \notin DOMAIN mounts
  BY <1>7, <1>8 DEF Of
<1>10. /\ DOMAIN mounts' = DOMAIN mounts \cup {c} /\ \A m \in DOMAIN mounts : mounts'[m] = mounts[m]
       /\ mounts'[c] = [fs |-> N, parent |-> l.m, on |-> d]
  BY <1>9 DEF With
<1> HIDE DEF c
<1>11. mounts'[c].fs = N /\ mounts'[c].parent = l.m /\ mounts'[c].on = d
  BY <1>10
<1>12. PlanInv'
  BY <1>1, <1>2 DEF PlanInv
<1>13. TreeInv'
  <2>1. ASSUME NEW m \in DOMAIN mounts
        PROVE  /\ m \in Ids /\ m[2] <= Len(plan) + 1 /\ mounts[m] = [fs |-> m[2], parent |-> mounts[m].parent, on |-> mounts[m].on]
               /\ mounts[m].parent # None =>
                    /\ mounts[m].parent \in DOMAIN mounts /\ mounts[m].parent[1] = m[1]
                    /\ mounts[m].parent[2] < m[2] \/ (m[2] = 0 /\ mounts[mounts[m].parent].parent = None)
                    /\ mounts[m].on \in DOMAIN dirs /\ mounts[m].on[1] = mounts[m].parent[2] /\ mounts[m].on[2] # 0
                    /\ \A y \in DOMAIN mounts : mounts[y].parent = mounts[m].parent /\ mounts[y].on = mounts[m].on => y = m
    BY <1>1 DEF TreeInv
  <2>2. \A m \in DOMAIN mounts : ~(mounts[m].parent = l.m /\ mounts[m].on = d)
    BY <1>3 DEF On, At
  <2> SUFFICES ASSUME NEW m \in DOMAIN mounts'
               PROVE  LET x == mounts'[m]
                      IN  /\ m \in Ids /\ m[2] <= Len(plan) + 1 /\ x = [fs |-> m[2], parent |-> x.parent, on |-> x.on]
                          /\ x.parent # None =>
                               /\ x.parent \in DOMAIN mounts' /\ x.parent[1] = m[1]
                               /\ x.parent[2] < m[2] \/ (m[2] = 0 /\ mounts'[x.parent].parent = None)
                               /\ x.on \in DOMAIN dirs' /\ x.on[1] = x.parent[2] /\ x.on[2] # 0
                               /\ \A y \in DOMAIN mounts' : mounts'[y].parent = x.parent /\ mounts'[y].on = x.on => y = m
    BY <1>2 DEF TreeInv
  <2>3. CASE m \in DOMAIN mounts
    <3>1. mounts'[m] = mounts[m] /\ m # c
      BY <1>9, <1>10, <2>3
    <3>2. \A y \in DOMAIN mounts' : mounts'[y].parent = mounts[m].parent /\ mounts'[y].on = mounts[m].on /\ mounts[m].parent # None => y = m
      BY <1>10, <1>11, <2>1, <2>2, <2>3
    <3> QED
      BY <1>10, <2>1, <2>3, <3>1, <3>2 DEF DirsKept
  <2>4. CASE m = c
    <3>1. \A y \in DOMAIN mounts' : mounts'[y].parent = l.m /\ mounts'[y].on = d => y = c
      BY <1>10, <2>2
    <3>2. N <= Len(plan) + 1 /\ l.m[2] < N
      BY <1>4, <1>5, <1>8
    <3>3. mounts'[c] = [fs |-> c[2], parent |-> l.m, on |-> d]
      BY <1>7, <1>10
    <3> QED
      BY <1>5, <1>6, <1>7, <1>10, <1>11, <2>4, <3>1, <3>2, <3>3
  <2> QED
    BY <1>10, <2>3, <2>4
<1>14. StageKept /\ OwnKept /\ HelperKept /\ ToolKept /\ Of("tool")' = Of("tool") /\ Of("helper")' = {} /\ Of("own")' = Of("own") /\ Of("supervisor")' = Of("supervisor") \cup {c}
  BY <1>4, <1>7, <1>10 DEF StageKept, OwnKept, HelperKept, ToolKept, Of
<1>15. HelperInv'
  <2>1. DOMAIN points' = {} /\ points' \in Seq([mount : Ids, parent : AnyLocation, name : STRING])
    BY <1>1, <1>2, <1>4 DEF HelperInv
  <2> QED
    BY <1>1, <1>2, <1>4, <1>14, <2>1 DEF HelperInv, Viewing
<1> DEFINE n == Len(leases)
           new == Lease(Clone(N), l, name)
<1>16. n \in Nat /\ DOMAIN leases = 1..n /\ N = n - Len(plan) /\ n + 1 <= 2 * Len(plan) + 1 /\ n + 1 > Len(plan) + 1
  BY <1>1, <1>4, LengthsAre DEF Nth
<1>17. new.mount = c /\ new.parent = l /\ new.name = name
       /\ new \in [mount : Ids, parent : AnyLocation \cup {None}, name : STRING \cup {None}, open : BOOLEAN]
  <2>1. l \in AnyLocation
    BY <1>1, <1>5, PlaceIsLocation
  <2> QED
    BY <1>4, <1>7, <2>1 DEF Lease, c
<1> HIDE DEF n, new
<1>18. /\ Len(leases') = n + 1 /\ DOMAIN leases' = 1..(n + 1) /\ leases'[n + 1] = new /\ \A i \in 1..n : leases'[i] = leases[i]
       /\ leases' \in Seq([mount : Ids, parent : AnyLocation \cup {None}, name : STRING \cup {None}, open : BOOLEAN])
  <2> DEFINE V == [mount : Ids, parent : AnyLocation \cup {None}, name : STRING \cup {None}, open : BOOLEAN]
  <2>1. leases \in Seq(V) /\ new \in V
    BY <1>1, <1>17 DEF LeaseInv
  <2> HIDE DEF V
  <2>2. leases' = Append(leases, new)
    BY DEF new
  <2>3. /\ Len(leases') = n + 1 /\ DOMAIN leases' = 1..(n + 1) /\ leases'[n + 1] = new /\ \A i \in 1..n : leases'[i] = leases[i]
        /\ leases' \in Seq(V)
    BY <1>16, <2>1, <2>2 DEF n
  <2> QED
    BY <2>3 DEF V
<1>19. \A i \in DOMAIN leases' :
         /\ leases'[i].mount = Leased(i)'
         /\ IF i <= Len(plan') + 1 THEN leases'[i].parent = None /\ mounts'[Leased(i)'].parent = None ELSE Pinned(leases[i])'
  <2> TAKE i \in DOMAIN leases'
  <2>1. Leased(i)' = Leased(i)
    BY <1>2 DEF Leased, Own, Clone
  <2>2. CASE i = n + 1
    <3>1. Leased(i) = c
      BY <1>16, <2>2 DEF Leased, c
    <3>2. ASSUME NEW p, p = new PROVE Pinned(p)'
      <4>1. p.mount = c /\ p.parent = l /\ p.name = name
        BY <1>17, <3>2
      <4>2. l \in Locations'
        BY <1>4, <1>5 DEF Locations, DirsKept
      <4> QED
        BY <1>6, <1>10, <1>11, <4>1, <4>2 DEF Pinned
    <3>3. leases'[i] = new /\ ~(i <= Len(plan) + 1)
      BY <1>4, <1>16, <1>18, <2>2
    <3> QED
      BY <1>2, <1>17, <2>1, <3>1, <3>2, <3>3
  <2>3. CASE i \in 1..n
    <3>1. i \in DOMAIN leases /\ leases'[i] = leases[i]
      BY <1>16, <1>18, <2>3
    <3>2. /\ Leased(i) \in DOMAIN mounts /\ leases[i].mount = Leased(i)
          /\ IF i <= Len(plan) + 1 THEN leases[i].parent = None /\ mounts[Leased(i)].parent = None
             ELSE Pinned(leases[i]) /\ leases[i].parent # None
      BY <1>1, <3>1, LeasedMount
    <3>3. Leased(i) \in DOMAIN mounts' /\ mounts'[Leased(i)] = mounts[Leased(i)]
      BY <1>10, <3>2
    <3>4. ASSUME NEW p, p = leases[i], Pinned(p) PROVE Pinned(p)'
      BY <1>1, <3>2, <3>3, <3>4, PinnedStays
    <3> QED
      BY <1>2, <2>1, <3>1, <3>2, <3>3, <3>4
  <2> QED
    BY <1>16, <1>18, <2>2, <2>3
<1>20. LeaseInv'
  <2>1. Of("own")' \cup Of("supervisor")' = {leases'[i].mount : i \in DOMAIN leases'}
    <3>1. {leases'[i].mount : i \in DOMAIN leases'} = {leases[i].mount : i \in DOMAIN leases} \cup {c}
      BY <1>16, <1>17, <1>18
    <3> QED
      BY <1>1, <1>14, <3>1 DEF LeaseInv
  <2>2. Len(leases') <= 2 * Len(plan') + 1
    BY <1>2, <1>16, <1>18
  <2> QED
    BY <1>18, <1>19, <2>1, <2>2 DEF LeaseInv
<1>21. WalkInv' /\ ToolInv' /\ ViewInv'
  BY <1>1, <1>2, <1>4, <1>14, ToolStays, NoView DEF WalkInv
<1>22. Basic' /\ PhaseInv' /\ UseInv'
  <2>1. Len(leases') > Len(plan)
    BY <1>4, <1>16, <1>18
  <2> QED
    BY <1>1, <1>2, <1>4, <2>1 DEF Basic, PhaseInv, UseInv, RetainedForCause
<1>23. ShownInv'
  <2>1. Nth' = N + 1
    BY <1>2, <1>4, <1>16, <1>18 DEF Nth
  <2>2. \A m \in Of("supervisor") : Paths'[m] = Paths[m]
    BY <1>2, <1>12, <1>13, <1>1, <1>14, PathsStay
  <2>3. \A x \in DOMAIN dirs : Rel'[x] = Rel[x] /\ Above(x)' = Above(x)
    BY <1>2, <1>12, <1>13, <1>1, <1>14, PathsStay
  \* The new mount is not above the place of an older one.
  <2>4. ASSUME NEW k, Place("supervisor", k), Clear(k), k.m = l.m => d \notin Above(k.d)
        PROVE  Clear(k)'
    <3>1. k.m \in DOMAIN mounts /\ k.m[1] = "supervisor" /\ k.m \in Ids /\ k.m # None
      BY <1>1, <2>4, TreeFacts DEF Place
    <3>2. ASSUME NEW m \in DOMAIN mounts' \ Of("supervisor"), mounts'[m].parent = k.m PROVE mounts'[m].on \notin Above(k.d)
      <4>1. m[1] = "supervisor"
        <5>1. mounts'[m].parent # None => mounts'[m].parent[1] = m[1]
          BY <1>13, <3>2 DEF TreeInv
        <5> QED
          BY <3>1, <3>2, <5>1
      <4>2. m = c
        BY <1>10, <3>2, <4>1 DEF Of
      <4> QED
        BY <1>11, <2>4, <3>2, <4>2
    <3> QED
      BY <1>1, <1>2, <1>12, <1>13, <1>14, <2>4, <3>2, ClearStays
  <2>5. ASSUME NEW k \in DOMAIN dirs, d \in Above(k)
        PROVE  d \in DOMAIN dirs /\ Len(Rel[d]) <= Len(Rel[k]) /\ Len(Rel[d]) \in Nat /\ Len(Rel[k]) \in Nat
    <3>1. d \in AboveOf(dirs, k) /\ Rel = RelOf(dirs) /\ Len(plan) + 1 \in Nat /\ Forest(dirs, Len(plan) + 1)
      BY <1>1, <2>5, Views, TreeFacts
    <3>2. d \in DOMAIN dirs
      BY <1>1, <2>5, AboveDir
    <3>3. \A x \in AboveOf(dirs, k) : Len(RelOf(dirs)[x]) <= Len(RelOf(dirs)[k]) /\ Len(RelOf(dirs)[x]) \in Nat /\ Len(RelOf(dirs)[k]) \in Nat
      BY <3>1, AboveIsShorter
    <3> QED
      BY <3>1, <3>2, <3>3
  <2>6. ASSUME NEW i \in 1..(N - 1)
        PROVE  /\ Paths'[Clone(i)] = plan[i] /\ ~dirs'[mounts'[Clone(i)].on].link
               /\ Under(Clone(i))' = Under(Clone(i)) /\ Clear(Under(Clone(i)))'
    <3> DEFINE k == Under(Clone(i))
               on == mounts[Clone(i)].on
    <3>1. CloneAt(i) /\ i # 0 /\ i \in DOMAIN plan /\ i < N
      BY <1>1, <1>4, CloneFacts, LengthsAre
    <3>2. Paths[Clone(i)] = plan[i] /\ ~dirs[on].link /\ Clear(k)
      BY <1>1, <1>4, <2>6 DEF ShownInv, Under, Starting
    <3>3. Clone(i) \in Of("supervisor") /\ mounts[Clone(i)].parent # None /\ on \in DOMAIN dirs /\ on[2] # 0 /\ Place("supervisor", k)
      BY <3>1 DEF CloneAt
    <3>4. k.m = mounts[Clone(i)].parent /\ k.d = dirs[on].up /\ k.d \in DOMAIN dirs /\ k.m \in DOMAIN mounts
      BY <3>3 DEF Under, Place
    <3>5. Clone(i) \in DOMAIN mounts /\ mounts'[Clone(i)] = mounts[Clone(i)] /\ dirs'[on] = dirs[on]
      BY <1>14, <3>3 DEF StageKept, DirsKept, Of
    <3>6. k' = k
      BY <3>5 DEF Under, Clone
    <3>7. k.m = l.m => d \notin Above(k.d)
      <4> SUFFICES ASSUME k.m = l.m, d \in Above(k.d) PROVE FALSE
        OBVIOUS
      <4>1. d \in DOMAIN dirs /\ Len(Rel[d]) <= Len(Rel[k.d]) /\ Len(Rel[d]) \in Nat /\ Len(Rel[k.d]) \in Nat
        BY <2>5, <3>4
      <4>2. plan[N] = Paths[l.m] \o Rel[d] /\ Rel[d] \in Seq(STRING)
        BY <1>1, <1>3, <4>1, RelOfDir
      <4>3. plan[i] = Paths[l.m] \o Rel[on] /\ Paths[l.m] \in Seq(STRING)
        BY <1>1, <3>2, <3>3, <3>4, <3>5, PathOf
      <4>4. Rel[on] = Rel[k.d] \o <<dirs[on].name>> /\ Rel[k.d] \in Seq(STRING) /\ dirs[on].name \in STRING /\ Rel[on] \in Seq(STRING)
        BY <1>1, <3>3, <3>4, RelOfDir
      <4>5. Len(Rel[on]) = Len(Rel[k.d]) + 1
        BY <4>4, OneMore
      <4>6. Len(plan[N]) = Len(Paths[l.m]) + Len(Rel[d]) /\ Len(plan[i]) = Len(Paths[l.m]) + Len(Rel[on]) /\ Len(Paths[l.m]) \in Nat
        BY <4>2, <4>3, <4>4, JoinedLen
      <4>7. Len(plan[i]) <= Len(plan[N])
        BY <1>1, <1>4, <3>1 DEF PlanInv
      <4> HIDE DEF k, on
      <4> QED
        BY <4>1, <4>5, <4>6, <4>7
    <3>8. ASSUME NEW x, x = k PROVE Clear(x)'
      BY <2>4, <3>2, <3>3, <3>7, <3>8
    <3>9. Clear(k)'
      BY <3>6, <3>8
    <3>10. Paths'[Clone(i)] = Paths[Clone(i)]
      BY <2>2, <3>3
    <3> QED
      BY <3>2, <3>5, <3>6, <3>9, <3>10
  <2>7. Paths'[c] = plan[N] /\ ~dirs'[mounts'[c].on].link /\ Under(c)' = l /\ Clear(l)'
    <3>1. Paths'[c] = Paths'[l.m] \o Rel'[d] /\ Rel'[d] = Rel'[l.d] \o <<name>>
      <4>1. /\ c \in DOMAIN mounts' /\ mounts'[c].parent # None
        BY <1>5, <1>10, <1>11
      <4>2. /\ \A m \in DOMAIN mounts' : Led(dirs', mounts', m)
            /\ Len(plan) + 1 \in Nat /\ Forest(dirs', Len(plan) + 1)
        BY <1>12, <1>13, NextTreeFacts, PathsFacts
      <4>3. PathsOf(dirs', mounts')[c] = PathsOf(dirs', mounts')[l.m] \o RelOf(dirs')[d]
        BY <1>11, <4>1, <4>2 DEF Led
      <4>4. RelOf(dirs')[d] = RelOf(dirs')[l.d] \o <<name>>
        BY <1>6, <4>2, RelFacts
      <4> QED
        BY <4>3, <4>4, NextViews
    <3>2. Paths'[l.m] = Paths[l.m] /\ Rel'[l.d] = Rel[l.d] /\ Paths[l.m] \in Seq(STRING) /\ Rel[l.d] \in Seq(STRING)
      BY <1>1, <1>4, <1>5, <2>2, <2>3, PathOf, RelOfDir
    <3>3. Paths[l.m] \o (Rel[l.d] \o <<name>>) = (Paths[l.m] \o Rel[l.d]) \o <<name>>
      BY <1>4, <3>2, JoinedNames, Zenon
    <3>4. Paths'[c] = plan[N]
      BY <1>3, <3>1, <3>2, <3>3, Zenon DEF PathTo
    <3>5. d \notin Above(l.d)
      <4> SUFFICES ASSUME d \in Above(l.d) PROVE FALSE
        OBVIOUS
      <4>1. d \in DOMAIN dirs /\ Len(Rel[d]) <= Len(Rel[l.d]) /\ Len(Rel[d]) \in Nat /\ Len(Rel[l.d]) \in Nat
        BY <1>4, <2>5
      <4>2. Rel[d] = Rel[l.d] \o <<name>>
        BY <1>4, <2>3, <3>1, <4>1
      <4>3. Len(Rel[d]) = Len(Rel[l.d]) + 1
        BY <1>4, <3>2, <4>2, OneMore
      <4> QED
        BY <4>1, <4>3
    <3>6. Clear(l)'
      BY <1>5, <2>4, <3>5
    <3>7. Under(c)' = l
      <4>1. l = [m |-> mounts'[c].parent, d |-> dirs'[mounts'[c].on].up]
        BY <1>5, <1>6, <1>11
      <4>2. c' = c
        BY DEF c, Clone
      <4> QED
        BY <4>1, <4>2 DEF Under
    <3> QED
      BY <1>6, <1>11, <3>4, <3>6, <3>7
  <2>8. ASSUME NEW i \in 1..(Nth' - 1)
        PROVE  /\ Paths'[Clone(i)] = plan'[i] /\ ~dirs'[mounts'[Clone(i)].on].link
               /\ Clear(Under(Clone(i)))'
    <3>1. i \in 1..(N - 1) \/ i = N
      BY <1>4, <2>1, <2>8
    <3>2. CASE i \in 1..(N - 1)
      BY <1>2, <2>6, <3>2
    <3>3. CASE i = N
      <4>1. Clone(i) = c /\ Under(Clone(i))' = l
        <5>1. Clone(i) = c
          BY <3>3 DEF c
        <5>2. Under(Clone(i))' = Under(c)'
          BY <3>3 DEF c, Under, Clone
        <5> QED
          BY <2>7, <5>1, <5>2
      <4>2. Clear(Under(Clone(i)))'
        BY <2>7, <4>1
      <4> QED
        BY <1>2, <2>7, <3>3, <4>1, <4>2
    <3> QED
      BY <3>1, <3>2, <3>3
  <2> QED
    BY <2>8 DEF ShownInv, Under
<1> QED
  BY <1>12, <1>13, <1>15, <1>20, <1>21, <1>22, <1>23, Together

\* Point::image, one component.
LEMMA ComponentKept == ASSUME IInv, Component PROVE IInv'
<1> DEFINE l == walk.at
           name == Head(walk.left)
           free == <<walk.at.d[1], Cardinality({d \in DOMAIN dirs : d[1] = walk.at.d[1]})>>
           made == IF Entry(walk.at, name) = {}
                   THEN With(dirs, free, [up |-> walk.at.d, name |-> name, link |-> FALSE]) ELSE dirs
           found == IF Entry(walk.at, name) = {} THEN {free} ELSE Plain(walk.at, name)
<1>1. phase = "attach" /\ walk # None
  BY DEF Component
<1>2. PlanInv /\ TreeInv /\ l.d \in DOMAIN dirs /\ name \in STRING /\ Nth \in DOMAIN plan /\ Basic
  BY <1>1, WalkedTo, Parts
<1>3. \/ found = {} /\ Undo /\ UNCHANGED fault
      \/ /\ Len(walk.left) > 1 /\ dirs' = made
         /\ \E d \in found : walk' = [at |-> Cross(At(walk.at, d)), left |-> Tail(walk.left)]
         /\ UNCHANGED <<stage, mounts, lazy, held, phase, leases, tool, helperState, history>>
      \/ /\ Len(walk.left) = 1 /\ dirs' = made
         /\ \E d \in found :
              LET on == Cross(At(walk.at, d))
              IN  mounts' = With(mounts, Clone(Nth), [fs |-> Nth, parent |-> on.m, on |-> on.d])
         /\ leases' = Append(leases, Lease(Clone(Nth), walk.at, name))
         /\ walk' = None
         /\ UNCHANGED <<stage, lazy, held, phase, tool, helperState, history>>
      \/ Fail
  BY DEF Component
<1>4. free = NextFree(dirs, l.d) /\ With(dirs, free, [up |-> walk.at.d, name |-> name, link |-> FALSE]) = Made(dirs, l.d, name)
  BY DEF NextFree, Made
<1>5. ASSUME NEW d \in found, dirs' = made
      PROVE  Forest(dirs', Len(plan) + 1) /\ DirsKept /\ PointsKept /\ Inside(l, d, name) /\ (d \in DOMAIN dirs => dirs' = dirs)
  <2>1. IF Entry(l, name) = {} THEN dirs' = Made(dirs, l.d, name) /\ d = NextFree(dirs, l.d) ELSE dirs' = dirs /\ d \in Plain(l, name)
    BY <1>4, <1>5
  <2> HIDE DEF l, name, free, made, found
  <2> QED
    BY <1>2, <2>1, Entered
<1>6. CASE found = {} /\ Undo /\ UNCHANGED fault
  BY <1>1, <1>2, <1>6, UndoKept DEF Basic
<1>7. CASE /\ Len(walk.left) > 1 /\ dirs' = made
           /\ \E d \in found : walk' = [at |-> Cross(At(walk.at, d)), left |-> Tail(walk.left)]
           /\ UNCHANGED <<stage, mounts, lazy, held, phase, leases, tool, helperState, history>>
  <2>1. PICK d \in found : walk' = [at |-> Cross(At(l, d)), left |-> Tail(walk.left)]
    BY <1>7
  <2>2. Forest(dirs', Len(plan) + 1) /\ DirsKept /\ PointsKept /\ Inside(l, d, name)
    BY <1>5, <1>7
  <2> HIDE DEF free, made, found
  <2>3. ASSUME NEW k, k = walk.at, NEW c, c = Head(walk.left), NEW rest, rest = Tail(walk.left), NEW to, to = Cross(At(k, d))
        PROVE  IInv'
    <3>1. walk' = [at |-> to, left |-> rest] /\ Inside(k, d, c)
      BY <2>1, <2>2, <2>3
    <3> HIDE DEF l, name
    <3> QED
      BY <1>1, <1>7, <2>2, <2>3, <3>1, PassedKept
  <2> QED
    BY <2>3
<1>8. CASE /\ Len(walk.left) = 1 /\ dirs' = made
           /\ \E d \in found :
                LET on == Cross(At(walk.at, d))
                IN  mounts' = With(mounts, Clone(Nth), [fs |-> Nth, parent |-> on.m, on |-> on.d])
           /\ leases' = Append(leases, Lease(Clone(Nth), walk.at, name))
           /\ walk' = None
           /\ UNCHANGED <<stage, lazy, held, phase, tool, helperState, history>>
  <2>1. PICK d \in found : mounts' = With(mounts, Clone(Nth), [fs |-> Nth, parent |-> Cross(At(walk.at, d)).m, on |-> Cross(At(walk.at, d)).d])
    BY <1>8
  <2>2. Forest(dirs', Len(plan) + 1) /\ DirsKept /\ PointsKept /\ Inside(l, d, name) /\ (d \in DOMAIN dirs => dirs' = dirs) /\ plan' = plan
    BY <1>5, <1>8 DEF stage
  <2> HIDE DEF free, made, found
  <2>3. ASSUME NEW k, k = walk.at, NEW c, c = Head(walk.left), NEW N, N = Nth
        PROVE  IInv'
    <3>1. Inside(k, d, c)
      BY <2>2, <2>3
    <3> HIDE DEF l, name
    <3>2. Cross(At(k, d)) = At(k, d)
      BY <1>1, <1>8, <2>2, <2>3, <3>1, LastPlace
    <3>3. mounts' = With(mounts, Clone(N), [fs |-> N, parent |-> k.m, on |-> d])
      BY <2>1, <2>3, <3>2 DEF At
    <3>4. leases' = Append(leases, Lease(Clone(N), k, c))
      BY <1>8, <2>3 DEF name
    <3> QED
      BY <1>1, <1>8, <2>2, <2>3, <3>1, <3>3, <3>4, CloneMade
  <2> QED
    BY <2>3
<1>9. CASE Fail
  BY <1>1, <1>9, FailKept
<1> QED
  BY <1>3, <1>6, <1>7, <1>8, <1>9

-----------------------------------------------------------------------------
(* The stage starts. *)

\* Every stage starts without mounts and leases.
LEMMA InitKept == ASSUME Init PROVE IInv
<1>1. PICK c \in Cases : plan \in MountOrder(c.plan) /\ bootstrap = c.bootstrap /\ dirs = c.dirs
  BY DEF Init
<1>2. /\ mounts = [m \in {} |-> None] /\ lazy = {} /\ held = {} /\ phase = "populate" /\ walk = None /\ leases = <<>> /\ tool = None
      /\ helper = "none" /\ pinned = FALSE /\ points = <<>> /\ moves = 0 /\ directives = 0 /\ fault = FALSE
  BY DEF Init
<1>3. /\ IsFiniteSet(c.plan) /\ c.plan \subseteq Seq(STRING) \ {<<>>} /\ c.bootstrap \in BOOLEAN
      /\ Forest(c.dirs, Cardinality(c.plan) + 1) /\ MaxMoves \in Nat /\ MaxDirectives \in Nat
  BY <1>1, StageIsSound DEF StageAssumption
<1> DEFINE S == c.plan
           P == Seq(STRING) \ {<<>>}
<1>4. plan \in [1..Cardinality(S) -> S] /\ Range(plan) = S /\ \A i, j \in DOMAIN plan : i < j => Len(plan[i]) <= Len(plan[j])
  BY <1>1 DEF MountOrder
<1>5. S \subseteq P
  BY <1>3
<1> HIDE DEF S, P
<1>6. Cardinality(S) \in Nat /\ \A i, j \in DOMAIN plan : plan[i] = plan[j] => i = j
  BY <1>3, <1>4, OnceEach DEF S
<1>7. plan \in Seq(P) /\ Len(plan) = Cardinality(S)
  BY <1>4, <1>5, <1>6
<1>8. PlanInv
  <2>1. plan \in Seq(Seq(STRING) \ {<<>>})
    BY <1>7 DEF P
  <2>2. Forest(dirs, Len(plan) + 1)
    BY <1>1, <1>3, <1>7 DEF S
  <2> QED
    BY <1>4, <1>6, <2>1, <2>2 DEF PlanInv
<1>9. DOMAIN mounts = {} /\ \A side : Of(side) = {}
  BY <1>2 DEF Of
<1>10. TreeInv
  BY <1>9 DEF TreeInv
<1>11. LeaseInv
  <2>1. leases \in Seq([mount : Ids, parent : AnyLocation \cup {None}, name : STRING \cup {None}, open : BOOLEAN]) /\ DOMAIN leases = {} /\ Len(leases) = 0
    BY <1>2
  <2> QED
    BY <1>6, <1>7, <1>9, <2>1 DEF LeaseInv
<1>12. HelperInv
  <2>1. points \in Seq([mount : Ids, parent : AnyLocation, name : STRING]) /\ DOMAIN points = {}
    BY <1>2
  <2> QED
    BY <1>2, <1>9, <2>1 DEF HelperInv, Viewing
<1>13. WalkInv /\ ShownInv /\ UseInv /\ ViewInv /\ ToolInv
  BY <1>2, <1>9 DEF WalkInv, ShownInv, UseInv, RetainedForCause, ViewInv, ToolInv
<1>14. PhaseInv
  BY <1>2, <1>6, <1>7 DEF PhaseInv
<1>15. Basic
  <2>1. bootstrap \in BOOLEAN /\ pinned \in BOOLEAN /\ fault \in BOOLEAN
    BY <1>1, <1>2, <1>3
  <2>2. moves \in 0..MaxMoves /\ directives \in 0..MaxDirectives
    BY <1>2, <1>3
  <2> QED
    BY <1>2, <2>1, <2>2 DEF Basic, Phases
<1>16. TypeOK
  BY <1>8, <1>10, <1>11, <1>12, <1>13, <1>15, TypesFollow
<1> QED
  BY <1>8, <1>10, <1>11, <1>12, <1>13, <1>14, <1>16 DEF IInv

\* The invariant of the mounts is inductive.
LEMMA StepKept == ASSUME IInv, [Next]_vars PROVE IInv'
<1>1. CASE Steps
  BY <1>1, PopulateKept, BeginKept, MountToolKept, MountRootKept, ResolveKept, ComponentKept, MountedKept, PrepareOutputKept, GetViewKept, WithOutputKept,
     AttachKept, CaptureKept, CommandEndsKept, CloseChildKept, CloseViewKept, HelperExitsKept, FinishKept, SealKept,
     ReleaseKept, CloseKept, ReleaseToolKept, CloseToolKept, UnmountedKept, ClosedKept DEF Steps
<1>2. CASE Move
  BY <1>2, MoveKept
<1>3. CASE PutLink
  BY <1>3, PutLinkKept
<1>4. CASE Hold
  BY <1>4, HoldKept
<1>5. CASE UNCHANGED vars
  <2>1. /\ plan' = plan /\ bootstrap' = bootstrap /\ dirs' = dirs /\ mounts' = mounts /\ lazy' = lazy /\ held' = held /\ phase' = phase
        /\ walk' = walk /\ leases' = leases /\ helper' = helper /\ pinned' = pinned /\ points' = points /\ moves' = moves
        /\ directives' = directives /\ fault' = fault /\ tool' = tool
    BY <1>5 DEF vars, stage, supervisor, helperState, history
  <2>2. PlanInv' /\ TreeInv' /\ LeaseInv' /\ ToolInv' /\ ShownInv' /\ WalkInv' /\ HelperInv' /\ ViewInv'
    BY <2>1, QuietStep, QuietHelper
  <2>3. Basic' /\ PhaseInv' /\ UseInv'
    <3>1. Basic /\ PhaseInv /\ UseInv
      BY Parts
    <3> QED
      BY <2>1, <3>1 DEF Basic, PhaseInv, UseInv, RetainedForCause
  <2> QED
    BY <2>2, <2>3, Together
<1> QED
  BY <1>1, <1>2, <1>3, <1>4, <1>5 DEF Next

-----------------------------------------------------------------------------
(* What the invariant says of the stage. *)

\* Where nothing is hidden, the path of a mount shows it.
LEMMA TopShown ==
  ASSUME PlanInv, TreeInv, NEW side, NEW base, Opened(side, base), NEW c, c \in Of(side), NEW path \in Seq(STRING), Paths[c] = path
  PROVE  Walk(Top(base), path) = {Top(c)}
<1> DEFINE t == <<c[2], 0>>
           l == Top(c)
<1>1. c \in DOMAIN mounts /\ c[1] = side
  BY DEF Of
<1>2. l = [m |-> c, d |-> t] /\ t \in DOMAIN dirs
  BY <1>1, TreeFacts
<1>3. t[1] = c[2] /\ t[2] = 0 /\ l.m = c /\ l.d = t /\ Above(t) = {t} /\ Rel[t] = <<>>
  <2>1. t[1] = c[2] /\ t[2] = 0
    OBVIOUS
  <2>2. l.m = c /\ l.d = t
    BY <1>2
  <2> HIDE DEF t, l
  <2>3. Above(t) = {t}
    BY <1>2, <2>1, AboveDir
  <2>4. Rel[t] = <<>>
    BY <1>2, <2>1, RelOfDir
  <2> QED
    BY <2>1, <2>2, <2>3, <2>4
<1> HIDE DEF l, t
<1>4. Good(side, l)
  <2>1. Clear(l)
    BY <1>3 DEF Clear
  <2>2. Place(side, l)
    BY <1>1, <1>2, <1>3 DEF Place
  <2> QED
    BY <1>3, <2>1, <2>2 DEF Good
<1>5. PathTo(l) = path
  <2>1. path \o <<>> = path
    BY NothingAdded
  <2> QED
    BY <1>3, <2>1 DEF PathTo
<1>6. Walk(Top(base), path) = {l}
  BY <1>4, <1>5, Reached
<1> QED
  BY <1>6 DEF l

\* The stage's mounts have the paths of the plan, and nothing hides them.
LEMMA StageOpened ==
  ASSUME IInv, phase = "mounted", helper \in Starting
  PROVE  /\ Opened("supervisor", Root)
         /\ \A k \in 1..Len(plan) : /\ CloneAt(k) /\ Paths[Clone(k)] = plan[k] /\ plan[k] \in Seq(STRING)
                                    /\ ~dirs[mounts[Clone(k)].on].link /\ Clear(Under(Clone(k)))
<1>1. PlanInv /\ TreeInv /\ LeaseInv /\ ShownInv
  BY Parts
<1>2. /\ Len(plan) \in Nat /\ Nth = Len(plan) + 1 /\ Of("supervisor") = {Clone(k) : k \in 0..Len(plan)}
      /\ \A k \in 0..Len(plan) : CloneAt(k)
  BY StageMounted
<1>3. \A k \in 1..Len(plan) : Paths[Clone(k)] = plan[k] /\ ~dirs[mounts[Clone(k)].on].link /\ Clear(Under(Clone(k)))
  BY <1>1, <1>2 DEF ShownInv, Under
<1>4. Opened("supervisor", Root)
  <2> SUFFICES ASSUME NEW m \in Of("supervisor")
               PROVE  IF mounts[m].parent = None THEN m = Root ELSE ~dirs[mounts[m].on].link /\ Clear(Under(m))
    BY DEF Opened
  <2>1. PICK k \in 0..Len(plan) : m = Clone(k)
    BY <1>2
  <2>2. CASE k = 0
    <3>1. CloneAt(0)
      BY <1>2
    <3> QED
      BY <2>1, <2>2, <3>1 DEF CloneAt, Clone, Root
  <2>3. CASE k # 0
    <3>1. CloneAt(k) /\ k \in 1..Len(plan)
      BY <1>2, <2>3
    <3> QED
      BY <1>3, <2>1, <2>3, <3>1 DEF CloneAt
  <2> QED
    BY <2>2, <2>3
<1>5. \A k \in 1..Len(plan) : CloneAt(k) /\ plan[k] \in Seq(STRING)
  BY <1>1, <1>2, LengthsAre DEF PlanInv
<1> QED
  BY <1>3, <1>4, <1>5

\* A mount of the view, and the one it is a copy of.
ViewAt(i) ==
  /\ View(i) \in DOMAIN mounts /\ View(i)[1] = "helper" /\ View(i)[2] = i /\ Clone(i) \in DOMAIN mounts
  /\ i # 0 => /\ \E j \in 0..(i - 1) : mounts[Clone(i)].parent = Clone(j) /\ mounts[View(i)].parent = View(j)
              /\ mounts[Clone(i)].parent # None /\ mounts[View(i)].parent # None
              /\ mounts[View(i)].on = mounts[Clone(i)].on /\ mounts[View(i)].on \in DOMAIN dirs

\* What lies in the output's root lies in its view.
LEMMA ViewPlaces ==
  ASSUME IInv, helper = "capture"
  PROVE  Len(plan) \in Nat /\ \A i \in 0..Len(plan) : ViewAt(i)
<1>1. PlanInv /\ TreeInv /\ LeaseInv /\ PhaseInv /\ HelperInv /\ ViewInv /\ phase = "mounted"
  BY Parts DEF PhaseInv
<1>2. Len(plan) \in Nat /\ Of("supervisor") = {Clone(k) : k \in 0..Len(plan)} /\ \A k \in 0..Len(plan) : CloneAt(k)
  BY <1>1, StageMounted
<1> SUFFICES ASSUME NEW i \in 0..Len(plan) PROVE ViewAt(i)
  BY <1>2
<1>3. View(i) \in DOMAIN mounts /\ View(i)[1] = "helper" /\ View(i)[2] = i
  BY <1>1 DEF HelperInv, Viewing, Of, View
<1>4. Clone(i) \in DOMAIN mounts /\ Clone(i)[1] = "supervisor" /\ Clone(i)[2] = i /\ CloneAt(i)
  BY <1>2 DEF CloneAt, Of
<1>5. ASSUME i # 0
      PROVE  /\ \E j \in 0..(i - 1) : mounts[Clone(i)].parent = Clone(j) /\ mounts[View(i)].parent = View(j)
             /\ mounts[Clone(i)].parent # None /\ mounts[View(i)].parent # None
             /\ mounts[View(i)].on = mounts[Clone(i)].on /\ mounts[View(i)].on \in DOMAIN dirs
  <2>1. mounts[Clone(i)].parent \in Of("supervisor") /\ mounts[Clone(i)].parent # None /\ mounts[Clone(i)].on \in DOMAIN dirs
    BY <1>4, <1>5 DEF CloneAt
  <2>2. PICK j \in 0..Len(plan) : mounts[Clone(i)].parent = Clone(j)
    BY <1>2, <2>1
  <2>3. Clone(j)[2] = j
    BY DEF Clone
  <2>4. j < i
    BY <1>1, <1>4, <1>5, <2>1, <2>2, <2>3 DEF TreeInv
  <2>5. i \in 1..Len(plan)
    BY <1>2, <1>5
  <2>6. mounts[View(i)].on = mounts[Clone(i)].on /\ mounts[View(i)].parent = View(j)
    BY <1>1, <2>2, <2>3, <2>5 DEF ViewInv
  <2>7. View(j) # None
    <3>1. View(j) \in Ids
      BY <1>2 DEF View, Ids
    <3> QED
      BY <3>1, IdFacts
  <2> QED
    BY <1>2, <2>1, <2>2, <2>4, <2>6, <2>7
<1> QED
  BY <1>3, <1>4, <1>5 DEF ViewAt

\* The output's root is the view's, or lies on the tools' mount point.
LEMMA OutputPlace ==
  ASSUME IInv, helper = "capture"
  PROVE  /\ Base \in DOMAIN mounts /\ Base # None /\ mounts[Base].parent = None
         /\ ~bootstrap => Base = View(0)
         /\ bootstrap => LET on == mounts[View(0)].on
                         IN  /\ Base = ToolView /\ mounts[View(0)].parent = Base /\ on \in DOMAIN dirs /\ on[2] # 0 /\ ~dirs[on].link
                             /\ dirs[on].name = Mnt /\ dirs[on].up = <<Len(plan) + 1, 0>> /\ dirs[on].up \in DOMAIN dirs
<1>1. Basic /\ PlanInv /\ TreeInv /\ HelperInv /\ ViewInv
  BY Parts
<1>2. Base \in Of("helper")
  BY <1>1, TreeFacts DEF HelperInv, Viewing, Base
<1>3. Base \in DOMAIN mounts /\ Base # None /\ mounts[Base].parent = None
  BY <1>1, <1>2, TreeFacts DEF ViewInv, Of
<1>4. ASSUME bootstrap
      PROVE  LET on == mounts[View(0)].on
             IN  /\ Base = ToolView /\ mounts[View(0)].parent = Base /\ on \in DOMAIN dirs /\ on[2] # 0 /\ ~dirs[on].link
                 /\ dirs[on].name = Mnt /\ dirs[on].up = <<Len(plan) + 1, 0>> /\ dirs[on].up \in DOMAIN dirs
  <2> DEFINE on == mounts[View(0)].on
  <2>1. mounts[View(0)].parent = Base /\ dirs[on].up = <<Len(plan) + 1, 0>> /\ dirs[on].name = Mnt /\ ~dirs[on].link
    BY <1>1, <1>4 DEF ViewInv
  <2>2. View(0) \in DOMAIN mounts
    BY <1>1, <1>4, ViewPlaces DEF ViewAt
  <2>3. on \in DOMAIN dirs /\ on[2] # 0
    BY <1>1, <1>3, <2>1, <2>2 DEF TreeInv
  <2>4. dirs[on].up \in DOMAIN dirs
    BY <1>1, <2>3, AboveDir
  <2> QED
    BY <1>4, <2>1, <2>3, <2>4 DEF Base
<1> QED
  BY <1>3, <1>4 DEF Base

\* Where the output lies below the command's root.
Entrance == IF bootstrap THEN <<Mnt>> ELSE <<>>

\* Concatenation is associative,
LEMMA Regrouped == \A a, b, c \in Seq(STRING) : a \o (b \o c) = (a \o b) \o c
<1> DEFINE V == STRING
<1> HIDE DEF V
<1>1. \A a, b, c \in Seq(V) : a \o (b \o c) = (a \o b) \o c
  BY ConcatAssociative
<1> QED
  BY <1>1 DEF V

\* and the empty path is neutral.
LEMMA NothingBeforeAny == ASSUME NEW V, NEW x \in V PROVE <<>> \o <<x>> = <<x>> /\ <<x>> \in Seq(V) /\ <<>> \in Seq(V) /\ <<>> \o <<>> = <<>>
  OBVIOUS
LEMMA NothingBefore == \A x \in STRING : <<>> \o <<x>> = <<x>> /\ <<x>> \in Seq(STRING) /\ <<>> \in Seq(STRING)
<1> DEFINE V == STRING
<1> HIDE DEF V
<1>1. \A x \in V : <<>> \o <<x>> = <<x>> /\ <<x>> \in Seq(V) /\ <<>> \in Seq(V)
  BY NothingBeforeAny
<1> QED
  BY <1>1 DEF V

\* The paths of the view are those of the stage, below the entrance.
LEMMA ViewPaths ==
  ASSUME IInv, helper = "capture"
  PROVE  Entrance \in Seq(STRING) /\ \A i \in 0..Len(plan) : Paths[View(i)] = Entrance \o Paths[Clone(i)]
<1>1. Basic /\ PlanInv /\ TreeInv /\ LeaseInv /\ PhaseInv /\ phase = "mounted" /\ Len(plan) \in Nat
  BY Parts, ViewPlaces DEF PhaseInv
<1>2. Mnt \in STRING
  BY StageIsSound DEF StageAssumption
<1>3. Entrance \in Seq(STRING) /\ Entrance \o <<>> = Entrance
  BY <1>2, NothingBefore, NothingAdded DEF Entrance
<1>4. Paths[View(0)] = Entrance \o Paths[Clone(0)]
  <2>1. CloneAt(0) /\ ViewAt(0) /\ View(0) \in DOMAIN mounts /\ Clone(0) \in DOMAIN mounts
    BY <1>1, StageMounted, ViewPlaces DEF ViewAt
  <2>2. Paths[Clone(0)] = <<>>
    BY <1>1, <2>1, PathOf DEF CloneAt
  <2>3. Paths[View(0)] = Entrance
    <3>1. CASE ~bootstrap
      <4>1. mounts[View(0)].parent = None
        BY <3>1, OutputPlace
      <4> QED
        BY <1>1, <2>1, <3>1, <4>1, PathOf DEF Entrance
    <3>2. CASE bootstrap
      <4> DEFINE on == mounts[View(0)].on
      <4>1. /\ mounts[View(0)].parent = Base /\ Base \in DOMAIN mounts /\ Base # None /\ mounts[Base].parent = None
            /\ on \in DOMAIN dirs /\ on[2] # 0 /\ dirs[on].name = Mnt /\ dirs[on].up = <<Len(plan) + 1, 0>> /\ dirs[on].up \in DOMAIN dirs
        BY <3>2, OutputPlace
      <4> HIDE DEF on
      <4>2. Paths[View(0)] = Paths[Base] \o Rel[on] /\ Paths[Base] = <<>>
        BY <1>1, <2>1, <4>1, PathOf DEF on
      <4> DEFINE u == dirs[on].up
      <4>3. u[2] = 0
        BY <4>1
      <4>4. Rel[on] = Rel[u] \o <<dirs[on].name>>
        BY <1>1, <4>1, RelOfDir
      <4> HIDE DEF u
      <4>5. u \in DOMAIN dirs
        BY <4>1 DEF u
      <4>6. Rel[u] = <<>>
        BY <1>1, <4>3, <4>5, RelOfDir
      <4>7. Rel[on] = <<Mnt>>
        BY <1>2, <4>1, <4>4, <4>6, NothingBefore
      <4> QED
        BY <1>2, <3>2, <4>2, <4>7, NothingBefore DEF Entrance
    <3> QED
      BY <1>1, <3>1, <3>2 DEF Basic
  <2> QED
    BY <1>3, <2>2, <2>3
<1>5. ASSUME NEW i \in 1..Len(plan), NEW j \in 0..(i - 1), mounts[Clone(i)].parent = Clone(j), mounts[View(i)].parent = View(j),
             Paths[View(j)] = Entrance \o Paths[Clone(j)]
      PROVE  Paths[View(i)] = Entrance \o Paths[Clone(i)]
  <2>1. ViewAt(i) /\ ViewAt(j)
    BY <1>1, ViewPlaces
  <2> DEFINE on == mounts[Clone(i)].on
  <2>2. Paths[View(i)] = Paths[View(j)] \o Rel[on] /\ Paths[Clone(i)] = Paths[Clone(j)] \o Rel[on]
    <3>1. i # 0 /\ View(i) \in DOMAIN mounts /\ Clone(i) \in DOMAIN mounts /\ mounts[View(i)].parent # None /\ mounts[Clone(i)].parent # None
          /\ mounts[View(i)].on = on
      BY <2>1 DEF ViewAt
    <3>2. Paths[View(i)] = Paths[mounts[View(i)].parent] \o Rel[mounts[View(i)].on]
      BY <1>1, <3>1, PathOf
    <3>3. Paths[Clone(i)] = Paths[mounts[Clone(i)].parent] \o Rel[mounts[Clone(i)].on]
      BY <1>1, <3>1, PathOf
    <3> QED
      BY <1>5, <3>1, <3>2, <3>3
  <2>3. Paths[Clone(j)] \in Seq(STRING) /\ Rel[on] \in Seq(STRING)
    <3>1. Clone(j) \in DOMAIN mounts /\ mounts[View(i)].on = on /\ mounts[View(i)].on \in DOMAIN dirs
      BY <2>1 DEF ViewAt
    <3>2. Paths[Clone(j)] \in Seq(STRING)
      BY <1>1, <3>1, PathOf
    <3>3. on \in DOMAIN dirs
      BY <3>1
    <3> HIDE DEF on
    <3>4. Rel[on] \in Seq(STRING)
      BY <1>1, <3>3, RelOfDir
    <3> QED
      BY <3>2, <3>4
  <2> HIDE DEF on
  <2>4. Entrance \o (Paths[Clone(j)] \o Rel[on]) = (Entrance \o Paths[Clone(j)]) \o Rel[on]
    BY <1>3, <2>3, Regrouped
  <2> QED
    BY <1>5, <2>2, <2>4
<1>6. \A i \in 0..Len(plan) : Paths[View(i)] = Entrance \o Paths[Clone(i)]
  <2> DEFINE S == {k \in 0..Len(plan) : Paths[View(k)] # Entrance \o Paths[Clone(k)]}
  <2> SUFFICES ASSUME S # {} PROVE FALSE
    OBVIOUS
  <2>1. S \subseteq Nat
    BY <1>1
  <2>2. PICK i \in S : \A k \in S : i <= k
    BY <2>1, LeastNumber
  <2>3. i # 0 /\ i \in 1..Len(plan)
    <3>1. i \in 0..Len(plan) /\ Paths[View(i)] # Entrance \o Paths[Clone(i)]
      BY <2>2
    <3>2. i # 0
      BY <1>4, <3>1
    <3> QED
      BY <1>1, <3>1, <3>2
  <2>4. ViewAt(i)
    BY <1>1, <2>2, ViewPlaces
  <2>5. PICK j \in 0..(i - 1) : mounts[Clone(i)].parent = Clone(j) /\ mounts[View(i)].parent = View(j)
    BY <2>3, <2>4 DEF ViewAt
  <2>6. Paths[View(j)] = Entrance \o Paths[Clone(j)]
    BY <1>1, <2>2, <2>3, <2>5
  <2> QED
    BY <1>5, <2>2, <2>3, <2>5, <2>6
<1> QED
  BY <1>3, <1>6

\* Nothing hides a mount of the view.
LEMMA ViewOpened == ASSUME IInv, helper = "capture" PROVE Opened("helper", Base)
<1>1. Basic /\ PlanInv /\ TreeInv /\ LeaseInv /\ PhaseInv /\ HelperInv /\ phase = "mounted"
  BY Parts DEF PhaseInv
<1>2. /\ Len(plan) \in Nat /\ Of("helper") = {View(i) : i \in 0..Len(plan)} \cup (IF bootstrap THEN {ToolView} ELSE {})
      /\ \A i \in 0..Len(plan) : ViewAt(i)
  BY <1>1, ViewPlaces DEF HelperInv, Viewing
<1>3. \A m \in Of("helper") : (\E i \in 1..Len(plan) : m = View(i)) \/ m = Base \/ (bootstrap /\ m = View(0))
  <2> TAKE m \in Of("helper")
  <2>1. CASE bootstrap /\ m = ToolView
    BY <2>1 DEF Base
  <2>2. CASE \E i \in 0..Len(plan) : m = View(i)
    <3>1. PICK i \in 0..Len(plan) : m = View(i)
      BY <2>2
    <3>2. i = 0 \/ i \in 1..Len(plan)
      BY <1>2
    <3> QED
      BY <1>1, <3>1, <3>2 DEF Base, Basic
  <2> QED
    BY <1>1, <1>2, <2>1, <2>2 DEF Basic
<1>4. ASSUME NEW i \in 1..Len(plan) PROVE mounts[View(i)].parent # None /\ ~dirs[mounts[View(i)].on].link /\ Clear(Under(View(i)))
  <2>1. ViewAt(i) /\ i # 0
    BY <1>2
  <2>2. PICK j \in 0..(i - 1) : mounts[Clone(i)].parent = Clone(j) /\ mounts[View(i)].parent = View(j)
    BY <2>1 DEF ViewAt
  <2>3. mounts[View(i)].parent # None /\ mounts[View(i)].on = mounts[Clone(i)].on /\ mounts[View(i)].on \in DOMAIN dirs
    BY <2>1 DEF ViewAt
  <2>4. ~dirs[mounts[Clone(i)].on].link /\ Clear(Under(Clone(i)))
    BY <1>1, StageOpened DEF Starting
  <2> DEFINE up == dirs[mounts[Clone(i)].on].up
  <2>5. Under(View(i)) = [m |-> View(j), d |-> up] /\ Under(Clone(i)) = [m |-> Clone(j), d |-> up]
    BY <2>2, <2>3 DEF Under
  <2> HIDE DEF up
  <2>6. \A x : On([m |-> Clone(j), d |-> x]) = {} => On([m |-> View(j), d |-> x]) = {}
    <3> SUFFICES ASSUME NEW x, NEW y \in DOMAIN mounts, mounts[y].parent = View(j), mounts[y].on = x
                 PROVE  \E z \in DOMAIN mounts : mounts[z].parent = Clone(j) /\ mounts[z].on = x
      BY DEF On
    <3>1. View(j)[1] = "helper" /\ View(j)[2] = j /\ j \in 0..Len(plan) /\ View(j) \in DOMAIN mounts
      BY <1>2 DEF View, ViewAt
    <3>2. View(j) # None
      BY <1>1, <3>1, TreeFacts
    <3>3. y \in Of("helper")
      BY <1>1, <3>1, <3>2 DEF TreeInv, Of
    <3>4. y # Base
      BY <3>2, OutputPlace
    <3>5. ~(bootstrap /\ y = View(0))
      <4> SUFFICES ASSUME bootstrap, y = View(0) PROVE FALSE
        OBVIOUS
      <4>1. View(j) = ToolView
        BY OutputPlace
      <4>2. j = Len(plan) + 1
        BY <3>1, <4>1 DEF ToolView, View
      <4> QED
        BY <1>2, <3>1, <4>2
    <3>6. PICK k \in 1..Len(plan) : y = View(k)
      BY <1>3, <3>3, <3>4, <3>5
    <3>7. ViewAt(k) /\ k # 0
      BY <1>2
    <3>8. PICK h \in 0..(k - 1) : mounts[Clone(k)].parent = Clone(h) /\ mounts[View(k)].parent = View(h)
      BY <3>7 DEF ViewAt
    <3>9. h = j
      BY <3>1, <3>6, <3>8 DEF View
    <3> QED
      BY <3>6, <3>7, <3>8, <3>9 DEF ViewAt
  <2>7. Clear(Under(View(i)))
    <3>1. Clear([m |-> Clone(j), d |-> up])
      BY <2>4, <2>5
    <3>2. \A x \in Above(up) : x[2] # 0 => ~dirs[x].link /\ On([m |-> Clone(j), d |-> x]) = {}
      BY <3>1 DEF Clear, At
    <3>3. \A x \in Above(up) : x[2] # 0 => ~dirs[x].link /\ On([m |-> View(j), d |-> x]) = {}
      BY <2>6, <3>2
    <3>4. Clear([m |-> View(j), d |-> up])
      BY <3>3 DEF Clear, At
    <3> QED
      BY <2>5, <3>4
  <2> QED
    BY <2>3, <2>4, <2>7
<1>5. ASSUME bootstrap PROVE mounts[View(0)].parent # None /\ ~dirs[mounts[View(0)].on].link /\ Clear(Under(View(0)))
  <2> DEFINE u == dirs[mounts[View(0)].on].up
  <2>1. mounts[View(0)].parent = Base /\ Base # None /\ ~dirs[mounts[View(0)].on].link /\ u = <<Len(plan) + 1, 0>> /\ u \in DOMAIN dirs
    BY <1>5, OutputPlace
  <2>2. u[2] = 0 /\ Under(View(0)).d = u
    BY <2>1 DEF Under
  <2> HIDE DEF u
  <2>3. Above(u) = {u}
    BY <1>1, <2>1, <2>2, AboveDir
  <2>4. Clear(Under(View(0)))
    BY <2>2, <2>3 DEF Clear
  <2> QED
    BY <2>1, <2>4
<1>6. mounts[Base].parent = None
  BY OutputPlace
<1> SUFFICES ASSUME NEW m \in Of("helper")
             PROVE  IF mounts[m].parent = None THEN m = Base ELSE ~dirs[mounts[m].on].link /\ Clear(Under(m))
  BY DEF Opened
<1> QED
  BY <1>3, <1>4, <1>5, <1>6

\* What the plan's paths show, in the supervisor and in the helper.
LEMMA PlanShown == ASSUME IInv PROVE PlanIsShown
<1>1. PlanInv /\ TreeInv /\ PhaseInv /\ Len(plan) \in Nat /\ DOMAIN plan = 1..Len(plan)
  BY Parts, LengthsAre
<1>2. ASSUME phase = "mounted", helper \in Starting, NEW i \in DOMAIN plan PROVE Walk(Top(Root), plan[i]) = {Top(Clone(i))}
  <2>1. Opened("supervisor", Root) /\ Clone(i) \in Of("supervisor") /\ Paths[Clone(i)] = plan[i] /\ plan[i] \in Seq(STRING)
    BY <1>1, <1>2, StageOpened DEF CloneAt
  <2> QED
    BY <1>1, <2>1, TopShown
<1>3. ASSUME helper = "capture", NEW i \in DOMAIN plan PROVE Walk(Top(Base), Entrance \o plan[i]) = {Top(View(i))}
  <2>1. phase = "mounted" /\ helper \in Starting
    BY <1>1, <1>3 DEF PhaseInv, Starting
  <2>2. Paths[Clone(i)] = plan[i] /\ plan[i] \in Seq(STRING)
    BY <1>1, <2>1, StageOpened
  <2>3. i \in 0..Len(plan)
    BY <1>1
  <2>4. Entrance \in Seq(STRING) /\ Paths[View(i)] = Entrance \o plan[i]
    BY <1>3, <2>2, <2>3, ViewPaths
  <2>5. View(i) \in Of("helper")
    BY <1>3, <2>3, ViewPlaces DEF ViewAt, Of
  <2>6. Entrance \o plan[i] \in Seq(STRING)
    BY <2>2, <2>4, JoinedSeqs
  <2> QED
    BY <1>1, <1>3, <2>4, <2>5, <2>6, ViewOpened, TopShown
<1> QED
  BY <1>2, <1>3 DEF PlanIsShown, Entrance

\* What captured paths and leases name, from what pins them.
LEMMA NamesHold == ASSUME IInv PROVE PathsHold
<1>1. PlanInv /\ TreeInv /\ LeaseInv /\ HelperInv
  BY Parts
<1>2. ASSUME helper = "closing", NEW i \in DOMAIN points PROVE Lookup(points[i]) = {Top(points[i].mount)}
  <2>1. Pinned(points[i])
    BY <1>1, <1>2 DEF HelperInv
  <2> QED
    BY <1>1, <2>1, NamedIs DEF Lookup
<1>3. ASSUME NEW i \in DOMAIN leases PROVE Target(leases[i]) = {Top(leases[i].mount)}
  <2>1. CASE leases[i].parent = None
    BY <2>1 DEF Target
  <2>2. CASE leases[i].parent # None
    <3>1. Pinned(leases[i])
      BY <1>1, <2>2, LeasedMount
    <3> QED
      BY <1>1, <2>2, <3>1, NamedIs DEF Target
  <2> QED
    BY <2>1, <2>2
<1> QED
  BY <1>2, <1>3 DEF PathsHold

\* What the invariant says of the mounts is what is promised.
LEMMA KeptFollows == IInv => MountsAreKept
<1> SUFFICES ASSUME IInv PROVE MountsAreKept
  OBVIOUS
<1>1. TypeOK /\ LeaseInv /\ ToolInv /\ PhaseInv /\ HelperInv /\ UseInv
  BY DEF IInv
<1>2. CapturedAll
  BY <1>1 DEF CapturedAll, HelperInv
<1>3. CleanMeansGone
  <2>1. helper = "closed" => Of("helper") = {} /\ \A m \in lazy : m[1] # "helper"
    <3> SUFFICES ASSUME helper = "closed" PROVE Of("helper") = {} /\ \A m \in lazy : m[1] # "helper"
      OBVIOUS
    <3>1. phase # "refused"
      BY <1>1 DEF PhaseInv
    <3> QED
      BY <1>1, <3>1 DEF HelperInv, UseInv
  <2>2. phase = "unmounted" => Of("own") \cup Of("supervisor") \cup Of("tool") = {} /\ \A m \in lazy : m[1] = "helper"
    <3> SUFFICES ASSUME phase = "unmounted" PROVE Of("own") \cup Of("supervisor") \cup Of("tool") = {} /\ \A m \in lazy : m[1] = "helper"
      OBVIOUS
    <3>1. leases = <<>>
      BY <1>1 DEF PhaseInv
    <3>2. DOMAIN leases = {}
      BY <3>1
    <3>3. Of("own") \cup Of("supervisor") = {} /\ Of("tool") = {}
      BY <1>1, <3>2 DEF LeaseInv, ToolInv, PhaseInv
    <3> QED
      BY <1>1, <3>3 DEF UseInv
  <2> QED
    BY <2>1, <2>2 DEF CleanMeansGone
<1>4. RetainedForCause
  BY <1>1 DEF UseInv
<1> QED
  BY <1>1, <1>2, <1>3, <1>4, PlanShown, NamesHold DEF MountsAreKept

-----------------------------------------------------------------------------
(* Whichever machine was chosen *)

StagesInv == (machine = "order" => O!IInv) /\ (machine = "stage" => IInv)

\* Each machine starts in its invariant.
LEMMA StagesInitInv == StagesInit => StagesInv
  BY InitInv, InitKept DEF StagesInit, StagesInv

\* A machine that was chosen takes its own steps; the others stand still.
LEMMA StagesStep == StagesInv /\ [StagesNext]_all => StagesInv'
  <1> SUFFICES ASSUME StagesInv, [StagesNext]_all PROVE StagesInv'
    OBVIOUS
  <1>1. CASE Ordering /\ O!Next
    <2>1. machine = "order" /\ machine' = "order"
      BY <1>1 DEF Ordering
    <2> QED
      BY <1>1, <2>1, NextStep DEF StagesInv
  <1>2. CASE Mounting /\ Next
    <2>1. machine = "stage" /\ machine' = "stage"
      BY <1>2 DEF Mounting
    <2> QED
      BY <1>2, <2>1, StepKept DEF StagesInv
  <1>3. CASE Entering /\ C!Next
    <2>1. machine' = "root"
      BY <1>3 DEF Entering
    <2> QED
      BY <2>1 DEF StagesInv
  <1>4. CASE UNCHANGED all
    <2>1. machine' = machine /\ UNCHANGED O!vars /\ UNCHANGED vars
      BY <1>4 DEF all, volume, search, O!vars, O!plan, vars, stage, helperState, supervisor, history
    <2> QED
      BY <2>1, NextStep, StepKept DEF StagesInv
  <1> QED
    BY <1>1, <1>2, <1>3, <1>4 DEF StagesNext

\* The inductive invariant of the chosen machine holds of every run: of the planner
\* (Plan::try_from, Plan::walk) and of a stage's mounts (Volume, Helper, Lease).
THEOREM StagesInductive == StagesSpec => []StagesInv
  BY StagesInitInv, StagesStep, PTL DEF StagesSpec

\* Every state of the chosen machine has its type: no walk leaves the plan's names
\* (Plan::walk), and every mount, lease and directory of a stage is one (Volume).
StagesTyped == (machine = "order" => O!TypeOK) /\ (machine = "stage" => TypeOK)
THEOREM StagesTypes == StagesSpec => []StagesTyped
  <1>1. StagesInv => StagesTyped
    BY DEF StagesInv, StagesTyped, O!IInv, IInv
  <1> QED
    BY <1>1, StagesInductive, PTL

\* For every plan, the stages are built in an order that has everything a stage is
\* made from before it, each once, and none for nothing (Plan::walk).
THEOREM OrderIsSound == StagesSpec => []SoundOrder
  <1>1. StagesInv => SoundOrder
    BY OrderFollows, ExactFollows DEF StagesInv, SoundOrder, O!SoundOrder
  <1> QED
    BY <1>1, StagesInductive, PTL

\* For every plan, the planner accepts and rejects for the right reasons, in the right
\* pass (Plan::try_from, Plan::walk).
THEOREM VerdictIsSound == StagesSpec => []SoundVerdict
  <1>1. StagesInv => SoundVerdict
    BY AcceptFollows, RejectFollows, CheckFollows DEF StagesInv, SoundVerdict, O!SoundVerdict
  <1> QED
    BY <1>1, StagesInductive, PTL

\* For every plan of mounts and every image, each filesystem of a stage is where the
\* plan says whatever commands and the copies rename, a helper captures all that was
\* planned, and a clean unmount leaves nothing mounted (Volume::mount, Volume::unmount).
THEOREM MountsHold == StagesSpec => []StageIsKept
  <1>1. StagesInv => StageIsKept
    BY KeptFollows DEF StagesInv, StageIsKept
  <1> QED
    BY <1>1, StagesInductive, PTL

=============================================================================
