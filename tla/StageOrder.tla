----------------------------- MODULE StageOrder ------------------------------
(***************************************************************************)
(* The order in which a plan's stages are built (planner/mod.rs,           *)
(* Plan::walk and Plan::try_from).                                         *)
(*                                                                         *)
(* A stage names the stages it depends on: its local FROM and the stages   *)
(* its COPY directives read.  The planner walks every stage once to reject *)
(* unknown names and cycles, then walks from the stages the image selects  *)
(* and keeps the order in which their walks end.  The walk is a depth-first *)
(* search with a stack of its own: a name is pushed once to be entered and, *)
(* when it is entered, once more to be left.                               *)
(***************************************************************************)
EXTENDS Integers, Sequences, FiniteSets, Functions

CONSTANTS
    Names,         \* names a plan may use, in their order: a finite set of numbers
    MaxSelectors   \* components of an image that may select a stage

VARIABLES
    stages,     \* the stages the plan defines
    deps,       \* the stages each of them depends on
    selectors,  \* the stages the image selects: root, then boot
    pass,       \* "check" every stage, or "order" the selected ones
    roots,      \* starts of the walks still to come, of this pass
    stack, visiting, done, order,
    result

plan == <<stages, deps, selectors>>
vars == <<plan, pass, roots, stack, visiting, done, order, result>>

\* The ascending and descending sequences of a finite set of names.
Sorted(S) == {q \in [1..Cardinality(S) -> S] :
                /\ Range(q) = S
                /\ \A i, j \in DOMAIN q : i < j => q[i] < q[j]}
Reversed(S) == {q \in [1..Cardinality(S) -> S] :
                /\ Range(q) = S
                /\ \A i, j \in DOMAIN q : i < j => q[i] > q[j]}

Enter(name) == [name |-> name, mark |-> "enter"]
Leave(name) == [name |-> name, mark |-> "leave"]

Init ==
    /\ stages \in SUBSET Names
    /\ deps \in [stages -> SUBSET Names]
    /\ selectors \in UNION {[1..n -> Names] : n \in 0..MaxSelectors}
    /\ pass = "check"
    /\ roots \in Sorted(stages)
    /\ stack = <<>> /\ visiting = {} /\ done = {} /\ order = <<>>
    /\ result = "pending"

Walking == result = "pending" /\ stack # <<>>
Top == stack[Len(stack)]
Pop == SubSeq(stack, 1, Len(stack) - 1)

\* plan.walk(name, ..): a stack and a visiting set of its own.  The first pass
\* throws its orders away.
StartWalk ==
    /\ result = "pending" /\ stack = <<>> /\ roots # <<>>
    /\ stack' = <<Enter(Head(roots))>>
    /\ roots' = Tail(roots)
    /\ visiting' = {}
    /\ order' = IF pass = "check" THEN <<>> ELSE order
    /\ UNCHANGED <<plan, pass, done, result>>

LeaveStage ==
    /\ Walking /\ Top.mark = "leave"
    /\ visiting' = visiting \ {Top.name}
    /\ done' = done \cup {Top.name}
    /\ order' = Append(order, Top.name)
    /\ stack' = Pop
    /\ UNCHANGED <<plan, pass, roots, result>>

\* Mutant: the skipped entry stays on the stack.
SkipDoneKept ==
    /\ Walking /\ Top.mark = "enter" /\ Top.name \in done
    /\ UNCHANGED vars

SkipDone ==
    /\ Walking /\ Top.mark = "enter" /\ Top.name \in done
    /\ stack' = Pop
    /\ UNCHANGED <<plan, pass, roots, visiting, done, order, result>>

RejectUnknown ==
    /\ Walking /\ Top.mark = "enter" /\ Top.name \notin done
    /\ Top.name \notin stages
    /\ result' = "unknown"
    /\ UNCHANGED <<plan, pass, roots, stack, visiting, done, order>>

\* Mutant: a stage reached on two paths is taken for a cycle.
RejectRevisited ==
    /\ Walking /\ Top.mark = "enter"
    /\ Top.name \in stages /\ Top.name \in visiting \cup done
    /\ result' = "cycle"
    /\ UNCHANGED <<plan, pass, roots, stack, visiting, done, order>>

RejectCycle ==
    /\ Walking /\ Top.mark = "enter" /\ Top.name \notin done
    /\ Top.name \in stages /\ Top.name \in visiting
    /\ result' = "cycle"
    /\ UNCHANGED <<plan, pass, roots, stack, visiting, done, order>>

\* Mutant: a stage is left before its dependencies are entered.
EnterStageFirst ==
    /\ Walking /\ Top.mark = "enter" /\ Top.name \notin done
    /\ Top.name \in stages /\ Top.name \notin visiting
    /\ visiting' = visiting \cup {Top.name}
    /\ \E q \in Reversed(deps[Top.name]) :
         stack' = Pop \o [i \in DOMAIN q |-> Enter(q[i])] \o <<Leave(Top.name)>>
    /\ UNCHANGED <<plan, pass, roots, done, order, result>>

\* The dependencies are pushed in reverse, so that the first is entered first.
EnterStage ==
    /\ Walking /\ Top.mark = "enter" /\ Top.name \notin done
    /\ Top.name \in stages /\ Top.name \notin visiting
    /\ visiting' = visiting \cup {Top.name}
    /\ \E q \in Reversed(deps[Top.name]) :
         stack' = Pop \o <<Leave(Top.name)>> \o [i \in DOMAIN q |-> Enter(q[i])]
    /\ UNCHANGED <<plan, pass, roots, done, order, result>>

StartOrder ==
    /\ result = "pending" /\ pass = "check" /\ stack = <<>> /\ roots = <<>>
    /\ pass' = "order"
    /\ roots' = selectors
    /\ done' = {} /\ order' = <<>>
    /\ UNCHANGED <<plan, stack, visiting, result>>

Accept ==
    /\ result = "pending" /\ pass = "order" /\ stack = <<>> /\ roots = <<>>
    /\ result' = "accepted"
    /\ UNCHANGED <<plan, pass, roots, stack, visiting, done, order>>

Planned == result # "pending" /\ UNCHANGED vars

Next == StartWalk \/ LeaveStage \/ SkipDone \/ RejectUnknown \/ RejectCycle
        \/ EnterStage \/ StartOrder \/ Accept \/ Planned

Spec == Init /\ [][Next]_vars /\ WF_vars(Next)

-----------------------------------------------------------------------------
(* Properties *)

TypeOK ==
    /\ stages \in SUBSET Names
    /\ deps \in [stages -> SUBSET Names]
    /\ selectors \in Seq(Names)
    /\ pass \in {"check", "order"}
    /\ roots \in Seq(Names)
    /\ stack \in Seq([name : Names, mark : {"enter", "leave"}])
    /\ visiting \in SUBSET Names /\ done \in SUBSET Names
    /\ order \in Seq(Names)
    /\ result \in {"pending", "accepted", "unknown", "cycle"}

Before(i) == {order[j] : j \in 1..(i - 1)}

\* Whatever a stage is built from is built before it, in the very order the
\* pipeline executes, and nothing is built twice (Plan::walk).
DependenciesFirst ==
    pass = "order" => \A i \in 1..Len(order) :
        /\ order[i] \in stages
        /\ deps[order[i]] \subseteq Before(i)
        /\ order[i] \notin Before(i)

\* The accepted order is the least set of stages that holds the selected ones
\* and every dependency: no stage is missing, none is built for nothing.
ExactlyTheSelected ==
    result = "accepted" =>
        /\ Range(selectors) \subseteq Range(order)
        /\ \A C \in SUBSET stages :
             /\ Range(selectors) \subseteq C
             /\ \A s \in C : deps[s] \subseteq C
             => Range(order) \subseteq C

\* A set of stages each of which depends on one of the set.
Cyclic(S) == S # {} /\ \A s \in S : deps[s] \cap S # {}

\* Only a plan without cycles, whose names are all known, is accepted; even a
\* stage that the image does not select is checked (Plan::try_from).
AcceptedIsSound ==
    result = "accepted" =>
        /\ \A s \in stages : deps[s] \subseteq stages
        /\ Range(selectors) \subseteq stages
        /\ \A S \in SUBSET stages : ~Cyclic(S)

\* Every name the plan uses.
Named == stages \cup (UNION Range(deps)) \cup Range(selectors)

\* And every such plan is: a rejection names a real defect, although a stage
\* may be reached on many paths.
RejectedIsFaulty ==
    /\ result = "cycle" => \E S \in SUBSET stages : Cyclic(S)
    /\ result = "unknown" => ~(Named \subseteq stages)

\* The second pass has nothing left to reject but a selector.
CheckedOnce ==
    pass = "order" /\ result # "accepted" /\ result # "pending" =>
        /\ result = "unknown"
        /\ ~(Range(selectors) \subseteq stages)

\* The planner accepts and rejects for the right reasons, in the right pass
\* (Plan::try_from, Plan::walk).
SoundVerdict == AcceptedIsSound /\ RejectedIsFaulty /\ CheckedOnce

\* The order holds exactly what the selectors need, each stage once and behind
\* what it depends on (Plan::walk).
SoundOrder == DependenciesFirst /\ ExactlyTheSelected

\* The planner answers.
PlannerEnds == <>(result # "pending")

-----------------------------------------------------------------------------
(* The inductive invariant behind the safety properties. *)

Slots == DOMAIN stack
Exits == {i \in Slots : stack[i].mark = "leave"}

\* No exit marker lies strictly between two slots.
Adjacent(i, j) == \A k \in Exits : ~(i < k /\ k < j)

\* The stack: a stage being walked has its marker on it, and each slot above a
\* marker, up to the next one, is a dependency of the marked stage.
StackInv ==
    /\ \A s \in Names : s \in visiting <=> \E i \in Exits : stack[i].name = s
    /\ visiting \subseteq stages
    /\ visiting \cap done = {}
    /\ \A i, j \in Exits : stack[i].name = stack[j].name => i = j
    /\ \A i \in Exits, j \in Slots :
         i < j /\ Adjacent(i, j) => stack[j].name \in deps[stack[i].name]
    /\ \A i \in Exits : (\E k \in Exits : i < k) =>
         \E k \in Exits : i < k /\ Adjacent(i, k)

\* A dependency of a stage being walked is done, or above its marker.
PromiseInv ==
    \A i \in Exits : \A d \in deps[stack[i].name] :
        d \in done \/ \E j \in Slots : i < j /\ stack[j].name = d

\* What is done is closed under dependency and free of cycles.
DoneInv ==
    /\ done \subseteq stages
    /\ \A s \in done : deps[s] \subseteq done
    /\ \A S \in SUBSET done : ~Cyclic(S)

Waiting(s) == s \in Range(roots) \/ \E j \in Slots : stack[j].name = s

\* Nothing that must be walked is forgotten.
CoverInv ==
    /\ result \in {"pending", "accepted"} =>
         \A s \in IF pass = "check" THEN stages ELSE Range(selectors) :
             s \in done \/ Waiting(s)
    /\ \A s \in Names : Waiting(s) => s \in Named

Sound ==
    /\ \A s \in stages : deps[s] \subseteq stages
    /\ \A S \in SUBSET stages : ~Cyclic(S)

\* The second pass walks a checked plan, and keeps what it has done in order.
OrderInv ==
    pass = "order" =>
        /\ Sound
        /\ Range(order) = done
        /\ \A C \in SUBSET stages :
             /\ Range(selectors) \subseteq C
             /\ \A s \in C : deps[s] \subseteq C
             => done \subseteq C /\ \A s \in Names : Waiting(s) => s \in C

ResultInv ==
    /\ result = "accepted" => pass = "order" /\ stack = <<>> /\ roots = <<>>
    /\ result = "cycle" => pass = "check"

IInv ==
    /\ TypeOK /\ StackInv /\ PromiseInv /\ DoneInv /\ CoverInv /\ OrderInv
    /\ ResultInv /\ DependenciesFirst /\ RejectedIsFaulty

=============================================================================
