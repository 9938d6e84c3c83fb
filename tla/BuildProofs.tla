----------------------------- MODULE BuildProofs ------------------------------
(***************************************************************************)
(* Proofs about one build, for every plan the planner accepts, every lock  *)
(* and cache, and any images: a pin and a tag are never confused, and a    *)
(* published boot configuration names the root it is published with.       *)
(*                                                                         *)
(* The invariant follows the build: which sources have become inputs, what *)
(* each input resolved to, which stages are done, and, for each output,    *)
(* where it comes from and which root its configuration is bound to.       *)
(***************************************************************************)
EXTENDS Build, TLAPS, SequenceTheorems, WellFoundedInduction

\* Roots are sequences of these.
Elements ==
  {Nothing} \cup {Contents[i].root[1] : i \in Images} \cup UNION {DOMAIN c.plan.stages : c \in Captures}
Root == Seq(Elements)

-----------------------------------------------------------------------------
(***************************************************************************)
(* The captured plan                                                       *)
(***************************************************************************)

\* The assumptions, of the plan that was captured.
PlanSound ==
  /\ plan.order \in Seq(DOMAIN plan.stages)
  /\ DOMAIN plan.stages \subseteq Elements /\ DOMAIN plan.stages \cap (Remotes \cup {Nothing}) = {}
  /\ \A i \in 1..Len(plan.order) :
       /\ Stage(plan.order[i]).from \in Remotes \cup Before(i)
       /\ Stage(plan.order[i]).copies \subseteq Before(i)
       /\ Stage(plan.order[i]).kind = "bootstrap" => Stage(plan.order[i]).from \in Remotes
  /\ {plan.image.whole, plan.image.root, plan.image.boot.from} \subseteq Remotes \cup Ordered \cup {Nothing}
  /\ plan.image.boot.how \in {"none", "inherit", "define", "extend", "extract"}
  /\ plan.image.boot.how = "none" <=> plan.image.boot.from = Nothing
  /\ {plan.image.whole, plan.image.root, plan.image.boot.from} # {Nothing}

PinsSound ==
  \A pins \in {lock, tags} : DOMAIN pins \subseteq Remotes /\ \A r \in DOMAIN pins : pins[r] \in Images

\* A captured plan is one of those the assumptions are about.
LEMMA Given0 == Init => PlanSound /\ PinsSound
<1> SUFFICES ASSUME Init PROVE PlanSound /\ PinsSound
  OBVIOUS
<1> PICK c \in Captures : plan = c.plan /\ lock = c.lock /\ tags = c.tags
  BY DEF Init
<1>1. PlanSound
  <2> DEFINE order == c.plan.order
             stages == c.plan.stages
             image == c.plan.image
  <2>1. /\ order \in Seq(DOMAIN stages) /\ DOMAIN stages \cap (Remotes \cup {Nothing}) = {}
        /\ \A i \in DOMAIN order :
             /\ stages[order[i]].from \in Remotes \cup {order[j] : j \in 1..(i - 1)}
             /\ stages[order[i]].copies \subseteq {order[j] : j \in 1..(i - 1)}
             /\ stages[order[i]].kind = "bootstrap" => stages[order[i]].from \in Remotes
        /\ {image.whole, image.root, image.boot.from} \subseteq Remotes \cup {order[i] : i \in DOMAIN order} \cup {Nothing}
        /\ image.boot.how \in {"none", "inherit", "define", "extend", "extract"}
        /\ image.boot.how = "none" <=> image.boot.from = Nothing
        /\ {image.whole, image.root, image.boot.from} # {Nothing}
    BY PlanAssumption, Zenon DEF PlanAssumption
  <2>2. DOMAIN order = 1..Len(order)
    BY <2>1
  <2>3. DOMAIN stages \subseteq Elements
    BY DEF Elements
  <2>4. order = plan.order /\ stages = plan.stages /\ image = plan.image
    OBVIOUS
  <2> HIDE DEF order, stages, image
  <2>5. /\ Ordered = {order[i] : i \in 1..Len(order)} /\ \A i : Before(i) = {order[j] : j \in 1..(i - 1)}
        /\ \A n : Stage(n) = stages[n]
    BY <2>4 DEF Ordered, Before, Stage
  <2>6. \A i \in 1..Len(order) :
          /\ Stage(order[i]).from \in Remotes \cup Before(i)
          /\ Stage(order[i]).copies \subseteq Before(i)
          /\ Stage(order[i]).kind = "bootstrap" => Stage(order[i]).from \in Remotes
    BY <2>1, <2>2, <2>5
  <2>7. {image.whole, image.root, image.boot.from} \subseteq Remotes \cup Ordered \cup {Nothing}
    BY <2>1, <2>2, <2>5
  <2>8. image.boot.how = "none" <=> image.boot.from = Nothing
    BY <2>1
  <2>9. {image.whole, image.root, image.boot.from} # {Nothing}
    BY <2>1
  <2>10. image.boot.how \in {"none", "inherit", "define", "extend", "extract"}
    BY <2>1
  <2>11. order \in Seq(DOMAIN stages) /\ DOMAIN stages \cap (Remotes \cup {Nothing}) = {}
    BY <2>1
  <2> QED
    BY <2>3, <2>4, <2>6, <2>7, <2>8, <2>9, <2>10, <2>11, Zenon DEF PlanSound
<1>2. PinsSound
  BY PinsAssumption DEF PinsAssumption, PinsSound
<1> QED
  BY <1>1, <1>2

LEMMA Kept0 == PlanSound /\ PinsSound /\ UNCHANGED captured => (PlanSound /\ PinsSound)'
<1> SUFFICES ASSUME PlanSound, PinsSound, UNCHANGED captured PROVE (PlanSound /\ PinsSound)'
  OBVIOUS
<1>1. plan' = plan /\ Ordered' = Ordered /\ (\A n : Stage(n)' = Stage(n)) /\ (\A i : Before(i)' = Before(i))
  BY DEF captured, Stage, Before, Ordered
<1>2. PlanSound'
  BY <1>1 DEF PlanSound
<1>3. PinsSound'
  BY DEF PinsSound, captured
<1> QED
  BY <1>2, <1>3

\* Every step leaves what was captured alone.
LEMMA Captured == [Next]_vars => UNCHANGED captured
  BY DEF Next, vars, Capture, AddInput, PassLocal, RejectInput, GraphDone, Resolve, Validate, RejectPlan,
    RunStage, StagesDone, Select, Assemble, Stamp, Publish, Refuse, StepFails, Fail

\* What is read is ordinary or a bootstrap tool.
Reads == {Sources[i].ref : i \in RemoteSources}

LEMMA Readers == Reads = OrdinaryRefs \cup BootstrapRefs
  BY DEF Reads, OrdinaryRefs, BootstrapRefs

LEMMA SourceIndexes ==
  ASSUME PlanSound
  PROVE  \E all \in Nat : DOMAIN Sources = 1..all
<1>1. Len(plan.order) \in Nat /\ Len(ImageSources) \in Nat
  BY DEF PlanSound, ImageSources
<1>2. DOMAIN Sources = 1..(Len(plan.order) + Len(ImageSources))
  BY DEF Sources
<1> QED
  BY <1>1, <1>2

\* The sources of stages and selectors are read.
LEMMA SourcesRead ==
  ASSUME PlanSound
  PROVE  /\ \A i \in 1..Len(plan.order) : LET stage == Stage(plan.order[i]) IN
              stage.from \in Remotes =>
                IF stage.kind = "bootstrap" THEN stage.from \in BootstrapRefs ELSE stage.from \in OrdinaryRefs
         /\ \A ref \in {ImageSources[k] : k \in 1..Len(ImageSources)} : ref \in Remotes => ref \in OrdinaryRefs
         /\ BootstrapRefs # {} <=> \E n \in Ordered : Stage(n).kind = "bootstrap"
<1> DEFINE built == Len(plan.order)
           all == built + Len(ImageSources)
<1>1. built \in Nat /\ Len(ImageSources) \in Nat
  BY DEF PlanSound, ImageSources
<1>2. DOMAIN Sources = 1..all
  BY DEF Sources
<1>3. \A i \in 1..built : /\ i \in DOMAIN Sources
                        /\ Sources[i].ref = Stage(plan.order[i]).from
                        /\ Sources[i].bootstrap = (Stage(plan.order[i]).kind = "bootstrap")
  <2> TAKE i \in 1..built
  <2>1. i \in 1..all /\ i <= built
    BY <1>1
  <2>2. Sources[i] = [ref |-> Stage(plan.order[i]).from, bootstrap |-> Stage(plan.order[i]).kind = "bootstrap"]
    BY <2>1 DEF Sources
  <2> QED
    BY <2>1, <2>2, <1>2
<1>4. \A k \in 1..Len(ImageSources) : /\ built + k \in DOMAIN Sources
                                     /\ Sources[built + k].ref = ImageSources[k]
                                     /\ Sources[built + k].bootstrap = FALSE
  <2> TAKE k \in 1..Len(ImageSources)
  <2>1. built + k \in 1..all /\ ~(built + k <= built) /\ (built + k) - built = k
    BY <1>1
  <2> QED
    BY <2>1 DEF Sources
<1>5. \A i \in DOMAIN Sources \ (1..built) : Sources[i].bootstrap = FALSE
  BY <1>1, <1>2 DEF Sources
<1>6. \A i \in 1..built : LET stage == Stage(plan.order[i]) IN
        stage.from \in Remotes =>
          IF stage.kind = "bootstrap" THEN stage.from \in BootstrapRefs ELSE stage.from \in OrdinaryRefs
  BY <1>3 DEF BootstrapRefs, OrdinaryRefs, RemoteSources, IsRemote
<1>7. \A ref \in {ImageSources[k] : k \in 1..Len(ImageSources)} : ref \in Remotes => ref \in OrdinaryRefs
  BY <1>4 DEF OrdinaryRefs, RemoteSources, IsRemote
<1>8. BootstrapRefs # {} <=> \E n \in Ordered : Stage(n).kind = "bootstrap"
  <2>1. ASSUME BootstrapRefs # {} PROVE \E n \in Ordered : Stage(n).kind = "bootstrap"
    <3> PICK i \in RemoteSources : Sources[i].bootstrap
      BY <2>1 DEF BootstrapRefs
    <3>1. i \in 1..built
      BY <1>5 DEF RemoteSources
    <3> QED
      BY <3>1, <1>3 DEF Ordered
  <2>2. ASSUME NEW i \in 1..built, Stage(plan.order[i]).kind = "bootstrap" PROVE BootstrapRefs # {}
    BY <2>2, <1>6 DEF PlanSound
  <2> QED
    BY <2>1, <2>2 DEF Ordered
<1> QED
  BY <1>6, <1>7, <1>8

-----------------------------------------------------------------------------
(***************************************************************************)
(* The inputs                                                              *)
(***************************************************************************)

Building == {"execute", "select", "assemble", "stamp", "publish"}
Resolving == {"resolve", "validate"} \cup Building

Phases ==
  /\ at \in {"capture", "graph", "done"} \cup Resolving
  /\ pos \in Nat \ {0} /\ lockRead \in BOOLEAN
  /\ verdict \in {"pending", "failed", "refused", "ok"} /\ (verdict \in {"ok", "refused"} => at = "done")

\* What the graph has passed.
Passed(i) == at = "graph" => i < pos

\* The sources that were passed are the inputs, each as its use demands.
InputsInv ==
  at \in {"graph"} \cup Resolving =>
    /\ DOMAIN inputs = {Sources[i].ref : i \in {j \in RemoteSources : Passed(j)}}
    /\ \A i \in RemoteSources : Passed(i) =>
         /\ inputs[Sources[i].ref] = Pin(Sources[i])
         /\ Pinned(Sources[i])
    /\ lockRead <=> OrdinaryRefs # {}

\* Nothing is used before it is made.
Unused ==
  /\ at = "capture" => inputs = NoValues
  /\ at \in {"capture", "graph", "resolve"} => images = NoValues
  /\ at \in {"capture", "graph", "resolve", "validate"} => outputs = NoValues
  /\ at \in {"capture", "resolve", "validate"} => pos = 1

\* What inputs say once all sources have passed.
LEMMA InputsSound ==
  ASSUME PlanSound, PinsSound, InputsInv, at \in Resolving
  PROVE  /\ DOMAIN inputs = Reads /\ Reads \subseteq Remotes
         /\ \A r \in OrdinaryRefs : r \in DOMAIN lock /\ inputs[r] = lock[r] /\ lock[r] \in Images
         /\ \A r \in BootstrapRefs : inputs[r] = "tag"
         /\ (\E r \in DOMAIN inputs : inputs[r] = "tag") <=> BootstrapRefs # {}
<1>1. \A i \in RemoteSources : Passed(i)
  BY DEF Passed, Resolving, Building
<1>2. DOMAIN inputs = Reads /\ Reads \subseteq Remotes
  BY <1>1 DEF InputsInv, Reads, RemoteSources, IsRemote
<1>3. ASSUME NEW r \in OrdinaryRefs PROVE r \in DOMAIN lock /\ inputs[r] = lock[r] /\ lock[r] \in Images
  <2> PICK i \in RemoteSources : ~Sources[i].bootstrap /\ r = Sources[i].ref
    BY DEF OrdinaryRefs
  <2>1. inputs[r] = Pin(Sources[i]) /\ Pinned(Sources[i])
    BY <1>1 DEF InputsInv
  <2> QED
    BY <2>1 DEF Pin, Pinned, PinsSound
<1>4. ASSUME NEW r \in BootstrapRefs PROVE inputs[r] = "tag"
  <2> PICK i \in RemoteSources : Sources[i].bootstrap /\ r = Sources[i].ref
    BY DEF BootstrapRefs
  <2> QED
    BY <1>1 DEF InputsInv, Pin
<1>5. (\E r \in DOMAIN inputs : inputs[r] = "tag") <=> BootstrapRefs # {}
  <2>1. \A r \in OrdinaryRefs : inputs[r] # "tag"
    BY <1>3, NamesAssumption DEF NamesAssumption
  <2>2. BootstrapRefs \subseteq DOMAIN inputs
    BY <1>2, Readers
  <2> QED
    BY <1>2, <1>4, <2>1, <2>2, Readers
<1> QED
  BY <1>2, <1>3, <1>4, <1>5

\* What a failing step leaves.
LEMMA Failing ==
  ASSUME Fail
  PROVE  /\ at' = "done" /\ verdict' = "failed"
         /\ UNCHANGED <<captured, pos, lockRead, inputs, images, outputs, output, published>>
BY DEF Fail

\* What a refusal leaves.
LEMMA Refusing ==
  ASSUME Refuse
  PROVE  /\ at' = "done" /\ verdict' = "refused"
         /\ UNCHANGED <<captured, pos, lockRead, inputs, images, outputs, output, published>>
BY DEF Refuse

LEMMA PhasesStep == Phases /\ [Next]_vars => Phases'
<1> SUFFICES ASSUME Phases, [Next]_vars PROVE Phases'
  OBVIOUS
<1> USE DEF Phases, Resolving, Building
<1>1. CASE Capture
  <2>1. lockRead' \in BOOLEAN
    BY <1>1 DEF Capture
  <2> QED
    BY <1>1, <2>1 DEF Capture
<1>2. CASE AddInput \/ PassLocal \/ GraphDone
  BY <1>2 DEF AddInput, PassLocal, GraphDone
<1>3. CASE RejectInput \/ RejectPlan \/ StepFails \/ Refuse
  BY <1>3 DEF RejectInput, RejectPlan, Refuse, StepFails, Fail
<1>4. CASE Resolve \/ Validate
  BY <1>4 DEF Resolve, Validate
<1>5. CASE RunStage \/ StagesDone
  BY <1>5 DEF RunStage, StagesDone
<1>6. CASE Select \/ Assemble \/ Stamp \/ Publish
  BY <1>6 DEF Select, Assemble, Stamp, Publish
<1>7. CASE UNCHANGED vars
  BY <1>7 DEF vars
<1> QED
  BY <1>1, <1>2, <1>3, <1>4, <1>5, <1>6, <1>7 DEF Next

LEMMA UnusedStep == Unused /\ [Next]_vars => Unused'
BY DEF Unused, Next, vars, Capture, AddInput, PassLocal, RejectInput, GraphDone, Resolve, Validate,
  RejectPlan, RunStage, StagesDone, Select, Assemble, Stamp, Publish, Refuse, StepFails, Fail

\* The sources are those of the captured plan, whatever else changes.
LEMMA SameSources ==
  ASSUME UNCHANGED captured
  PROVE  /\ Sources' = Sources /\ RemoteSources' = RemoteSources
         /\ OrdinaryRefs' = OrdinaryRefs /\ BootstrapRefs' = BootstrapRefs
         /\ \A i \in RemoteSources : (Pin(Sources[i]))' = Pin(Sources[i]) /\ (Pinned(Sources[i]))' = Pinned(Sources[i])
BY DEF captured, Sources, RemoteSources, OrdinaryRefs, BootstrapRefs, Pin, Pinned, ImageSources, Stage, IsRemote

LEMMA InputsStep ==
  ASSUME PlanSound, Phases, Unused, InputsInv, [Next]_vars
  PROVE  InputsInv'
<1> USE DEF Resolving, Building
<1>0. UNCHANGED captured
  BY Captured
<1>1. /\ Sources' = Sources /\ RemoteSources' = RemoteSources
      /\ OrdinaryRefs' = OrdinaryRefs
      /\ \A i \in RemoteSources : (Pin(Sources[i]))' = Pin(Sources[i]) /\ (Pinned(Sources[i]))' = Pinned(Sources[i])
  BY <1>0, SameSources
<1> PICK all \in Nat : DOMAIN Sources = 1..all
  BY SourceIndexes
<1>2. RemoteSources \subseteq 1..all
  BY DEF RemoteSources
<1>3. CASE Capture
  <2>1. \A i \in RemoteSources : ~Passed(i)'
    BY <1>2, <1>3 DEF Capture, Unused, Passed
  <2>2. lockRead' <=> OrdinaryRefs # {}
    BY <1>3 DEF Capture, OrdinaryRefs
  <2>3. inputs' = NoValues /\ DOMAIN inputs' = {}
    BY <1>3 DEF Capture, Unused, NoValues
  <2> QED
    BY <1>1, <2>1, <2>2, <2>3 DEF InputsInv
<1>4. CASE AddInput
  <2> DEFINE source == Sources[pos]
  <2>1. /\ at = "graph" /\ at' = "graph" /\ pos \in RemoteSources /\ pos' = pos + 1
        /\ Pinned(source) /\ ~Mixed(source) /\ lockRead' = lockRead
        /\ inputs' = OrInsert(inputs, source.ref, Pin(source))
    BY <1>4 DEF AddInput
  <2>2. \A i \in RemoteSources : Passed(i)' <=> Passed(i) \/ i = pos
    BY <1>2, <2>1 DEF Passed
  <2>3. /\ DOMAIN inputs' = DOMAIN inputs \cup {source.ref}
        /\ \A r \in DOMAIN inputs : inputs'[r] = inputs[r]
        /\ source.ref \notin DOMAIN inputs => inputs'[source.ref] = Pin(source)
    BY <2>1 DEF OrInsert
  <2>4. source.ref \in DOMAIN inputs => inputs[source.ref] = Pin(source)
    <3> SUFFICES ASSUME source.ref \in DOMAIN inputs PROVE inputs[source.ref] = Pin(source)
      OBVIOUS
    <3>1. (inputs[source.ref] = "tag") = source.bootstrap
      BY <2>1 DEF Mixed
    <3>2. PICK j \in RemoteSources : Passed(j) /\ Sources[j].ref = source.ref
      BY <2>1 DEF InputsInv
    <3>3. inputs[source.ref] = Pin(Sources[j])
      BY <2>1, <3>2 DEF InputsInv
    <3>4. CASE source.bootstrap
      BY <3>1, <3>4 DEF Pin
    <3>5. CASE ~source.bootstrap
      BY <3>1, <3>2, <3>3, <3>5 DEF Pin
    <3> QED
      BY <3>4, <3>5
  <2>5. DOMAIN inputs' = {Sources[i].ref : i \in {j \in RemoteSources : Passed(j)'}}
    BY <2>1, <2>2, <2>3 DEF InputsInv
  <2>6. ASSUME NEW i \in RemoteSources, Passed(i)'
        PROVE  inputs'[Sources[i].ref] = Pin(Sources[i]) /\ Pinned(Sources[i])
    <3>1. CASE Passed(i)
      BY <2>1, <2>3, <3>1 DEF InputsInv
    <3>2. CASE i = pos
      BY <2>1, <2>3, <2>4, <3>2
    <3> QED
      BY <2>2, <2>6, <3>1, <3>2
  <2>7. lockRead' <=> OrdinaryRefs # {}
    BY <2>1 DEF InputsInv
  <2> QED
    BY <1>1, <2>5, <2>6, <2>7 DEF InputsInv
<1>5. CASE PassLocal
  <2>1. /\ at = "graph" /\ at' = "graph" /\ pos \notin RemoteSources /\ pos' = pos + 1 /\ pos \in 1..all
        /\ inputs' = inputs /\ lockRead' = lockRead
    BY <1>5 DEF PassLocal
  <2>2. \A i \in RemoteSources : Passed(i)' <=> Passed(i)
    BY <1>2, <2>1 DEF Passed
  <2> QED
    BY <1>1, <2>1, <2>2 DEF InputsInv
<1>6. CASE GraphDone
  <2>1. /\ at = "graph" /\ at' = "resolve" /\ pos \notin 1..all
        /\ inputs' = inputs /\ lockRead' = lockRead
    BY <1>6 DEF GraphDone
  <2>2. \A i \in RemoteSources : Passed(i)' /\ Passed(i)
    BY <1>2, <2>1 DEF Passed, Phases
  <2> QED
    BY <1>1, <2>1, <2>2 DEF InputsInv
<1>7. CASE Fail \/ Refuse
  BY <1>7 DEF Fail, Refuse, InputsInv
<1>8. ASSUME UNCHANGED <<inputs, lockRead>>, at' \in Resolving => at \in Resolving,
             at' # "graph" \/ (at = "graph" /\ pos' = pos)
      PROVE  InputsInv'
  <2>1. at' \in {"graph"} \cup Resolving => \A i \in RemoteSources : Passed(i)' <=> Passed(i)
    BY <1>8 DEF Passed
  <2> QED
    BY <1>1, <1>8, <2>1 DEF InputsInv
<1>9. CASE Resolve \/ Validate \/ RunStage \/ StagesDone
  BY <1>8, <1>9 DEF Resolve, Validate, RunStage, StagesDone
<1>10. CASE Select \/ Assemble \/ Stamp \/ Publish
  BY <1>8, <1>10 DEF Select, Assemble, Stamp, Publish
<1>11. CASE UNCHANGED vars
  BY <1>8, <1>11 DEF vars
<1> QED
  BY <1>3, <1>4, <1>5, <1>6, <1>7, <1>9, <1>10, <1>11 DEF Next, RejectInput, RejectPlan, StepFails

\* What the inputs stand for.
ImagesInv ==
  /\ DOMAIN images \subseteq Remotes /\ \A r \in DOMAIN images : images[r] \in Images
  /\ \A r \in OrdinaryRefs \cap DOMAIN images : r \in DOMAIN lock /\ images[r] = lock[r]
  /\ \A r \in BootstrapRefs \cap DOMAIN images : images[r] = tags[r]
  /\ at \in {"validate"} \cup Building => DOMAIN images = Reads

LEMMA ImagesStep ==
  ASSUME PlanSound, PinsSound, InputsInv, ImagesInv, [Next]_vars
  PROVE  ImagesInv'
<1>0. UNCHANGED captured
  BY Captured
<1>1. OrdinaryRefs' = OrdinaryRefs /\ BootstrapRefs' = BootstrapRefs /\ Reads' = Reads
  BY <1>0, SameSources, Readers DEF Reads
<1>2. CASE Resolve
  <2>1. /\ at \in Resolving /\ DOMAIN images' = DOMAIN inputs
        /\ \A r \in DOMAIN inputs : inputs[r] = "tag" => r \in DOMAIN tags
        /\ \A r \in DOMAIN inputs : images'[r] = IF inputs[r] = "tag" THEN tags[r] ELSE inputs[r]
    BY <1>2 DEF Resolve, Resolving
  <2>2. /\ DOMAIN inputs = Reads /\ Reads \subseteq Remotes
        /\ \A r \in OrdinaryRefs : r \in DOMAIN lock /\ inputs[r] = lock[r] /\ lock[r] \in Images
        /\ \A r \in BootstrapRefs : inputs[r] = "tag"
    BY <2>1, InputsSound
  <2>3. \A r \in OrdinaryRefs : r \in DOMAIN images' /\ images'[r] = lock[r] /\ images'[r] \in Images
    BY <2>1, <2>2, Readers, NamesAssumption DEF NamesAssumption
  <2>4. \A r \in BootstrapRefs : images'[r] = tags[r] /\ images'[r] \in Images
    BY <2>1, <2>2, Readers DEF PinsSound
  <2> QED
    BY <1>0, <1>1, <2>1, <2>2, <2>3, <2>4, Readers DEF ImagesInv, captured
<1>3. ASSUME UNCHANGED images, at' \in {"validate"} \cup Building => at \in {"validate"} \cup Building
      PROVE  ImagesInv'
  BY <1>0, <1>1, <1>3 DEF ImagesInv, captured
<1>4. CASE Capture \/ AddInput \/ PassLocal \/ GraphDone
  BY <1>3, <1>4 DEF Capture, AddInput, PassLocal, GraphDone, Building
<1>5. CASE Fail \/ Refuse
  BY <1>3, <1>5 DEF Fail, Refuse, Building
<1>6. CASE Validate \/ RunStage \/ StagesDone
  BY <1>3, <1>6 DEF Validate, RunStage, StagesDone, Building
<1>7. CASE Select \/ Assemble \/ Stamp \/ Publish
  BY <1>3, <1>7 DEF Select, Assemble, Stamp, Publish, Building
<1>8. CASE UNCHANGED vars
  BY <1>3, <1>8 DEF vars
<1> QED
  BY <1>2, <1>4, <1>5, <1>6, <1>7, <1>8 DEF Next, RejectInput, RejectPlan, StepFails

-----------------------------------------------------------------------------
(***************************************************************************)
(* Recursion along the order of the stages                                 *)
(***************************************************************************)

LEMMA NatIsWellFounded == IsWellFoundedOn(OpToRel(<, Nat), Nat)
  BY NatLessThanWellFounded

LEMMA LeastNumber ==
  ASSUME NEW S, S \subseteq Nat, S # {}
  PROVE  \E m \in S : \A k \in S : m <= k
<1> DEFINE R == {ss \in Nat \X Nat : ss[1] < ss[2]}
<1>1. R = OpToRel(<, Nat)
  BY DEF OpToRel
<1> HIDE DEF R
<1>2. IsWellFoundedOn(R, Nat)
  BY <1>1, NatIsWellFounded
<1>3. \E x \in S : \A y \in S : ~(<<y, x>> \in R)
  BY <1>2, WFMin
<1>4. \A x, y \in S : ~(<<y, x>> \in R) => x <= y
  BY DEF R
<1> QED
  BY <1>3, <1>4

-----------------------------------------------------------------------------
(***************************************************************************)
(* The outputs of images and stages                                        *)
(***************************************************************************)

Layer == [parent : Root, root : Root]

Record(o) ==
  /\ o = [base |-> o.base, produced |-> o.produced, pmi |-> o.pmi, values |-> o.values, lineage |-> o.lineage]
  /\ o.base \in Images \cup {Nothing} /\ o.pmi \in Images \cup {"file", Nothing}
  /\ o.produced \in Seq(Layer) /\ o.lineage \in Root

\* It has no image but those the lock names.
Pins == {lock[r] : r \in OrdinaryRefs \cap DOMAIN lock}
Trusted(o) == {o.base, o.pmi} \cap Images \subseteq Pins

\* Every layer continues the one before it, and none has the root of nothing.
Chained(o) ==
  /\ o.base # Nothing => Contents[o.base].root # NoRoot
  /\ \A i \in 1..Len(o.produced) : Len(o.produced[i].root) >= 1 /\ o.produced[i].root # NoRoot
  /\ Contiguous(Links(o))

\* A stage seals a layer, and the lineage of its configuration, if it has one,
\* is a sealed root: not that of any image.
Unlike(o) == o.lineage = NoRoot \/ Len(o.lineage) >= 2
Bound(o) == o.produced # <<>> /\ Unlike(o)

Sound(o) == Record(o) /\ Trusted(o) /\ Chained(o)

LEMMA Single == ASSUME NEW x \in Elements PROVE <<x>> \in Root /\ Len(<<x>>) = 1
  BY DEF Root

LEMMA NoRootIsRoot == NoRoot \in Root /\ Len(NoRoot) = 1
  BY Single DEF NoRoot, Elements

LEMMA ContentRoots == \A i \in Images : Contents[i].root \in Root /\ Len(Contents[i].root) = 1
<1> TAKE i \in Images
<1>1. Contents[i].root[1] \in Elements /\ Contents[i].root = <<Contents[i].root[1]>>
  BY ContentsAssumption DEF ContentsAssumption, Elements
<1> QED
  BY <1>1, Single

\* The hash of an output.
LEMMA HashIsRoot ==
  ASSUME NEW o, Sound(o)
  PROVE  /\ Hash(o) \in Root /\ Len(Hash(o)) >= 1
         /\ HasRoot(o) => Hash(o) # NoRoot
         /\ o.produced # <<>> => Len(o.produced) \in Nat \ {0} /\ Hash(o) = o.produced[Len(o.produced)].root
<1>1. CASE o.produced # <<>>
  <2>1. Len(o.produced) \in Nat \ {0} /\ o.produced[Len(o.produced)] \in Layer
    BY <1>1 DEF Sound, Record
  <2> QED
    BY <1>1, <2>1 DEF Hash, HasRoot, Layer, Sound, Chained
<1>2. CASE o.produced = <<>>
  BY <1>2, ContentRoots, NoRootIsRoot DEF Hash, HasRoot, Sound, Record, Chained
<1> QED
  BY <1>1, <1>2

\* What a pinned image gives.
LEMMA RemoteSound ==
  ASSUME NEW image \in Images, image \in Pins
  PROVE  Sound(Remote(image))
<1> DEFINE o == Remote(image)
<1>1. /\ o.base = (IF Rooted(image) THEN image ELSE Nothing)
      /\ o.produced = <<>>
      /\ o.pmi = (IF Contents[image].pmi THEN image ELSE Nothing)
      /\ o.values = Contents[image].values
      /\ o.lineage = (IF Contents[image].values = NoValues THEN NoRoot ELSE Contents[image].root)
      /\ o = [base |-> o.base, produced |-> o.produced, pmi |-> o.pmi, values |-> o.values, lineage |-> o.lineage]
  BY DEF Remote
<1> HIDE DEF o
<1>2. Record(o)
  BY <1>1, ContentRoots, NoRootIsRoot DEF Record
<1>3. Trusted(o)
  BY <1>1, NamesAssumption DEF Trusted, NamesAssumption
<1>4. Contiguous(Links(o))
  BY <1>1 DEF Contiguous, Links
<1>5. Chained(o)
  BY <1>1, <1>4 DEF Chained, Rooted
<1> QED
  BY <1>2, <1>3, <1>5 DEF Sound, o

\* An image without a configuration has no lineage.
LEMMA RemoteUnlike == \A image : Remote(image).values = NoValues => Unlike(Remote(image))
  BY DEF Remote, Unlike

\* The layers lead to the hash.
LEMMA LinksLead ==
  ASSUME NEW o, Sound(o)
  PROVE  /\ Links(o) \in Seq(Layer) /\ (Links(o) = <<>> <=> ~HasRoot(o))
         /\ HasRoot(o) => Len(Links(o)) \in Nat \ {0} /\ Links(o)[Len(Links(o))].root = Hash(o)
         /\ ~HasRoot(o) => Hash(o) = NoRoot
<1>0. o.produced \in Seq(Layer)
  BY DEF Sound, Record
<1>1. CASE o.base # Nothing
  <2> DEFINE first == [parent |-> ZeroParent, root |-> Contents[o.base].root]
  <2>1. first \in Layer
    BY <1>1, ContentRoots DEF Layer, ZeroParent, Sound, Record, Root
  <2> HIDE DEF first
  <2>2. Links(o) = <<first>> \o o.produced
    BY <1>1 DEF Links, first
  <2>3. <<first>> \in Seq(Layer) /\ Len(<<first>>) = 1
    BY <2>1
  <2>4. Links(o) \in Seq(Layer) /\ Len(Links(o)) = 1 + Len(o.produced) /\ Len(o.produced) \in Nat
    BY <1>0, <2>2, <2>3
  <2>5. HasRoot(o) /\ Links(o) # <<>>
    BY <1>1, <2>4 DEF HasRoot
  <2>6. CASE o.produced = <<>>
    <3>1. Links(o)[1] = first /\ Len(Links(o)) = 1
      BY <2>2, <2>3, <2>4, <2>6
    <3> QED
      BY <1>1, <2>4, <2>5, <2>6, <3>1 DEF Hash, first
  <2>7. CASE o.produced # <<>>
    <3>1. Links(o)[1 + Len(o.produced)] = o.produced[Len(o.produced)]
      BY <1>0, <2>2, <2>3, <2>4, <2>7
    <3> QED
      BY <2>4, <2>5, <2>7, <3>1 DEF Hash
  <2> QED
    BY <2>6, <2>7
<1>2. CASE o.base = Nothing
  <2>1. Links(o) = o.produced
    BY <1>0, <1>2 DEF Links
  <2> QED
    BY <1>0, <1>2, <2>1 DEF Hash, HasRoot
<1> QED
  BY <1>1, <1>2

\* Binding a configuration leaves the layers alone.
LEMMA BindSound ==
  ASSUME NEW o, Sound(o), NEW root \in Root
  PROVE  LET b == BindTo(o, root) IN
         /\ Sound(b) /\ b.produced = o.produced /\ b.base = o.base /\ b.pmi = o.pmi /\ Hash(b) = Hash(o)
         /\ Links(b) = Links(o)
         /\ b.lineage = (IF o.values = NoValues THEN o.lineage ELSE root)
         /\ Corium \in DOMAIN b.values => o.values = NoValues \/ b.values[Corium] = root
<1> DEFINE b == BindTo(o, root)
<1>1. CASE o.values = NoValues
  BY <1>1 DEF BindTo
<1>2. CASE o.values # NoValues
  <2> DEFINE bound == [k \in DOMAIN o.values |-> IF k = Corium THEN root ELSE o.values[k]]
  <2>1. b = [base |-> o.base, produced |-> o.produced, pmi |-> o.pmi, values |-> bound, lineage |-> root]
    BY <1>2 DEF BindTo, Sound, Record
  <2>2. /\ b.base = o.base /\ b.produced = o.produced /\ b.pmi = o.pmi /\ b.lineage = root /\ b.values = bound
        /\ b = [base |-> b.base, produced |-> b.produced, pmi |-> b.pmi, values |-> b.values, lineage |-> b.lineage]
    BY <2>1
  <2> HIDE DEF b
  <2>3. Hash(b) = Hash(o) /\ Links(b) = Links(o)
    BY <2>2 DEF Hash, Links
  <2>4. Sound(b)
    BY <2>2, <2>3 DEF Sound, Record, Trusted, Chained
  <2>5. Corium \in DOMAIN b.values => b.values[Corium] = root
    BY <2>2
  <2> QED
    BY <1>2, <2>2, <2>3, <2>4, <2>5 DEF b
<1> QED
  BY <1>1, <1>2

LEMMA AppendConcat ==
  ASSUME NEW S, NEW s \in Seq(S), NEW t \in Seq(S), NEW x \in S
  PROVE  s \o Append(t, x) = Append(s \o t, x)
<1> DEFINE a == s \o Append(t, x)
           b == Append(s \o t, x)
<1>1. /\ s \o t \in Seq(S) /\ Len(s \o t) = Len(s) + Len(t) /\ Len(s) \in Nat /\ Len(t) \in Nat
      /\ \A i \in 1..(Len(s) + Len(t)) : (s \o t)[i] = IF i <= Len(s) THEN s[i] ELSE t[i - Len(s)]
  BY ConcatProperties, LenProperties
<1>2. /\ Append(t, x) \in Seq(S) /\ Len(Append(t, x)) = Len(t) + 1
      /\ \A i \in 1..Len(t) : Append(t, x)[i] = t[i]
      /\ Append(t, x)[Len(t) + 1] = x
  BY <1>1
<1>3. /\ a \in Seq(S) /\ Len(a) = Len(s) + (Len(t) + 1)
      /\ \A i \in 1..(Len(s) + (Len(t) + 1)) : a[i] = IF i <= Len(s) THEN s[i] ELSE Append(t, x)[i - Len(s)]
  BY <1>2, ConcatProperties
<1>4. /\ b \in Seq(S) /\ Len(b) = Len(s) + Len(t) + 1
      /\ \A i \in 1..(Len(s) + Len(t)) : b[i] = (s \o t)[i]
      /\ b[Len(s) + Len(t) + 1] = x
  BY <1>1
<1> HIDE DEF a, b
<1>5. ASSUME NEW i \in 1..Len(a) PROVE a[i] = b[i]
  <2>1. CASE i = Len(s) + Len(t) + 1
    BY <1>1, <1>2, <1>3, <1>4, <2>1
  <2>2. CASE i \in 1..(Len(s) + Len(t))
    <3>1. CASE i <= Len(s)
      BY <1>1, <1>3, <1>4, <2>2, <3>1
    <3>2. CASE ~(i <= Len(s))
      <4>1. i - Len(s) \in 1..Len(t)
        BY <1>1, <2>2, <3>2
      <4> QED
        BY <1>1, <1>2, <1>3, <1>4, <2>2, <3>2, <4>1
    <3> QED
      BY <3>1, <3>2
  <2>3. i = Len(s) + Len(t) + 1 \/ i \in 1..(Len(s) + Len(t))
    <3>1. i \in 1..(Len(s) + (Len(t) + 1)) /\ Len(s) \in Nat /\ Len(t) \in Nat
      BY <1>1, <1>3
    <3> QED
      BY <3>1
  <2> QED
    BY <2>1, <2>2, <2>3
<1>6. a = b
  BY <1>1, <1>3, <1>4, <1>5, SeqEqual
<1> QED
  BY <1>6 DEF a, b

LEMMA ReplaceProduced ==
  ASSUME NEW o, Record(o), NEW x
  PROVE  [o EXCEPT !.produced = Append(@, x)] =
           [base |-> o.base, produced |-> Append(o.produced, x), pmi |-> o.pmi, values |-> o.values, lineage |-> o.lineage]
<1> PICK b, p, m, v, l : o = [base |-> b, produced |-> p, pmi |-> m, values |-> v, lineage |-> l]
  BY DEF Record
<1>1. \A q : [o EXCEPT !.produced = q] = [base |-> b, produced |-> q, pmi |-> m, values |-> v, lineage |-> l]
  OBVIOUS
<1>2. o.base = b /\ o.produced = p /\ o.pmi = m /\ o.values = v /\ o.lineage = l
  OBVIOUS
<1> QED
  BY <1>1, <1>2

\* A stage that extends seals a layer on top of what it extends.
LEMMA DerivedSound ==
  ASSUME NEW source, Sound(source), HasRoot(source), source.values = NoValues => Unlike(source), NEW n \in Elements
  PROVE  Sound(Derived(n, source)) /\ Bound(Derived(n, source))
<1> DEFINE layer == [parent |-> Hash(source), root |-> Append(Hash(source), n)]
           sealed == [source EXCEPT !.produced = Append(@, layer)]
<1>1. /\ Hash(source) \in Root /\ Len(Hash(source)) >= 1
      /\ layer \in Layer /\ Len(layer.root) >= 2 /\ layer.root # NoRoot
  <2>1. Hash(source) \in Root /\ Len(Hash(source)) >= 1
    BY HashIsRoot
  <2>2. Append(Hash(source), n) \in Root /\ Len(Append(Hash(source), n)) = Len(Hash(source)) + 1 /\ Len(Hash(source)) \in Nat
    BY <2>1 DEF Root
  <2> QED
    BY <2>1, <2>2, NoRootIsRoot DEF Layer
<1>2. layer.parent = Hash(source)
  OBVIOUS
<1> HIDE DEF layer
<1>3. source.produced \in Seq(Layer) /\ Append(source.produced, layer) \in Seq(Layer)
  BY <1>1 DEF Sound, Record
<1>4. /\ sealed = [base |-> source.base, produced |-> Append(source.produced, layer), pmi |-> source.pmi,
                  values |-> source.values, lineage |-> source.lineage]
  BY ReplaceProduced DEF Sound
<1>5. /\ sealed.base = source.base /\ sealed.produced = Append(source.produced, layer) /\ sealed.pmi = source.pmi
      /\ sealed.values = source.values /\ sealed.lineage = source.lineage
      /\ sealed = [base |-> sealed.base, produced |-> sealed.produced, pmi |-> sealed.pmi,
                   values |-> sealed.values, lineage |-> sealed.lineage]
  BY <1>4
<1> HIDE DEF sealed
<1>6. Links(sealed) = Append(Links(source), layer) /\ Links(source) \in Seq(Layer) /\ Len(Links(source)) \in Nat \ {0}
  <2>1. Links(source) \in Seq(Layer) /\ Len(Links(source)) \in Nat \ {0}
    BY LinksLead
  <2>2. CASE source.base # Nothing
    <3> DEFINE first == [parent |-> ZeroParent, root |-> Contents[source.base].root]
    <3>1. first \in Layer
      BY <2>2, ContentRoots DEF Layer, ZeroParent, Sound, Record, Root
    <3>2. Links(sealed) = <<first>> \o sealed.produced /\ Links(source) = <<first>> \o source.produced
      BY <2>2, <1>5 DEF Links
    <3> HIDE DEF first
    <3>3. <<first>> \o Append(source.produced, layer) = Append(<<first>> \o source.produced, layer)
      <4>1. <<first>> \in Seq(Layer)
        BY <3>1
      <4> QED
        BY <4>1, <1>1, <1>3, AppendConcat
    <3> QED
      BY <2>1, <3>2, <3>3, <1>5
  <2>3. CASE source.base = Nothing
    BY <2>1, <2>3, <1>1, <1>3, <1>5 DEF Links
  <2> QED
    BY <2>2, <2>3
<1>7. Contiguous(Links(sealed))
  <2>1. Contiguous(Links(source)) /\ Links(source)[Len(Links(source))].root = Hash(source)
    BY LinksLead DEF Sound, Chained
  <2> SUFFICES ASSUME NEW i \in 1..Len(Links(sealed))
               PROVE  Links(sealed)[i].parent = IF i = 1 THEN ZeroParent ELSE Links(sealed)[i - 1].root
    BY DEF Contiguous
  <2>2. Len(Links(sealed)) = Len(Links(source)) + 1
    BY <1>6
  <2>3. CASE i = Len(Links(source)) + 1
    <3>1. Links(sealed)[i] = layer /\ i # 1 /\ Links(sealed)[i - 1] = Links(source)[Len(Links(source))]
      BY <1>6, <2>3
    <3> QED
      BY <1>2, <2>1, <3>1
  <2>4. CASE i \in 1..Len(Links(source))
    <3>1. Links(sealed)[i] = Links(source)[i]
      BY <1>6, <2>4
    <3>2. i # 1 => Links(sealed)[i - 1] = Links(source)[i - 1]
      BY <1>6, <2>4
    <3> QED
      BY <2>1, <2>4, <3>1, <3>2 DEF Contiguous
  <2> QED
    BY <1>6, <2>2, <2>3, <2>4
<1>8. Sound(sealed)
  <2>1. \A i \in 1..Len(sealed.produced) : Len(sealed.produced[i].root) >= 1 /\ sealed.produced[i].root # NoRoot
    <3> TAKE i \in 1..Len(sealed.produced)
    <3>1. CASE i = Len(source.produced) + 1
      BY <1>1, <1>3, <1>5, <3>1
    <3>2. CASE i \in 1..Len(source.produced)
      <4>1. sealed.produced[i] = source.produced[i]
        BY <1>3, <1>5, <3>2
      <4> QED
        BY <3>2, <4>1 DEF Sound, Chained
    <3> QED
      BY <1>3, <1>5, <3>1, <3>2
  <2> QED
    BY <1>3, <1>5, <1>7, <2>1 DEF Sound, Record, Trusted, Chained
<1>9. sealed.produced # <<>> /\ Hash(sealed) = layer.root
  BY <1>3, <1>5 DEF Hash
<1>10. Derived(n, source) = BindTo(sealed, layer.root)
  BY DEF Derived, sealed, layer
<1>11. layer.root \in Root
  BY <1>1 DEF Layer
<1>12. LET d == Derived(n, source) IN Sound(d) /\ d.produced # <<>>
          /\ d.lineage = (IF source.values = NoValues THEN source.lineage ELSE layer.root)
  BY <1>5, <1>8, <1>9, <1>10, <1>11, BindSound
<1> QED
  BY <1>1, <1>12 DEF Bound, Unlike

\* A stage that formats starts anew.
LEMMA FormattedSound ==
  ASSUME NEW n \in Elements, n # Nothing
  PROVE  Sound(Formatted(n)) /\ Bound(Formatted(n))
<1> DEFINE layer == [parent |-> ZeroParent, root |-> <<n>>]
           f == Formatted(n)
<1>1. layer \in Layer /\ Len(layer.root) >= 1 /\ layer.parent = ZeroParent /\ layer.root # NoRoot
  BY Single DEF Layer, ZeroParent, Root, NoRoot
<1>2. /\ f.base = Nothing /\ f.pmi = Nothing /\ f.lineage = NoRoot /\ f.produced = <<layer>>
      /\ f = [base |-> f.base, produced |-> f.produced, pmi |-> f.pmi, values |-> f.values, lineage |-> f.lineage]
  BY DEF Formatted, NoOutput, BootOnly
<1> HIDE DEF layer, f
<1>3. f.produced \in Seq(Layer) /\ Len(f.produced) = 1 /\ f.produced[1] = layer /\ f.produced # <<>>
  BY <1>1, <1>2
<1>4. Links(f) = f.produced
  BY <1>2, <1>3 DEF Links
<1>5. Contiguous(Links(f))
  BY <1>1, <1>3, <1>4 DEF Contiguous
<1>6. Sound(f)
  BY <1>1, <1>2, <1>3, <1>5, NoRootIsRoot, NamesAssumption DEF Sound, Record, Trusted, Chained, NamesAssumption
<1> QED
  BY <1>2, <1>3, <1>6 DEF Bound, Unlike, f

\* The stages that extend a stage, and what each of the others starts from.
Extending == {n \in Ordered : Stage(n).kind = "extend" /\ ~IsRemote(Stage(n).from)}
Starting(n, formatted, derived) == IF Stage(n).kind # "extend" THEN formatted ELSE derived

\* Values V, one for each stage that extends none, and a step for the others.
Rising(V, start, step) ==
  /\ \A n \in Ordered \ Extending : start[n] \in V
  /\ \A n \in Extending : \A v \in V : step[n][v] \in V

Follows(f, V, start, step) ==
  f \in [Ordered -> V] /\ f = [n \in Ordered |-> IF n \in Extending THEN step[n][f[Stage(n).from]] ELSE start[n]]

\* A value for each stage, from that of the stage it extends, is well defined,
\* as the order has each stage after the one it extends.
LEMMA AlongStages ==
  ASSUME PlanSound
  PROVE  \A V, start, step : Rising(V, start, step) => \E f : Follows(f, V, start, step)
<1> SUFFICES ASSUME NEW V, NEW start, NEW step, Rising(V, start, step) PROVE \E f : Follows(f, V, start, step)
  OBVIOUS
<1> DEFINE size == Len(plan.order)
           order == plan.order
           names == Ordered
           over == Extending
           from == [n \in Ordered |-> Stage(n).from]
           Prefix(k) == {order[i] : i \in 1..k}
           Solves(f, k) == /\ f \in [Prefix(k) -> V]
                           /\ \A n \in Prefix(k) : f[n] = IF n \in over THEN step[n][f[from[n]]] ELSE start[n]
           Bad == {k \in 0..size : ~ \E f : Solves(f, k)}
<1>a. /\ size \in Nat /\ names = {order[i] : i \in 1..size} /\ over \in SUBSET names
      /\ \A n \in names \ over : start[n] \in V
      /\ \A n \in over : \A v \in V : step[n][v] \in V
  BY DEF PlanSound, Ordered, Extending, Rising
<1>b. \A i \in 1..size : order[i] \in over => from[order[i]] \in {order[j] : j \in 1..(i - 1)}
  BY <1>a DEF PlanSound, Before, IsRemote, Extending
<1>c. \A n \in names : from[n] = Stage(n).from
  OBVIOUS
<1> HIDE DEF size, order, names, over, from
<1>1. \A k \in 0..size : \A n \in Prefix(k) : n \in over => from[n] \in Prefix(k)
  BY <1>a, <1>b
<1>2. \E f : Solves(f, 0)
  <2>1. Prefix(0) = {}
    OBVIOUS
  <2>2. Solves([n \in {} |-> n], 0)
    BY <2>1
  <2> QED
    BY <2>2
<1>3. ASSUME NEW k \in 0..(size - 1), NEW f, Solves(f, k) PROVE \E g : Solves(g, k + 1)
  <2> DEFINE last == order[k + 1]
             new == IF last \in over THEN step[last][f[from[last]]] ELSE start[last]
             g == [n \in Prefix(k + 1) |-> IF n \in Prefix(k) THEN f[n] ELSE new]
  <2>1. Prefix(k + 1) = Prefix(k) \cup {last}
    <3>1. 1..(k + 1) = 1..k \cup {k + 1}
      OBVIOUS
    <3> QED
      BY <3>1
  <2>2. last \in names /\ (last \in over => from[last] \in Prefix(k))
    <3>1. k + 1 \in 1..size /\ (k + 1) - 1 = k
      BY <1>a
    <3> QED
      BY <1>a, <1>b, <3>1
  <2>3. \A n \in Prefix(k) : n \in over => from[n] \in Prefix(k)
    BY <1>1, <1>a
  <2>4. f \in [Prefix(k) -> V] /\ \A n \in Prefix(k) : f[n] = IF n \in over THEN step[n][f[from[n]]] ELSE start[n]
    BY <1>3
  <2> HIDE DEF Prefix, last
  <2>5. new \in V
    <3>1. CASE last \in over
      BY <1>a, <2>2, <2>4, <3>1
    <3>2. CASE last \notin over
      BY <1>a, <2>2, <3>2
    <3> QED
      BY <3>1, <3>2
  <2> HIDE DEF new
  <2>6. g \in [Prefix(k + 1) -> V]
    BY <2>1, <2>4, <2>5
  <2>7. ASSUME NEW n \in Prefix(k + 1)
        PROVE  g[n] = IF n \in over THEN step[n][g[from[n]]] ELSE start[n]
    <3>1. \A m \in Prefix(k) : g[m] = f[m]
      BY <2>1
    <3>2. CASE n \in Prefix(k)
      BY <2>3, <2>4, <3>1, <3>2
    <3>3. CASE n \notin Prefix(k)
      <4>1. n = last /\ g[n] = new
        BY <2>1, <3>3
      <4>2. last \in over => g[from[last]] = f[from[last]]
        BY <2>2, <3>1
      <4> QED
        BY <4>1, <4>2 DEF new
    <3> QED
      BY <3>2, <3>3
  <2> HIDE DEF g
  <2>8. Solves(g, k + 1)
    BY <2>6, <2>7
  <2> QED
    BY <2>8
<1> HIDE DEF Solves, Prefix
<1>4. Bad = {}
  <2> SUFFICES ASSUME Bad # {} PROVE FALSE
    OBVIOUS
  <2>1. PICK m \in Bad : \A k \in Bad : m <= k
    <3>1. Bad \subseteq Nat
      OBVIOUS
    <3> QED
      BY <3>1, LeastNumber
  <2>2. m \in 0..size /\ ~ \E f : Solves(f, m)
    OBVIOUS
  <2>3. m # 0
    BY <1>2, <2>2
  <2>4. m - 1 \in 0..(size - 1) /\ m - 1 \notin Bad /\ (m - 1) + 1 = m
    BY <1>a, <2>1, <2>2, <2>3
  <2>5. m - 1 \in 0..size
    BY <1>a, <2>4
  <2>6. \E f : Solves(f, m - 1)
    BY <2>4, <2>5
  <2> QED
    BY <1>3, <2>2, <2>4, <2>6
<1>5. PICK f : Solves(f, size)
  <2>1. size \in 0..size
    BY <1>a
  <2> QED
    BY <1>4, <2>1
<1>6. f \in [names -> V] /\ \A n \in names : f[n] = IF n \in over THEN step[n][f[from[n]]] ELSE start[n]
  BY <1>5, <1>a DEF Solves, Prefix
<1>7. f \in [Ordered -> V] /\ \A n \in Ordered : f[n] = IF n \in Extending THEN step[n][f[Stage(n).from]] ELSE start[n]
  BY <1>6, <1>c DEF names, over
<1> DEFINE h == [n \in Ordered |-> IF n \in Extending THEN step[n][f[Stage(n).from]] ELSE start[n]]
<1>8. f = h
  BY <1>7
<1> QED
  BY <1>7, <1>8 DEF Follows

\* A stage that extends an image finds it.
LEMMA ExtendedImage ==
  ASSUME PlanSound, ImagesInv, DOMAIN images = Reads, NEW n \in Ordered
  PROVE  /\ n \in Elements /\ n \notin Remotes /\ n # Nothing
         /\ Stage(n).from \in Remotes \cup Ordered
         /\ Stage(n).kind = "extend" /\ Stage(n).from \in Remotes =>
              Stage(n).from \in DOMAIN images /\ images[Stage(n).from] \in Images
<1>1. Stage(n).kind = "extend" /\ Stage(n).from \in Remotes => Stage(n).from \in OrdinaryRefs
  BY SourcesRead DEF Ordered
<1>2. n \in Elements /\ n \notin Remotes /\ n # Nothing /\ Stage(n).from \in Remotes \cup Ordered
  BY DEF Ordered, PlanSound, Before
<1> QED
  BY <1>1, <1>2, Readers DEF ImagesInv

\* The functions of the plan are solutions of their definitions.
LEMMA UnfoldsProvides ==
  ASSUME PlanSound, ImagesInv, DOMAIN images = Reads
  PROVE  StageProvides = [n \in Ordered |->
           IF Stage(n).kind # "extend" THEN {"root"}
           ELSE IF IsRemote(Stage(n).from) THEN ImageProvides(images[Stage(n).from])
           ELSE StageProvides[Stage(n).from]]
<1> DEFINE V == SUBSET {"root", "boot"}
           start == [n \in Ordered |-> Starting(n, {"root"}, ImageProvides(images[Stage(n).from]))]
           step == [n \in Ordered |-> [v \in V |-> v]]
<1>1. \A n \in Ordered \ Extending : start[n] \in V
  BY DEF ImageProvides, Starting
<1>2. \A n \in Extending, v \in V : step[n][v] \in V /\ step[n][v] = v
  BY DEF Extending
<1>3. \A n \in Ordered : start[n] = Starting(n, {"root"}, ImageProvides(images[Stage(n).from]))
  OBVIOUS
<1> HIDE DEF V, start, step
<1>4. PICK f : Follows(f, V, start, step)
  <2>1. Rising(V, start, step)
    BY <1>1, <1>2 DEF Rising
  <2> QED
    BY <2>1, AlongStages
<1>5. ASSUME NEW n \in Ordered
      PROVE  f[n] = IF Stage(n).kind # "extend" THEN {"root"}
                    ELSE IF IsRemote(Stage(n).from) THEN ImageProvides(images[Stage(n).from])
                    ELSE f[Stage(n).from]
  <2>1. CASE n \in Extending
    <3>1. f[n] = step[n][f[Stage(n).from]]
      BY <1>4, <2>1 DEF Follows
    <3>2. f[Stage(n).from] \in V
      BY <1>4, <2>1, ExtendedImage DEF Follows, Extending, IsRemote
    <3> QED
      BY <1>2, <2>1, <3>1, <3>2 DEF Extending
  <2>2. CASE n \notin Extending
    <3>1. f[n] = Starting(n, {"root"}, ImageProvides(images[Stage(n).from]))
      BY <1>3, <1>4, <2>2 DEF Follows
    <3> QED
      BY <2>2, <3>1 DEF Extending, Starting
  <2> QED
    BY <2>1, <2>2
<1>6. f = [n \in Ordered |->
        IF Stage(n).kind # "extend" THEN {"root"}
        ELSE IF IsRemote(Stage(n).from) THEN ImageProvides(images[Stage(n).from])
        ELSE f[Stage(n).from]]
  BY <1>4, <1>5 DEF Follows
<1> QED
  BY <1>6 DEF StageProvides

LEMMA UnfoldsRoot ==
  ASSUME PlanSound, ImagesInv, DOMAIN images = Reads
  PROVE  StageRoot = [n \in Ordered |->
           IF Stage(n).kind # "extend" THEN <<n>>
           ELSE IF IsRemote(Stage(n).from) THEN Append(Contents[images[Stage(n).from]].root, n)
           ELSE Append(StageRoot[Stage(n).from], n)]
<1> DEFINE start == [n \in Ordered |-> Starting(n, <<n>>, Append(Contents[images[Stage(n).from]].root, n))]
           step == [n \in Ordered |-> [v \in Root |-> Append(v, n)]]
<1>1. ASSUME NEW n \in Ordered, n \notin Extending PROVE start[n] \in Root
  <2>1. n \in Elements
    BY ExtendedImage
  <2>2. CASE Stage(n).kind # "extend"
    BY <2>1, <2>2, Single DEF Starting
  <2>3. CASE Stage(n).kind = "extend"
    <3>1. Contents[images[Stage(n).from]].root \in Root
      BY <1>1, <2>3, ExtendedImage, ContentRoots DEF Extending, IsRemote
    <3>2. Append(Contents[images[Stage(n).from]].root, n) \in Root
      BY <2>1, <3>1 DEF Root
    <3> QED
      BY <2>3, <3>2 DEF Starting
  <2> QED
    BY <2>2, <2>3
<1>2. ASSUME NEW n \in Extending, NEW v \in Root PROVE step[n][v] \in Root /\ step[n][v] = Append(v, n)
  <2>1. n \in Ordered
    BY DEF Extending
  <2>2. Append(v, n) \in Root
    BY <2>1, ExtendedImage DEF Root
  <2> QED
    BY <2>1, <2>2
<1>3. \A n \in Ordered : start[n] = Starting(n, <<n>>, Append(Contents[images[Stage(n).from]].root, n))
  OBVIOUS
<1> HIDE DEF start, step
<1>4. PICK f : Follows(f, Root, start, step)
  <2>1. Rising(Root, start, step)
    BY <1>1, <1>2 DEF Rising
  <2> QED
    BY <2>1, AlongStages
<1>5. ASSUME NEW n \in Ordered
      PROVE  f[n] = IF Stage(n).kind # "extend" THEN <<n>>
                    ELSE IF IsRemote(Stage(n).from) THEN Append(Contents[images[Stage(n).from]].root, n)
                    ELSE Append(f[Stage(n).from], n)
  <2>1. CASE n \in Extending
    <3>1. f[n] = step[n][f[Stage(n).from]]
      BY <1>4, <2>1 DEF Follows
    <3>2. f[Stage(n).from] \in Root
      BY <1>4, <2>1, ExtendedImage DEF Follows, Extending, IsRemote
    <3> QED
      BY <1>2, <2>1, <3>1, <3>2 DEF Extending
  <2>2. CASE n \notin Extending
    <3>1. f[n] = Starting(n, <<n>>, Append(Contents[images[Stage(n).from]].root, n))
      BY <1>3, <1>4, <2>2 DEF Follows
    <3> QED
      BY <2>2, <3>1 DEF Extending, Starting
  <2> QED
    BY <2>1, <2>2
<1>6. f = [n \in Ordered |->
        IF Stage(n).kind # "extend" THEN <<n>>
        ELSE IF IsRemote(Stage(n).from) THEN Append(Contents[images[Stage(n).from]].root, n)
        ELSE Append(f[Stage(n).from], n)]
  BY <1>4, <1>5 DEF Follows
<1> QED
  BY <1>6 DEF StageRoot

LEMMA UnfoldsOrigin ==
  ASSUME PlanSound, ImagesInv, DOMAIN images = Reads
  PROVE  StageOrigin = [n \in Ordered |->
           IF Stage(n).kind # "extend" THEN Nothing
           ELSE IF IsRemote(Stage(n).from) THEN images[Stage(n).from]
           ELSE StageOrigin[Stage(n).from]]
<1> DEFINE V == Images \cup {Nothing}
           start == [n \in Ordered |-> Starting(n, Nothing, images[Stage(n).from])]
           step == [n \in Ordered |-> [v \in V |-> v]]
<1>1. \A n \in Ordered \ Extending : start[n] \in V
  BY ExtendedImage DEF Starting, Extending, IsRemote
<1>2. \A n \in Extending, v \in V : step[n][v] \in V /\ step[n][v] = v
  BY DEF Extending
<1>3. \A n \in Ordered : start[n] = Starting(n, Nothing, images[Stage(n).from])
  OBVIOUS
<1> HIDE DEF V, start, step
<1>4. PICK f : Follows(f, V, start, step)
  <2>1. Rising(V, start, step)
    BY <1>1, <1>2 DEF Rising
  <2> QED
    BY <2>1, AlongStages
<1>5. ASSUME NEW n \in Ordered
      PROVE  f[n] = IF Stage(n).kind # "extend" THEN Nothing
                    ELSE IF IsRemote(Stage(n).from) THEN images[Stage(n).from]
                    ELSE f[Stage(n).from]
  <2>1. CASE n \in Extending
    <3>1. f[n] = step[n][f[Stage(n).from]]
      BY <1>4, <2>1 DEF Follows
    <3>2. f[Stage(n).from] \in V
      BY <1>4, <2>1, ExtendedImage DEF Follows, Extending, IsRemote
    <3> QED
      BY <1>2, <2>1, <3>1, <3>2 DEF Extending
  <2>2. CASE n \notin Extending
    <3>1. f[n] = Starting(n, Nothing, images[Stage(n).from])
      BY <1>3, <1>4, <2>2 DEF Follows
    <3> QED
      BY <2>2, <3>1 DEF Extending, Starting
  <2> QED
    BY <2>1, <2>2
<1>6. f = [n \in Ordered |->
        IF Stage(n).kind # "extend" THEN Nothing
        ELSE IF IsRemote(Stage(n).from) THEN images[Stage(n).from]
        ELSE f[Stage(n).from]]
  BY <1>4, <1>5 DEF Follows
<1> QED
  BY <1>6 DEF StageOrigin

\* The stages that are done have outputs, and sound ones.
OutputsInv ==
  /\ DOMAIN outputs \subseteq Ordered
  /\ \A n \in DOMAIN outputs : Sound(outputs[n]) /\ Bound(outputs[n])
  /\ at = "execute" => DOMAIN outputs = Before(pos)
  /\ at = "select" => DOMAIN outputs = Ordered

\* What the ordinary references of the build stand for.
LEMMA ResolvedSound ==
  ASSUME PlanSound, PinsSound, InputsInv, ImagesInv, OutputsInv, at \in Building,
         NEW ref, ref \in OrdinaryRefs \cup DOMAIN outputs
  PROVE  /\ Sound(Resolved(ref))
         /\ Resolved(ref).values = NoValues => Unlike(Resolved(ref))
         /\ ref \in Remotes => ref \in DOMAIN images /\ images[ref] \in Images /\ Resolved(ref) = Remote(images[ref])
         /\ ref \notin Remotes => ref \in DOMAIN outputs /\ Bound(Resolved(ref))
<1>1. /\ DOMAIN inputs = Reads /\ Reads \subseteq Remotes
      /\ \A r \in OrdinaryRefs : r \in DOMAIN lock
  BY InputsSound DEF Resolving
<1>2. CASE ref \in OrdinaryRefs
  <2>1. ref \in Remotes /\ ref \in DOMAIN images /\ images[ref] = lock[ref] /\ images[ref] \in Images
    BY <1>1, <1>2, Readers DEF ImagesInv
  <2>2. images[ref] \in Pins
    BY <1>1, <1>2, <2>1 DEF Pins
  <2>3. Resolved(ref) = Remote(images[ref])
    BY <2>1 DEF Resolved, IsRemote
  <2> QED
    BY <2>1, <2>2, <2>3, RemoteSound, RemoteUnlike
<1>3. CASE ref \in DOMAIN outputs
  <2>1. ref \notin Remotes
    BY <1>3 DEF OutputsInv, Ordered, PlanSound
  <2>2. Resolved(ref) = outputs[ref]
    BY <2>1 DEF Resolved, IsRemote
  <2> QED
    BY <1>3, <2>1, <2>2 DEF OutputsInv, Bound
<1> QED
  BY <1>2, <1>3

LEMMA OutputsStep ==
  ASSUME PlanSound, PinsSound, Phases, Unused, InputsInv, ImagesInv, OutputsInv, [Next]_vars
  PROVE  OutputsInv'
<1>0. UNCHANGED captured
  BY Captured
<1>1. /\ Ordered' = Ordered /\ Pins' = Pins
  BY <1>0, SameSources DEF captured, Ordered, Pins
<1>2. \A o : Sound(o)' <=> Sound(o)
  BY <1>1 DEF Sound, Record, Trusted, Chained, Contiguous, Links, Hash
<1>3. \A o : Bound(o)' <=> Bound(o)
  BY DEF Bound, Unlike
<1>4. ASSUME UNCHANGED outputs, at' = "execute" => at = "execute" /\ pos' = pos, at' = "select" => at = "select"
      PROVE  OutputsInv'
  <2>1. at' = "execute" => Before(pos)' = Before(pos)
    BY <1>0, <1>4 DEF captured, Before
  <2> QED
    BY <1>1, <1>2, <1>3, <1>4, <2>1 DEF OutputsInv
<1>5. CASE Validate
  <2>1. outputs = NoValues /\ outputs' = outputs /\ pos = 1 /\ pos' = 1 /\ DOMAIN NoValues = {}
    BY <1>5 DEF Validate, Unused, NoValues
  <2>2. at' = "execute" => Before(pos)' = {}
    BY <2>1 DEF Before
  <2>3. at' = "select" => Ordered = {}
    BY <1>5 DEF Validate, ExecutionRequired, Ordered
  <2> QED
    BY <1>1, <2>1, <2>2, <2>3 DEF OutputsInv
<1>6. CASE RunStage
  <2> DEFINE n == plan.order[pos]
             source == Resolved(Stage(n).from)
  <2>1. /\ at = "execute" /\ at' = "execute" /\ pos \in 1..Len(plan.order) /\ pos' = pos + 1 /\ pos \in Nat \ {0}
        /\ StageReady(n) /\ outputs' = [m \in DOMAIN outputs \cup {n} |-> IF m = n THEN Made(n) ELSE outputs[m]]
    BY <1>6 DEF RunStage, Phases, PlanSound
  <2>2. n \in Ordered /\ n \in Elements /\ n # Nothing
    BY <2>1 DEF Ordered, PlanSound
  <2>3. Sound(Made(n)) /\ Bound(Made(n))
    <3>1. CASE Stage(n).kind = "extend"
      <4>1. Stage(n).from \in Remotes \cup Before(pos)
        BY <2>1 DEF PlanSound
      <4>2. Stage(n).from \in OrdinaryRefs \cup DOMAIN outputs
        BY <2>1, <3>1, <4>1, SourcesRead DEF OutputsInv
      <4>3. Sound(source) /\ (source.values = NoValues => Unlike(source))
        BY <2>1, <4>2, ResolvedSound DEF Building
      <4>4. HasRoot(source)
        BY <2>1 DEF StageReady
      <4> QED
        BY <2>2, <3>1, <4>3, <4>4, DerivedSound DEF Made
    <3>2. CASE Stage(n).kind # "extend"
      BY <2>2, <3>2, FormattedSound DEF Made
    <3> QED
      BY <3>1, <3>2
  <2>4. Before(pos)' = Before(pos) \cup {n}
    <3>1. Before(pos)' = {plan.order[j] : j \in 1..pos}
      BY <1>0, <2>1 DEF Before, captured
    <3>2. 1..pos = 1..(pos - 1) \cup {pos}
      BY <2>1
    <3> QED
      BY <3>1, <3>2 DEF Before
  <2>5. \A m \in DOMAIN outputs' : Sound(outputs'[m]) /\ Bound(outputs'[m])
    BY <2>1, <2>3 DEF OutputsInv
  <2>6. DOMAIN outputs' = DOMAIN outputs \cup {n}
    BY <2>1
  <2> QED
    BY <1>1, <1>2, <1>3, <2>1, <2>2, <2>4, <2>5, <2>6 DEF OutputsInv
<1>7. CASE StagesDone
  <2>1. at = "execute" /\ pos \in Nat /\ pos > Len(plan.order) /\ at' = "select" /\ outputs' = outputs
    BY <1>7 DEF StagesDone, Phases
  <2>2. Ordered \subseteq Before(pos)
    <3>1. Len(plan.order) \in Nat
      BY DEF PlanSound
    <3> QED
      BY <2>1, <3>1 DEF Ordered, Before
  <2> QED
    BY <1>1, <1>2, <1>3, <2>1, <2>2 DEF OutputsInv
<1>8. CASE Capture \/ AddInput \/ PassLocal \/ GraphDone
  BY <1>4, <1>8 DEF Capture, AddInput, PassLocal, GraphDone
<1>9. CASE Resolve \/ Select \/ Assemble \/ Stamp \/ Publish
  BY <1>4, <1>9 DEF Resolve, Select, Assemble, Stamp, Publish
<1>10. CASE Fail \/ Refuse
  BY <1>4, <1>10 DEF Fail, Refuse
<1>11. CASE UNCHANGED vars
  BY <1>4, <1>11 DEF vars
<1> QED
  BY <1>5, <1>6, <1>7, <1>8, <1>9, <1>10, <1>11 DEF Next, RejectInput, RejectPlan, StepFails

-----------------------------------------------------------------------------
(***************************************************************************)
(* What the plan asks of each output                                       *)
(***************************************************************************)

\* What is inherited of an image, or of none.
PmiOf(image) == IF image = Nothing THEN Nothing ELSE IF Contents[image].pmi THEN image ELSE Nothing
ValuesOf(image) == IF image = Nothing THEN NoValues ELSE Contents[image].values

\* An output provides what was expected of it, and has the root, the PMI and,
\* but for the key that names its root, the configuration that were planned.
AsPlanned(ref, o) ==
  /\ HasRoot(o) <=> "root" \in Provides[ref]
  /\ o.pmi # Nothing <=> "boot" \in Provides[ref]
  /\ Hash(o) = PlannedRoot[ref]
  /\ Origin[ref] \in Images \cup {Nothing} /\ o.pmi = PmiOf(Origin[ref])
  /\ o.values # NoValues => ValuesOf(Origin[ref]) # NoValues
  /\ DOMAIN o.values = DOMAIN ValuesOf(Origin[ref])
  /\ \A k \in DOMAIN o.values : k # Corium => o.values[k] = ValuesOf(Origin[ref])[k]

LEMMA BindFields ==
  ASSUME NEW o, NEW root,
         o = [base |-> o.base, produced |-> o.produced, pmi |-> o.pmi, values |-> o.values, lineage |-> o.lineage]
  PROVE  BindTo(o, root) =
           IF o.values = NoValues THEN o
           ELSE [base |-> o.base, produced |-> o.produced, pmi |-> o.pmi,
                 values |-> [k \in DOMAIN o.values |-> IF k = Corium THEN root ELSE o.values[k]], lineage |-> root]
<1>1. CASE o.values = NoValues
  BY <1>1 DEF BindTo
<1>2. CASE o.values # NoValues
  <2> DEFINE bound == [k \in DOMAIN o.values |-> IF k = Corium THEN root ELSE o.values[k]]
  <2>1. BindTo(o, root) = [base |-> o.base, produced |-> o.produced, pmi |-> o.pmi, values |-> bound, lineage |-> root]
    BY <1>2 DEF BindTo
  <2> QED
    BY <1>2, <2>1
<1> QED
  BY <1>1, <1>2

LEMMA RemoteAsPlanned ==
  ASSUME ImagesInv, NEW ref \in DOMAIN images
  PROVE  AsPlanned(ref, Remote(images[ref]))
<1> DEFINE image == images[ref]
           o == Remote(image)
<1>1. image \in Images /\ image # Nothing /\ IsRemote(ref)
  BY NamesAssumption DEF ImagesInv, NamesAssumption, IsRemote
<1>2. /\ Provides[ref] = ImageProvides(image) /\ PlannedRoot[ref] = Contents[image].root /\ Origin[ref] = image
  BY <1>1 DEF Provides, PlannedRoot, Origin
<1>3. /\ o.base = (IF Rooted(image) THEN image ELSE Nothing)
      /\ o.produced = <<>>
      /\ o.pmi = (IF Contents[image].pmi THEN image ELSE Nothing)
      /\ o.values = Contents[image].values
  BY DEF Remote
<1> HIDE DEF image, o
<1>4. HasRoot(o) <=> Rooted(image)
  BY <1>1, <1>3 DEF HasRoot
<1>5. Hash(o) = Contents[image].root
  BY <1>1, <1>3 DEF Hash, Rooted
<1>6. /\ "root" \in ImageProvides(image) <=> Rooted(image)
      /\ "boot" \in ImageProvides(image) <=> Contents[image].pmi
  BY DEF ImageProvides
<1>7. PmiOf(image) = o.pmi /\ ValuesOf(image) = o.values
  BY <1>1, <1>3 DEF PmiOf, ValuesOf
<1> HIDE DEF o
<1> QED
  BY <1>1, <1>2, <1>3, <1>4, <1>5, <1>6, <1>7 DEF AsPlanned, o, image

\* What the plan says of a stage.
LEMMA PlannedStage ==
  ASSUME PlanSound, ImagesInv, DOMAIN images = Reads, NEW n \in Ordered
  PROVE  IF Stage(n).kind = "extend"
         THEN LET from == Stage(n).from IN
              /\ Provides[n] = Provides[from] /\ Origin[n] = Origin[from]
              /\ PlannedRoot[n] = Append(PlannedRoot[from], n)
         ELSE Provides[n] = {"root"} /\ Origin[n] = Nothing /\ PlannedRoot[n] = <<n>>
<1> DEFINE from == Stage(n).from
<1>1. Provides[n] = StageProvides[n] /\ Origin[n] = StageOrigin[n] /\ PlannedRoot[n] = StageRoot[n]
  BY ExtendedImage DEF Provides, Origin, PlannedRoot, IsRemote
<1>2. CASE Stage(n).kind = "extend"
  <2>1. CASE IsRemote(from)
    <3>1. from \in DOMAIN images
      BY <1>2, <2>1, ExtendedImage DEF IsRemote
    <3>2. /\ Provides[from] = ImageProvides(images[from]) /\ Origin[from] = images[from]
          /\ PlannedRoot[from] = Contents[images[from]].root
      BY <2>1, <3>1 DEF Provides, Origin, PlannedRoot
    <3>3. StageProvides[n] = ImageProvides(images[from])
      BY <1>2, <2>1, UnfoldsProvides
    <3>4. StageRoot[n] = Append(Contents[images[from]].root, n)
      BY <1>2, <2>1, UnfoldsRoot
    <3>5. StageOrigin[n] = images[from]
      BY <1>2, <2>1, UnfoldsOrigin
    <3> QED
      BY <1>1, <1>2, <3>2, <3>3, <3>4, <3>5
  <2>2. CASE ~IsRemote(from)
    <3>1. from \in Ordered
      BY <2>2, ExtendedImage DEF IsRemote
    <3>2. Provides[from] = StageProvides[from] /\ Origin[from] = StageOrigin[from] /\ PlannedRoot[from] = StageRoot[from]
      BY <2>2, <3>1 DEF Provides, Origin, PlannedRoot
    <3>3. StageProvides[n] = StageProvides[from]
      BY <1>2, <2>2, UnfoldsProvides
    <3>4. StageRoot[n] = Append(StageRoot[from], n)
      BY <1>2, <2>2, UnfoldsRoot
    <3>5. StageOrigin[n] = StageOrigin[from]
      BY <1>2, <2>2, UnfoldsOrigin
    <3> QED
      BY <1>1, <1>2, <3>2, <3>3, <3>4, <3>5
  <2> QED
    BY <2>1, <2>2
<1>3. CASE Stage(n).kind # "extend"
  <2>1. StageProvides[n] = {"root"}
    BY <1>3, UnfoldsProvides
  <2>2. StageRoot[n] = <<n>>
    BY <1>3, UnfoldsRoot
  <2>3. StageOrigin[n] = Nothing
    BY <1>3, UnfoldsOrigin
  <2> QED
    BY <1>1, <1>3, <2>1, <2>2, <2>3
<1> QED
  BY <1>2, <1>3

\* Sealing a layer keeps what was planned of its source.
LEMMA DerivedAsPlanned ==
  ASSUME PlanSound, ImagesInv, DOMAIN images = Reads, NEW n \in Ordered, Stage(n).kind = "extend",
         NEW source, Record(source), HasRoot(source), AsPlanned(Stage(n).from, source)
  PROVE  AsPlanned(n, Derived(n, source))
<1> DEFINE layer == [parent |-> Hash(source), root |-> Append(Hash(source), n)]
           sealed == [source EXCEPT !.produced = Append(@, layer)]
           d == Derived(n, source)
           bound == [k \in DOMAIN source.values |-> IF k = Corium THEN layer.root ELSE source.values[k]]
<1>1. sealed = [base |-> source.base, produced |-> Append(source.produced, layer), pmi |-> source.pmi,
                values |-> source.values, lineage |-> source.lineage]
  BY ReplaceProduced
<1>2. d = IF source.values = NoValues THEN sealed
          ELSE [base |-> source.base, produced |-> Append(source.produced, layer), pmi |-> source.pmi,
                values |-> bound, lineage |-> layer.root]
  <2>1. d = BindTo(sealed, layer.root)
    BY DEF Derived
  <2>2. /\ sealed.base = source.base /\ sealed.produced = Append(source.produced, layer) /\ sealed.pmi = source.pmi
        /\ sealed.values = source.values /\ sealed.lineage = source.lineage
        /\ sealed = [base |-> sealed.base, produced |-> sealed.produced, pmi |-> sealed.pmi,
                     values |-> sealed.values, lineage |-> sealed.lineage]
    BY <1>1
  <2> HIDE DEF d, sealed, layer
  <2> QED
    BY <2>1, <2>2, BindFields
<1>3. d.base = source.base /\ d.produced = Append(source.produced, layer) /\ d.pmi = source.pmi
      /\ d.values = (IF source.values = NoValues THEN source.values ELSE bound)
  BY <1>1, <1>2
<1>4. layer \in [parent : {Hash(source)}, root : {layer.root}] /\ layer.root = Append(PlannedRoot[Stage(n).from], n)
  BY DEF AsPlanned
<1> HIDE DEF d, layer
<1>5. /\ Len(Append(source.produced, layer)) \in Nat \ {0}
      /\ Append(source.produced, layer)[Len(Append(source.produced, layer))] = layer
  <2>1. source.produced \in Seq(Layer)
    BY DEF Record
  <2>2. source.produced \in Seq(Layer \cup {layer}) /\ layer \in Layer \cup {layer}
    BY <2>1
  <2> QED
    BY <2>2
<1>6. d.produced # <<>> /\ d.produced[Len(d.produced)] = layer
  <2>1. d.produced = Append(source.produced, layer) /\ Len(d.produced) # 0
    BY <1>3, <1>5
  <2> QED
    BY <1>5, <2>1
<1>7. HasRoot(d) /\ Hash(d) = layer.root
  BY <1>6 DEF HasRoot, Hash
<1>8. DOMAIN d.values = DOMAIN source.values /\ (d.values # NoValues => source.values # NoValues)
      /\ \A k \in DOMAIN d.values : k # Corium => d.values[k] = source.values[k]
  BY <1>3
<1>9. Provides[n] = Provides[Stage(n).from] /\ Origin[n] = Origin[Stage(n).from]
      /\ PlannedRoot[n] = Append(PlannedRoot[Stage(n).from], n)
  BY PlannedStage
<1> QED
  BY <1>3, <1>4, <1>7, <1>8, <1>9 DEF AsPlanned, d

LEMMA FormattedAsPlanned ==
  ASSUME PlanSound, ImagesInv, DOMAIN images = Reads, NEW n \in Ordered, Stage(n).kind # "extend"
  PROVE  AsPlanned(n, Formatted(n))
<1> DEFINE f == Formatted(n)
<1>1. f.base = Nothing /\ f.pmi = Nothing /\ f.values = NoValues /\ f.produced = <<[parent |-> ZeroParent, root |-> <<n>>]>>
  BY DEF Formatted, NoOutput, BootOnly
<1> HIDE DEF f
<1>2. HasRoot(f) /\ Hash(f) = <<n>>
  BY <1>1 DEF HasRoot, Hash
<1>3. Provides[n] = {"root"} /\ Origin[n] = Nothing /\ PlannedRoot[n] = <<n>>
  BY PlannedStage
<1>4. PmiOf(Nothing) = Nothing /\ ValuesOf(Nothing) = NoValues /\ DOMAIN NoValues = {}
  BY DEF PmiOf, ValuesOf, NoValues
<1> QED
  BY <1>1, <1>2, <1>3, <1>4 DEF AsPlanned, f

\* What was accepted stays accepted, and what is done is as planned.
PlansInv ==
  at \in Building => Available /\ \A n \in DOMAIN outputs : AsPlanned(n, outputs[n])

LEMMA SamePlans ==
  ASSUME UNCHANGED <<captured, images>>
  PROVE  /\ Available' <=> Available
         /\ \A ref, o : AsPlanned(ref, o)' <=> AsPlanned(ref, o)
         /\ PlannedRoot' = PlannedRoot /\ Origin' = Origin
<1>1. Ordered' = Ordered /\ images' = images /\ \A n : Stage(n)' = Stage(n)
  BY DEF captured, Ordered, Stage
<1>2. Provides' = Provides
  BY DEF Provides, StageProvides, ImageProvides, Rooted, IsRemote, captured, Ordered, Stage
<1>3. PlannedRoot' = PlannedRoot
  BY DEF PlannedRoot, StageRoot, IsRemote, captured, Ordered, Stage
<1>4. Origin' = Origin
  BY DEF Origin, StageOrigin, IsRemote, captured, Ordered, Stage
<1>5. Available' <=> Available
  BY <1>1, <1>2 DEF Available, captured
<1>6. \A ref, o : AsPlanned(ref, o)' <=> AsPlanned(ref, o)
  BY <1>2, <1>3, <1>4 DEF AsPlanned, HasRoot, Hash, PmiOf, ValuesOf
<1> QED
  BY <1>3, <1>4, <1>5, <1>6

\* Images and stages are as planned.
LEMMA ResolvedAsPlanned ==
  ASSUME PlanSound, ImagesInv, OutputsInv, PlansInv, at \in Building, NEW ref \in DOMAIN images \cup DOMAIN outputs
  PROVE  AsPlanned(ref, Resolved(ref))
<1>1. CASE ref \in DOMAIN images
  <2>1. Resolved(ref) = Remote(images[ref])
    BY <1>1 DEF ImagesInv, Resolved, IsRemote
  <2> QED
    BY <1>1, <2>1, RemoteAsPlanned
<1>2. CASE ref \in DOMAIN outputs
  <2>1. Resolved(ref) = outputs[ref]
    BY <1>2 DEF OutputsInv, Ordered, PlanSound, Resolved, IsRemote
  <2> QED
    BY <1>2, <2>1 DEF PlansInv
<1> QED
  BY <1>1, <1>2

\* No stage finds a component missing.
LEMMA ReadyToRun ==
  ASSUME PlanSound, ImagesInv, OutputsInv, PlansInv, at = "execute", pos \in 1..Len(plan.order)
  PROVE  StageReady(plan.order[pos])
<1> DEFINE n == plan.order[pos]
<1>1. at \in Building /\ DOMAIN images = Reads /\ DOMAIN outputs = Before(pos) /\ n \in Ordered
  BY DEF Building, ImagesInv, OutputsInv, Ordered
<1>2. Stage(n).from \in DOMAIN images \cup DOMAIN outputs
  <2>1. Stage(n).from \in Remotes \cup Before(pos)
    BY DEF PlanSound
  <2>2. Stage(n).from \in Remotes => Stage(n).from \in OrdinaryRefs \cup BootstrapRefs
    BY SourcesRead
  <2> QED
    BY <1>1, <2>1, <2>2, Readers
<1>3. HasRoot(Resolved(Stage(n).from))
  <2>1. "root" \in Provides[Stage(n).from]
    BY <1>1 DEF PlansInv, Available
  <2> QED
    BY <1>1, <1>2, <2>1, ResolvedAsPlanned DEF AsPlanned
<1>4. \A c \in Stage(n).copies : c \in DOMAIN outputs /\ HasRoot(outputs[c])
  BY <1>1 DEF PlanSound, OutputsInv, Bound, HasRoot
<1> QED
  BY <1>3, <1>4 DEF StageReady

LEMMA PlansStep ==
  ASSUME PlanSound, PinsSound, Phases, Unused, InputsInv, ImagesInv, OutputsInv, PlansInv, [Next]_vars
  PROVE  PlansInv'
<1>0. UNCHANGED captured
  BY Captured
<1>1. ASSUME at' \notin Building PROVE PlansInv'
  BY <1>1 DEF PlansInv
<1>2. ASSUME UNCHANGED <<images, outputs>>, at \in Building PROVE PlansInv'
  BY <1>0, <1>2, SamePlans DEF PlansInv
<1>3. CASE Validate
  <2>1. Available /\ UNCHANGED <<images, outputs>> /\ outputs = NoValues /\ DOMAIN NoValues = {}
    BY <1>3 DEF Validate, Unused, NoValues
  <2> QED
    BY <1>0, <2>1, SamePlans DEF PlansInv
<1>4. CASE RunStage
  <2> DEFINE n == plan.order[pos]
             source == Resolved(Stage(n).from)
  <2>1. /\ at = "execute" /\ at \in Building /\ pos \in 1..Len(plan.order) /\ UNCHANGED images /\ n \in Ordered
        /\ StageReady(n) /\ outputs' = [m \in DOMAIN outputs \cup {n} |-> IF m = n THEN Made(n) ELSE outputs[m]]
    BY <1>4 DEF RunStage, Phases, PlanSound, Building, Ordered
  <2>2. DOMAIN images = Reads /\ DOMAIN outputs = Before(pos)
    BY <2>1 DEF ImagesInv, OutputsInv
  <2>3. AsPlanned(n, Made(n))
    <3>1. CASE Stage(n).kind = "extend"
      <4>1. Stage(n).from \in OrdinaryRefs \cup DOMAIN outputs
        <5>1. Stage(n).from \in Remotes \cup Before(pos)
          BY <2>1 DEF PlanSound
        <5> QED
          BY <2>1, <2>2, <3>1, <5>1, SourcesRead
      <4>2. Sound(source) /\ Record(source) /\ HasRoot(source)
        BY <2>1, <4>1, ResolvedSound DEF Sound, StageReady
      <4>3. AsPlanned(Stage(n).from, source)
        BY <2>1, <2>2, <4>1, ResolvedAsPlanned, Readers
      <4> QED
        BY <2>1, <2>2, <3>1, <4>2, <4>3, DerivedAsPlanned DEF Made
    <3>2. CASE Stage(n).kind # "extend"
      BY <2>1, <2>2, <3>2, FormattedAsPlanned DEF Made
    <3> QED
      BY <3>1, <3>2
  <2>4. \A m \in DOMAIN outputs' : AsPlanned(m, outputs'[m])
    BY <2>1, <2>3 DEF PlansInv
  <2>5. Available
    BY <2>1 DEF PlansInv
  <2> QED
    BY <1>0, <2>1, <2>4, <2>5, SamePlans DEF PlansInv
<1>5. CASE Capture \/ AddInput \/ PassLocal \/ GraphDone \/ Resolve \/ Fail \/ Refuse
  BY <1>1, <1>5 DEF Capture, AddInput, PassLocal, GraphDone, Resolve, Fail, Refuse, Building
<1>6. CASE StagesDone \/ Select \/ Assemble \/ Stamp
  BY <1>2, <1>6 DEF StagesDone, Select, Assemble, Stamp, Building
<1>7. CASE Publish
  BY <1>1, <1>7 DEF Publish, Building
<1>8. CASE UNCHANGED vars
  BY <1>1, <1>2, <1>8 DEF vars
<1> QED
  BY <1>3, <1>4, <1>5, <1>6, <1>7, <1>8 DEF Next, RejectInput, RejectPlan, StepFails

-----------------------------------------------------------------------------
(***************************************************************************)
(* The selected output                                                     *)
(***************************************************************************)

LEMMA NothingSound == Sound(NoOutput) /\ Unlike(NoOutput) /\ ~HasRoot(NoOutput) /\ NoOutput.values = NoValues
<1> DEFINE o == NoOutput
<1>1. /\ o.base = Nothing /\ o.pmi = Nothing /\ o.produced = <<>> /\ o.lineage = NoRoot /\ o.values = NoValues
      /\ o = [base |-> o.base, produced |-> o.produced, pmi |-> o.pmi, values |-> o.values, lineage |-> o.lineage]
  BY DEF NoOutput, BootOnly
<1> HIDE DEF o
<1>2. Links(o) = <<>> /\ ~HasRoot(o)
  BY <1>1 DEF Links, HasRoot
<1>3. Sound(o)
  BY <1>1, <1>2, NoRootIsRoot, NamesAssumption DEF Sound, Record, Trusted, Chained, Contiguous, NamesAssumption
<1> QED
  BY <1>1, <1>2, <1>3 DEF Unlike, o

LEMMA OverlayFields ==
  ASSUME NEW o, Record(o), NEW overlay
  PROVE  LET v == Overlay(o, overlay) IN
         /\ v.base = o.base /\ v.produced = o.produced /\ v.pmi = o.pmi /\ v.lineage = o.lineage
         /\ v = [base |-> v.base, produced |-> v.produced, pmi |-> v.pmi, values |-> v.values, lineage |-> v.lineage]
<1> PICK b, p, m, v, l : o = [base |-> b, produced |-> p, pmi |-> m, values |-> v, lineage |-> l]
  BY DEF Record
<1>1. \A q : [o EXCEPT !.values = q] = [base |-> b, produced |-> p, pmi |-> m, values |-> q, lineage |-> l]
  OBVIOUS
<1>2. o.base = b /\ o.produced = p /\ o.pmi = m /\ o.values = v /\ o.lineage = l
  OBVIOUS
<1>3. PICK q : Overlay(o, overlay) = [o EXCEPT !.values = q]
  BY DEF Overlay
<1> QED
  BY <1>1, <1>2, <1>3

\* What firmware and configuration are taken from.
Sourced(boot) == boot.how \in {"inherit", "define", "extend"}

LEMMA BootFields ==
  ASSUME NEW boot, boot.how \in {"none", "inherit", "define", "extend", "extract"},
         Sourced(boot) => Sound(Resolved(boot.from))
  PROVE  LET b == BootOf(boot) IN
         /\ b = [base |-> b.base, produced |-> b.produced, pmi |-> b.pmi, values |-> b.values, lineage |-> b.lineage]
         /\ b.pmi = (IF Sourced(boot) THEN Resolved(boot.from).pmi ELSE b.pmi)
         /\ ~Sourced(boot) => b.pmi \in {"file", Nothing}
         /\ b.lineage = (IF boot.how \in {"inherit", "extend"} THEN Resolved(boot.from).lineage ELSE NoRoot)
<1> DEFINE source == Resolved(boot.from)
           inherited == BootOnly(source.pmi, source.values, source.lineage)
           firmware == BootOnly("file", NoValues, NoRoot)
           plain == BootOnly(source.pmi, NoValues, NoRoot)
<1>1. /\ inherited = [base |-> Nothing, produced |-> <<>>, pmi |-> source.pmi, values |-> source.values,
                      lineage |-> source.lineage]
      /\ firmware = [base |-> Nothing, produced |-> <<>>, pmi |-> "file", values |-> NoValues, lineage |-> NoRoot]
      /\ plain = [base |-> Nothing, produced |-> <<>>, pmi |-> source.pmi, values |-> NoValues, lineage |-> NoRoot]
      /\ NoOutput = [base |-> Nothing, produced |-> <<>>, pmi |-> Nothing, values |-> NoValues, lineage |-> NoRoot]
  BY DEF NoOutput, BootOnly
<1>2. BootOf(boot) = CASE boot.how = "none" -> NoOutput
                       [] boot.how = "inherit" -> inherited
                       [] boot.how = "define" -> Overlay(plain, boot.overlay)
                       [] boot.how = "extend" -> Overlay(inherited, boot.overlay)
                       [] boot.how = "extract" -> Overlay(firmware, boot.overlay)
  BY DEF BootOf
<1> HIDE DEF source, inherited, firmware, plain
<1>3. Record(firmware)
  BY <1>1, NoRootIsRoot DEF Record
<1>4. Sourced(boot) => Record(plain) /\ Record(inherited)
  <2>1. Sourced(boot) => source.pmi \in Images \cup {"file", Nothing} /\ source.lineage \in Root
    BY DEF source, Sound, Record
  <2> QED
    BY <1>1, <2>1, NoRootIsRoot DEF Record
<1>5. CASE boot.how = "none"
  BY <1>1, <1>2, <1>5 DEF Sourced
<1>6. CASE boot.how = "inherit"
  BY <1>1, <1>2, <1>6 DEF Sourced, source
<1>7. CASE boot.how = "define"
  <2>1. BootOf(boot) = Overlay(plain, boot.overlay) /\ Record(plain)
    BY <1>4, <1>2, <1>7 DEF Sourced
  <2>2. plain.pmi = source.pmi /\ plain.lineage = NoRoot
    BY <1>1
  <2> QED
    BY <1>7, <2>1, <2>2, OverlayFields DEF Sourced, source
<1>8. CASE boot.how = "extend"
  <2>1. BootOf(boot) = Overlay(inherited, boot.overlay) /\ Record(inherited)
    BY <1>4, <1>2, <1>8 DEF Sourced
  <2>2. inherited.pmi = source.pmi /\ inherited.lineage = source.lineage
    BY <1>1
  <2> QED
    BY <1>8, <2>1, <2>2, OverlayFields DEF Sourced, source
<1>9. CASE boot.how = "extract"
  <2>1. BootOf(boot) = Overlay(firmware, boot.overlay)
    BY <1>2, <1>9
  <2>2. firmware.pmi = "file" /\ firmware.lineage = NoRoot
    BY <1>1
  <2> QED
    BY <1>3, <1>9, <2>1, <2>2, OverlayFields DEF Sourced
<1> QED
  BY <1>5, <1>6, <1>7, <1>8, <1>9

\* Every source of the output is an ordinary reference or a stage.
LEMMA SelectorsRead ==
  ASSUME PlanSound, OutputsInv, at = "select"
  PROVE  IF plan.image.whole # Nothing
         THEN plan.image.whole \in OrdinaryRefs \cup DOMAIN outputs
         ELSE /\ plan.image.root # Nothing => plan.image.root \in OrdinaryRefs \cup DOMAIN outputs
              /\ plan.image.boot.from # Nothing => plan.image.boot.from \in OrdinaryRefs \cup DOMAIN outputs
<1>1. DOMAIN outputs = Ordered
  BY DEF OutputsInv
<1>2. \A ref \in {ImageSources[k] : k \in 1..Len(ImageSources)} : ref \in Remotes => ref \in OrdinaryRefs
  BY SourcesRead
<1>3. CASE plan.image.whole # Nothing
  <2>1. plan.image.whole \in {ImageSources[k] : k \in 1..Len(ImageSources)}
    <3>1. Len(ImageSources) = 1 /\ ImageSources[1] = plan.image.whole
      BY <1>3 DEF ImageSources
    <3> QED
      BY <3>1
  <2> QED
    BY <1>1, <1>2, <1>3, <2>1 DEF PlanSound
<1>4. CASE plan.image.whole = Nothing
  <2>1. {plan.image.root, plan.image.boot.from} \subseteq {ImageSources[k] : k \in 1..Len(ImageSources)}
    <3>1. Len(ImageSources) = 2 /\ ImageSources[1] = plan.image.root /\ ImageSources[2] = plan.image.boot.from
      BY <1>4 DEF ImageSources
    <3> QED
      BY <3>1
  <2> QED
    BY <1>1, <1>2, <1>4, <2>1 DEF PlanSound
<1> QED
  BY <1>3, <1>4

\* What is joined is sound, it has sealed layers if a stage made its root, and
\* its lineage is that of the boot source, or none.
LEMMA JoinedSound ==
  ASSUME PlanSound, PinsSound, InputsInv, ImagesInv, OutputsInv, at = "select"
  PROVE  /\ Sound(Joined)
         /\ RootRef \in Ordered => Joined.produced # <<>>
         /\ Joined.produced = <<>> /\ Joined.lineage # NoRoot /\ Len(Joined.lineage) = 1
              => /\ How \in {"inherit", "extend"} /\ BootRef \in Remotes
                 /\ BootRef \in DOMAIN images
                 /\ Remote(images[BootRef]).lineage = Joined.lineage
<1> DEFINE image == plan.image
<1>0. at \in Building
  BY DEF Building
<1>1. CASE image.whole # Nothing
  <2>1. Joined = Resolved(image.whole) /\ How = "inherit" /\ BootRef = image.whole
    BY <1>1 DEF Joined, How, BootRef
  <2>2. image.whole \in OrdinaryRefs \cup DOMAIN outputs
    BY <1>1, SelectorsRead
  <2>3. /\ Sound(Resolved(image.whole))
        /\ image.whole \in Remotes => image.whole \in DOMAIN images /\ Resolved(image.whole) = Remote(images[image.whole])
        /\ image.whole \notin Remotes => Bound(Resolved(image.whole))
    BY <1>0, <2>2, ResolvedSound
  <2>4. RootRef = image.whole /\ (image.whole \in Ordered => image.whole \notin Remotes)
    BY <1>1 DEF RootRef, PlanSound, Ordered
  <2> QED
    BY <2>1, <2>3, <2>4 DEF Bound
<1>2. CASE image.whole = Nothing
  <2>0. RootRef = image.root /\ (image.root \in Ordered => image.root \notin Remotes /\ image.root # Nothing)
    BY <1>2 DEF RootRef, PlanSound, Ordered
  <2> DEFINE boot == image.boot
             from == Resolved(boot.from)
             root == IF image.root = Nothing THEN NoOutput ELSE Resolved(image.root)
             b == BootOf(boot)
             j == Joined
  <2>1. Sound(root) /\ (RootRef \in Ordered => root.produced # <<>>)
    <3>1. CASE image.root = Nothing
      BY <2>0, <3>1, NothingSound
    <3>2. CASE image.root # Nothing
      <4>1. image.root \in OrdinaryRefs \cup DOMAIN outputs
        BY <1>2, <3>2, SelectorsRead
      <4> QED
        BY <1>0, <2>0, <3>2, <4>1, ResolvedSound DEF Bound
    <3> QED
      BY <3>1, <3>2
  <2>2. boot.how # "none" => boot.from \in OrdinaryRefs \cup DOMAIN outputs
    BY <1>2, SelectorsRead DEF PlanSound
  <2>3. boot.how # "none" => /\ Sound(from) /\ (from.values = NoValues => Unlike(from))
                             /\ boot.from \in Remotes => boot.from \in DOMAIN images /\ from = Remote(images[boot.from])
                             /\ boot.from \notin Remotes => Bound(from)
    BY <1>0, <2>2, ResolvedSound
  <2>4. boot.how \in {"none", "inherit", "define", "extend", "extract"}
    BY DEF PlanSound
  <2> HIDE DEF from
  <2>5. /\ b = [base |-> b.base, produced |-> b.produced, pmi |-> b.pmi, values |-> b.values, lineage |-> b.lineage]
        /\ b.pmi = (IF Sourced(boot) THEN from.pmi ELSE b.pmi)
        /\ ~Sourced(boot) => b.pmi \in {"file", Nothing}
        /\ b.lineage = (IF boot.how \in {"inherit", "extend"} THEN from.lineage ELSE NoRoot)
    BY <2>3, <2>4, BootFields DEF Sourced, from
  <2>6. j = [base |-> root.base, produced |-> root.produced, pmi |-> b.pmi, values |-> b.values, lineage |-> b.lineage]
    BY <1>2 DEF Joined
  <2> HIDE DEF root, b, j
  <2>7. /\ j.base = root.base /\ j.produced = root.produced /\ j.pmi = b.pmi /\ j.values = b.values /\ j.lineage = b.lineage
        /\ j = [base |-> j.base, produced |-> j.produced, pmi |-> j.pmi, values |-> j.values, lineage |-> j.lineage]
    BY <2>6
  <2>8. Record(j)
    BY <2>1, <2>3, <2>5, <2>7, NoRootIsRoot DEF Record, Sound, Sourced
  <2>9. Trusted(j)
    BY <2>1, <2>3, <2>5, <2>7, NamesAssumption DEF Trusted, Sound, Sourced, NamesAssumption
  <2>10. Chained(j)
    BY <2>1, <2>7 DEF Chained, Sound, Links
  <2>11. j.lineage # NoRoot /\ Len(j.lineage) = 1
           => boot.how \in {"inherit", "extend"} /\ boot.from \in Remotes /\ from.lineage = j.lineage
    <3> SUFFICES ASSUME j.lineage # NoRoot, Len(j.lineage) = 1
                 PROVE  boot.how \in {"inherit", "extend"} /\ boot.from \in Remotes /\ from.lineage = j.lineage
      OBVIOUS
    <3>1. boot.how \in {"inherit", "extend"} /\ from.lineage = j.lineage
      BY <2>5, <2>7
    <3>2. ~Unlike(from)
      <4>1. Len(from.lineage) = 1 /\ from.lineage # NoRoot
        BY <3>1
      <4>2. ~(Len(from.lineage) >= 2)
        BY <4>1
      <4> QED
        BY <4>1, <4>2 DEF Unlike
    <3> QED
      BY <2>3, <3>1, <3>2 DEF Bound
  <2>12. How = boot.how /\ BootRef = boot.from
    BY <1>2 DEF How, BootRef
  <2> QED
    BY <2>1, <2>3, <2>7, <2>8, <2>9, <2>10, <2>11, <2>12 DEF Sound, j
<1> QED
  BY <1>1, <1>2

LEMMA OriginRemote == ASSUME NEW ref \in DOMAIN images, ref \in Remotes PROVE Origin[ref] = images[ref]
  BY DEF Origin, IsRemote

\* The selected output names its own root, or is one unchanged image.
BoundAt(root, values) ==
  root # NoRoot /\ Corium \in DOMAIN values => values[Corium] = root \/ UnjoinedAt(root)

OutputInv ==
  /\ Sound(output)
  /\ at = "assemble" => BoundAt(Hash(output), output.values)

\* What is not bound again has no key that names a root, or is one image.
LEMMA NotBound ==
  ASSUME PlanSound, PinsSound, InputsInv, ImagesInv, OutputsInv, at = "select",
         HasRoot(Joined), ~Changed(Joined), Corium \in DOMAIN Joined.values
  PROVE  UnjoinedAt(Hash(Joined))
<1> DEFINE j == Joined
<1>1. /\ Sound(j)
      /\ RootRef \in Ordered => j.produced # <<>>
      /\ j.produced = <<>> /\ j.lineage # NoRoot /\ Len(j.lineage) = 1
              => /\ How \in {"inherit", "extend"} /\ BootRef \in Remotes
                 /\ BootRef \in DOMAIN images
                 /\ Remote(images[BootRef]).lineage = j.lineage
  BY JoinedSound
<1> HIDE DEF j
<1>2. j.values # NoValues
  BY DEF NoValues, j
<1>3. j.produced = <<>> /\ j.lineage = Hash(j)
  BY <1>2 DEF Changed, j
<1>4. j.base # Nothing /\ Hash(j) = Contents[j.base].root /\ j.base \in Images /\ Hash(j) # NoRoot
  BY <1>1, <1>3 DEF HasRoot, Hash, Sound, Record, Chained, j
<1>5. Len(j.lineage) = 1
  BY <1>3, <1>4, ContentRoots
<1>6. /\ How \in {"inherit", "extend"} /\ BootRef \in Remotes
      /\ BootRef \in DOMAIN images
      /\ Remote(images[BootRef]).lineage = Hash(j)
  BY <1>1, <1>3, <1>4, <1>5
<1>7. ConfigOrigin = images[BootRef]
  BY <1>6, OriginRemote DEF ConfigOrigin
<1>8. images[BootRef] # Nothing
  BY <1>6, NamesAssumption DEF ImagesInv, NamesAssumption
<1>9. Contents[images[BootRef]].values # NoValues /\ Hash(j) = Contents[images[BootRef]].root
  BY <1>4, <1>6 DEF Remote
<1> QED
  BY <1>1, <1>3, <1>6, <1>7, <1>8, <1>9 DEF UnjoinedAt, Given, IsRemote, j

LEMMA SelectBound ==
  ASSUME PlanSound, PinsSound, InputsInv, ImagesInv, OutputsInv, Select
  PROVE  Sound(output') /\ BoundAt(Hash(output'), output'.values)
<1> DEFINE j == Joined
<1>1. /\ at = "select"
      /\ output' = IF HasRoot(j) /\ Changed(j) THEN BindTo(j, Hash(j)) ELSE j
  BY DEF Select, Selected
<1>2. /\ Sound(j)
      /\ RootRef \in Ordered => j.produced # <<>>
      /\ j.produced = <<>> /\ j.lineage # NoRoot /\ Len(j.lineage) = 1
              => /\ How \in {"inherit", "extend"} /\ BootRef \in Remotes
                 /\ BootRef \in DOMAIN images
                 /\ Remote(images[BootRef]).lineage = j.lineage
  BY <1>1, JoinedSound
<1> HIDE DEF j
<1>3. Hash(j) \in Root
  BY <1>2, HashIsRoot
<1>4. CASE HasRoot(j) /\ Changed(j)
  <2> DEFINE b == BindTo(j, Hash(j))
  <2>1. /\ Sound(b) /\ Hash(b) = Hash(j)
        /\ Corium \in DOMAIN b.values => j.values = NoValues \/ b.values[Corium] = Hash(j)
    BY <1>2, <1>3, BindSound
  <2>2. j.values = NoValues => Corium \notin DOMAIN b.values
    BY DEF BindTo, NoValues
  <2>3. output' = b
    BY <1>1, <1>4
  <2> HIDE DEF b
  <2> QED
    BY <2>1, <2>2, <2>3 DEF BoundAt
<1>5. CASE ~HasRoot(j)
  <2>1. output' = j
    BY <1>1, <1>5
  <2>2. Hash(j) = NoRoot
    BY <1>2, <1>5, LinksLead
  <2> QED
    BY <1>2, <2>1, <2>2 DEF BoundAt
<1>6. CASE HasRoot(j) /\ ~Changed(j)
  <2>1. output' = j
    BY <1>1, <1>6
  <2>2. ASSUME Corium \in DOMAIN j.values PROVE UnjoinedAt(Hash(j))
    BY <1>1, <1>6, <2>2, NotBound DEF j
  <2> QED
    BY <1>2, <2>1, <2>2 DEF BoundAt
<1> QED
  BY <1>4, <1>5, <1>6

LEMMA SameMeaning ==
  ASSUME UNCHANGED <<captured, images>>
  PROVE  /\ \A o : Sound(o)' <=> Sound(o)
         /\ \A root, values : BoundAt(root, values)' <=> BoundAt(root, values)
         /\ \A root : UnjoinedAt(root)' <=> UnjoinedAt(root)
<1>1. Pins' = Pins
  BY SameSources DEF captured, Pins
<1>2. \A root : UnjoinedAt(root)' <=> UnjoinedAt(root)
  BY SamePlans DEF UnjoinedAt, How, BootRef, RootRef, Given, ConfigOrigin, captured, IsRemote, Ordered
<1> QED
  BY <1>1, <1>2 DEF Sound, Record, Trusted, Chained, Contiguous, Links, Hash, BoundAt

LEMMA OutputStep ==
  ASSUME PlanSound, PinsSound, InputsInv, ImagesInv, OutputsInv, OutputInv, [Next]_vars
  PROVE  OutputInv'
<1>0. UNCHANGED captured
  BY Captured
<1>1. CASE Select
  <2>1. UNCHANGED <<captured, images>>
    BY <1>0, <1>1 DEF Select
  <2>2. Sound(output') /\ BoundAt(Hash(output'), output'.values)
    BY <1>1, SelectBound
  <2>3. Sound(output)' /\ BoundAt(Hash(output), output.values)'
    BY <2>1, <2>2, SameMeaning DEF Hash
  <2> QED
    BY <2>3 DEF OutputInv
<1>2. ASSUME UNCHANGED output, at' # "assemble"
      PROVE  OutputInv'
  <2>0. Pins' = Pins
    BY <1>0, SameSources DEF captured, Pins
  <2>1. Sound(output)' <=> Sound(output)
    BY <1>2, <2>0 DEF Sound, Record, Trusted, Chained, Contiguous, Links
  <2> QED
    BY <1>2, <2>1 DEF OutputInv
<1>3. CASE Capture \/ AddInput \/ PassLocal \/ GraphDone \/ Resolve
  BY <1>2, <1>3 DEF Capture, AddInput, PassLocal, GraphDone, Resolve
<1>4. CASE Fail \/ Refuse
  BY <1>2, <1>4 DEF Fail, Refuse
<1>5. CASE Validate \/ RunStage \/ StagesDone
  BY <1>2, <1>5 DEF Validate, RunStage, StagesDone
<1>6. CASE Assemble \/ Stamp \/ Publish
  BY <1>2, <1>6 DEF Assemble, Stamp, Publish
<1>7. CASE UNCHANGED vars
  <2>1. UNCHANGED <<captured, images, output, at>>
    BY <1>7 DEF vars
  <2>2. /\ Sound(output)' <=> Sound(output)
        /\ BoundAt(Hash(output), output.values)' <=> BoundAt(Hash(output), output.values)
    BY <2>1, SameMeaning DEF Hash
  <2> QED
    BY <2>1, <2>2 DEF OutputInv
<1> QED
  BY <1>1, <1>3, <1>4, <1>5, <1>6, <1>7 DEF Next, RejectInput, RejectPlan, StepFails

-----------------------------------------------------------------------------
(***************************************************************************)
(* What the plan asks of the image                                         *)
(***************************************************************************)

\* The root, the PMI and the keys that were planned; and, but for the key that
\* names the root of an image that stages or joining changed, what they hold.
PlannedAt(root, pmi, values) ==
  /\ root = IF RootRef = Nothing THEN NoRoot ELSE PlannedRoot[RootRef]
  /\ pmi = CASE How = "none" -> Nothing
             [] How = "extract" -> "file"
             [] OTHER -> IF Origin[BootRef] = Nothing THEN Nothing
                         ELSE IF Contents[Origin[BootRef]].pmi THEN Origin[BootRef] ELSE Nothing
  /\ DOMAIN values = (DOMAIN Given \cup DOMAIN Changes) \ Deleted(Changes)
  /\ \A k \in DOMAIN values :
       k # Corium \/ UnjoinedAt(root) => values[k] = IF k \in DOMAIN Changes THEN Changes[k] ELSE Given[k]

\* What the plan sets or deletes, over what is inherited.
Merged(given, changes) ==
  [k \in (DOMAIN given \cup DOMAIN changes) \ Deleted(changes) |->
     IF k \in DOMAIN changes THEN changes[k] ELSE given[k]]

LEMMA OverlayValues ==
  ASSUME NEW o, Record(o), NEW overlay
  PROVE  Overlay(o, overlay).values = Merged(o.values, overlay)
<1> PICK b, p, m, v, l : o = [base |-> b, produced |-> p, pmi |-> m, values |-> v, lineage |-> l]
  BY DEF Record
<1>1. \A q : [o EXCEPT !.values = q] = [base |-> b, produced |-> p, pmi |-> m, values |-> q, lineage |-> l]
  OBVIOUS
<1>2. Overlay(o, overlay) = [o EXCEPT !.values = Merged(o.values, overlay)]
  BY DEF Overlay, Merged
<1> QED
  BY <1>1, <1>2

LEMMA NoChange == Deleted(NoValues) = {} /\ DOMAIN NoValues = {}
  BY DEF Deleted, NoValues

\* The configuration of a boot source.
LEMMA BootValues ==
  ASSUME NEW boot, boot.how \in {"none", "inherit", "define", "extend", "extract"},
         Sourced(boot) => Record(Resolved(boot.from))
  PROVE  LET v == BootOf(boot).values IN
         /\ boot.how = "none" => v = NoValues
         /\ boot.how = "inherit" => v = Resolved(boot.from).values
         /\ boot.how \in {"define", "extract"} => v = Merged(NoValues, boot.overlay)
         /\ boot.how = "extend" => v = Merged(Resolved(boot.from).values, boot.overlay)
<1> DEFINE source == Resolved(boot.from)
           inherited == BootOnly(source.pmi, source.values, source.lineage)
           firmware == BootOnly("file", NoValues, NoRoot)
           plain == BootOnly(source.pmi, NoValues, NoRoot)
<1>1. /\ inherited = [base |-> Nothing, produced |-> <<>>, pmi |-> source.pmi, values |-> source.values,
                      lineage |-> source.lineage]
      /\ firmware = [base |-> Nothing, produced |-> <<>>, pmi |-> "file", values |-> NoValues, lineage |-> NoRoot]
      /\ plain = [base |-> Nothing, produced |-> <<>>, pmi |-> source.pmi, values |-> NoValues, lineage |-> NoRoot]
      /\ NoOutput.values = NoValues
  BY DEF NoOutput, BootOnly
<1>2. BootOf(boot) = CASE boot.how = "none" -> NoOutput
                       [] boot.how = "inherit" -> inherited
                       [] boot.how = "define" -> Overlay(plain, boot.overlay)
                       [] boot.how = "extend" -> Overlay(inherited, boot.overlay)
                       [] boot.how = "extract" -> Overlay(firmware, boot.overlay)
  BY DEF BootOf
<1> HIDE DEF source, inherited, firmware, plain
<1>3. Record(firmware)
  BY <1>1, NoRootIsRoot DEF Record
<1>4. Sourced(boot) => Record(plain) /\ Record(inherited)
  <2>1. Sourced(boot) => source.pmi \in Images \cup {"file", Nothing} /\ source.lineage \in Root
    BY DEF source, Record
  <2> QED
    BY <1>1, <2>1, NoRootIsRoot DEF Record
<1>5. /\ firmware.values = NoValues /\ plain.values = NoValues
      /\ inherited.values = source.values
  BY <1>1
<1>6. CASE boot.how = "none"
  BY <1>1, <1>2, <1>6
<1>7. CASE boot.how = "inherit"
  BY <1>2, <1>5, <1>7 DEF source
<1>8. CASE boot.how = "define"
  <2>1. BootOf(boot) = Overlay(plain, boot.overlay) /\ Record(plain)
    BY <1>4, <1>2, <1>8 DEF Sourced
  <2> QED
    BY <1>5, <1>8, <2>1, OverlayValues
<1>9. CASE boot.how = "extend"
  <2>1. BootOf(boot) = Overlay(inherited, boot.overlay) /\ Record(inherited)
    BY <1>4, <1>2, <1>9 DEF Sourced
  <2> QED
    BY <1>5, <1>9, <2>1, OverlayValues DEF source
<1>10. CASE boot.how = "extract"
  <2>1. BootOf(boot) = Overlay(firmware, boot.overlay)
    BY <1>2, <1>10
  <2> QED
    BY <1>3, <1>5, <1>10, <2>1, OverlayValues
<1> QED
  BY <1>6, <1>7, <1>8, <1>9, <1>10

\* What extract and none do for the PMI.
LEMMA BootPmi ==
  ASSUME NEW boot, boot.how \in {"none", "extract"}
  PROVE  BootOf(boot).pmi = IF boot.how = "none" THEN Nothing ELSE "file"
<1>1. CASE boot.how = "none"
  BY <1>1 DEF BootOf, NoOutput, BootOnly
<1>2. CASE boot.how = "extract"
  <2> DEFINE firmware == BootOnly("file", NoValues, NoRoot)
  <2>1. /\ firmware = [base |-> Nothing, produced |-> <<>>, pmi |-> "file", values |-> NoValues, lineage |-> NoRoot]
        /\ BootOf(boot) = Overlay(firmware, boot.overlay)
    BY <1>2 DEF BootOf, BootOnly
  <2> HIDE DEF firmware
  <2>2. Record(firmware) /\ firmware.pmi = "file"
    BY <2>1, NoRootIsRoot DEF Record
  <2> QED
    BY <1>2, <2>1, <2>2, OverlayFields
<1> QED
  BY <1>1, <1>2

\* What is joined is complete, and as planned.
JoinedPlanned(j) ==
  /\ SelectReady /\ Complete(j)
  /\ Hash(j) = IF RootRef = Nothing THEN NoRoot ELSE PlannedRoot[RootRef]
  /\ j.pmi = CASE How = "none" -> Nothing [] How = "extract" -> "file" [] OTHER -> PmiOf(Origin[BootRef])
  /\ DOMAIN j.values = (DOMAIN Given \cup DOMAIN Changes) \ Deleted(Changes)
  /\ \A k \in DOMAIN j.values :
       k # Corium \/ IsRemote(BootRef) => j.values[k] = IF k \in DOMAIN Changes THEN Changes[k] ELSE Given[k]

\* An inherited configuration comes with a PMI.
LEMMA ConfigurationHasPmi ==
  ASSUME NEW ref, NEW o, AsPlanned(ref, o), o.values # NoValues
  PROVE  o.pmi # Nothing
<1>1. Origin[ref] # Nothing /\ Origin[ref] \in Images /\ Contents[Origin[ref]].values # NoValues
  BY DEF AsPlanned, ValuesOf
<1>2. Contents[Origin[ref]].pmi
  BY <1>1, ContentsAssumption DEF ContentsAssumption
<1> QED
  BY <1>1, <1>2 DEF AsPlanned, PmiOf

\* What a boot source that the plan overlays or inherits gives.
LEMMA SourceValues ==
  ASSUME NEW ref, NEW o, AsPlanned(ref, o), IsRemote(ref) => o.values = ValuesOf(Origin[ref])
  PROVE  /\ DOMAIN o.values = DOMAIN ValuesOf(Origin[ref])
         /\ \A k \in DOMAIN o.values : k # Corium \/ IsRemote(ref) => o.values[k] = ValuesOf(Origin[ref])[k]
BY DEF AsPlanned

LEMMA RemoteValues ==
  ASSUME ImagesInv, NEW ref \in DOMAIN images
  PROVE  IsRemote(ref) /\ Remote(images[ref]).values = ValuesOf(Origin[ref])
<1>1. ref \in Remotes /\ images[ref] \in Images /\ images[ref] # Nothing
  BY NamesAssumption DEF ImagesInv, NamesAssumption
<1> QED
  BY <1>1, OriginRemote DEF Remote, ValuesOf, IsRemote

\* A whole image.
LEMMA WholeAsPlanned ==
  ASSUME PlanSound, PinsSound, InputsInv, ImagesInv, OutputsInv, PlansInv, at = "select", plan.image.whole # Nothing
  PROVE  JoinedPlanned(Joined)
<1> DEFINE ref == plan.image.whole
           j == Joined
<1>1. /\ j = Resolved(ref) /\ How = "inherit" /\ BootRef = ref /\ RootRef = ref /\ Changes = NoValues
      /\ ref # Nothing /\ SelectReady
  BY DEF Joined, How, BootRef, RootRef, Changes, SelectReady
<1>2. at \in Building /\ ref \in OrdinaryRefs \cup DOMAIN outputs /\ ref \in DOMAIN images \cup DOMAIN outputs
  BY SelectorsRead, Readers DEF Building, ImagesInv
<1>3. AsPlanned(ref, j) /\ Sound(j)
  BY <1>1, <1>2, ResolvedAsPlanned, ResolvedSound
<1>4. HasRoot(j) \/ j.pmi # Nothing
  <2>1. CASE ref \in Remotes
    <3>1. ref \in DOMAIN images
      BY <1>2, <2>1, Readers DEF OutputsInv, Ordered, PlanSound
    <3>2. Provides[ref] = ImageProvides(images[ref]) /\ Provides[ref] # {}
      BY <1>1, <1>2, <2>1, <3>1 DEF Provides, IsRemote, PlansInv, Available
    <3>3. "root" \in Provides[ref] \/ "boot" \in Provides[ref]
      BY <3>2 DEF ImageProvides
    <3> QED
      BY <1>3, <3>3 DEF AsPlanned
  <2>2. CASE ref \notin Remotes
    BY <1>1, <1>2, <2>2, ResolvedSound DEF Bound, HasRoot
  <2> QED
    BY <2>1, <2>2
<1>5. Complete(j)
  BY <1>3, <1>4, ConfigurationHasPmi DEF Complete
<1>6. Given = ValuesOf(Origin[ref])
  BY <1>1 DEF Given, ConfigOrigin, ValuesOf
<1>7. IsRemote(ref) => j.values = ValuesOf(Origin[ref])
  BY <1>1, <1>2, ResolvedSound, RemoteValues DEF IsRemote
<1> HIDE DEF j, ref
<1>8. /\ DOMAIN j.values = (DOMAIN Given \cup DOMAIN Changes) \ Deleted(Changes)
      /\ \A k \in DOMAIN j.values :
           k # Corium \/ IsRemote(ref) => j.values[k] = IF k \in DOMAIN Changes THEN Changes[k] ELSE Given[k]
  BY <1>1, <1>3, <1>6, <1>7, SourceValues, NoChange
<1>9. j.pmi = PmiOf(Origin[ref]) /\ Hash(j) = PlannedRoot[ref]
  BY <1>3 DEF AsPlanned
<1> QED
  BY <1>1, <1>5, <1>8, <1>9 DEF JoinedPlanned, j

\* An image of a root and a boot source.
LEMMA ComponentsAsPlanned ==
  ASSUME PlanSound, PinsSound, InputsInv, ImagesInv, OutputsInv, PlansInv, at = "select", plan.image.whole = Nothing
  PROVE  JoinedPlanned(Joined)
<1> DEFINE image == plan.image
           boot == image.boot
           from == Resolved(boot.from)
           root == IF image.root = Nothing THEN NoOutput ELSE Resolved(image.root)
           b == BootOf(boot)
           j == Joined
<1>1. /\ How = boot.how /\ BootRef = boot.from /\ RootRef = image.root
      /\ boot.how \in {"none", "inherit", "define", "extend", "extract"}
      /\ boot.how = "none" <=> boot.from = Nothing
      /\ Changes = (IF boot.how \in {"inherit", "none"} THEN NoValues ELSE boot.overlay)
  BY DEF How, BootRef, RootRef, PlanSound, Changes
<1>2. /\ at \in Building
      /\ image.root # Nothing => image.root \in OrdinaryRefs \cup DOMAIN outputs
      /\ boot.how # "none" => boot.from \in OrdinaryRefs \cup DOMAIN outputs
  BY <1>1, SelectorsRead DEF Building
<1>3. OrdinaryRefs \subseteq DOMAIN images
  BY <1>2, Readers DEF ImagesInv
<1>4. image.root # Nothing => AsPlanned(image.root, root) /\ HasRoot(root)
  <2> SUFFICES ASSUME image.root # Nothing PROVE AsPlanned(image.root, root) /\ HasRoot(root)
    OBVIOUS
  <2>1. AsPlanned(image.root, root)
    BY <1>2, <1>3, ResolvedAsPlanned
  <2>2. "root" \in Provides[image.root]
    BY <1>2 DEF PlansInv, Available
  <2> QED
    BY <2>1, <2>2 DEF AsPlanned
<1>5. boot.how # "none" => /\ AsPlanned(boot.from, from) /\ Sound(from) /\ Record(from)
                           /\ IsRemote(boot.from) => from.values = ValuesOf(Origin[boot.from])
  <2> SUFFICES ASSUME boot.how # "none"
               PROVE  /\ AsPlanned(boot.from, from) /\ Sound(from)
                      /\ IsRemote(boot.from) => from.values = ValuesOf(Origin[boot.from])
    BY DEF Sound
  <2>1. AsPlanned(boot.from, from) /\ Sound(from)
    BY <1>2, <1>3, ResolvedAsPlanned, ResolvedSound
  <2>2. IsRemote(boot.from) => from.values = ValuesOf(Origin[boot.from])
    BY <1>2, ResolvedSound, RemoteValues DEF IsRemote
  <2> QED
    BY <2>1, <2>2
<1>6. Sourced(boot) => from.pmi # Nothing
  <2>1. Sourced(boot) => "boot" \in Provides[boot.from]
    BY <1>2 DEF PlansInv, Available, Sourced
  <2> QED
    BY <1>5, <2>1 DEF AsPlanned, Sourced
<1>7. SelectReady
  <2>1. boot.how = "extract" => HasRoot(from)
    BY <1>2, <1>5 DEF PlansInv, Available, AsPlanned
  <2> QED
    BY <1>4, <1>6, <2>1 DEF SelectReady, Sourced, ExecutionRequired, Extracts
<1>8. j = [base |-> root.base, produced |-> root.produced, pmi |-> b.pmi, values |-> b.values, lineage |-> b.lineage]
  BY DEF Joined
<1>9. b.pmi = CASE How = "none" -> Nothing [] How = "extract" -> "file" [] OTHER -> PmiOf(Origin[BootRef])
  <2>1. CASE Sourced(boot)
    <3>1. b.pmi = from.pmi
      BY <1>1, <1>5, <2>1, BootFields DEF Sourced
    <3>2. from.pmi = PmiOf(Origin[boot.from])
      BY <1>5, <2>1 DEF AsPlanned, Sourced
    <3> QED
      BY <1>1, <2>1, <3>1, <3>2 DEF Sourced
  <2>2. CASE boot.how \in {"none", "extract"}
    BY <1>1, <2>2, BootPmi
  <2> QED
    BY <1>1, <2>1, <2>2 DEF Sourced
<1>10. /\ boot.how = "none" => b.values = NoValues
       /\ boot.how = "inherit" => b.values = from.values
       /\ boot.how \in {"define", "extract"} => b.values = Merged(NoValues, boot.overlay)
       /\ boot.how = "extend" => b.values = Merged(from.values, boot.overlay)
  BY <1>1, <1>5, BootValues DEF Sourced
<1>11. Given = IF How \in {"inherit", "extend"} THEN ValuesOf(Origin[BootRef]) ELSE NoValues
  BY DEF Given, ConfigOrigin, ValuesOf
<1> HIDE DEF j, root, b, from
<1>12. j.base = root.base /\ j.produced = root.produced /\ j.pmi = b.pmi /\ j.values = b.values
  BY <1>8
<1>13. Complete(j)
  <2>1. HasRoot(j) \/ j.pmi # Nothing
    <3>1. CASE image.root # Nothing
      BY <1>4, <1>12, <3>1 DEF HasRoot
    <3>2. CASE image.root = Nothing
      <4>1. boot.from # Nothing
        BY <3>2 DEF PlanSound
      <4>2. Sourced(boot) => b.pmi = from.pmi
        BY <1>1, <1>5, BootFields DEF Sourced, from, b
      <4>3. boot.how = "extract" => b.pmi = "file"
        BY BootPmi DEF b
      <4> QED
        BY <1>1, <1>6, <1>12, <4>1, <4>2, <4>3 DEF Sourced, Nothing
    <3> QED
      BY <3>1, <3>2
  <2>2. j.values # NoValues => j.pmi # Nothing
    <3>1. CASE boot.how = "none"
      BY <1>10, <1>12, <3>1
    <3>2. CASE Sourced(boot)
      <4>1. b.pmi = from.pmi
        BY <1>1, <1>5, <3>2, BootFields DEF Sourced, from, b
      <4> QED
        BY <1>6, <1>12, <3>2, <4>1
    <3>3. CASE boot.how = "extract"
      BY <1>12, <3>3, BootPmi DEF b, Nothing
    <3> QED
      BY <1>1, <3>1, <3>2, <3>3 DEF Sourced
  <2> QED
    BY <2>1, <2>2 DEF Complete
<1>14. Hash(j) = IF RootRef = Nothing THEN NoRoot ELSE PlannedRoot[RootRef]
  <2>1. Hash(j) = Hash(root)
    BY <1>12 DEF Hash
  <2>2. image.root = Nothing => Hash(root) = NoRoot
    BY DEF root, Hash, NoOutput, BootOnly
  <2> QED
    BY <1>1, <1>4, <2>1, <2>2 DEF AsPlanned
<1>15. /\ DOMAIN j.values = (DOMAIN Given \cup DOMAIN Changes) \ Deleted(Changes)
       /\ \A k \in DOMAIN j.values :
            k # Corium \/ IsRemote(BootRef) => j.values[k] = IF k \in DOMAIN Changes THEN Changes[k] ELSE Given[k]
  <2>1. CASE boot.how = "none"
    BY <1>1, <1>10, <1>11, <1>12, <2>1, NoChange
  <2>2. CASE boot.how = "inherit"
    <3>1. j.values = from.values /\ Given = ValuesOf(Origin[boot.from]) /\ Changes = NoValues
      BY <1>1, <1>10, <1>11, <1>12, <2>2
    <3> QED
      BY <1>1, <1>5, <2>2, <3>1, SourceValues, NoChange
  <2>3. CASE boot.how \in {"define", "extract"}
    <3>1. j.values = Merged(NoValues, boot.overlay) /\ Given = NoValues /\ Changes = boot.overlay
      BY <1>1, <1>10, <1>11, <1>12, <2>3
    <3> QED
      BY <3>1 DEF Merged
  <2>4. CASE boot.how = "extend"
    <3>1. j.values = Merged(from.values, boot.overlay) /\ Given = ValuesOf(Origin[boot.from]) /\ Changes = boot.overlay
      BY <1>1, <1>10, <1>11, <1>12, <2>4
    <3>2. /\ DOMAIN from.values = DOMAIN Given
          /\ \A k \in DOMAIN from.values : k # Corium \/ IsRemote(BootRef) => from.values[k] = Given[k]
      BY <1>1, <1>5, <2>4, <3>1, SourceValues
    <3> QED
      BY <3>1, <3>2 DEF Merged
  <2> QED
    BY <1>1, <2>1, <2>2, <2>3, <2>4
<1> QED
  BY <1>7, <1>9, <1>12, <1>13, <1>14, <1>15 DEF JoinedPlanned, j

\* An image that is joined of nothing but what belongs together is unchanged.
LEMMA UnjoinedUnchanged ==
  ASSUME PlanSound, PinsSound, InputsInv, ImagesInv, OutputsInv, PlansInv, at = "select",
         JoinedPlanned(Joined), UnjoinedAt(Hash(Joined))
  PROVE  ~Changed(Joined)
<1> DEFINE j == Joined
           image == images[BootRef]
<1>1. /\ How \in {"inherit", "extend"} /\ BootRef \in Remotes /\ RootRef \notin Ordered
      /\ Given # NoValues /\ Hash(j) = Contents[ConfigOrigin].root /\ ConfigOrigin = Origin[BootRef]
  BY DEF UnjoinedAt, IsRemote, ConfigOrigin
<1>2. j.produced = <<>>
  <2>1. RootRef \in Remotes \cup {Nothing}
    BY <1>1 DEF PlanSound, RootRef
  <2>2. NoOutput.produced = <<>> /\ \A i : Remote(i).produced = <<>>
    BY DEF NoOutput, BootOnly, Remote
  <2>3. CASE plan.image.whole # Nothing
    BY <2>1, <2>2, <2>3 DEF Joined, RootRef, Resolved, IsRemote
  <2>4. CASE plan.image.whole = Nothing
    <3>1. j.produced = (IF plan.image.root = Nothing THEN NoOutput ELSE Resolved(plan.image.root)).produced
      BY <2>4 DEF Joined
    <3> QED
      BY <2>1, <2>2, <2>4, <3>1 DEF RootRef, Resolved, IsRemote
  <2> QED
    BY <2>3, <2>4
<1>3. BootRef \in DOMAIN images /\ Origin[BootRef] = image /\ image \in Images /\ image # Nothing
  <2>1. BootRef \in OrdinaryRefs \cup DOMAIN outputs
    <3>1. BootRef # Nothing
      BY <1>1, NamesAssumption DEF NamesAssumption
    <3> QED
      BY <3>1, SelectorsRead DEF BootRef
  <2>2. BootRef \notin DOMAIN outputs
    BY <1>1 DEF OutputsInv, Ordered, PlanSound
  <2>3. BootRef \in DOMAIN images
    BY <2>1, <2>2, Readers DEF ImagesInv, Building
  <2> QED
    BY <1>1, <2>3, OriginRemote, NamesAssumption DEF ImagesInv, NamesAssumption
<1>4. Resolved(BootRef) = Remote(image)
  BY <1>1 DEF Resolved, IsRemote
<1>5. j.lineage = Remote(image).lineage
  <2>1. CASE plan.image.whole # Nothing
    BY <1>4, <2>1 DEF Joined, BootRef
  <2>2. CASE plan.image.whole = Nothing
    <3> DEFINE boot == plan.image.boot
    <3>1. boot.how = How /\ boot.from = BootRef
      BY <2>2 DEF How, BootRef
    <3>2. Sound(Resolved(boot.from))
      <4>1. BootRef \in OrdinaryRefs
        BY <1>1, <2>2, <3>1, SelectorsRead DEF OutputsInv, Ordered, PlanSound
      <4> QED
        BY <3>1, <4>1, ResolvedSound DEF Building
    <3>3. BootOf(boot).lineage = Resolved(boot.from).lineage
      BY <1>1, <3>1, <3>2, BootFields
    <3>4. j.lineage = BootOf(boot).lineage
      BY <2>2 DEF Joined
    <3> QED
      BY <1>4, <3>1, <3>3, <3>4
  <2> QED
    BY <2>1, <2>2
<1>6. Given = Contents[image].values
  BY <1>1, <1>3 DEF Given
<1>7. j.lineage = Hash(j)
  BY <1>1, <1>3, <1>5, <1>6 DEF Remote
<1>8. j.pmi # Nothing => PmiRoot(j) = Hash(j)
  <2>1. j.pmi = PmiOf(image)
    BY <1>1, <1>3 DEF JoinedPlanned
  <2> QED
    BY <1>1, <1>3, <2>1 DEF PmiOf, PmiRoot
<1> HIDE DEF j
<1> QED
  BY <1>2, <1>7, <1>8 DEF Changed, j

LEMMA SelectPlanned ==
  ASSUME PlanSound, PinsSound, InputsInv, ImagesInv, OutputsInv, PlansInv, Select
  PROVE  PlannedAt(Hash(output'), output'.pmi, output'.values)
<1> DEFINE j == Joined
           b == BindTo(j, Hash(j))
<1>1. /\ at = "select"
      /\ output' = IF HasRoot(j) /\ Changed(j) THEN b ELSE j
  BY DEF Select, Selected
<1>2. JoinedPlanned(j)
  BY <1>1, WholeAsPlanned, ComponentsAsPlanned
<1>3. Sound(j)
  BY <1>1, JoinedSound
<1>4. HasRoot(j) /\ Changed(j) => ~UnjoinedAt(Hash(j))
  BY <1>1, <1>2, UnjoinedUnchanged
<1>5. \A root : UnjoinedAt(root) => IsRemote(BootRef)
  BY DEF UnjoinedAt
<1> HIDE DEF j
<1>6. PlannedAt(Hash(j), j.pmi, j.values)
  BY <1>2, <1>5 DEF PlannedAt, JoinedPlanned, PmiOf
<1>7. /\ Hash(b) = Hash(j) /\ b.pmi = j.pmi /\ DOMAIN b.values = DOMAIN j.values
      /\ \A k \in DOMAIN j.values : k # Corium => b.values[k] = j.values[k]
  <2>1. b = IF j.values = NoValues THEN j
            ELSE [base |-> j.base, produced |-> j.produced, pmi |-> j.pmi,
                  values |-> [k \in DOMAIN j.values |-> IF k = Corium THEN Hash(j) ELSE j.values[k]], lineage |-> Hash(j)]
    BY <1>3, BindFields DEF Sound, Record
  <2>2. Hash(b) = Hash(j) /\ b.pmi = j.pmi
    BY <1>3, HashIsRoot, BindSound
  <2> QED
    BY <2>1, <2>2
<1> HIDE DEF b
<1>8. CASE HasRoot(j) /\ Changed(j)
  BY <1>1, <1>4, <1>6, <1>7, <1>8 DEF PlannedAt
<1>9. CASE ~(HasRoot(j) /\ Changed(j))
  BY <1>1, <1>6, <1>9
<1> QED
  BY <1>8, <1>9

\* The output and the image made of it are as planned.
PlannedInv ==
  /\ at = "assemble" => PlannedAt(Hash(output), output.pmi, output.values)
  /\ Assembled => PlannedAt(published.root, published.pmi, published.values)

LEMMA SamePlannedAt ==
  ASSUME UNCHANGED <<captured, images>>
  PROVE  \A root, pmi, values : PlannedAt(root, pmi, values)' <=> PlannedAt(root, pmi, values)
<1>1. \A root : UnjoinedAt(root)' <=> UnjoinedAt(root)
  BY SameMeaning
<1>2. /\ How' = How /\ BootRef' = BootRef /\ RootRef' = RootRef /\ Changes' = Changes
      /\ Origin' = Origin /\ PlannedRoot' = PlannedRoot
  BY SamePlans DEF How, BootRef, RootRef, Changes, captured
<1>3. Given' = Given /\ Deleted(Changes)' = Deleted(Changes)
  BY <1>2 DEF Given, ConfigOrigin, Deleted
<1> QED
  BY <1>1, <1>2, <1>3 DEF PlannedAt

LEMMA PlannedStep ==
  ASSUME PlanSound, PinsSound, Phases, InputsInv, ImagesInv, OutputsInv, PlansInv, PlannedInv, [Next]_vars
  PROVE  PlannedInv'
<1>0. UNCHANGED captured
  BY Captured
<1>1. CASE Select
  <2>1. UNCHANGED images /\ at = "select" /\ at' = "assemble" /\ verdict' = verdict /\ verdict # "ok"
    BY <1>1 DEF Select, Phases
  <2>2. PlannedAt(Hash(output'), output'.pmi, output'.values)
    BY <1>1, SelectPlanned
  <2>3. Hash(output)' = Hash(output')
    BY DEF Hash
  <2>4. PlannedAt(Hash(output), output.pmi, output.values)'
    BY <1>0, <2>1, <2>2, <2>3, SamePlannedAt
  <2> QED
    BY <2>1, <2>4 DEF PlannedInv, Assembled
<1>2. CASE Assemble
  <2>1. /\ UNCHANGED <<images, output>> /\ at = "assemble" /\ at' = "stamp"
        /\ published'.root = Hash(output) /\ published'.pmi = output.pmi /\ published'.values = output.values
    BY <1>2 DEF Assemble
  <2> QED
    BY <1>0, <2>1, SamePlannedAt DEF PlannedInv
<1>3. CASE Stamp
  <2>1. /\ UNCHANGED <<images, output>> /\ at = "stamp" /\ at' = "publish"
        /\ published'.root = published.root /\ published'.pmi = published.pmi
        /\ published'.values = published.values
    BY <1>3 DEF Stamp
  <2> QED
    BY <1>0, <2>1, SamePlannedAt DEF PlannedInv, Assembled
<1>4. ASSUME UNCHANGED <<images, output, published>>, at' = "assemble" => at = "assemble", Assembled' => Assembled
      PROVE  PlannedInv'
  <2>1. Hash(output)' = Hash(output)
    BY <1>4 DEF Hash
  <2> QED
    BY <1>0, <1>4, <2>1, SamePlannedAt DEF PlannedInv
<1>5. ASSUME at' \notin {"assemble", "stamp", "publish"}, verdict' # "ok"
      PROVE  PlannedInv'
  BY <1>5 DEF PlannedInv, Assembled
<1>6. CASE Capture \/ AddInput \/ PassLocal \/ GraphDone \/ Resolve \/ Fail \/ Refuse
  BY <1>5, <1>6 DEF Capture, AddInput, PassLocal, GraphDone, Resolve, Fail, Refuse, Phases
<1>7. CASE Validate \/ RunStage \/ StagesDone
  BY <1>5, <1>7 DEF Validate, RunStage, StagesDone, Phases
<1>8. CASE Publish
  BY <1>4, <1>8 DEF Publish, Assembled
<1>9. CASE UNCHANGED vars
  BY <1>4, <1>9 DEF vars, Assembled
<1> QED
  BY <1>1, <1>2, <1>3, <1>6, <1>7, <1>8, <1>9 DEF Next, RejectInput, RejectPlan, StepFails

-----------------------------------------------------------------------------
(***************************************************************************)
(* The published image                                                     *)
(***************************************************************************)

\* The layers of the image lead from nothing to its root, without a gap.
Unbroken ==
  /\ at = "assemble" => Contiguous(Links(output))
  /\ Assembled =>
       /\ Contiguous(published.links)
       /\ published.links = <<>> <=> published.root = NoRoot
       /\ published.links # <<>> => published.links[Len(published.links)].root = published.root

Image(i) == i = [root |-> i.root, links |-> i.links, pmi |-> i.pmi, values |-> i.values, verity |-> i.verity,
                 bootstrapped |-> i.bootstrapped, locked |-> i.locked]

PublishedInv ==
  /\ Image(published)
  /\ published.pmi \in Images \cup {"file", Nothing}
  /\ RootBound /\ Unbroken
  /\ at = "publish" \/ verdict = "ok" =>
       /\ published.bootstrapped <=> \E n \in Ordered : Stage(n).kind = "bootstrap"
       /\ published.locked <=> OrdinaryRefs # {}

LEMMA PublishedStep ==
  ASSUME PlanSound, PinsSound, Phases, InputsInv, ImagesInv, OutputsInv, OutputInv, PublishedInv, [Next]_vars
  PROVE  PublishedInv'
<1>0. UNCHANGED captured
  BY Captured
<1>1. /\ OrdinaryRefs' = OrdinaryRefs /\ BootstrapRefs' = BootstrapRefs
      /\ (\E n \in Ordered : Stage(n).kind = "bootstrap")' <=> (\E n \in Ordered : Stage(n).kind = "bootstrap")
  BY <1>0, SameSources DEF captured, Ordered, Stage
<1>2. CASE Select
  <2>1. at' = "assemble" /\ at = "select" /\ verdict' = verdict /\ published' = published /\ verdict # "ok"
    BY <1>2 DEF Select, Phases
  <2>2. OutputInv'
    BY OutputStep
  <2>3. Contiguous(Links(output))'
    BY <2>2 DEF OutputInv, Sound, Chained
  <2> QED
    BY <2>1, <2>3 DEF PublishedInv, RootBound, Unbroken, Assembled
<1>3. CASE Assemble
  <2>1. /\ at = "assemble" /\ at' = "stamp" /\ verdict' = verdict /\ verdict # "ok" /\ Contiguous(Links(output))
        /\ published'.root = Hash(output) /\ published'.links = Links(output) /\ published'.pmi = output.pmi
        /\ published'.values = output.values /\ Image(published)' /\ UNCHANGED <<captured, images, output>>
    BY <1>0, <1>3 DEF Assemble, Phases, Image
  <2>2. Sound(output) /\ BoundAt(Hash(output), output.values)
    BY <2>1 DEF OutputInv
  <2>3. RootBound'
    <3>1. UnjoinedAt(Hash(output)) => Unjoined'
      <4>1. UnjoinedAt(published.root)' <=> UnjoinedAt(published'.root)
        BY <2>1, SameMeaning
      <4>2. UnjoinedAt(published.root)' => Unjoined'
        BY DEF UnjoinedAt, Unjoined
      <4> QED
        BY <2>1, <4>1, <4>2
    <3> QED
      BY <2>1, <2>2, <3>1 DEF RootBound, BoundAt
  <2>4. Unbroken'
    <3>1. /\ Links(output) = <<>> <=> Hash(output) = NoRoot
          /\ Links(output) # <<>> => Links(output)[Len(Links(output))].root = Hash(output)
      BY <2>2, LinksLead, HashIsRoot
    <3> QED
      BY <2>1, <3>1 DEF Unbroken, Assembled, Contiguous
  <2>5. output.pmi \in Images \cup {"file", Nothing}
    BY <2>2 DEF Sound, Record
  <2> QED
    BY <2>1, <2>3, <2>4, <2>5 DEF PublishedInv
<1>4. ASSUME UNCHANGED <<captured, images, output>>, at # "assemble" \/ at' = at, at' = "assemble" => at = "assemble",
             published'.root = published.root, published'.links = published.links,
             published'.pmi = published.pmi, published'.values = published.values,
             Assembled' => Assembled
      PROVE  RootBound' /\ Unbroken' /\ (published.pmi \in Images \cup {"file", Nothing})'
  <2>1. Unjoined' <=> Unjoined
    <3>1. UnjoinedAt(published.root)' <=> UnjoinedAt(published.root)
      BY <1>4, SameMeaning
    <3> QED
      BY <3>1 DEF UnjoinedAt, Unjoined
  <2>2. RootBound'
    BY <1>4, <2>1 DEF RootBound, PublishedInv
  <2>3. Unbroken'
    <3>1. at' = "assemble" => Contiguous(Links(output))'
      <4>1. Links(output)' = Links(output)
        BY <1>4 DEF Links
      <4> QED
        BY <1>4, <4>1 DEF Unbroken, PublishedInv, Contiguous
    <3>2. ASSUME Assembled' PROVE /\ Contiguous(published.links)'
                                  /\ published'.links = <<>> <=> published'.root = NoRoot
                                  /\ published'.links # <<>> => published'.links[Len(published'.links)].root = published'.root
      <4>1. /\ Contiguous(published.links)
            /\ published.links = <<>> <=> published.root = NoRoot
            /\ published.links # <<>> => published.links[Len(published.links)].root = published.root
        BY <1>4, <3>2 DEF Unbroken, PublishedInv
      <4>2. Contiguous(published.links)'
        BY <1>4, <4>1 DEF Contiguous
      <4> QED
        BY <1>4, <4>1, <4>2
    <3> QED
      BY <3>1, <3>2 DEF Unbroken
  <2> QED
    BY <1>4, <2>2, <2>3 DEF PublishedInv
<1>5. CASE Stamp
  <2>1. /\ at = "stamp" /\ at' = "publish" /\ UNCHANGED <<images, output, verdict>>
        /\ published' = [published EXCEPT !.bootstrapped = \E r \in DOMAIN inputs : inputs[r] = "tag", !.locked = lockRead]
    BY <1>5 DEF Stamp
  <2>2. /\ published'.root = published.root /\ published'.links = published.links
        /\ published'.pmi = published.pmi /\ published'.values = published.values
        /\ published'.bootstrapped = (\E r \in DOMAIN inputs : inputs[r] = "tag") /\ published'.locked = lockRead
        /\ Image(published)'
    <3> PICK r, l, p, v, w, b, k : published = [root |-> r, links |-> l, pmi |-> p, values |-> v, verity |-> w, bootstrapped |-> b, locked |-> k]
      BY DEF PublishedInv, Image
    <3> DEFINE tagged == \E q \in DOMAIN inputs : inputs[q] = "tag"
    <3>1. published.root = r /\ published.links = l /\ published.pmi = p /\ published.values = v /\ published.verity = w
      OBVIOUS
    <3> HIDE DEF tagged
    <3>2. published' = [root |-> r, links |-> l, pmi |-> p, values |-> v, verity |-> w, bootstrapped |-> tagged, locked |-> lockRead]
      BY <2>1 DEF tagged
    <3> QED
      BY <3>1, <3>2 DEF Image, tagged
  <2>3. RootBound' /\ Unbroken' /\ (published.pmi \in Images \cup {"file", Nothing})'
    BY <1>0, <1>4, <2>1, <2>2 DEF Assembled
  <2>4. (\E r \in DOMAIN inputs : inputs[r] = "tag") <=> \E n \in Ordered : Stage(n).kind = "bootstrap"
    BY <2>1, InputsSound, SourcesRead DEF Resolving, Building
  <2>5. lockRead <=> OrdinaryRefs # {}
    BY <2>1 DEF InputsInv, Resolving, Building
  <2> QED
    BY <1>1, <2>2, <2>3, <2>4, <2>5 DEF PublishedInv
<1>6. ASSUME UNCHANGED <<images, output, published>>, at # "assemble" \/ at' = at, at' = "assemble" => at = "assemble",
             Assembled' => Assembled, at' = "publish" \/ verdict' = "ok" => at = "publish" \/ verdict = "ok"
      PROVE  PublishedInv'
  <2>1. RootBound' /\ Unbroken' /\ (published.pmi \in Images \cup {"file", Nothing})'
    BY <1>0, <1>4, <1>6
  <2> QED
    BY <1>1, <1>6, <2>1 DEF PublishedInv, Image
<1>7. ASSUME published' = published, at \notin {"stamp", "publish"}, at' \notin {"assemble", "stamp", "publish"},
             verdict' = "ok" => FALSE
      PROVE  PublishedInv'
  BY <1>7 DEF PublishedInv, Image, RootBound, Unbroken, Assembled
<1>8. CASE Capture \/ AddInput \/ PassLocal \/ GraphDone \/ Resolve
  BY <1>7, <1>8 DEF Capture, AddInput, PassLocal, GraphDone, Resolve, Phases
<1>9. CASE Validate \/ RunStage \/ StagesDone
  BY <1>7, <1>9 DEF Validate, RunStage, StagesDone, Phases
<1>10. CASE Publish
  BY <1>6, <1>10 DEF Publish, Assembled
<1>11. CASE Fail \/ Refuse
  <2>1. published' = published /\ at' = "done" /\ verdict' # "ok"
    BY <1>11 DEF Fail, Refuse
  <2> QED
    BY <2>1 DEF PublishedInv, Image, RootBound, Unbroken, Assembled
<1>12. CASE UNCHANGED vars
  BY <1>6, <1>12 DEF vars, Assembled
<1> QED
  BY <1>2, <1>3, <1>5, <1>8, <1>9, <1>10, <1>11, <1>12 DEF Next, RejectInput, RejectPlan, StepFails

-----------------------------------------------------------------------------
(***************************************************************************)
(* What is refused                                                         *)
(***************************************************************************)

BaseOf(image) == IF image = Nothing THEN Nothing ELSE IF Rooted(image) THEN image ELSE Nothing

\* An output has the configuration and the base that were planned.
Configured(ref, o) ==
  /\ o.values = ConfigOf(ref) /\ o.base = BaseOf(Origin[ref])
  /\ Origin[ref] # Nothing => (Rooted(Origin[ref]) <=> "root" \in Provides[ref])

\* The selected output is on the base of the root it was planned to have.
Based(o) ==
  /\ RootRef \in Ordered <=> o.produced # <<>>
  /\ o.base = IF RootRef = Nothing THEN Nothing ELSE BaseOf(Origin[RootRef])

Parameters == IF EndRoot # NoRoot /\ IsRemote(RootRef) THEN Contents[images[RootRef]].verity ELSE Default

CauseInv ==
  /\ at \in Building =>
       \A n \in DOMAIN outputs : Configured(n, outputs[n]) /\ Readable(Stage(n).from) /\ Fits(ConfigOf(n))
  /\ at = "assemble" => DOMAIN outputs = Ordered /\ Based(output)
  /\ at = "assemble" \/ Assembled => ~Inexpressible
  /\ Assembled => ~Incompatible /\ published.verity = Parameters
  /\ verdict = "refused" => Inexpressible \/ Incompatible

LEMMA ConfigIs ==
  \A ref : ConfigOf(ref) = IF IsRemote(ref) THEN ValuesOf(Origin[ref]) ELSE Naming(ValuesOf(Origin[ref]), PlannedRoot[ref])
BY DEF ConfigOf, ValuesOf

\* A configuration that names one root can be made to name another.
LEMMA NamingAgain ==
  ASSUME NEW v, NEW first, NEW root
  PROVE  Naming(Naming(v, first), root) = Naming(v, root) /\ (Naming(v, first) = NoValues => Naming(v, root) = NoValues)
<1>1. DOMAIN Naming(v, first) = DOMAIN v /\ \A k \in DOMAIN v : k # Corium => Naming(v, first)[k] = v[k]
  BY DEF Naming
<1>2. Naming(Naming(v, first), root) = Naming(v, root)
  BY <1>1 DEF Naming
<1>3. Naming(v, first) = NoValues => DOMAIN v = {}
  BY <1>1 DEF NoValues
<1>4. DOMAIN v = {} => Naming(v, root) = NoValues
  BY DEF Naming, NoValues
<1> QED
  BY <1>2, <1>3, <1>4

LEMMA NamingNothing == \A root : Naming(NoValues, root) = NoValues
  BY DEF Naming, NoValues

\* The causes lie in the plan and the images.
LEMMA SameCauses ==
  ASSUME UNCHANGED <<captured, images>>
  PROVE  /\ Inexpressible' <=> Inexpressible
         /\ Incompatible' <=> Incompatible
         /\ Parameters' = Parameters
         /\ \A ref : ConfigOf(ref)' = ConfigOf(ref) /\ (Readable(ref)' <=> Readable(ref))
         /\ \A ref, o : Configured(ref, o)' <=> Configured(ref, o)
         /\ \A o : Based(o)' <=> Based(o)
<1>1. Origin' = Origin /\ PlannedRoot' = PlannedRoot /\ Ordered' = Ordered /\ plan' = plan /\ images' = images
  BY SamePlans DEF captured, Ordered
<1>2. /\ How' = How /\ BootRef' = BootRef /\ RootRef' = RootRef /\ Changes' = Changes /\ EndRoot' = EndRoot
  BY <1>1 DEF How, BootRef, RootRef, Changes, EndRoot
<1>3. \A ref : ConfigOf(ref)' = ConfigOf(ref) /\ (Readable(ref)' <=> Readable(ref))
  BY <1>1 DEF ConfigOf, IsRemote, Naming, Readable
<1>4. Written' = Written
  BY <1>1, <1>2, <1>3 DEF Written, Deleted
<1>5. UnjoinedAt(EndRoot)' <=> UnjoinedAt(EndRoot)
  <2>1. \A root : UnjoinedAt(root)' <=> UnjoinedAt(root)
    BY SameMeaning
  <2> QED
    BY <1>2, <2>1 DEF UnjoinedAt
<1>6. Naming(Written, EndRoot)' = Naming(Written, EndRoot)
  BY <1>2, <1>4 DEF Naming
<1>7. Inexpressible' <=> Inexpressible
  BY <1>1, <1>2, <1>3, <1>4, <1>5, <1>6 DEF Inexpressible
<1>8. (Incompatible' <=> Incompatible) /\ Parameters' = Parameters
  BY <1>1, <1>2 DEF Incompatible, Parameters, IsRemote
<1>9. Provides' = Provides
  BY DEF Provides, StageProvides, ImageProvides, Rooted, IsRemote, captured, Ordered, Stage
<1>10. \A ref, o : Configured(ref, o)' <=> Configured(ref, o)
  BY <1>1, <1>3, <1>9 DEF Configured, BaseOf, Rooted
<1>11. \A o : Based(o)' <=> Based(o)
  BY <1>1, <1>2 DEF Based, BaseOf, Rooted
<1> QED
  BY <1>3, <1>7, <1>8, <1>10, <1>11

LEMMA RemoteConfigured ==
  ASSUME ImagesInv, NEW ref \in DOMAIN images
  PROVE  Configured(ref, Remote(images[ref])) /\ ConfigOf(ref) = Contents[images[ref]].values /\ IsRemote(ref)
<1> DEFINE image == images[ref]
           o == Remote(image)
<1>1. image \in Images /\ image # Nothing /\ IsRemote(ref)
  BY NamesAssumption DEF ImagesInv, NamesAssumption, IsRemote
<1>2. Provides[ref] = ImageProvides(image) /\ Origin[ref] = image
  BY <1>1 DEF Provides, Origin
<1>3. o.base = (IF Rooted(image) THEN image ELSE Nothing) /\ o.values = Contents[image].values
  BY DEF Remote
<1> HIDE DEF image, o
<1>4. ConfigOf(ref) = Contents[image].values
  BY <1>1, <1>2, ConfigIs DEF ValuesOf
<1>5. "root" \in ImageProvides(image) <=> Rooted(image)
  BY DEF ImageProvides
<1> QED
  BY <1>1, <1>2, <1>3, <1>4, <1>5 DEF Configured, BaseOf, o, image

LEMMA DerivedConfigured ==
  ASSUME PlanSound, ImagesInv, DOMAIN images = Reads, NEW n \in Ordered, Stage(n).kind = "extend",
         NEW source, Record(source), AsPlanned(Stage(n).from, source), Configured(Stage(n).from, source)
  PROVE  Configured(n, Derived(n, source))
<1> DEFINE from == Stage(n).from
           root == Append(Hash(source), n)
           layer == [parent |-> Hash(source), root |-> root]
           sealed == [source EXCEPT !.produced = Append(@, layer)]
           d == Derived(n, source)
           given == ValuesOf(Origin[from])
<1>1. sealed = [base |-> source.base, produced |-> Append(source.produced, layer), pmi |-> source.pmi,
                values |-> source.values, lineage |-> source.lineage]
  BY ReplaceProduced
<1>2. d = BindTo(sealed, root)
  BY DEF Derived
<1>3. sealed.base = source.base /\ sealed.values = source.values
      /\ sealed = [base |-> sealed.base, produced |-> sealed.produced, pmi |-> sealed.pmi,
                   values |-> sealed.values, lineage |-> sealed.lineage]
  BY <1>1
<1> HIDE DEF d, sealed, root
<1>4. d.base = source.base /\ d.values = (IF source.values = NoValues THEN source.values ELSE Naming(source.values, root))
  BY <1>2, <1>3, BindFields DEF Naming
<1>5. Provides[n] = Provides[from] /\ Origin[n] = Origin[from] /\ PlannedRoot[n] = root /\ ~IsRemote(n)
  BY PlannedStage, ExtendedImage DEF AsPlanned, root, IsRemote
<1>6. ConfigOf(n) = Naming(given, root)
  BY <1>5, ConfigIs
<1>7. source.values = given \/ source.values = Naming(given, PlannedRoot[from])
  BY ConfigIs DEF Configured
<1> HIDE DEF given
<1>8. d.values = Naming(given, root)
  <2>1. CASE source.values = given
    BY <1>4, <2>1, NamingNothing
  <2>2. CASE source.values = Naming(given, PlannedRoot[from])
    BY <1>4, <2>2, NamingAgain
  <2> QED
    BY <1>7, <2>1, <2>2
<1> HIDE DEF from
<1> QED
  BY <1>4, <1>5, <1>6, <1>8 DEF Configured, d, from

LEMMA FormattedConfigured ==
  ASSUME PlanSound, ImagesInv, DOMAIN images = Reads, NEW n \in Ordered, Stage(n).kind # "extend"
  PROVE  Configured(n, Formatted(n))
<1>1. Formatted(n).base = Nothing /\ Formatted(n).values = NoValues
  BY DEF Formatted, NoOutput, BootOnly
<1>2. Origin[n] = Nothing /\ ~IsRemote(n)
  BY PlannedStage, ExtendedImage DEF IsRemote
<1>3. ConfigOf(n) = NoValues
  BY <1>2, ConfigIs, NamingNothing DEF ValuesOf
<1> QED
  BY <1>1, <1>2, <1>3 DEF Configured, BaseOf

LEMMA ResolvedConfigured ==
  ASSUME PlanSound, ImagesInv, OutputsInv, CauseInv, at \in Building, NEW ref \in DOMAIN images \cup DOMAIN outputs
  PROVE  Configured(ref, Resolved(ref))
<1>1. CASE ref \in DOMAIN images
  BY <1>1, RemoteConfigured DEF Resolved
<1>2. CASE ref \in DOMAIN outputs
  <2>1. Resolved(ref) = outputs[ref]
    BY <1>2 DEF OutputsInv, Ordered, PlanSound, Resolved, IsRemote
  <2> QED
    BY <1>2, <2>1 DEF CauseInv
<1> QED
  BY <1>1, <1>2

\* What running a stage makes.
LEMMA MadeConfigured ==
  ASSUME PlanSound, PinsSound, InputsInv, ImagesInv, OutputsInv, PlansInv, CauseInv,
         at = "execute", pos \in 1..Len(plan.order)
  PROVE  LET n == plan.order[pos] IN
         /\ n \in Ordered /\ Configured(n, Made(n))
         /\ IsRemote(Stage(n).from) => Stage(n).from \in DOMAIN images
<1> DEFINE n == plan.order[pos]
           from == Stage(n).from
           source == Resolved(from)
<1>1. at \in Building /\ n \in Ordered /\ DOMAIN images = Reads /\ DOMAIN outputs = Before(pos)
  BY DEF Building, Ordered, ImagesInv, OutputsInv
<1>2. from \in Remotes \cup Before(pos)
  BY DEF PlanSound
<1>3. from \in Remotes => from \in DOMAIN images
  BY <1>1, SourcesRead, Readers
<1>4. CASE Stage(n).kind = "extend"
  <2>1. from \in OrdinaryRefs \cup DOMAIN outputs
    BY <1>1, <1>2, <1>4, SourcesRead
  <2>2. Record(source)
    BY <1>1, <2>1, ResolvedSound DEF Sound
  <2>3. AsPlanned(from, source) /\ Configured(from, source)
    BY <1>1, <1>2, <1>3, ResolvedAsPlanned, ResolvedConfigured
  <2> QED
    BY <1>1, <1>3, <1>4, <2>2, <2>3, DerivedConfigured DEF Made, IsRemote
<1>5. CASE Stage(n).kind # "extend"
  BY <1>1, <1>3, <1>5, FormattedConfigured DEF Made, IsRemote
<1> QED
  BY <1>4, <1>5

\* Every configuration is a function of its keys.
LEMMA ConfigIsFunction ==
  ASSUME ImagesInv, NEW ref \in DOMAIN images \cup Ordered, Origin[ref] \in Images \cup {Nothing}
  PROVE  ConfigOf(ref) = [k \in DOMAIN ConfigOf(ref) |-> ConfigOf(ref)[k]]
<1>1. ValuesOf(Origin[ref]) = [k \in DOMAIN ValuesOf(Origin[ref]) |-> ValuesOf(Origin[ref])[k]]
  BY ContentsAssumption DEF ContentsAssumption, ValuesOf, NoValues
<1>2. \A v, root : Naming(v, root) = [k \in DOMAIN Naming(v, root) |-> Naming(v, root)[k]]
  BY DEF Naming
<1> QED
  BY <1>1, <1>2, ConfigIs

\* What is joined has the configuration that is written, on the planned base.
LEMMA JoinedConfigured ==
  ASSUME PlanSound, PinsSound, InputsInv, ImagesInv, OutputsInv, PlansInv, CauseInv, at = "select"
  PROVE  Joined.values = Written /\ Based(Joined)
<1> DEFINE image == plan.image
           boot == image.boot
<1>0. /\ at \in Building /\ OrdinaryRefs \subseteq DOMAIN images /\ DOMAIN outputs = Ordered
      /\ Nothing \notin Remotes
  BY Readers, NamesAssumption DEF Building, ImagesInv, OutputsInv, NamesAssumption
<1>1. ASSUME NEW ref, ref \in OrdinaryRefs \cup DOMAIN outputs
      PROVE  /\ Configured(ref, Resolved(ref)) /\ Record(Resolved(ref))
             /\ (ref \in Ordered <=> Resolved(ref).produced # <<>>)
             /\ ConfigOf(ref) = Merged(ConfigOf(ref), NoValues)
  <2>1. Configured(ref, Resolved(ref)) /\ AsPlanned(ref, Resolved(ref))
    BY <1>0, <1>1, ResolvedConfigured, ResolvedAsPlanned
  <2>2. /\ Sound(Resolved(ref))
        /\ ref \in Remotes => Resolved(ref) = Remote(images[ref])
        /\ ref \notin Remotes => ref \in DOMAIN outputs /\ Bound(Resolved(ref))
    BY <1>0, <1>1, ResolvedSound
  <2>3. ref \in Ordered <=> ref \notin Remotes
    BY <1>0, <1>1, <2>2 DEF Ordered, PlanSound
  <2>4. ref \in Ordered <=> Resolved(ref).produced # <<>>
    BY <2>2, <2>3 DEF Remote, Bound
  <2>5. ConfigOf(ref) = [k \in DOMAIN ConfigOf(ref) |-> ConfigOf(ref)[k]]
    BY <1>0, <1>1, <2>1, ConfigIsFunction DEF AsPlanned
  <2>6. ConfigOf(ref) = Merged(ConfigOf(ref), NoValues)
    BY <2>5, NoChange DEF Merged
  <2> QED
    BY <2>1, <2>2, <2>4, <2>6 DEF Sound
<1>2. Written = Merged(IF How \in {"inherit", "extend"} THEN ConfigOf(BootRef) ELSE NoValues, Changes)
  BY DEF Written, Merged
<1>3. CASE image.whole # Nothing
  <2>1. /\ Joined = Resolved(image.whole) /\ RootRef = image.whole /\ BootRef = image.whole /\ How = "inherit"
        /\ Changes = NoValues
    BY <1>3 DEF Joined, RootRef, BootRef, How, Changes
  <2>2. image.whole \in OrdinaryRefs \cup DOMAIN outputs
    BY <1>3, SelectorsRead
  <2>3. Written = Merged(ConfigOf(image.whole), NoValues)
    BY <1>2, <2>1
  <2>4. /\ Resolved(image.whole).values = ConfigOf(image.whole) /\ ConfigOf(image.whole) = Merged(ConfigOf(image.whole), NoValues)
        /\ Resolved(image.whole).base = BaseOf(Origin[image.whole])
        /\ image.whole \in Ordered <=> Resolved(image.whole).produced # <<>>
    BY <1>1, <2>2 DEF Configured
  <2> QED
    BY <1>3, <2>1, <2>3, <2>4 DEF Based
<1>4. CASE image.whole = Nothing
  <2> DEFINE root == IF image.root = Nothing THEN NoOutput ELSE Resolved(image.root)
  <2>1. /\ How = boot.how /\ BootRef = boot.from /\ RootRef = image.root
        /\ boot.how \in {"none", "inherit", "define", "extend", "extract"}
        /\ boot.how = "none" <=> boot.from = Nothing
        /\ Changes = (IF boot.how \in {"inherit", "none"} THEN NoValues ELSE boot.overlay)
    BY <1>4 DEF How, BootRef, RootRef, Changes, PlanSound
  <2>2. /\ image.root # Nothing => image.root \in OrdinaryRefs \cup DOMAIN outputs
        /\ boot.how # "none" => boot.from \in OrdinaryRefs \cup DOMAIN outputs
    BY <1>4, <2>1, SelectorsRead
  <2>3. Joined.base = root.base /\ Joined.produced = root.produced /\ Joined.values = BootOf(boot).values
    BY <1>4 DEF Joined
  <2>4. Based(Joined)
    <3>1. CASE image.root = Nothing
      <4>1. root.base = Nothing /\ root.produced = <<>>
        BY <3>1 DEF NoOutput, BootOnly
      <4>2. Nothing \notin Ordered
        BY DEF Ordered, PlanSound
      <4> QED
        BY <2>1, <2>3, <3>1, <4>1, <4>2 DEF Based
    <3>2. CASE image.root # Nothing
      BY <1>1, <2>1, <2>2, <2>3, <3>2 DEF Based, Configured
    <3> QED
      BY <3>1, <3>2
  <2>5. Sourced(boot) => Record(Resolved(boot.from))
    BY <1>1, <2>2 DEF Sourced
  <2>6. LET v == BootOf(boot).values IN
        /\ boot.how = "none" => v = NoValues
        /\ boot.how = "inherit" => v = Resolved(boot.from).values
        /\ boot.how \in {"define", "extract"} => v = Merged(NoValues, boot.overlay)
        /\ boot.how = "extend" => v = Merged(Resolved(boot.from).values, boot.overlay)
    BY <2>1, <2>5, BootValues
  <2>7. boot.how # "none" => /\ Resolved(boot.from).values = ConfigOf(boot.from)
                             /\ ConfigOf(boot.from) = Merged(ConfigOf(boot.from), NoValues)
    BY <1>1, <2>2 DEF Configured
  <2>8. Merged(NoValues, NoValues) = NoValues
    BY NoChange DEF Merged, NoValues
  <2>9. BootOf(boot).values = Written
    BY <1>2, <2>1, <2>6, <2>7, <2>8
  <2> QED
    BY <2>3, <2>4, <2>9
<1> QED
  BY <1>3, <1>4

\* What is selected has the written configuration, bound if it has to be.
LEMMA SelectedConfigured ==
  ASSUME PlanSound, PinsSound, InputsInv, ImagesInv, OutputsInv, PlansInv, CauseInv, at = "select"
  PROVE  /\ Joined.values = Written /\ Based(Selected) /\ Hash(Joined) = EndRoot
         /\ Fits(Written) => (Fits(Selected.values) <=>
              (EndRoot # NoRoot /\ ~UnjoinedAt(EndRoot) => Fits(Naming(Written, EndRoot))))
<1> DEFINE j == Joined
           b == BindTo(j, Hash(j))
<1>1. Joined.values = Written /\ Based(j)
  BY JoinedConfigured
<1>2. JoinedPlanned(j)
  BY WholeAsPlanned, ComponentsAsPlanned
<1>3. Hash(j) = EndRoot
  BY <1>2 DEF JoinedPlanned, EndRoot
<1>4. Sound(j)
  BY JoinedSound
<1>5. (HasRoot(j) => Hash(j) # NoRoot) /\ (~HasRoot(j) => Hash(j) = NoRoot)
  BY <1>4, HashIsRoot, LinksLead
<1>6. HasRoot(j) /\ Changed(j) => ~UnjoinedAt(Hash(j))
  BY <1>2, UnjoinedUnchanged
<1>7. HasRoot(j) /\ ~Changed(j) /\ Corium \in DOMAIN j.values => UnjoinedAt(Hash(j))
  BY NotBound
<1>8. Selected = IF HasRoot(j) /\ Changed(j) THEN b ELSE j
  BY DEF Selected
<1> HIDE DEF j
<1>9. /\ b.base = j.base /\ b.produced = j.produced
      /\ b.values = (IF j.values = NoValues THEN NoValues ELSE Naming(j.values, Hash(j)))
  <2>1. b = IF j.values = NoValues THEN j
            ELSE [base |-> j.base, produced |-> j.produced, pmi |-> j.pmi,
                  values |-> Naming(j.values, Hash(j)), lineage |-> Hash(j)]
    BY <1>4, BindFields DEF Sound, Record, Naming
  <2> HIDE DEF b
  <2> QED
    BY <2>1
<1>10. b.values = Naming(j.values, Hash(j))
  BY <1>9, NamingNothing
<1> HIDE DEF b
<1>11. Based(Selected)
  BY <1>1, <1>8, <1>9 DEF Based
<1>12. Corium \notin DOMAIN Written => Naming(Written, EndRoot) = Written
  <2>1. Written = [k \in DOMAIN Written |-> Written[k]]
    BY DEF Written
  <2> QED
    BY <2>1 DEF Naming
<1>13. ASSUME Fits(Written)
       PROVE  Fits(Selected.values) <=> (EndRoot # NoRoot /\ ~UnjoinedAt(EndRoot) => Fits(Naming(Written, EndRoot)))
  <2>1. j.values = Written
    BY <1>1 DEF j
  <2>2. CASE HasRoot(j) /\ Changed(j)
    BY <1>3, <1>5, <1>6, <1>8, <1>10, <2>1, <2>2
  <2>3. CASE ~HasRoot(j)
    BY <1>3, <1>5, <1>8, <1>13, <2>1, <2>3
  <2>4. CASE HasRoot(j) /\ ~Changed(j)
    <3>1. Selected = j
      BY <1>8, <2>4
    <3>2. UnjoinedAt(EndRoot) \/ Naming(Written, EndRoot) = Written
      BY <1>3, <1>7, <1>12, <2>1, <2>4
    <3> QED
      BY <1>13, <2>1, <3>1, <3>2
  <2> QED
    BY <2>2, <2>3, <2>4
<1> QED
  BY <1>1, <1>3, <1>11, <1>13 DEF j

\* All configurations on the way to the image can be expressed once the
\* stages have run and the output is selected.
LEMMA SelectFitting ==
  ASSUME PlanSound, PinsSound, InputsInv, ImagesInv, OutputsInv, PlansInv, CauseInv, at = "select"
  PROVE  SelectFits <=> ~Inexpressible
<1>0. DOMAIN images = Reads /\ DOMAIN outputs = Ordered /\ \A n \in Ordered : n \notin Remotes
  BY DEF ImagesInv, Building, OutputsInv, Ordered, PlanSound
<1>1. \A n \in Ordered : Readable(Stage(n).from) /\ Fits(ConfigOf(n))
  BY <1>0 DEF CauseInv, Building
<1>2. \A r \in DOMAIN images : Readable(r) <=> Fits(ConfigOf(r))
  BY RemoteConfigured DEF Readable
<1>3. /\ \A ref \in {ImageSources[i] : i \in DOMAIN ImageSources} : IsRemote(ref) => ref \in DOMAIN images
      /\ \A r \in DOMAIN images : r \in {Stage(n).from : n \in Ordered} \cup {ImageSources[i] : i \in DOMAIN ImageSources}
  <2>1. Len(plan.order) \in Nat /\ Len(ImageSources) \in Nat /\ DOMAIN ImageSources = 1..Len(ImageSources)
    <3>1. Len(plan.order) \in Nat
      BY DEF PlanSound
    <3>2. CASE plan.image.whole # Nothing
      <4>1. ImageSources = <<plan.image.whole>>
        BY <3>2 DEF ImageSources
      <4> QED
        BY <3>1, <4>1
    <3>3. CASE plan.image.whole = Nothing
      <4>1. ImageSources = <<plan.image.root, plan.image.boot.from>>
        BY <3>3 DEF ImageSources
      <4> QED
        BY <3>1, <4>1
    <3> QED
      BY <3>2, <3>3
  <2>2. \A ref \in {ImageSources[k] : k \in 1..Len(ImageSources)} : ref \in Remotes => ref \in DOMAIN images
    BY <1>0, SourcesRead, Readers
  <2>3. ASSUME NEW i \in RemoteSources
        PROVE  Sources[i].ref \in {Stage(n).from : n \in Ordered} \cup {ImageSources[k] : k \in DOMAIN ImageSources}
    <3>1. i \in 1..(Len(plan.order) + Len(ImageSources))
      BY DEF RemoteSources, Sources
    <3>2. CASE i <= Len(plan.order)
      <4>1. i \in 1..Len(plan.order) /\ Sources[i].ref = Stage(plan.order[i]).from
        BY <2>1, <3>1, <3>2 DEF Sources
      <4> QED
        BY <4>1 DEF Ordered
    <3>3. CASE ~(i <= Len(plan.order))
      <4>1. i - Len(plan.order) \in 1..Len(ImageSources) /\ Sources[i].ref = ImageSources[i - Len(plan.order)]
        BY <2>1, <3>1, <3>3 DEF Sources
      <4> QED
        BY <2>1, <4>1
    <3> QED
      BY <3>2, <3>3
  <2> QED
    BY <1>0, <2>1, <2>2, <2>3 DEF Reads, IsRemote
<1>4. (\A i \in DOMAIN ImageSources : Readable(ImageSources[i]))
        <=> \A ref \in Ordered \cup DOMAIN images : Fits(ConfigOf(ref))
  <2>1. ASSUME \A i \in DOMAIN ImageSources : Readable(ImageSources[i]), NEW r \in DOMAIN images
        PROVE  Fits(ConfigOf(r))
    BY <1>1, <1>2, <1>3, <2>1
  <2>2. ASSUME \A r \in DOMAIN images : Fits(ConfigOf(r)), NEW i \in DOMAIN ImageSources
        PROVE  Readable(ImageSources[i])
    <3>1. CASE IsRemote(ImageSources[i])
      BY <1>2, <1>3, <2>2, <3>1
    <3> QED
      BY <3>1 DEF Readable
  <2> QED
    BY <1>1, <2>1, <2>2
<1>5. /\ Joined.values = Written
      /\ Fits(Written) => (Fits(Selected.values) <=>
           (EndRoot # NoRoot /\ ~UnjoinedAt(EndRoot) => Fits(Naming(Written, EndRoot))))
  BY SelectedConfigured
<1> QED
  BY <1>4, <1>5 DEF SelectFits, Inexpressible

\* Whether the base can be extended is known from the plan and the images.
LEMMA BaseFitting ==
  ASSUME PlanSound, ImagesInv, OutputsInv, PlansInv, CauseInv, at = "assemble"
  PROVE  Compatible(output) <=> ~Incompatible
<1>1. /\ RootRef \in Ordered <=> output.produced # <<>>
      /\ output.base = IF RootRef = Nothing THEN Nothing ELSE BaseOf(Origin[RootRef])
  BY DEF CauseInv, Based
<1>0. DOMAIN outputs = Ordered
  BY DEF CauseInv
<1>2. ASSUME RootRef \in Ordered, Origin[RootRef] # Nothing PROVE output.base = Origin[RootRef] /\ output.base # Nothing
  <2>1. at \in Building /\ DOMAIN images = Reads
    BY DEF Building, ImagesInv
  <2>2. Stage(RootRef).kind = "extend" /\ Provides[RootRef] = Provides[Stage(RootRef).from] /\ RootRef # Nothing
    BY <1>2, <2>1, PlannedStage, ExtendedImage
  <2>3. "root" \in Provides[RootRef]
    BY <1>2, <2>1, <2>2 DEF PlansInv, Available
  <2>4. Rooted(Origin[RootRef])
    BY <1>0, <1>2, <2>1, <2>3 DEF CauseInv, Configured
  <2> QED
    BY <1>1, <1>2, <2>2, <2>4 DEF BaseOf
<1>3. ASSUME output.base # Nothing, output.produced # <<>> PROVE RootRef \in Ordered /\ Origin[RootRef] = output.base
  BY <1>1, <1>3 DEF BaseOf
<1> QED
  BY <1>1, <1>2, <1>3 DEF Compatible, Incompatible

\* The image of the selected root is among those that were read.
LEMMA RootRead ==
  ASSUME PlanSound, ImagesInv, at \in Building, RootRef \in Remotes
  PROVE  RootRef \in DOMAIN images
<1>1. RootRef \in {ImageSources[k] : k \in 1..Len(ImageSources)}
  <2>1. CASE plan.image.whole # Nothing
    <3>1. Len(ImageSources) = 1 /\ ImageSources[1] = RootRef
      BY <2>1 DEF ImageSources, RootRef
    <3> QED
      BY <3>1
  <2>2. CASE plan.image.whole = Nothing
    <3>1. Len(ImageSources) = 2 /\ ImageSources[1] = RootRef
      BY <2>2 DEF ImageSources, RootRef
    <3> QED
      BY <3>1
  <2> QED
    BY <2>1, <2>2
<1> QED
  BY <1>1, SourcesRead, Readers DEF ImagesInv

\* Every refusal has its cause, and no image has one.
LEMMA CauseStep ==
  ASSUME PlanSound, PinsSound, Phases, Unused, InputsInv, ImagesInv, OutputsInv, OutputInv, PublishedInv,
         PlansInv, PlannedInv, CauseInv, [Next]_vars
  PROVE  CauseInv'
<1>0. UNCHANGED captured /\ Ordered' = Ordered
  BY Captured DEF captured, Ordered
<1>1. ASSUME UNCHANGED <<images, outputs, output>>, at' \in Building => at \in Building,
             at' = "assemble" => at = "assemble", Assembled' => Assembled,
             Assembled' => published'.verity = published.verity, verdict' = "refused" => verdict = "refused"
      PROVE  CauseInv'
  <2>1. \A n : Stage(n)' = Stage(n)
    BY <1>0 DEF Stage, captured
  <2>2. (at \in Building =>
           \A n \in DOMAIN outputs : Configured(n, outputs[n]) /\ Readable(Stage(n).from) /\ Fits(ConfigOf(n)))'
    BY <1>0, <1>1, <2>1, SameCauses DEF CauseInv
  <2>3. (at = "assemble" => DOMAIN outputs = Ordered /\ Based(output))'
    BY <1>0, <1>1, SameCauses DEF CauseInv
  <2> QED
    BY <1>0, <1>1, <2>2, <2>3, SameCauses DEF CauseInv
<1>2. CASE Validate
  <2>1. /\ outputs' = NoValues /\ DOMAIN NoValues = {} /\ at' \notin {"assemble", "stamp", "publish"}
        /\ verdict' \notin {"ok", "refused"}
    BY <1>2 DEF Validate, Unused, NoValues, Phases
  <2> QED
    BY <2>1 DEF CauseInv, Assembled
<1>3. CASE RunStage
  <2> DEFINE n == plan.order[pos]
  <2>1. /\ at = "execute" /\ at' = "execute" /\ pos \in 1..Len(plan.order) /\ UNCHANGED images /\ StageFits(n)
        /\ outputs' = [m \in DOMAIN outputs \cup {n} |-> IF m = n THEN Made(n) ELSE outputs[m]]
        /\ verdict' \notin {"ok", "refused"}
    BY <1>3 DEF RunStage, Phases, PlanSound
  <2>2. Configured(n, Made(n))
    BY <2>1, MadeConfigured
  <2>3. Readable(Stage(n).from) /\ Fits(ConfigOf(n))
    BY <2>1, <2>2 DEF StageFits, Configured
  <2>4. \A m \in DOMAIN outputs' : Configured(m, outputs'[m]) /\ Readable(Stage(m).from) /\ Fits(ConfigOf(m))
    <3>1. at \in Building
      BY <2>1 DEF Building
    <3> QED
      BY <2>1, <2>2, <2>3, <3>1 DEF CauseInv
  <2>5. \A m : Stage(m)' = Stage(m)
    BY <1>0 DEF Stage, captured
  <2>6. (\A m \in DOMAIN outputs : Configured(m, outputs[m]) /\ Readable(Stage(m).from) /\ Fits(ConfigOf(m)))'
    BY <1>0, <2>1, <2>4, <2>5, SameCauses
  <2> QED
    BY <2>1, <2>6 DEF CauseInv, Assembled
<1>4. CASE Select
  <2>1. /\ at = "select" /\ at' = "assemble" /\ UNCHANGED <<images, outputs>> /\ SelectFits /\ output' = Selected
        /\ verdict' \notin {"ok", "refused"}
    BY <1>4 DEF Select, Phases
  <2>2. Based(Selected) /\ ~Inexpressible /\ DOMAIN outputs = Ordered
    BY <2>1, SelectedConfigured, SelectFitting DEF OutputsInv
  <2>3. \A n : Stage(n)' = Stage(n)
    BY <1>0 DEF Stage, captured
  <2>4. (\A n \in DOMAIN outputs : Configured(n, outputs[n]) /\ Readable(Stage(n).from) /\ Fits(ConfigOf(n)))'
    <3>1. \A n \in DOMAIN outputs : Configured(n, outputs[n]) /\ Readable(Stage(n).from) /\ Fits(ConfigOf(n))
      BY <2>1 DEF CauseInv, Building
    <3> QED
      BY <1>0, <2>1, <2>3, <3>1, SameCauses
  <2>5. Based(output)' /\ ~Inexpressible' /\ (DOMAIN outputs = Ordered)'
    <3>1. Based(output)' <=> Based(output')
      BY <1>0, <2>1, SameCauses DEF Based, BaseOf, Rooted
    <3> QED
      BY <1>0, <2>1, <2>2, <3>1, SameCauses
  <2> QED
    BY <2>1, <2>4, <2>5 DEF CauseInv, Assembled
<1>5. CASE Assemble
  <2>1. /\ at = "assemble" /\ at' = "stamp" /\ UNCHANGED <<images, outputs, output>> /\ Compatible(output)
        /\ published'.verity = Verity(output) /\ verdict' \notin {"ok", "refused"}
    BY <1>5 DEF Assemble, Phases
  <2>2. ~Incompatible /\ ~Inexpressible
    BY <2>1, BaseFitting DEF CauseInv
  <2>3. Verity(output) = Parameters
    <3>1. /\ output.base = IF RootRef = Nothing THEN Nothing ELSE BaseOf(Origin[RootRef])
          /\ RootRef \in Ordered <=> output.produced # <<>>
      BY <2>1 DEF CauseInv, Based
    <3>2. Hash(output) = EndRoot /\ Sound(output)
      BY <2>1 DEF PlannedInv, PlannedAt, EndRoot, OutputInv
    <3>3. CASE IsRemote(RootRef)
      <4>1. RootRef \notin Ordered /\ RootRef # Nothing /\ RootRef \in Remotes
        BY <3>3, NamesAssumption DEF Ordered, PlanSound, IsRemote, NamesAssumption
      <4>2. PlannedRoot[RootRef] = EndRoot
        BY <4>1 DEF EndRoot
      <4>3. output.produced = <<>>
        BY <3>1, <4>1
      <4>4. RootRef \in DOMAIN images
        BY <2>1, <4>1, RootRead DEF Building
      <4>5. /\ Origin[RootRef] = images[RootRef] /\ images[RootRef] # Nothing
            /\ EndRoot = Contents[images[RootRef]].root
        BY <3>3, <4>1, <4>2, <4>4, OriginRemote, NamesAssumption DEF ImagesInv, NamesAssumption, PlannedRoot
      <4>6. output.base = IF Rooted(images[RootRef]) THEN images[RootRef] ELSE Nothing
        BY <3>1, <4>1, <4>5 DEF BaseOf
      <4> QED
        BY <3>3, <4>5, <4>6 DEF Verity, Parameters, Rooted
    <3>4. CASE ~IsRemote(RootRef)
      <4>1. RootRef \in Ordered \/ RootRef = Nothing
        BY <3>4 DEF PlanSound, RootRef, IsRemote
      <4>2. output.base # Nothing => Contents[output.base].verity = Default
        BY <2>1, <3>1, <4>1 DEF Compatible
      <4> QED
        BY <3>4, <4>2 DEF Verity, Parameters
    <3> QED
      BY <3>3, <3>4
  <2>4. \A n : Stage(n)' = Stage(n)
    BY <1>0 DEF Stage, captured
  <2>5. (\A n \in DOMAIN outputs : Configured(n, outputs[n]) /\ Readable(Stage(n).from) /\ Fits(ConfigOf(n)))'
    <3>1. \A n \in DOMAIN outputs : Configured(n, outputs[n]) /\ Readable(Stage(n).from) /\ Fits(ConfigOf(n))
      BY <2>1 DEF CauseInv, Building
    <3> QED
      BY <1>0, <2>1, <2>4, <3>1, SameCauses
  <2>6. ~Incompatible' /\ ~Inexpressible' /\ published'.verity = Parameters'
    BY <1>0, <2>1, <2>2, <2>3, SameCauses
  <2> QED
    BY <2>1, <2>5, <2>6 DEF CauseInv
<1>6. CASE Stamp
  <2>1. /\ at = "stamp" /\ at' = "publish" /\ UNCHANGED <<images, outputs, output, verdict>>
        /\ published' = [published EXCEPT !.bootstrapped = \E r \in DOMAIN inputs : inputs[r] = "tag", !.locked = lockRead]
    BY <1>6 DEF Stamp
  <2>2. published'.verity = published.verity
    <3> PICK r, l, p, v, w, b, k : published = [root |-> r, links |-> l, pmi |-> p, values |-> v, verity |-> w,
                                                bootstrapped |-> b, locked |-> k]
      BY DEF PublishedInv, Image
    <3> DEFINE tagged == \E q \in DOMAIN inputs : inputs[q] = "tag"
    <3>1. published.verity = w
      OBVIOUS
    <3> HIDE DEF tagged
    <3>2. published' = [root |-> r, links |-> l, pmi |-> p, values |-> v, verity |-> w, bootstrapped |-> tagged, locked |-> lockRead]
      BY <2>1 DEF tagged
    <3> QED
      BY <3>1, <3>2
  <2> QED
    BY <1>1, <2>1, <2>2 DEF Assembled, Building
<1>7. CASE Refuse
  <2>1. at' = "done" /\ verdict' = "refused" /\ UNCHANGED <<captured, images>>
    BY <1>7, Refusing
  <2>2. Inexpressible \/ Incompatible
    <3>1. CASE RefuseStage
      <4> DEFINE n == plan.order[pos]
      <4>1. at = "execute" /\ pos \in 1..Len(plan.order) /\ (~StageReady(n) \/ ~StageFits(n))
        BY <3>1 DEF RefuseStage, Phases, PlanSound
      <4>2. ~StageFits(n)
        BY <4>1, ReadyToRun
      <4>3. n \in Ordered /\ Configured(n, Made(n)) /\ (IsRemote(Stage(n).from) => Stage(n).from \in DOMAIN images)
        BY <4>1, MadeConfigured
      <4>4. CASE ~Fits(Made(n).values)
        BY <4>3, <4>4 DEF Configured, Inexpressible
      <4>5. CASE ~Readable(Stage(n).from)
        <5>1. Stage(n).from \in DOMAIN images /\ ~Fits(ConfigOf(Stage(n).from))
          BY <4>3, <4>5, RemoteConfigured DEF Readable
        <5> QED
          BY <5>1 DEF Inexpressible
      <4> QED
        BY <4>2, <4>4, <4>5 DEF StageFits
    <3>2. CASE RefuseOutput
      <4>1. at = "select" /\ (~SelectReady \/ ~Complete(Joined) \/ ~SelectFits)
        BY <3>2 DEF RefuseOutput
      <4>2. SelectReady /\ Complete(Joined)
        BY <4>1, WholeAsPlanned, ComponentsAsPlanned DEF JoinedPlanned
      <4> QED
        BY <4>1, <4>2, SelectFitting
    <3>3. CASE RefuseAssembly
      <4>1. at = "assemble" /\ (~Contiguous(Links(output)) \/ ~Compatible(output))
        BY <3>3 DEF RefuseAssembly
      <4>2. Contiguous(Links(output))
        BY DEF OutputInv, Sound, Chained
      <4> QED
        BY <4>1, <4>2, BaseFitting
    <3> QED
      BY <1>7, <3>1, <3>2, <3>3 DEF Refuse
  <2>3. Inexpressible' \/ Incompatible'
    BY <2>1, <2>2, SameCauses
  <2> QED
    BY <2>1, <2>3 DEF CauseInv, Assembled, Building
<1>8. CASE Capture \/ AddInput \/ PassLocal \/ GraphDone \/ Resolve \/ Fail
  <2>1. at' \notin Building /\ verdict' \notin {"ok", "refused"}
    BY <1>8 DEF Capture, AddInput, PassLocal, GraphDone, Resolve, Fail, Phases, Building
  <2> QED
    BY <2>1 DEF CauseInv, Assembled, Building
<1>9. CASE StagesDone
  BY <1>1, <1>9 DEF StagesDone, Building, Assembled
<1>10. CASE Publish
  BY <1>1, <1>10 DEF Publish, Building, Assembled
<1>11. CASE UNCHANGED vars
  BY <1>1, <1>11 DEF vars, Assembled
<1> QED
  BY <1>2, <1>3, <1>4, <1>5, <1>6, <1>7, <1>8, <1>9, <1>10, <1>11 DEF Next, RejectInput, RejectPlan, StepFails

-----------------------------------------------------------------------------
(***************************************************************************)
(* The theorems                                                            *)
(***************************************************************************)

InputTypes == DOMAIN inputs \subseteq Remotes /\ \A r \in DOMAIN inputs : inputs[r] \in Images \cup {"tag"}

LEMMA TypesStep == PinsSound /\ InputTypes /\ [Next]_vars => InputTypes'
<1> SUFFICES ASSUME PinsSound, InputTypes, [Next]_vars PROVE InputTypes'
  OBVIOUS
<1>1. CASE AddInput
  <2> DEFINE source == Sources[pos]
  <2>1. source.ref \in Remotes /\ Pinned(source) /\ inputs' = OrInsert(inputs, source.ref, Pin(source))
    BY <1>1 DEF AddInput, RemoteSources, IsRemote
  <2>2. Pin(source) \in Images \cup {"tag"}
    BY <2>1 DEF Pin, Pinned, PinsSound
  <2> QED
    BY <2>1, <2>2 DEF OrInsert, InputTypes
<1>2. CASE UNCHANGED inputs
  BY <1>2 DEF InputTypes
<1> QED
  BY <1>1, <1>2 DEF Next, vars, Capture, PassLocal, RejectInput, GraphDone, Resolve, Validate, RejectPlan,
    RunStage, StagesDone, Select, Assemble, Stamp, Publish, Refuse, StepFails, Fail

Inv ==
  /\ PlanSound /\ PinsSound /\ Phases /\ Unused
  /\ InputTypes /\ InputsInv /\ ImagesInv
  /\ OutputsInv /\ OutputInv /\ PublishedInv
  /\ PlansInv /\ PlannedInv /\ CauseInv

LEMMA InitInv == Init => Inv
<1> SUFFICES ASSUME Init PROVE Inv
  OBVIOUS
<1>1. PlanSound /\ PinsSound
  BY Given0
<1>2. /\ at = "capture" /\ pos = 1 /\ lockRead = FALSE /\ verdict = "pending"
      /\ inputs = NoValues /\ images = NoValues /\ outputs = NoValues /\ output = NoOutput /\ published = NoImage
  BY DEF Init
<1>3. DOMAIN NoValues = {}
  BY DEF NoValues
<1>4. Phases /\ Unused
  <2>1. Phases
    <3>1. lockRead \in BOOLEAN
      BY <1>2
    <3> QED
      BY <1>2, <3>1 DEF Phases
  <2>2. Unused
    BY <1>2 DEF Unused
  <2> QED
    BY <2>1, <2>2
<1>5. InputTypes /\ InputsInv /\ ImagesInv /\ OutputsInv
  BY <1>2, <1>3 DEF InputTypes, InputsInv, ImagesInv, OutputsInv, Resolving, Building
<1>6. OutputInv
  BY <1>2, NothingSound DEF OutputInv
<1>7. PublishedInv
  BY <1>2 DEF PublishedInv, NoImage, Image, RootBound, Unbroken, Assembled
<1>8. PlansInv /\ PlannedInv /\ CauseInv
  BY <1>2 DEF PlansInv, PlannedInv, CauseInv, Assembled, Building
<1> QED
  BY <1>1, <1>4, <1>5, <1>6, <1>7, <1>8 DEF Inv

\* From inputs to image, each phase keeps what those before it have found
\* (Pipeline::run, src/src/pipeline/mod.rs).
THEOREM Inductive == Spec => []Inv
<1>1. Init => Inv
  BY InitInv
<1>2. Inv /\ [Next]_vars => Inv'
  <2> SUFFICES ASSUME Inv, [Next]_vars PROVE Inv'
    OBVIOUS
  <2> USE DEF Inv
  <2>1. (PlanSound /\ PinsSound)'
    BY Captured, Kept0
  <2>2. Phases' /\ Unused' /\ InputTypes'
    BY PhasesStep, UnusedStep, TypesStep
  <2>3. InputsInv' /\ ImagesInv'
    BY InputsStep, ImagesStep
  <2>4. OutputsInv' /\ OutputInv' /\ PublishedInv'
    BY OutputsStep, OutputStep, PublishedStep
  <2>5. PlansInv' /\ PlannedInv' /\ CauseInv'
    BY PlansStep, PlannedStep, CauseStep
  <2> QED
    BY <2>1, <2>2, <2>3, <2>4, <2>5
<1> QED
  BY <1>1, <1>2, PTL DEF Spec

\* What a name stands for, and what the annotations say of it: an ordinary
\* reference is the image the committed lock names, whatever tag the local
\* cache has, and nothing else reaches the published root, PMI or
\* configuration; a build that used an unpinned tool says so (BuildGraph::new,
\* AssembledImage::bind_build).
THEOREM Trust == Spec => []TrustKept
<1>1. Inv => TrustKept
  <2> SUFFICES ASSUME Inv PROVE TrustKept
    OBVIOUS
  <2>1. \A n \in DOMAIN outputs : outputs[n].base \in Images \cup {Nothing}
    BY DEF Inv, OutputsInv, Sound, Record
  <2>2. output.base \in Images \cup {Nothing} /\ output.pmi \in Images \cup {"file", Nothing}
    BY DEF Inv, OutputInv, Sound, Record
  <2>3. TypeOK
    BY <2>1, <2>2 DEF TypeOK, Inv, Phases, Resolving, Building, InputTypes, ImagesInv, OutputsInv, PublishedInv
  <2>4. TrustSeparated
    BY DEF TrustSeparated, Inv, ImagesInv, OutputInv, Sound, Trusted, Pins
  <2>5. Provenance
    BY DEF Provenance, Inv, PublishedInv
  <2> QED
    BY <2>3, <2>4, <2>5 DEF TrustKept
<1> QED
  BY <1>1, Inductive, PTL

\* A guest boots the root it was published with: corium.root names it, unless
\* root, PMI and configuration are those of one unchanged image
\* (StageOutput::select, BootConfig::bind).
THEOREM BootBound == Spec => []RootBound
<1>1. Inv => RootBound
  BY DEF Inv, PublishedInv
<1> QED
  BY <1>1, Inductive, PTL

\* The assembled layers lead from the zero parent to the root without a gap,
\* so that AssembledImage::in_staging never refuses an output for its ancestry.
THEOREM LayersUnbroken == Spec => []Unbroken
<1>1. Inv => Unbroken
  BY DEF Inv, PublishedInv
<1> QED
  BY <1>1, Inductive, PTL

\* Once Availability::validate has accepted, no stage, COPY, selector or layer
\* is refused for a component it misses: a refusal after privileged work means
\* a configuration that bootconfig cannot express, or layers over a base with
\* verity parameters of its own (BootConfig, AssembledImage::in_staging).  No
\* image is published where one of them holds.
THEOREM RefusalsHaveCause == Spec => []RefusedForCause
<1>1. Inv => RefusedForCause
  BY DEF Inv, CauseInv, RefusedForCause
<1> QED
  BY <1>1, Inductive, PTL

\* What is published is what the plan asks for: the root with the layers of the
\* stages it goes back to, the PMI of the image the boot source goes back to,
\* and the keys that are inherited, set and not deleted (StageOutput::select,
\* AssembledImage::in_staging).
THEOREM PlanPublished == Spec => []PublishedAsPlanned
<1>1. Inv => PublishedAsPlanned
  <2> SUFFICES ASSUME Inv, Assembled PROVE PublishedChain /\ BootAsPlanned
    BY DEF PublishedAsPlanned, PublishedChain, BootAsPlanned
  <2> USE DEF Inv
  <2>1. PlannedAt(published.root, published.pmi, published.values)
    BY DEF PlannedInv
  <2>2. PublishedChain
    BY <2>1 DEF PublishedChain, PlannedAt, PublishedInv, Unbroken, EndRoot, CauseInv, Parameters
  <2>3. Unjoined <=> UnjoinedAt(published.root)
    BY DEF Unjoined, UnjoinedAt
  <2>4. BootAsPlanned
    BY <2>1, <2>3 DEF BootAsPlanned, PlannedAt
  <2> QED
    BY <2>2, <2>4
<1> QED
  BY <1>1, Inductive, PTL

=============================================================================
