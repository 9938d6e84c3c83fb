------------------------------- MODULE MCBuild -------------------------------
(***************************************************************************)
(* Two families of plans.  Composed plans join components of every kind of *)
(* image through up to two stages; trusted plans use one or two names as   *)
(* ordinary and as bootstrap inputs, under every lock and local cache.     *)
(***************************************************************************)
EXTENDS Build

Kept(k, v) == (k :> v) @@ ("log" :> <<"debug">>)
Content(root, pmi, values, old) ==
    [root |-> root, pmi |-> pmi, values |-> values, verity |-> Default,
     bootstrapped |-> old, locked |-> ~old]

\* base was authored with another root than its own; boot opts in; husk is an
\* image with neither root nor PMI.  full has as many nodes as there may be,
\* and more once its corium.root gets a value; over has too many already.  odd
\* has verity parameters of its own.
MCImages == {"base", "other", "boot", "tree", "bare", "husk", "full", "over", "odd"}
Bare(keys) == [k \in keys |-> <<>>]
MCContents ==
    [base  |-> Content(<<"base">>, TRUE, Kept(Corium, <<"authored">>), TRUE),
     other |-> Content(<<"other">>, TRUE, Corium :> <<"other">>, FALSE),
     boot  |-> Content(NoRoot, TRUE, Corium :> <<"">>, FALSE),
     tree  |-> Content(<<"tree">>, FALSE, NoValues, TRUE),
     bare  |-> Content(<<"bare">>, TRUE, NoValues, FALSE),
     husk  |-> Content(NoRoot, FALSE, NoValues, FALSE),
     full  |-> Content(<<"full">>, TRUE, Bare({Corium, "quiet"}) @@ ("log" :> <<"debug">>), TRUE),
     over  |-> Content(<<"over">>, TRUE, Bare({"quiet", "ro", "rw", "log", "init"}), FALSE),
     odd   |-> [Content(<<"odd">>, TRUE, NoValues, TRUE) EXCEPT !.verity = "sparse"]]

\* Keys and values are nodes of the kernel's parser, which has a limit.
MaxNodes == 4
MCFits(values) ==
    Cardinality(DOMAIN values) + Cardinality({k \in DOMAIN values : values[k] # <<>>}) <= MaxNodes

MCRemotes == {"a", "b"}

StagesOf(kinds, refs, copies) == [from : refs, kind : kinds, copies : SUBSET copies]
Builds(stage) ==
    {s \in stage : s.kind = "bootstrap" => s.from \in MCRemotes}

One(kinds) == {s \in Builds(StagesOf(kinds, MCRemotes, {})) : TRUE}
Two(kinds) == Builds(StagesOf(kinds, MCRemotes \cup {"s1"}, {"s1"}))

\* The planner keeps no stage that nothing is built from.
Stages(kinds) ==
    {[order |-> <<>>, stages |-> NoValues]}
    \cup {[order |-> <<"s1">>, stages |-> ("s1" :> s)] : s \in One(kinds)}
    \cup {[order |-> <<"s1", "s2">>, stages |-> ("s1" :> s) @@ ("s2" :> t)] :
             s \in One(kinds), t \in Two(kinds)}

Boots(refs) ==
    {[from |-> Nothing, how |-> "none", overlay |-> NoValues]}
    \cup {[from |-> r, how |-> "inherit", overlay |-> NoValues] : r \in refs}
    \cup {[from |-> r, how |-> h, overlay |-> o] :
             r \in refs, h \in {"define", "extract"},
             o \in {NoValues, Corium :> <<"">>}}
    \cup {[from |-> r, how |-> "extend", overlay |-> o] :
             r \in refs, o \in {Corium :> Null, Corium :> <<"mine">>, "log" :> <<"info">>}}

ImagesOf(refs) ==
    {[whole |-> r, root |-> Nothing, boot |-> [from |-> Nothing, how |-> "none", overlay |-> NoValues]] :
        r \in refs}
    \cup {i \in [whole : {Nothing}, root : refs \cup {Nothing}, boot : Boots(refs)] :
             i.root # Nothing \/ i.boot.how # "none"}

StageNames == {"s1", "s2"}

OnlyNeeded(built, image) ==
    LET seeds == {image.whole, image.root, image.boot.from} \cap StageNames
        uses(n) == ({built.stages[n].from} \cup built.stages[n].copies) \cap StageNames
    IN /\ seeds \subseteq DOMAIN built.stages
       /\ DOMAIN built.stages = seeds \cup UNION {uses(n) : n \in seeds}

PlansOf(kinds) ==
    {[order |-> p[1].order, stages |-> p[1].stages, image |-> p[2]] :
        p \in {q \in Stages(kinds) \X ImagesOf(MCRemotes \cup StageNames) : OnlyNeeded(q[1], q[2])}}

\* Composed plans: what the two names stand for varies, and how is fixed.
ComposedPlans == PlansOf({"extend", "image"})
ComposedLocks == {[a |-> x, b |-> y] : x \in MCImages, y \in {"other", "tree"}}
ComposedTags == {NoValues}

\* Trusted plans: whole images only, of every kind of stage.
TrustedPlans == {p \in PlansOf({"extend", "image", "bootstrap"}) : p.image.whole # Nothing}
PartialMaps(S) == [MCRemotes -> S] \cup [{"a"} -> S] \cup [{"b"} -> S] \cup {NoValues}
TrustedLocks == PartialMaps({"base", "tree"})
TrustedTags == PartialMaps({"other", "bare"})

MCCaptures ==
    [plan : ComposedPlans, lock : ComposedLocks, tags : ComposedTags]
    \cup [plan : TrustedPlans, lock : TrustedLocks, tags : TrustedTags]
=============================================================================
