-------------------------------- MODULE Build --------------------------------
(***************************************************************************)
(* One build, from the captured plan and lock to the published image:      *)
(* input/, graph.rs, lock.rs, pipeline/ and output/assembly.rs.  The plan  *)
(* is one the planner accepted (StageOrder); a stage's commands are one    *)
(* step here (CommandStep), and so is publication (Publication).           *)
(*                                                                         *)
(* A root hash is the sequence of what was sealed on the way to it: the    *)
(* root of a cached image is <<image>>, and sealing stage n over it is     *)
(* <<image, n>>.  The zero parent of a formatted filesystem is <<>>.       *)
(* A reference is a name: of a remote, or of a stage.                      *)
(***************************************************************************)
EXTENDS Naturals, Sequences, FiniteSets, TLC

CONSTANTS
    Remotes,     \* references to remote images
    Images,      \* images in the cache, by the digest of their index
    Contents,    \* what each image holds: its root, PMI, configuration, annotations
    Fits(_),     \* the configurations that bootconfig can express (boot_config/mod.rs)
    Captures     \* [plan, lock, tags]: an accepted plan, the committed lock, the cache's own index

\* An absent optional name, root, or key.
Nothing == "nothing"
NoRoot == <<Nothing>>
Null == <<"null">>
NoValues == [k \in {} |-> Nothing]
ZeroParent == <<>>
Corium == "corium.root"
\* The verity parameters of a manifest that has no annotations of them.
Default == "default"

VARIABLES
    plan,        \* the committed plan: order, stages and image
    lock,        \* the committed lock: remote -> image
    tags,        \* the local cache's mapping: remote -> image
    at,          \* the pipeline's next step
    pos,         \* the next source, or the next stage
    lockRead,    \* whether the lock was used
    inputs,      \* BuildGraph: remote -> pinned image, or "tag"
    images,      \* ResolvedBuild: remote -> image
    outputs,     \* stage -> its output
    output,      \* the selected output
    published,   \* the assembled image
    verdict

captured == <<plan, lock, tags>>
vars == <<captured, at, pos, lockRead, inputs, images, outputs, output, published, verdict>>

\* What the planner accepts: stages in an order that has each after what it
\* is made from and what it copies, selectors that are there, and an image of
\* at least one of them.
PlanAssumption ==
    \A c \in Captures :
        LET stages == c.plan.stages
            order == c.plan.order
            image == c.plan.image
            refs == Remotes \cup {order[i] : i \in DOMAIN order} \cup {Nothing}
        IN /\ order \in Seq(DOMAIN stages)
           /\ DOMAIN stages \cap (Remotes \cup {Nothing}) = {}
           /\ \A i \in DOMAIN order :
                 /\ stages[order[i]].from \in Remotes \cup {order[j] : j \in 1..(i - 1)}
                 /\ stages[order[i]].copies \subseteq {order[j] : j \in 1..(i - 1)}
                 /\ stages[order[i]].kind = "bootstrap" => stages[order[i]].from \in Remotes
           /\ {image.whole, image.root, image.boot.from} \subseteq refs
           /\ image.boot.how \in {"none", "inherit", "define", "extend", "extract"}
           /\ image.boot.how = "none" <=> image.boot.from = Nothing
           /\ {image.whole, image.root, image.boot.from} # {Nothing}
ASSUME PlanAssumption

\* What lock and tags give a name is an image.
PinsAssumption ==
    \A c \in Captures : \A pins \in {c.lock, c.tags} :
        DOMAIN pins \subseteq Remotes /\ \A r \in DOMAIN pins : pins[r] \in Images
ASSUME PinsAssumption

NamesAssumption == Nothing \notin Remotes /\ Images \cap {Nothing, "tag", "file"} = {}
ASSUME NamesAssumption

\* The root of an image is a hash of its own, a configuration is a function of
\* its keys, and a manifest with one has a PMI (Manifest::validate).
ContentsAssumption ==
    \A i \in Images :
        /\ Contents[i].root = <<Contents[i].root[1]>>
        /\ Contents[i].values = [k \in DOMAIN Contents[i].values |-> Contents[i].values[k]]
        /\ Contents[i].values # NoValues => Contents[i].pmi
ASSUME ContentsAssumption

\* A configuration of no key needs no node of the kernel's parser.
FitsAssumption == Fits(NoValues)
ASSUME FitsAssumption

-----------------------------------------------------------------------------
(***************************************************************************)
(* The plan                                                                *)
(***************************************************************************)

Stage(n) == plan.stages[n]
Ordered == {plan.order[i] : i \in 1..Len(plan.order)}
Before(i) == {plan.order[j] : j \in 1..(i - 1)}
IsRemote(ref) == ref \in Remotes

\* The selectors of the image, in the order image_sources lists them; one
\* that is absent is Nothing.
ImageSources ==
    IF plan.image.whole # Nothing
    THEN <<plan.image.whole>>
    ELSE <<plan.image.root, plan.image.boot.from>>

\* All that the selected graph reads, and whether it is a bootstrap tool.
Sources ==
    LET built == Len(plan.order)
    IN [i \in 1..(built + Len(ImageSources)) |->
           IF i <= built
           THEN [ref |-> Stage(plan.order[i]).from,
                 bootstrap |-> Stage(plan.order[i]).kind = "bootstrap"]
           ELSE [ref |-> ImageSources[i - built], bootstrap |-> FALSE]]

\* remote_sources: those of them that are remote.
RemoteSources == {i \in DOMAIN Sources : IsRemote(Sources[i].ref)}

Extracts == plan.image.whole = Nothing /\ plan.image.boot.how = "extract"
ExecutionRequired == plan.order # <<>> \/ Extracts

-----------------------------------------------------------------------------
(***************************************************************************)
(* Capturing and resolving the inputs                                      *)
(***************************************************************************)

BootOnly(pmi, values, lineage) ==
    [base |-> Nothing, produced |-> <<>>, pmi |-> pmi, values |-> values, lineage |-> lineage]
NoOutput == BootOnly(Nothing, NoValues, NoRoot)
NoImage == [root |-> NoRoot, links |-> <<>>, pmi |-> Nothing, values |-> NoValues,
            verity |-> Default, bootstrapped |-> FALSE, locked |-> FALSE]

Init ==
    /\ \E c \in Captures : plan = c.plan /\ lock = c.lock /\ tags = c.tags
    /\ at = "capture" /\ pos = 1
    /\ lockRead = FALSE
    /\ inputs = NoValues /\ images = NoValues /\ outputs = NoValues
    /\ output = NoOutput /\ published = NoImage
    /\ verdict = "pending"

Fail ==
    /\ at' = "done" /\ verdict' = "failed"
    /\ UNCHANGED <<captured, pos, lockRead, inputs, images, outputs, output, published>>

\* CapturedBuild::try_from: the lock is only read for an ordinary remote.
Capture ==
    /\ at = "capture"
    /\ lockRead' = \E i \in RemoteSources : ~Sources[i].bootstrap
    /\ at' = "graph"
    /\ UNCHANGED <<captured, pos, inputs, images, outputs, output, published, verdict>>

Pin(source) == IF source.bootstrap THEN "tag" ELSE lock[source.ref]
Pinned(source) == source.bootstrap \/ source.ref \in DOMAIN lock
\* Mutant: the first use of a reference decides for all of them.
MixedNever(source) == FALSE

Mixed(source) ==
    source.ref \in DOMAIN inputs /\ (inputs[source.ref] = "tag") # source.bootstrap

\* entry().or_insert(): what is there stays.
OrInsert(map, key, value) ==
    [k \in DOMAIN map \cup {key} |-> IF k \in DOMAIN map THEN map[k] ELSE value]

\* BuildGraph::new: the first use of a reference makes its input.
AddInput ==
    /\ at = "graph" /\ pos \in RemoteSources
    /\ LET source == Sources[pos]
       IN /\ Pinned(source) /\ ~Mixed(source)
          /\ inputs' = OrInsert(inputs, source.ref, Pin(source))
    /\ pos' = pos + 1
    /\ UNCHANGED <<captured, at, lockRead, images, outputs, output, published, verdict>>

\* An image of an earlier stage is no input.
PassLocal ==
    /\ at = "graph" /\ pos \in DOMAIN Sources \ RemoteSources
    /\ pos' = pos + 1
    /\ UNCHANGED <<captured, at, lockRead, inputs, images, outputs, output, published, verdict>>

\* LockError::Missing and LockError::Mixed.
RejectInput ==
    /\ at = "graph" /\ pos \in RemoteSources
    /\ LET source == Sources[pos] IN ~Pinned(source) \/ Mixed(source)
    /\ Fail

GraphDone ==
    /\ at = "graph" /\ pos \notin DOMAIN Sources
    /\ at' = "resolve" /\ pos' = 1
    /\ UNCHANGED <<captured, lockRead, inputs, images, outputs, output, published, verdict>>

RootRequired == {Stage(n).from : n \in Ordered} \cap Remotes

Rooted(image) == Contents[image].root # NoRoot

\* CapturedBuild::resolve: only a bootstrap input asks the local tags.
Resolve ==
    /\ at = "resolve"
    /\ \A r \in DOMAIN inputs : inputs[r] = "tag" => r \in DOMAIN tags
    /\ images' = [r \in DOMAIN inputs |-> IF inputs[r] = "tag" THEN tags[r] ELSE inputs[r]]
    /\ \A r \in DOMAIN inputs \cap RootRequired : Rooted(images'[r])
    /\ at' = "validate"
    /\ UNCHANGED <<captured, pos, lockRead, inputs, outputs, output, published, verdict>>

\* Availability: what a reference will provide, before anything runs.
ImageProvides(image) ==
    {c \in {"root", "boot"} : IF c = "root" THEN Rooted(image) ELSE Contents[image].pmi}

StageProvides[n \in Ordered] ==
    IF Stage(n).kind # "extend" THEN {"root"}
    ELSE IF IsRemote(Stage(n).from) THEN ImageProvides(images[Stage(n).from])
    ELSE StageProvides[Stage(n).from]

Provides ==
    [ref \in Ordered \cup DOMAIN images |->
        IF IsRemote(ref) THEN ImageProvides(images[ref]) ELSE StageProvides[ref]]

\* Mutant: only filesystem sources are looked at.
AvailableRoots ==
    /\ \A n \in Ordered : "root" \in Provides[Stage(n).from]
    /\ plan.image.whole = Nothing =>
          /\ plan.image.root # Nothing => "root" \in Provides[plan.image.root]
          /\ plan.image.boot.how = "extract" => "root" \in Provides[plan.image.boot.from]

Available ==
    /\ \A n \in Ordered : "root" \in Provides[Stage(n).from]
    /\ IF plan.image.whole # Nothing
       THEN Provides[plan.image.whole] # {}
       ELSE /\ plan.image.root # Nothing => "root" \in Provides[plan.image.root]
            /\ plan.image.boot.how = "extract" => "root" \in Provides[plan.image.boot.from]
            /\ plan.image.boot.how \in {"inherit", "define", "extend"} =>
                  "boot" \in Provides[plan.image.boot.from]

Validate ==
    /\ at = "validate" /\ Available
    /\ at' = IF ExecutionRequired THEN "execute" ELSE "select"
    /\ UNCHANGED <<captured, pos, lockRead, inputs, images, outputs, output, published, verdict>>

RejectPlan == at = "validate" /\ ~Available /\ Fail

-----------------------------------------------------------------------------
(***************************************************************************)
(* Executing the stages                                                    *)
(***************************************************************************)

HasRoot(o) == o.base # Nothing \/ o.produced # <<>>
\* Mutant: the base is asked before the sealed layers.
HashOfBase(o) ==
    IF o.base # Nothing THEN Contents[o.base].root
    ELSE IF o.produced # <<>> THEN o.produced[Len(o.produced)].root
    ELSE NoRoot

Hash(o) ==
    IF o.produced # <<>> THEN o.produced[Len(o.produced)].root
    ELSE IF o.base # Nothing THEN Contents[o.base].root
    ELSE NoRoot

\* StageOutput::remote: an empty configuration is no configuration.
Remote(image) ==
    LET c == Contents[image]
    IN [base |-> IF Rooted(image) THEN image ELSE Nothing,
        produced |-> <<>>,
        pmi |-> IF c.pmi THEN image ELSE Nothing,
        values |-> c.values,
        lineage |-> IF c.values = NoValues THEN NoRoot ELSE c.root]

Resolved(ref) == IF IsRemote(ref) THEN Remote(images[ref]) ELSE outputs[ref]

\* BootConfig::bind: an existing corium.root is replaced, and none is added.
BindTo(o, root) ==
    IF o.values = NoValues THEN o
    ELSE [o EXCEPT !.lineage = root,
                   !.values = [k \in DOMAIN @ |-> IF k = Corium THEN root ELSE @[k]]]

\* A formatted root starts a chain of its own, and takes nothing of its tool.
Formatted(n) ==
    [NoOutput EXCEPT !.produced = <<[parent |-> ZeroParent, root |-> <<n>>]>>]

Derived(n, source) ==
    LET layer == [parent |-> Hash(source), root |-> Append(Hash(source), n)]
        sealed == [source EXCEPT !.produced = Append(@, layer)]
    IN BindTo(sealed, layer.root)

Made(n) == IF Stage(n).kind = "extend" THEN Derived(n, Resolved(Stage(n).from)) ELSE Formatted(n)

\* What running a stage needs of the stages and images before it.
StageReady(n) ==
    /\ HasRoot(Resolved(Stage(n).from))
    /\ \A c \in Stage(n).copies : c \in DOMAIN outputs /\ HasRoot(outputs[c])

\* BootConfig::inherited reads the configuration of every image that a stage
\* or a selector names, also of one that only its root is wanted of.
Readable(ref) == IsRemote(ref) => Fits(Contents[images[ref]].values)

\* BootConfig::bind writes the configuration again, with the root as value.
StageFits(n) == Readable(Stage(n).from) /\ Fits(Made(n).values)

RunStage ==
    /\ at = "execute" /\ pos <= Len(plan.order)
    /\ LET n == plan.order[pos]
       IN /\ StageReady(n) /\ StageFits(n)
          /\ outputs' = [m \in DOMAIN outputs \cup {n} |-> IF m = n THEN Made(n) ELSE outputs[m]]
    /\ pos' = pos + 1
    /\ UNCHANGED <<captured, at, lockRead, inputs, images, output, published, verdict>>

StagesDone ==
    /\ at = "execute" /\ pos > Len(plan.order)
    /\ at' = "select"
    /\ UNCHANGED <<captured, pos, lockRead, inputs, images, outputs, output, published, verdict>>

-----------------------------------------------------------------------------
(***************************************************************************)
(* Selecting, assembling and publishing the output                         *)
(***************************************************************************)

Deleted(overlay) == {k \in DOMAIN overlay : overlay[k] = Null}

\* BootConfig::overlay keeps the root its base came with.
Overlay(o, overlay) ==
    LET keys == (DOMAIN o.values \cup DOMAIN overlay) \ Deleted(overlay)
    IN [o EXCEPT !.values =
            [k \in keys |-> IF k \in DOMAIN overlay THEN overlay[k] ELSE o.values[k]]]

\* The PMI and the configuration of Image::Components.
BootOf(boot) ==
    LET source == Resolved(boot.from)
        inherited == BootOnly(source.pmi, source.values, source.lineage)
        firmware == BootOnly("file", NoValues, NoRoot)
    IN CASE boot.how = "none" -> NoOutput
         [] boot.how = "inherit" -> inherited
         [] boot.how = "define" -> Overlay(BootOnly(source.pmi, NoValues, NoRoot), boot.overlay)
         [] boot.how = "extend" -> Overlay(inherited, boot.overlay)
         [] boot.how = "extract" -> Overlay(firmware, boot.overlay)

Joined ==
    IF plan.image.whole # Nothing
    THEN Resolved(plan.image.whole)
    ELSE LET root == IF plan.image.root = Nothing THEN NoOutput ELSE Resolved(plan.image.root)
             boot == BootOf(plan.image.boot)
         IN [base |-> root.base, produced |-> root.produced,
             pmi |-> boot.pmi, values |-> boot.values, lineage |-> boot.lineage]

\* Pmi::root: a PMI taken from a file belongs to no root.
PmiRoot(o) == IF o.pmi \in Images THEN Contents[o.pmi].root ELSE NoRoot

\* Mutant: the configuration is taken to have the lineage of the PMI.
ChangedPmi(o) == o.produced # <<>> \/ (o.pmi # Nothing /\ PmiRoot(o) # Hash(o))

\* New layers, or a root the PMI or the configuration did not come with.
Changed(o) ==
    \/ o.produced # <<>>
    \/ o.pmi # Nothing /\ PmiRoot(o) # Hash(o)
    \/ o.values # NoValues /\ o.lineage # Hash(o)

\* What StageOutput::select needs of its sources.
SelectReady ==
    IF plan.image.whole # Nothing
    THEN TRUE
    ELSE /\ plan.image.root # Nothing => HasRoot(Resolved(plan.image.root))
         /\ plan.image.boot.how = "extract" =>
               ExecutionRequired /\ HasRoot(Resolved(plan.image.boot.from))
         /\ plan.image.boot.how \in {"inherit", "define", "extend"} =>
               Resolved(plan.image.boot.from).pmi # Nothing

Complete(o) ==
    /\ HasRoot(o) \/ o.pmi # Nothing
    /\ o.values # NoValues => o.pmi # Nothing

Selected == IF HasRoot(Joined) /\ Changed(Joined) THEN BindTo(Joined, Hash(Joined)) ELSE Joined

\* The configurations that BootConfig reads, overlays and binds.
SelectFits ==
    /\ \A i \in DOMAIN ImageSources : Readable(ImageSources[i])
    /\ Fits(Joined.values) /\ Fits(Selected.values)

Select ==
    /\ at = "select" /\ SelectReady /\ Complete(Joined) /\ SelectFits
    /\ output' = Selected
    /\ at' = "assemble"
    /\ UNCHANGED <<captured, pos, lockRead, inputs, images, outputs, published, verdict>>

\* The layers of the image: those of the base, then each sealed one.
Links(o) ==
    (IF o.base # Nothing THEN <<[parent |-> ZeroParent, root |-> Contents[o.base].root]>>
     ELSE <<>>) \o o.produced

\* in_staging ensures that each sealed layer continues the one before it.
Contiguous(links) ==
    \A i \in 1..Len(links) :
        links[i].parent = IF i = 1 THEN ZeroParent ELSE links[i - 1].root

\* The image whose manifest the new one starts from.
Metadata(o) ==
    IF HasRoot(o) THEN o.base ELSE IF o.pmi \in Images THEN o.pmi ELSE Nothing

Inherited(o, annotation) == Metadata(o) # Nothing /\ Contents[Metadata(o)][annotation]

\* Layers are sealed with the default parameters, and a manifest has one set
\* of them for all its layers.
Compatible(o) == o.base # Nothing /\ o.produced # <<>> => Contents[o.base].verity = Default

\* The parameters of an image without a root are dropped with its layers.
Verity(o) == IF o.base # Nothing THEN Contents[o.base].verity ELSE Default

Assemble ==
    /\ at = "assemble" /\ Contiguous(Links(output)) /\ Compatible(output)
    /\ published' =
          [root |-> Hash(output), links |-> Links(output), pmi |-> output.pmi,
           values |-> output.values, verity |-> Verity(output),
           bootstrapped |-> Inherited(output, "bootstrapped"),
           locked |-> Inherited(output, "locked")]
    /\ at' = "stamp"
    /\ UNCHANGED <<captured, pos, lockRead, inputs, images, outputs, output, verdict>>

\* AssembledImage::bind_build: the build annotations of an inherited manifest
\* belong to the build that made it, and are replaced.
Stamp ==
    /\ at = "stamp"
    /\ published' = [published EXCEPT
          !.bootstrapped = \E r \in DOMAIN inputs : inputs[r] = "tag",
          !.locked = lockRead]
    /\ at' = "publish"
    /\ UNCHANGED <<captured, pos, lockRead, inputs, images, outputs, output, verdict>>

Publish ==
    /\ at = "publish"
    /\ at' = "done" /\ verdict' = "ok"
    /\ UNCHANGED <<captured, pos, lockRead, inputs, images, outputs, output, published>>

\* What the pipeline itself turns down after the plan was accepted: a source
\* without the component that is wanted of it, a configuration that cannot be
\* expressed, layers that are not of one chain or not of one format.
RefuseStage ==
    /\ at = "execute" /\ pos <= Len(plan.order)
    /\ LET n == plan.order[pos] IN ~StageReady(n) \/ ~StageFits(n)

RefuseOutput ==
    /\ at = "select"
    /\ ~SelectReady \/ ~Complete(Joined) \/ ~SelectFits

RefuseAssembly ==
    /\ at = "assemble"
    /\ ~Contiguous(Links(output)) \/ ~Compatible(output)

Refuse ==
    /\ RefuseStage \/ RefuseOutput \/ RefuseAssembly
    /\ at' = "done" /\ verdict' = "refused"
    /\ UNCHANGED <<captured, pos, lockRead, inputs, images, outputs, output, published>>

\* A document, an image, a command, an extraction or a file operation fails.
StepFails ==
    /\ at \in {"capture", "resolve", "execute", "select", "assemble", "stamp", "publish"}
    /\ Fail

Next ==
    \/ Capture \/ AddInput \/ PassLocal \/ RejectInput \/ GraphDone \/ Resolve
    \/ Validate \/ RejectPlan \/ RunStage \/ StagesDone
    \/ Select \/ Assemble \/ Stamp \/ Publish \/ Refuse \/ StepFails

Spec == Init /\ [][Next]_vars

-----------------------------------------------------------------------------
(***************************************************************************)
(* Properties                                                              *)
(***************************************************************************)

OrdinaryRefs == {Sources[i].ref : i \in {j \in RemoteSources : ~Sources[j].bootstrap}}
BootstrapRefs == {Sources[i].ref : i \in {j \in RemoteSources : Sources[j].bootstrap}}

Assembled == at \in {"stamp", "publish"} \/ verdict = "ok"

TypeOK ==
    /\ at \in {"capture", "graph", "resolve", "validate", "execute", "select",
               "assemble", "stamp", "publish", "done"}
    /\ pos \in Nat \ {0} /\ lockRead \in BOOLEAN
    /\ DOMAIN inputs \subseteq Remotes
    /\ \A r \in DOMAIN inputs : inputs[r] \in Images \cup {"tag"}
    /\ DOMAIN images \subseteq Remotes
    /\ \A r \in DOMAIN images : images[r] \in Images
    /\ DOMAIN outputs \subseteq Ordered
    /\ \A n \in DOMAIN outputs : outputs[n].base \in Images \cup {Nothing}
    /\ output.base \in Images \cup {Nothing}
    /\ output.pmi \in Images \cup {"file", Nothing}
    /\ published.pmi \in Images \cup {"file", Nothing}
    /\ verdict \in {"pending", "failed", "refused", "ok"}

\* DESIGN.md 4: a mutable tag never overrides a pin.  What an ordinary
\* reference names is what the committed lock says, also when the local cache
\* has a tag of the same name, and the published root, PMI and configuration
\* come from nothing else.
TrustSeparated ==
    /\ \A r \in OrdinaryRefs \cap DOMAIN images : r \in DOMAIN lock /\ images[r] = lock[r]
    /\ \A r \in BootstrapRefs \cap DOMAIN images : images[r] = tags[r]
    /\ {output.base, output.pmi} \cap Images
          \subseteq {lock[r] : r \in OrdinaryRefs \cap DOMAIN lock}

\* The chain the plan asks for: a stage that extends seals one layer on what
\* it extends, and one that formats starts at the zero parent.
StageRoot[n \in Ordered] ==
    IF Stage(n).kind # "extend" THEN <<n>>
    ELSE IF IsRemote(Stage(n).from) THEN Append(Contents[images[Stage(n).from]].root, n)
    ELSE Append(StageRoot[Stage(n).from], n)

PlannedRoot ==
    [ref \in Ordered \cup DOMAIN images |->
        IF IsRemote(ref) THEN Contents[images[ref]].root ELSE StageRoot[ref]]

RootRef == IF plan.image.whole # Nothing THEN plan.image.whole ELSE plan.image.root

EndRoot == IF RootRef = Nothing THEN NoRoot ELSE PlannedRoot[RootRef]

\* The published root is the planned one, and its layers lead to it from the
\* zero parent without a gap.  Its parameters are those that every one of its
\* layers was sealed with: an image's own, or the default ones of a stage.
PublishedChain ==
    Assembled =>
        /\ published.root = EndRoot
        /\ Contiguous(published.links)
        /\ published.links # <<>> =>
              published.links[Len(published.links)].root = published.root
        /\ published.links = <<>> <=> published.root = NoRoot
        /\ published.verity = IF published.root # NoRoot /\ IsRemote(RootRef)
                              THEN Contents[images[RootRef]].verity ELSE Default

\* The remote image at the bottom of an extended chain, if there is one.
StageOrigin[n \in Ordered] ==
    IF Stage(n).kind # "extend" THEN Nothing
    ELSE IF IsRemote(Stage(n).from) THEN images[Stage(n).from]
    ELSE StageOrigin[Stage(n).from]

Origin ==
    [ref \in Ordered \cup DOMAIN images |->
        IF IsRemote(ref) THEN images[ref] ELSE StageOrigin[ref]]

How == IF plan.image.whole # Nothing THEN "inherit" ELSE plan.image.boot.how
BootRef == IF plan.image.whole # Nothing THEN plan.image.whole ELSE plan.image.boot.from
Changes == IF How \in {"inherit", "none"} THEN NoValues ELSE plan.image.boot.overlay

\* The image the configuration is inherited from, or Nothing.
ConfigOrigin == IF How \in {"inherit", "extend"} THEN Origin[BootRef] ELSE Nothing
Given == IF ConfigOrigin = Nothing THEN NoValues ELSE Contents[ConfigOrigin].values

\* DESIGN.md 8: the root is the one the whole configuration came with, and no
\* stage made it.
UnjoinedAt(root) ==
    /\ How \in {"inherit", "extend"} /\ IsRemote(BootRef) /\ RootRef \notin Ordered
    /\ Given # NoValues
    /\ root = Contents[ConfigOrigin].root
Unjoined == UnjoinedAt(published.root)

\* A guest boots the root it was published with: corium.root names it, unless
\* the root, the PMI and the configuration are those of one unchanged image.
RootBound ==
    Assembled /\ published.root # NoRoot /\ Corium \in DOMAIN published.values
        => published.values[Corium] = published.root \/ Unjoined

\* The PMI is that of the image the boot source goes back to, and no formatted
\* root has one.  Every key is there that the source has or the plan sets, and
\* none that the plan deletes; an unchanged root keeps what was authored.
BootAsPlanned ==
    Assembled =>
        /\ published.pmi = CASE How = "none" -> Nothing
                             [] How = "extract" -> "file"
                             [] OTHER -> IF Origin[BootRef] = Nothing THEN Nothing
                                         ELSE IF Contents[Origin[BootRef]].pmi
                                              THEN Origin[BootRef] ELSE Nothing
        /\ DOMAIN published.values = (DOMAIN Given \cup DOMAIN Changes) \ Deleted(Changes)
        /\ \A k \in DOMAIN published.values :
              k # Corium \/ Unjoined =>
                  published.values[k] = IF k \in DOMAIN Changes THEN Changes[k] ELSE Given[k]

\* A configuration that names a root, and what a reference's configuration is.
Naming(values, root) == [k \in DOMAIN values |-> IF k = Corium THEN root ELSE values[k]]

ConfigOf(ref) ==
    LET given == IF Origin[ref] = Nothing THEN NoValues ELSE Contents[Origin[ref]].values
    IN IF IsRemote(ref) THEN given ELSE Naming(given, PlannedRoot[ref])

\* What the plan sets and deletes over what is inherited.
Written ==
    LET source == IF How \in {"inherit", "extend"} THEN ConfigOf(BootRef) ELSE NoValues
    IN [k \in (DOMAIN source \cup DOMAIN Changes) \ Deleted(Changes) |->
           IF k \in DOMAIN Changes THEN Changes[k] ELSE source[k]]

\* Some configuration on the way to the image cannot be expressed.
Inexpressible ==
    \/ \E ref \in Ordered \cup DOMAIN images : ~Fits(ConfigOf(ref))
    \/ ~Fits(Written)
    \/ EndRoot # NoRoot /\ ~UnjoinedAt(EndRoot) /\ ~Fits(Naming(Written, EndRoot))

\* A stage's layers end on an image with parameters of its own.
Incompatible ==
    /\ RootRef \in Ordered /\ Origin[RootRef] # Nothing
    /\ Contents[Origin[RootRef]].verity # Default

\* Once Availability::validate accepts, no stage, COPY, selector or layer finds
\* a component missing.  Two causes are left that turn a build down after its
\* stages have run: a configuration that bootconfig cannot express, and layers
\* over an image of other verity parameters; and they always do.
RefusedForCause ==
    /\ verdict = "refused" => Inexpressible \/ Incompatible
    /\ Assembled => ~Inexpressible /\ ~Incompatible

\* The annotations tell of this build: whether it used an unpinned tool, and
\* whether it read a lock, whatever the inherited manifest says.
Provenance ==
    verdict = "ok" =>
        /\ published.bootstrapped <=> \E n \in Ordered : Stage(n).kind = "bootstrap"
        /\ published.locked <=> OrdinaryRefs # {}

\* What a name stands for, and what the annotations say of it (BuildGraph::new,
\* AssembledImage::bind_build).
TrustKept == TypeOK /\ TrustSeparated /\ Provenance

\* What is published is what the plan asks for (StageOutput::select,
\* AssembledImage::in_staging).
PublishedAsPlanned == PublishedChain /\ BootAsPlanned
=============================================================================
