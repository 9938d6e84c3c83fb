# A verification project for conglobate

conglobate builds Pichi OCI images from a committed plan: it pins the images the plan
names, runs the plan's stages in supervised, mutually distrusting domains over
device-mapper snapshots, seals what each stage wrote into a layer with a verity tree, joins a
root, a firmware image (PMI) and a boot configuration, and publishes an OCI layout.

This directory keeps the TLA+ models of its core beside the code. Each definition is a
translation of the source lines `PROJECT.json` ("map") names; TLC checks the models on small
instances (`*.cfg`), and TLAPS checks the proofs in the `*Proofs` modules for every instance.
Paths below are relative to `src/src/`.

    tlc -config MCPublication.cfg MCPublication      # one of the runs in PROJECT.json
    tlapm OutputProofs.tla                           # one of the proof modules

## 1. The system

| component | its state | its operations | it interacts with |
|---|---|---|---|
| Planner (`planner/`) | none beyond a conversion | order the stages, reject unknown names and cycles | gives the pipeline its order |
| Input resolution (`input/`, `graph.rs`, `lock.rs`) | captured plan, lock, context; references and their pins | pin, resolve, validate availability | reads cache and lock, before anything privileged |
| Build pipeline (`pipeline/`) | outputs of finished stages | run stages in order, select, bind | owns stage storage, calls the step and the output |
| Command step (`step/`) | the directive's deadlines, what it knows of the command | mount, launch, observe, tear down, judge | owns namespace, storage and domain for one directive |
| Command domain (`domain/`) | one cgroup directory | create, join, cancel, wait until empty, remove | kernel; members are the step's processes |
| Process supervision (`process/`) | child identities, socket to the helper | launch, transfer, terminate, collect, drain adopted orphans | packets with the receiver; the kernel's process tree |
| Isolation (`isolation/`, `execution/`) | the helpers' position | namespaces, init, start gate, status report, cleanup report | packets and the gate with the supervisor; image code |
| Stage storage (`storage/`) | loop devices, mappings, mounts, workspace | activate a chain, snapshot it, mount, close, seal | kernel; formatter; sealed scutes in the output's staging |
| Formatter (`formatter/`) | the child that runs mkfs | stage inputs, run, close | holds views of the stage storage |
| Output (`output/`) | staging directory, destination | stage blobs, write the layout twice, publish, roll back | other programs at the destination; readers |
| Cache (`cache/`), artifacts (`artifact/`) | an OCI layout on disk | resolve, verify, open chains | read by resolution, storage and assembly |
| Context and COPY (`context/`, `copy/`) | captured git tree | resolve links, select, write | the mounted stage volume |
| Boot configuration (`boot_config/`) | keys and values | parse, overlay, bind, encode | selection and assembly |
| Filesystem views (`filesystem/`, `storage/volume/`) | mounts of a stage, pinned parents | attach, capture, unmount one by one | the directive's helper; image code moves directories |
| Formats (`disk/`, `storage/sealed.rs`, `storage/compact.rs`) | bytes | GPT, snapshot extent, compaction | sealing |
| Build runtime (`storage/runtime.rs`, `storage/mod.rs`) | workspace, directories, cgroup hierarchy, recovery lease | set up, undo, close | everything a stage mounts or starts lies below it |
| Appliance and port (`appliance/`, `launch/`) | one console exchange | request, respond, finish, acknowledge | host launcher and guest |
| Network (`network/`), anchor (`anchor/`) | resolver, addresses; mount identity | set up, release, re-check | the receiver |

Where it is hard. The step is concurrent: the supervisor, three helper processes, the image's
own processes and the kernel interleave freely, every deadline may pass at any moment, and each
cleanup may fail on its own; what cannot be shown to have ended must be retained. Publication
meets I/O errors, crashes and other programs; the cache and the build port are shared with
programs the code does not control, and image code moves the directories the supervisor has
mounted on. The planner's search, the trust rules, the binding of the root, the lookup of paths
and the formats are sequential, but their errors are global: they show only for particular plans,
locks, trees, sizes and combinations of images. `PROJECT.json` ("hazards") lists these at their
lines with the properties that cover each.

## 2. The modules

| module | what it is | code |
|---|---|---|
| `CommandStep` | the lifetime of a stage's directives: supervisor, helpers, image code, kernel, clock | `step/`, `domain/`, `process/`, `isolation/`, `execution/helper.rs` |
| `StorageLease` | abstract: what a step promises about the storage it is lent | `step/mod.rs` (Retained), `step/execution.rs` |
| `StageStorage` | who owns which kernel object while a stage is prepared, formatted, mounted, sealed and released | `storage/`, `formatter/execution.rs`, `pipeline/bootstrap.rs`, `pipeline/carapace.rs`, `pipeline/root.rs` |
| `VolumeMounts` | where a stage's file systems are mounted, while commands move directories | `storage/volume/`, `filesystem/` |
| `CommandRoot` | how the view of an untrusted image becomes the root of a command | `isolation/root.rs`, `runtime.rs`, `shell.rs`, `devices.rs` |
| `StageOrder` | the depth-first search that validates and orders the stages | `planner/mod.rs` |
| `Build` | one build from captured inputs to the published manifest | `input/`, `graph.rs`, `lock.rs`, `pipeline/`, `output/assembly.rs` |
| `ImageCache` | how an input image is read from a cache others write to | `cache/`, `artifact/manifest.rs` |
| `ContextTree` | paths, links and lazily opened modules of the committed context; selection of sources | `context/`, `copy/source.rs` |
| `GlobMatch` | patterns of COPY: parser, matcher, and the scanner that finds wildcards | `copy/pattern.rs`, `copy/source.rs` |
| `CopyWalk` | what a COPY writes into the image that is being built | `copy/destination/` |
| `SnapshotStore` | measuring, packing in place and streaming a snapshot store | `storage/sealed.rs`, `storage/compact.rs` |
| `DiskLayout` | laying out, writing and finding a GPT disk | `disk/` |
| `BootSyntax` | the boot configuration's parser, writer and overlays | `boot_config/`, `pipeline/boot_config.rs` |
| `Publication` | staging a layout and publishing it, in both ways | `output/`, `storage/sealed.rs` (temporary files) |
| `AtomicPublication` | abstract: what a reader sees of a publication | `output/mod.rs` |
| `BuildRuntime` | the control resources of one build: set up, undone, closed | `storage/runtime.rs`, `storage/mod.rs`, `anchor/` |
| `BuildPort` | the exchange of the guest with its launcher | `appliance/`, `launch/`, `main.rs` |
| `Appliance` | the two together: a build inside an exchange | `appliance/mod.rs` |
| `MC*`, `*Inputs` | values of the constants for TLC, and the inputs of larger families | |
| `*Proofs` | theorems and their proofs | |

How they compose. `Appliance` is the outermost: `BuildPort` around one life of a `BuildRuntime`.
Inside it runs `Build`, over the orders `StageOrder` produces and over images that `ImageCache`
delivers. A stage is one step of `Build`; inside that step `StageStorage` owns the volumes,
`VolumeMounts` mounts them, and `CommandStep` runs the directives over the volumes it is lent, each
command in a `CommandRoot`; a COPY is `ContextTree` and `GlobMatch` for its sources and `CopyWalk` for
its destination. What `StageStorage` seals is a `SnapshotStore` over a `DiskLayout`; `BootSyntax` is the text behind
the values that `Build` joins, and `Build`'s assembly and publication are the subject of
`Publication`. The boundaries are the abstract modules (`CommandStep` implements `StorageLease`,
`Publication` implements `AtomicPublication`) and, where two models share a sequence of steps, a
composed module (`Appliance`).

`MCCopy`, `MCFormats` and `MCStages` each check several models in one run. Those
models are independent machines: the initial state chooses one, the variables of the others hold
"unused", and each step and property is that of the chosen one. They are united to
keep the number of runs small; nothing is claimed about their interaction.

### CommandStep

`sup` is the program point of the build process between two calls that can fail or block; the
other variables are what it owns (`namespace`, `storage`, `domain`), what it knows (`outcome`,
`certified`), its three deadlines (`timer`), the kernel's view of the processes (`proc`,
`members`, `code`), the positions of the three trusted helpers (`at`), and the wires between
them: packets down and up, and the execution gate. An action of the supervisor is one
call of `step/execution.rs`, `step/outcome.rs` or `step/teardown.rs` with its success and its
failure as alternatives; each ends where the next call begins. A helper's action is one call
of `isolation/receiver.rs`, `isolation/namespaces.rs` or `isolation/init.rs`; `FailHelper`
lets it fail before any of them. `Exit`, `Kill`, `Die` and `Spawn` are the kernel:
SIGKILL leaves a process dying until the kernel lets it go, a PID namespace goes down with its
init, a zombie is not a member that counts in `cgroup.events`, orphans are adopted by the
subreaper. `network` and `scaffold` are the placeholders the resolver puts into the image.
The seed helper that `UserNamespace::create` starts and collects inside its own call is
part of `CreateNamespace`; packet encodings and credentials are left out.

A later directive starts with fresh processes, channel and gate (`FreshStep`). COPY
directives mount the volume, work and unmount, with no process.

### StageStorage

A volume is a stack of parts (attachments, partition mappings, snapshot, loop device, the origin
below), and `obj` says for each what became of it: not there, `owned` by a value of the program,
`forgotten` (leaked on purpose, `std::mem::forget` or `ManuallyDrop`), or `doomed` (a destructor
asked the kernel to remove it when its last holder is gone). `todo` is the sequence of objects
that the current function opens, formats or closes, in order; `OpenNext`, `CloseNext` and their failures take the
first that is not open, or not closed, yet (`Unopened`, `Unclosed`). What a failure does with the rest of the stack is `FailedClose`, `Forget`
and `Destroy`; the explicit clean-up of a half-opened volume is `Undo`, and `Abandon` is the
error on its way out of the stage, with the destructors it runs. `Held` is the kernel: what keeps an object
busy. `Reap` lets the deferred removals happen, `Probe` is another program that opens a
device for a moment (udev), `Write` and `Writeback` are image code, COPY and mkfs on one side and
the page cache on the other, which finds the store full at any time.

`ReturnStorage` and `RetainStorage` are the two ends of a step in `CommandStep`: returned storage has no
tenants, which is what `StorageLease` promises and `QuiescentRelease` shows. The model has one stage,
since a build goes on only after a stage that left nothing (`SuccessLeavesNothing`). After an error the data
is not followed any further, as nothing can be sealed. A formatter that could not be terminated
is no obstacle to taking down the runtime directory, whose mounts it does not use; the
build has failed by then.

### StageOrder

One action per branch of the loop in `Plan::walk`, with its explicit stack, the set of the
current path, and the set of finished stages; both passes of `Plan::try_from`. The sets and
sequences of names stand for the ordered maps of the code, and the model starts from every
plan over its names.

### Build

`plan`, `lock` and `tags` are chosen once; the actions are the phases of `Pipeline::run`. A
root is the sequence of what was sealed on the way to it, so that two roots are
equal exactly when they have the same history. Images differ in what they hold: a root, a PMI,
keys of a boot configuration, verity parameters, annotations. The graph walks every source of the plan and passes
those that name a stage (`PassLocal`). `BindTo`,
`Overlay`, `Changed`, `Derived` and the selection are those of `pipeline/output.rs`,
`pipeline/root.rs` and `pipeline/boot_config.rs`.

Two things end a build after validation. `StepFails` is the work: a document, an image, a command, an
extraction or a file operation fails, at any time. `Refuse` is the pipeline's own judgement, with what the plan and
the images say and no failure of anything: a stage whose source has no root (`StageReady`), a selection that lacks a
component (`SelectReady`, `Complete`), a boot configuration that cannot be expressed when it is read, overlaid or bound
(`Readable`, `StageFits`, `SelectFits`; the constant `Fits` says which ones can, `BootSyntax` is the code that decides
it), layers that are not of one chain (`Contiguous`), or that were sealed with other verity parameters than their base's
(`Compatible`). A missing root or component and a broken chain never happen to a plan that passed validation; the other two do, after
stages have run, and `RefusedForCause` says exactly when. Of the four verity parameters the model keeps whether they are
the default ones, which is all the code asks (`Default`).

The local cache does not change during a
build (what happens when it does is `ImageCache`'s). The assumptions on the constants say what a
captured plan is: stages named once, in an order in which each comes after the stages it is made from and
copies (what `StageOrder` establishes), an image selected from at least one of them, images whose root is a
hash of its own, a boot configuration only where there is a PMI, pins and tags that name images; and `FitsAssumption`, that
an empty configuration can be expressed.

### Publication

`at` is the publisher's position; `files` are the whole files of the staged layout, `pending`
the one open for writing under its final name, `temps` the temporary files that sealed
layers keep among the staged blobs, `entry` and `there` what is at the destination.
Every file operation may fail (`StagingFails`, `RenameFails`, `MoveFails`, the failing halves of
`MoveBack`, `Close`, `Drop`), the process may die between any two (`Crash`), and other programs may
create names at the destination at any time (`Foreign`). They do not remove or replace what the
publisher put there: the code gives no defence against that, and promises none.

### ImageCache

A blob is named by the digest of its bytes; the model's digest is injective, so "verified" means
equal. The reads of `cache/resolve.rs`, `cache/mod.rs` and `cache/chain.rs` are one action per chunk, and
other programs may replace, truncate or extend any file between two of them (`Change`, `Unlink`, `Prepare`, bounded
per world); an open file sees what is written in place, and not what replaces it. The chain is followed from its tip down: a scute's root is the hash of its salt and its block, and
the salt starts with the parent's root.

### ContextTree, GlobMatch and CopyWalk

`ContextTree` holds the commit as a function from paths to entries and, separately, what
the program has scanned of it. Planning opens modules one at a time until a selection meets no
closed one; the COPY selects again later, from whatever had been opened by then. The reference is
`Denotes`, a recursion over path components, and the selection from a tree with every module open.
`GlobMatch` parses character by character and matches bytes by sets of reachable offsets; its references are
two kinds of backtracking over the tokens, Go's over bytes and the one over runes of the code's test. `CopyWalk` writes call by call into a tree of two file systems
(in a bootstrap stage the output is seen at `/mnt` over the tools), any call of which may fail; its reference
is the image as it is seen with the sources laid over it.

### SnapshotStore, DiskLayout and BootSyntax

`SnapshotStore` has the loops of `Scratch::seal_snapshot` as actions over a file of chunks; its
reference is `View`, what the device shows through a store. `DiskLayout` writes a disk in
five writes, any of which may be the last, lets other programs change up to two copies, and reads it
back with arithmetic modulo `Word`; the disk is scaled (blocks of 8 sectors, tables of 4
blocks), and `ScaleAssumption` says what the scale keeps. `BootSyntax` feeds the parser one character at a time, and
lets a plan put and drop keys.

### VolumeMounts and CommandRoot

`VolumeMounts` has the kernel's mount tree: mounts on locations, detached and lazily unmounted mounts, who
holds them open. For each directive the supervisor mounts the root and the stage's file systems below it, the
directive's helper gets clones and captures them, the command moves directories in the file systems themselves,
and both sides unmount one by one; the next directive mounts anew.

A bootstrap stage has two volumes. The stage's file systems are the output's alone (`pipeline/bootstrap.rs:82`): `Resolve`
and `Component` walk from the output's root, and the volume of the tools, mounted first and
unmounted last (`storage/bootstrap.rs`), has no other mount. The view of the tools is their root alone; the view of the output is
a recursive clone (`storage/volume/mod.rs:291`), so that what the helper attaches is the tools, with the output on their `/mnt` and the stage's
file systems on the output (`GetView`, `WithOutput`, `Attach`). That nesting is what it captures and unmounts: the
mounts on the output, the deepest first, then the output, then the tools. Tools
without a `/mnt` are given one, and a link there ends the directive (`PrepareOutput`); the output starts as an empty file system, in which the
stage's mount points are made.

`CommandRoot` works through the setup of one command's
root in an image whose names may be links, files, missing or inside one another. Every system
call may fail. A lookup is a function of the location, the rest of the path and the links left (`Lookup`), one name at a
time (`OneName`); views, links and mounts are data, so that the same definition serves the setup's lookups, which stop at
links or mounts, and the command's, which cross both. A runtime name may lead through a link inside a directory that another filesystem
covers; the command is then started only if `/proc` is the real one (`Start`, `RuntimeShown`). A new proc has its control
files restricted path by path (`ReadOnly`), and the kernel may lack some of them (`absent`, part of each
input); what the loop leaves writable (`Unrestricted`) is remembered in `loose`.

### BuildRuntime, BuildPort and Appliance

`BuildRuntime` makes and removes the control resources one call at a time, with a deadline for
each half. What a stage could not end stays as attachment points and domains, which may go away
on their own. `BuildPort` carries whole messages and parts of messages; the launcher may, besides
answering, send anything and leave. `Appliance` replaces the port's "a pipeline runs" by the whole life of the
runtime: `Work` is a step of the runtime while the port is at "build", `Conclude` is the return of `Pipeline::run`.

## 3. What the runs check

| run | bounds | distinct states | what it shows |
|---|---|---|---|
| `command_step` | 2 directives, 1 daemon, statuses 0, 1 and a signal | 1,908,362 | no storage or namespace is released while a process is left; image code lives only in a domain that can be cancelled and never before the start packet; the drain does not steal the receiver's status; cancellation reaches all; an accepted storage follows an honest success; the step implements `StorageLease` |
| `command_step_ends` | 1 directive, no daemons | 114,646 | the supervisor ends, and a command that outlives its timeout fails the build, under weak fairness |
| `stages` | every plan of 3 names, 2 selectors; stages of up to 3 mounts, bootstrap stages of up to 2 whose tools have a `/mnt`, a link there or none, 2 moved directories, 2 directives; about 2,000 images, 3 links in a lookup | 384,242 | the search ends, its order holds exactly the selected stages, each after its dependencies, and refusals are of faulty plans only; file systems are shown where the plan says, what is captured stays captured, a clean unmount is evidence; a started command has its runtime and shell, and the sealed layers gain only empty mount points |
| `build` | plans of 2 remotes or stages as ordinary and bootstrap inputs under all partial locks and tags; 9 kinds of image under 2 names, three of which have a configuration at or beyond the limit or parameters of their own, up to 2 stages, every boot source and overlay, 4 nodes in a configuration | 806,801 | an unpinned tool never stands for a pinned input, and the reverse, and annotations tell which were used (`TrustKept`); what validation accepts is refused later only for a configuration that cannot be expressed or for incompatible verity parameters, and always for these (`RefusedForCause`); published root, layers, PMI and keys are the planned ones |
| `publication` | 3 selections, 2 sealed layers with equal bytes | 29,880 | the marker implies a whole image, exactly; failures clean up; nothing foreign is touched; readers see one step |
| `publication_failure` | the same | | a violation: see section 6 |
| `stage_storage` | 1 directive, 1 failing request of the destructors, 3 disk layouts, 2 devices probed | 1,055,352 | a store is sealed only when nothing in the kernel reaches it, and is then valid and complete (`Sealing`); success leaves nothing behind; only a failed clean-up leaks; what a live process writes to is kept, and the runtime is taken down only when nothing is below it (`UsedIsKept`); a failed stage whose clean-up did not fail leaves nothing in the end |
| `appliance` | 2 unasked messages, 2 attachment points, 1 domain, 2 failing calls | 362,145 | the resources keep their order whatever the launcher does; both ends tell one story; a success is heard only of a clean, public image; a launcher that stays hears an outcome |
| `copy` | patterns of 4 characters out of 9, names of 2 runes of one to three bytes; 468 commits with links, cycles and modules one inside another; COPYs into 224 images; 5 links in a walk | 1,157,723 | matching agrees with its definition; paths lead where they denote and a lazily opened context selects what a complete one does; a COPY lands what it should and touches nothing else, wherever it stops; all three end |
| `formats` | stores of 2, 7, 8 and 9 chunks with 2 records an area; devices of 16, 32 and 33 blocks, 4 sizes, 2 changed copies; 16 starts of a text and 3 more characters out of 15, an arena of 5 nodes, 1 edit | 1,370,338 | sealing keeps what the device showed, packs it canonically and refuses exactly the unusable; only whole disks are found, clear of overlaps; what the parser accepts fits Linux's arena and survives a round trip |
| `image_cache` | 2 blocks, metadata of 2 bytes, extents wrapping at 8, up to the changes each world allows | 218,626 | only bytes that the digests name are believed or copied; the chain is the committed one; a sound cache serves its image; a resolution ends |

Several properties of one run are conjunctions of named parts, each stated with its comment beside
the model: `UsedIsKept` is `WritersKeepLayers` and `BarrierHolds`; `Sealing` is `TypeOK`, `SealsAlone` and `SealedIntact`;
`PublishedAsPlanned` is `PublishedChain` and `BootAsPlanned`; and so on.

Why these bounds are enough. Two directives are the least that show what one directive leaves to the
next; one daemon is the least process whose parent may die before it. Two sealed layers
with one digest are the least that collide on a name. Three names contain every kind of
cycle, diamond and chain the search distinguishes. One directive is enough for `StageStorage`:
between two directives the volumes are as they were after preparation, with every mount gone, and a stage
without any goes on from there. Its
three layouts are the ones whose closing sequences differ (no ESP, an ESP everywhere, an ESP on
the output only); the probed devices are one mapping and one loop device, whose closes differ. One
failing request, for an object or for the directory of a mount, shows a stack with a hole in it; more only enlarge the hole. Two stages of a
build contain every combination of extending a remote, extending a stage, and formatting, with a
COPY between them; an image at the limit of nodes shows the binding of a root that no longer fits. Two records an area are the least with a first, an inner and a last
slot over three areas; stores of 7, 8 and 9 chunks end in a data chunk, a metadata chunk and behind
one. Device sizes are one at and one beyond the largest layout and one too small. Two moves are the
least that put another directory where one was moved away. Four characters hold every form of a class with its neighbour. One module inside another is the
limit of nesting in the run (`MaxDepth`). Two failing calls are the least with a failure in the undoing
of a failure. The state spaces are explored exhaustively, without symmetry and without constraints.
Deadlock is checked for `CommandStep` and `StageStorage` (which say what they do when they have ended: `Ended`);
in the other runs a build, request or disk reaches its end, so they do not check it.

Where a property compares the code with a definition (`PlannedRoot`, `Origin`, `Denotes`, `AcceptsRunes`,
`Expected`, `View`, `Sound`), the definition is written from what the component promises, as a recursion or a
choice over whole data, and shares no step with the actions.

Fairness. `CommandStep` assumes that the supervisor is scheduled and that each deadline it
watches passes, no more: it is one thread of the build process, and its waits are bounded by
monotonic deadlines. Nothing obliges a helper, image code, or the death of a killed
process: `SupervisorEnds` holds although all of them may stop for ever. `StageStorage` assumes that
the stage goes on (each of its waits has a deadline) and, when it has ended, that the kernel
performs the deferred removals once nobody holds their objects (`Stage \/ Reap` never stops for ever), and that a probe ends. `StageOrder`
assumes that the sequential search goes on. `Appliance` assumes that the guest goes on wherever it
can, that stages return (each directive has its deadline), and that a launcher that is there
reads and answers; it never has to leave or babble, and no call has to fail. `copy`,
`formats`, `image_cache` and `stages` assume only that the program itself takes its next step;
what others change, open or hold they may also leave alone. `Build`, `Publication`,
`BootSyntax` and `CommandRoot` have no liveness properties: they go straight on, or fail.

## 4. What is proved

All theorems hold for every value of the constants under the named assumptions of the
modules (disjoint names, statuses that are integers, finite sets of names, captured plans).

- `CommandStepProofs`. `IInv` is inductive: `TypeOK`; the process tree (`TreeInv`: nothing but
  the receiver is ever alive outside the domain, and image code needs its init); what the
  receiver's packets say is true (`JoinInv`); what the supervisor may conclude at each of its
  points (`PhaseInv`); what it holds there (`HoldInv`). From it follow `QuiescentRelease`,
  `ImageContained`, `OwnedStatus`, `CancelReachesAll`, and that each step maps to
  a step or stutter of `StorageLease` (`Refinement`). The properties are not
  inductive: that the drain sees no live process depends on the kill having reached the whole
  domain, which depends on the helper having joined before its packet was believed. Two theorems
  need a second invariant each. `Started`: until the execution timeout is armed, which only the start
  of the command does, the gate is shut and no process of the image exists. `Honesty`
  (`Gating`, `Chain`, `Cleaning`, `Judging`): a success the supervisor accepted was relayed by a
  chain of three helpers, and at each link the status is the one the helper below ended with.
- `StagesProofs`, about the search of `StageOrder` and the mounts of `VolumeMounts`, each while it is the
  machine that was chosen. For the search, `O!IInv` relates the stack to the current path: below an entry lies a
  path of the plan's relation, what is done is closed under dependencies, and
  the order holds the done stages, each after its own. From it: order, exactness,
  soundness of acceptance and of refusal, and that after the first pass only a selector can be refused.
  For the mounts, `StageAssumption` says what the planner and the kernel guarantee: paths that are not empty, and
  filesystems that are trees whose directories have names of their own. `IInv` keeps that shape while commands rename
  (`PlanInv`); a mount lies in an older one of its side and is alone at its place (`TreeInv`); leases are held for
  exactly what the supervisor has mounted, in order, and each pins the directory its mount's name is in (`LeaseInv`,
  `Pinned`); a lookup that has come some way has met no link and nothing that is mounted (`WalkInv`), so that what
  has been mounted is where its path leads (`ShownInv`); a helper has captured a mount for every one in its view, parents first
  (`HelperInv`), below the tools if there are any (`ToolInv`); and only a failure or another user keeps anything (`UseInv`). From it `StageIsKept`. What a path shows is
  not inductive, as it depends on every mount made since: the argument is that paths are found shortest first, so that a later
  mount can lie on none of those found before, not even when the image has links in the way. After a command has moved directories
  paths show anything; what a pinned directory and a name lead to stays, since the kernel moves no directory that is a
  mount point. Paths are recursive functions along a tree; `AlongIs` shows that the recursion has a
  solution and `AlongAgrees` that two trees that agree above a directory give it one path.
- `RootProofs`, about `CommandRoot` while it is the machine that was chosen. `RootAssumption` says what kernel, image and appliance guarantee: filesystems are trees whose names are
  unique, directories cover directories, and the libraries are files in directories that are not the kernel's, none at
  a directory of another's path. Everything else is open: the names, links and mounts of the image, the number of links a lookup
  follows, the libraries, and where the setup stops. `RootInv` says what is there: all that was there before, and new nodes
  that are empty mount points or are reached through a mount only (`Whole`: `Image`, `GrewFrom`); each new mount lies on a
  pinned target, on one of the devices' directories or on a top directory of the shell, and shows the filesystem that
  belongs there (`Keys`); each target is what a lookup
  of its name found before anything was mounted (`PinsOf`). It says what the steps taken so far have left (`Progress`,
  `Untouched`), where each node of the private shell is, by its path (`Shelf`, `Shelved`), what is still to be done (`Going`), and
  that an ordinary image is not refused (`Refused`). From it: `RootIsSafe`. The properties are statements about
  lookups in the final tree, and none of them is inductive: mounting changes what paths show that were
  found before. The argument follows a lookup name by name. It ends, as each name makes the path shorter and each
  link uses one up (`RecursionExists`, `LookupIs`). Up to the first new mount it goes as it went when the target was pinned, so it
  ends at the target or has crossed another filesystem of the runtime first, and behind such a crossing no node of the
  image is left; since no target lies in another one (`Checked`), a name that is a directory is covered by its own filesystem. A
  link may lead through a covered directory: then the path shows another filesystem of the runtime or fails, which
  is all `RuntimeShown` says of it. For the shell, the lookup of a tool or library meets a top directory,
  crosses to the private filesystem, and finds there the nodes `Shelved` places. TLC checks `RootIsSafe`, not `RootInv`, whose shelf quantifies over all ways to name its nodes.
- `OutputProofs`, about the formats and about their publication, which share nothing but the module.
  For `Publication`, `Inv` says, for each position of the publisher, exactly which files are
  staged (`StagedSoFar`), which entries at the destination are its own (`MovedSoFar`), and what
  has been reported (`Reported`). From it: completeness, success, clean failure, the protection of
  foreign names (an action property), and the refinement of `AtomicPublication`.
  For the formats, the theorems hold for every size of the file, the areas and the origin, and for every disk asked
  for, every device, every interrupted write and every change. Sealing packs a store in place: `StoreInv` says that
  the packed records are exactly those, of the records read so far, whose datum is not the origin's (`Packing`); that an
  area of metadata is overwritten only when the reader has left it, as no record moves to a later position; that nothing
  but metadata is written, so each datum is read where its record says (`Cut`); and where in the
  output each record and datum ended up (`Streaming`). From it `StoreIsKept`: the sealed store shows what the store
  showed, in the one packed form, and only unusable stores are refused. `DiskInv` gives each block its type whatever was changed, follows the reader
  through both headers and their tables, shows that the reads that were accepted never wrapped
  (start and index stay below a capacity that is below `Word`), and that an undisturbed disk is
  the layout. From it `DiskIsFound`.
- `BuildProofs`, under the assumptions on captured plans. `Inv` follows the phases: what the inputs
  say of each reference, that each image is what its reference means (pinned or tagged), that every
  stage's output is a chain of layers whose configuration is bound to its root, and that joining
  keeps this. The step that needs an argument is the binding: what a stage seals is a
  longer history than any image's, so a configuration left alone because "nothing changed"
  really has the root it came with. From it: `TrustKept`, `RootBound`, and that the published layers
  have no gap (`LayersUnbroken`); that what passed validation is refused for two causes only, given as functions of the
  plan and the images, and is never assembled when it has one (`RefusalsHaveCause`: whatever was read, overlaid or bound on the way
  to the assembled image has been found expressible); and that root, layers and boot configuration published are those the plan
  denotes (`PublishedAsPlanned`). The last compares with recursive functions over the plan's stages:
  the invariant says of each finished stage that it is what they give, and `AlongStages` shows by
  induction on the position, with sets of counterexamples, that they are what their definitions say.
- `ApplianceProofs`, about both halves and the whole. Of `BuildRuntime`: the position fixes which directories and
  mounts exist, unless the clean-up was cut. Of `BuildPort`:
  what the guest wrote is what the host read and what is on its way; what the host sent is what the
  guest read and what is in the port, as long as the guest may go on; and the host never answers more than it
  read. The composition uses both: each
  invariant holds of its own variables while the other machine steps (`RuntimeRests` and its
  counterpart), and `Joint` ties the positions together (before a build the runtime is untouched, after it
  "done" and public exactly if the build succeeded). From it: `ApplianceIsSound`.
- `StageStorageProofs`, for every number of directives and failing requests, every layout and every
  probe. `IInv` says for each phase what the list in `todo` names (`Listing`), what it may use
  (`Ready`) and what is not there yet or no longer (`Absent`, `Clear`); that nothing has leaked while the
  stage goes on (`Whole`); that an ESP is mounted only if the disk has one (`Rooted`); where data may be dirty (`Dirt`); how
  `failed` and the end go together (`Flow`, `Ends`); and what a lost formatter or a retained command keeps (`Kept`).
  From it: `Sealing`, `SuccessLeavesNothing`, `RetainedForCause`, `UsedIsKept`. None of them is inductive: that the store is
  complete when it is sealed depends on each part above it having been closed in order, which
  depends on no close before it having failed.
- `ImageCacheProofs`, for every cache, reference and document (lists are lists and files hold bytes: `WorldsAssumption`;
  a whole document is not too large: `SizesAssumption`), and for any number of changes by others. `Inv` says how the
  captured documents hang together (`Documents`), which blobs are in the queue and which have their receipt
  (`Copies`), and what links the scutes found so far to the commitment and those left to the manifest (`Chained`). For a
  sound cache nobody writes to, `Serves` says at each read why it succeeds; during the chain, that the one variant with
  the right root is among those still to be read until it is chosen, and not after (`Discovering`). From it
  `ResolvesSoundly`. The attempt to prove it corrected what `Sound` demands of a cache: one entry for a
  tag, not one digest; the scutes' own blobs, which an output copies too; and a chain that ends at a scute without a parent. The run
  has a cache for each.

Only model-checked: liveness, since ENABLED and fairness are out of the prover's reach; the properties of
`GlobMatch`, `ContextTree` and `CopyWalk`, which compare with recursions over names and paths of any length; `SyntaxIsSound` of `BootSyntax`, a comparison of
parses of arbitrary length. These four properties (`MatchesAsDefined`, `ContextIsFaithful`, `CopiesExactly`,
`SyntaxIsSound`) are the safety properties of the runs that no theorem states.

## 5. Mutants

Each property of a passing run has a mutant: a definition of the same module with a plausible
bug (a dropped guard, a swapped order, a missing reset), marked "Mutant" where it is defined and not
used by the specification. With it in place of the original, TLC finds the property violated.

## 6. Findings

- `publication_failure`: after the last entry has been moved into an existing destination,
  `publish_children` returns the error of removing the emptied staging directory
  (`output/mod.rs:303`). The build then fails with the whole image exposed, while `DESIGN.md` 11.2
  says that "failure leaves no successful image". A reader still sees a whole image.

One behaviour of the pattern code a reader may not expect: as in Go, a star may stop inside a
rune (`copy/pattern.rs:70`), and what follows it then reads the bytes of that rune that are left.
`*??` matches a name of one rune of three bytes, and `*[^é]` matches `é`. Matching agrees with its definition by
whole runes (`AgreesWithRunes`), which the test of the code compares it with, only where
neither can happen: runes of at most two bytes, and no class that takes a byte that is none. With Go's definition it
agrees for all of them (`AgreesWithGo`).

## 7. What is not modelled, and the plan

Not modelled: parsing of plan, lock and request documents and their values (no state; what they
yield is the input of `Build`), netlink, seccomp and identity mappings (one step of a helper that may
fail), OCI serialisation, verity and compression (libraries), selection of formatter tools and their
manifest, packaging and the appliance's image. They keep no state that interleaves with anything, or
are pure I/O; where they can fail, the failure is a step of the model around them.

What would come next: `StageStorage` composed with `BuildRuntime`, whose `Attach` and `Detach` now stand for it.
