----------------------------- MODULE VolumeMounts -----------------------------
(***************************************************************************)
(* Where the filesystems of a stage are mounted.  For each directive the   *)
(* supervisor mounts the volume's root and the stage's filesystems below   *)
(* it (src/src/storage/volume); a bootstrap stage has two volumes, the     *)
(* tools a command runs from and the output below their /mnt, and only the *)
(* output has the stage's filesystems (src/src/storage/bootstrap.rs).  The *)
(* directive's helper gets clones of the trees and attaches them in a      *)
(* mount namespace of its own (src/src/filesystem).  The command moves     *)
(* directories about in the filesystems themselves; both then take their   *)
(* mounts away again, one by one and not lazily, so that success shows     *)
(* that nobody uses them any more, and the next directive mounts anew.     *)
(*                                                                         *)
(* A directory is <<filesystem, number>>, number 0 at the top; a location  *)
(* is a directory seen through a mount.                                    *)
(***************************************************************************)
EXTENDS Naturals, Sequences, FiniteSets, SequencesExt

CONSTANTS
  Cases,        \* [plan: paths of stage mounts, bootstrap, dirs: directories of the volumes]
  MaxMoves,     \* bound: directories the commands move
  MaxDirectives,\* bound: directives of the stage
  Mnt,          \* the name "mnt"
  Names,        \* names commands give
  None          \* a model value

Ids == {"own", "supervisor", "tool", "helper"} \X Nat
AnyLocation == [m : Ids, d : Nat \X Nat]
\* Filesystems 0..last: trees of directories with names of their own, numbered from the top, 0.
Forest(tree, last) ==
  LET In(fs) == {d \in DOMAIN tree : d[1] = fs}
  IN  /\ DOMAIN tree = UNION {In(fs) : fs \in 0..last}
      /\ \A fs \in 0..last : IsFiniteSet(In(fs)) /\ In(fs) = {fs} \X (0..(Cardinality(In(fs)) - 1)) /\ <<fs, 0>> \in In(fs)
      /\ \A d \in DOMAIN tree :
           /\ tree[d] \in [up : DOMAIN tree \cup {None}, name : STRING, link : BOOLEAN]
           /\ IF d[2] = 0 THEN tree[d].up = None ELSE tree[d].up \in In(d[1])
           /\ \A x \in DOMAIN tree : tree[x].up = tree[d].up /\ tree[x].name = tree[d].name /\ d[2] # 0 => x = d
      /\ \A S \in SUBSET DOMAIN tree : S # {} => \E d \in S : tree[d].up \notin S

\* The planner has checked the paths, and an image is a filesystem (ImagePath::normalized).
StageAssumption ==
  /\ None \notin Ids \cup (Nat \X Nat) \cup AnyLocation \cup [open : BOOLEAN] /\ Mnt \in STRING /\ Names \subseteq STRING
  /\ MaxMoves \in Nat /\ MaxDirectives \in Nat
  /\ \A c \in Cases :
       /\ IsFiniteSet(c.plan) /\ c.plan \subseteq Seq(STRING) \ {<<>>} /\ c.bootstrap \in BOOLEAN
       /\ Forest(c.dirs, Cardinality(c.plan) + 1)

VARIABLES
  plan, bootstrap, \* the stage: mount paths, parents first, and whether it has a volume of tools
  dirs,      \* the directories of each filesystem: [up, name, link]
  mounts,    \* attached and detached mounts: [fs, parent, on]
  lazy,      \* mounts that are out of reach and in use
  held,      \* mounts somebody else has open
  phase, walk,  \* the supervisor, and how far it has resolved a mount path
  leases,    \* its mounts in the order they were made: [mount, parent, name, open]
  tool,      \* its mount of the tools: None or [open]
  helper, pinned, points, \* the helper, its hold on its root, and the child mounts it captured
  moves, directives, fault

stage == <<plan, bootstrap>>
supervisor == <<phase, walk, leases, tool>>
helperState == <<helper, pinned, points>>
history == <<moves, directives, fault>>
vars == <<stage, dirs, mounts, lazy, held, supervisor, helperState, history>>

\* Mounts: a stage filesystem in the runtime directory, the root of the volume that has them, the clones
\* below it, the root of the tools, and the helper's copies.
Own(i) == <<"own", i>>
Root == <<"supervisor", 0>>
Clone(i) == <<"supervisor", i>>
Tool == <<"tool", Len(plan) + 1>>
View(i) == <<"helper", i>>
ToolView == View(Len(plan) + 1)
\* What the helper attaches first: everything else of its lies below.
Base == IF bootstrap THEN ToolView ELSE View(0)
Of(side) == {m \in DOMAIN mounts : m[1] = side}

\* What StageMounts::populate sorts by: a mount comes after those above it.
MountOrder(paths) ==
  {q \in [1..Cardinality(paths) -> paths] :
     Range(q) = paths /\ \A i, j \in DOMAIN q : i < j => Len(q[i]) <= Len(q[j])}

Init ==
  /\ \E c \in Cases : plan \in MountOrder(c.plan) /\ bootstrap = c.bootstrap /\ dirs = c.dirs
  /\ mounts = [m \in {} |-> None] /\ lazy = {} /\ held = {}
  /\ phase = "populate" /\ walk = None /\ leases = <<>> /\ tool = None
  /\ helper = "none" /\ pinned = FALSE /\ points = <<>>
  /\ moves = 0 /\ directives = 0 /\ fault = FALSE

--------------------------------------------------------------------------
(* The kernel: lookups cross mounts, and an unmount is refused while anything uses the mount. *)

Top(m) == [m |-> m, d |-> <<mounts[m].fs, 0>>]
On(l) == {m \in DOMAIN mounts : mounts[m].parent = l.m /\ mounts[m].on = l.d}
Cross(l) ==
  LET On1(x) == CHOOSE m \in On(x) : TRUE
      top[m \in DOMAIN mounts] == IF On(Top(m)) = {} THEN Top(m) ELSE top[On1(Top(m))]
  IN  IF On(l) = {} THEN l ELSE top[On1(l)]

\* The entry of that name, before a mount on it is crossed.
Entry(l, name) == {d \in DOMAIN dirs : d[1] = l.d[1] /\ dirs[d].up = l.d /\ dirs[d].name = name}
Plain(l, name) == {d \in Entry(l, name) : ~dirs[d].link}
At(l, d) == [m |-> l.m, d |-> d]

\* openat2 with BENEATH and NO_SYMLINKS.
Walk(from, path) ==
  LET Step(ls, name) == UNION {{Cross(At(l, d)) : d \in Plain(l, name)} : l \in ls}
      at[i \in 0..Len(path)] == IF i = 0 THEN {from} ELSE Step(at[i - 1], path[i])
  IN  at[Len(path)]

\* The same with NO_XDEV.
Ordinary(l, name) == {d \in Plain(l, name) : On(At(l, d)) = {}}

Pins(m) ==
  \/ \E i \in DOMAIN leases : (leases[i].open /\ leases[i].mount = m) \/ (leases[i].parent # None /\ leases[i].parent.m = m)
  \/ tool # None /\ tool.open /\ m = Tool
  \/ pinned /\ m = Base
  \/ \E i \in DOMAIN points : points[i].parent.m = m
Busy(m) == m \in held \/ Pins(m) \/ \E x \in DOMAIN mounts : mounts[x].parent = m

Detached(fs) == [fs |-> fs, parent |-> None, on |-> None]
With(f, x, value) == [y \in DOMAIN f \cup {x} |-> IF y = x THEN value ELSE f[y]]
Without(set) == [m \in DOMAIN mounts \ set |-> mounts[m]]

\* A lazy detach takes a whole tree out of reach; what is in use lives on.
Detach(set) == mounts' = Without(set) /\ lazy' = lazy \cup (set \cap held)

--------------------------------------------------------------------------
(* The supervisor mounts. *)

Lease(m, parent, name) == [mount |-> m, parent |-> parent, name |-> name, open |-> TRUE]

\* Volume::mount_ext4 and Volume::with_mounts give back what there is, in the reverse order; the tools come last.
Undo ==
  /\ phase' = "rollback" /\ walk' = None
  /\ UNCHANGED <<stage, dirs, mounts, lazy, held, leases, tool, helperState, moves, directives>>
Fail == ~fault /\ fault' = TRUE /\ Undo

\* An unmounted volume is dropped: its stage filesystems are detached lazily (MountLease::drop).
Drop ==
  /\ phase' = "refused" /\ leases' = <<>> /\ Detach(Of("own"))
  /\ UNCHANGED <<stage, dirs, held, walk, tool, helperState, moves, directives>>

MountOwn(m, fs) ==
  /\ mounts' = With(mounts, m, Detached(fs))
  /\ leases' = Append(leases, Lease(m, None, None))

\* StageMounts::populate, for the next mount of the plan.
Populate ==
  /\ phase = "populate"
  /\ \/ /\ Len(leases) < Len(plan) /\ MountOwn(Own(Len(leases) + 1), Len(leases) + 1)
        /\ UNCHANGED <<stage, dirs, lazy, held, phase, walk, tool, helperState, history>>
     \/ /\ Len(leases) = Len(plan) /\ phase' = "idle"
        /\ UNCHANGED <<stage, dirs, mounts, lazy, held, walk, leases, tool, helperState, history>>
     \/ Fail

\* directives_with_inputs: the volumes are mounted for the next directive, or given up.
Begin ==
  /\ phase = "idle"
  /\ \/ /\ directives < MaxDirectives /\ directives' = directives + 1
        /\ phase' = IF bootstrap THEN "tool" ELSE "root"
        /\ UNCHANGED <<stage, dirs, mounts, lazy, held, walk, leases, tool, helperState, moves, fault>>
     \/ ~fault /\ fault' = TRUE /\ Drop

\* BootstrapVolumes::mount_root_until: first the tools, which have no stage filesystems.
MountTool ==
  /\ phase = "tool"
  /\ \/ /\ mounts' = With(mounts, Tool, Detached(Len(plan) + 1)) /\ tool' = [open |-> TRUE] /\ phase' = "root"
        /\ UNCHANGED <<stage, dirs, lazy, held, walk, leases, helperState, history>>
     \/ ~fault /\ fault' = TRUE /\ Drop

\* Volume::mount_ext4
MountRoot ==
  /\ phase = "root"
  /\ \/ /\ MountOwn(Root, 0) /\ phase' = "attach"
        /\ UNCHANGED <<stage, dirs, lazy, held, walk, tool, helperState, history>>
     \/ Fail

\* The next stage filesystem below the root: Point::image starts at the root.
Nth == Len(leases) - Len(plan)
Resolve ==
  /\ phase = "attach" /\ walk = None /\ Nth <= Len(plan)
  /\ walk' = [at |-> [m |-> Root, d |-> <<0, 0>>], left |-> plan[Nth]]
  /\ UNCHANGED <<stage, dirs, mounts, lazy, held, phase, leases, tool, helperState, history>>

\* One component of Point::image: it is made if it is missing, and must be a directory.
Component ==
  /\ phase = "attach" /\ walk # None
  /\ LET name == Head(walk.left)
         free == <<walk.at.d[1], Cardinality({d \in DOMAIN dirs : d[1] = walk.at.d[1]})>>
         made == IF Entry(walk.at, name) = {}
                 THEN With(dirs, free, [up |-> walk.at.d, name |-> name, link |-> FALSE]) ELSE dirs
         found == IF Entry(walk.at, name) = {} THEN {free} ELSE Plain(walk.at, name)
     IN  \/ /\ found = {} /\ Undo /\ UNCHANGED fault
         \/ /\ Len(walk.left) > 1 /\ dirs' = made
            /\ \E d \in found : walk' = [at |-> Cross(At(walk.at, d)), left |-> Tail(walk.left)]
            /\ UNCHANGED <<stage, mounts, lazy, held, phase, leases, tool, helperState, history>>
         \/ /\ Len(walk.left) = 1 /\ dirs' = made
            /\ \E d \in found :
                 LET on == Cross(At(walk.at, d))
                 IN  mounts' = With(mounts, Clone(Nth), [fs |-> Nth, parent |-> on.m, on |-> on.d])
            /\ leases' = Append(leases, Lease(Clone(Nth), walk.at, name))
            /\ walk' = None
            /\ UNCHANGED <<stage, lazy, held, phase, tool, helperState, history>>
         \/ Fail

Mounted ==
  /\ phase = "attach" /\ walk = None /\ Nth > Len(plan)
  /\ phase' = "mounted"
  /\ UNCHANGED <<stage, dirs, mounts, lazy, held, walk, leases, tool, helperState, history>>

\* Volume::prepare_output_mountpoint: mkdir in the tools, and the directory must be an ordinary one.
PrepareOutput ==
  /\ phase = "mounted" /\ helper = "none" /\ bootstrap
  /\ LET top == Top(Tool)
         free == <<top.d[1], Cardinality({d \in DOMAIN dirs : d[1] = top.d[1]})>>
     IN  IF Entry(top, Mnt) = {}
         THEN /\ dirs' = With(dirs, free, [up |-> top.d, name |-> Mnt, link |-> FALSE]) /\ helper' = "prepared"
              /\ UNCHANGED phase
         ELSE /\ UNCHANGED dirs
              /\ IF Ordinary(top, Mnt) # {} THEN helper' = "prepared" /\ UNCHANGED phase
                 ELSE phase' = "undo" /\ UNCHANGED helper
  /\ UNCHANGED <<stage, mounts, lazy, held, walk, leases, tool, pinned, points, history>>

\* Volume::view clones a volume's whole tree, for each of the volumes.
GetView ==
  /\ phase = "mounted"
  /\ IF bootstrap THEN helper = "prepared" ELSE helper = "none"
  /\ LET seen == Of("supervisor") \cup Of("tool")
         Copy(x) == [x EXCEPT !.parent = IF @ = None THEN None ELSE View(@[2])]
     IN  mounts' = [m \in DOMAIN mounts \cup {View(x[2]) : x \in seen} |->
                      IF m[1] = "helper" THEN Copy(mounts[CHOOSE x \in seen : x[2] = m[2]]) ELSE mounts[m]]
  /\ helper' = "viewed" /\ pinned' = TRUE
  /\ UNCHANGED <<stage, dirs, lazy, held, supervisor, points, history>>

--------------------------------------------------------------------------
(* The helper. *)

Idle == UNCHANGED <<stage, held, supervisor, moves, directives>>

\* Dropping its mounts, detached or attached, takes all of its tree away lazily.
Abandon ==
  /\ helper' = "failed" /\ pinned' = FALSE /\ points' = <<>>
  /\ Detach(Of("helper")) /\ Idle /\ UNCHANGED dirs
HelperFails == ~fault /\ fault' = TRUE /\ Abandon

\* Mount::with_output: the mount point is looked at before anything is attached.
WithOutput ==
  /\ helper = "viewed"
  /\ \/ IF bootstrap => Ordinary(Top(Base), Mnt) # {}
        THEN helper' = "attach" /\ Idle /\ UNCHANGED <<dirs, mounts, lazy, pinned, points, fault>>
        ELSE Abandon /\ UNCHANGED fault
     \/ HelperFails

\* Mount::attach: the root on its mount point, then the output, and all that lies in it, on /mnt.
Attach ==
  /\ helper = "attach"
  /\ \/ /\ helper' = "capture"
        /\ IF bootstrap
           THEN \E d \in Ordinary(Top(Base), Mnt) : mounts' = [mounts EXCEPT ![View(0)].parent = Base, ![View(0)].on = d]
           ELSE UNCHANGED mounts
        /\ Idle /\ UNCHANGED <<dirs, lazy, pinned, points, fault>>
     \/ HelperFails

\* The steps from the top of a tree down to each member.
Along(up, step) ==
  LET f[x \in DOMAIN up] == IF up[x] = None THEN <<>> ELSE f[up[x]] \o step[x] IN f
Ups == [d \in DOMAIN dirs |-> dirs[d].up]

\* A directory's path in its filesystem.
Rel == Along(Ups, [d \in DOMAIN dirs |-> <<dirs[d].name>>])

\* What the mount table says of a mount below the view: its path from there.
Paths == Along([m \in DOMAIN mounts |-> mounts[m].parent],
               [m \in DOMAIN mounts |-> IF mounts[m].parent = None THEN <<>> ELSE Rel[mounts[m].on]])

\* The shortest paths first.
ParentsFirst(set) ==
  {q \in [1..Cardinality(set) -> set] :
     Range(q) = set /\ \A i, j \in DOMAIN q : i < j => Len(Paths[q[i]]) <= Len(Paths[q[j]])}

\* MountChildren::capture pins the directory each child is in, and checks that its mount is what is there.
Found(m) ==
  LET path == Paths[m]
  IN  {[mount |-> m, parent |-> l, name |-> Last(path)] :
         l \in {x \in Walk(Top(Base), Front(path)) : Walk(x, <<Last(path)>>) = {Top(m)}}}
Children == Of("helper") \ {Base}

Capture ==
  /\ helper = "capture"
  /\ \/ IF \A m \in Children : Found(m) # {}
        THEN /\ \E q \in ParentsFirst(Children) : points' = [i \in DOMAIN q |-> CHOOSE p \in Found(q[i]) : TRUE]
             /\ helper' = "running"
             /\ Idle /\ UNCHANGED <<dirs, mounts, lazy, pinned, fault>>
        ELSE Abandon /\ UNCHANGED fault
     \/ HelperFails

\* Mutant: the descriptor of the view stays open.
CommandEndsPinned ==
  /\ helper = "running"
  /\ helper' = "closing" /\ Idle /\ UNCHANGED <<dirs, mounts, lazy, pinned, points, fault>>

\* The command has returned and everything it started is gone; close drops the root first.
CommandEnds ==
  /\ helper = "running"
  /\ \/ helper' = "closing" /\ pinned' = FALSE /\ Idle /\ UNCHANGED <<dirs, mounts, lazy, points, fault>>
     \/ HelperFails

\* The path of a captured mount: its name in the directory that is pinned.
Named(l, name) == {Cross(At(l, d)) : d \in Entry(l, name)}

Lookup(p) == Named(p.parent, p.name)

HelperRetains == helper' = "retained" /\ Idle /\ UNCHANGED <<dirs, mounts, lazy, pinned, points>>

\* MountChildren::close, from the last to the first.
CloseChild ==
  /\ helper = "closing" /\ points # <<>>
  /\ \/ IF \E l \in Lookup(Last(points)) : l = Top(l.m) /\ ~Busy(l.m)
        THEN /\ \E l \in Lookup(Last(points)) : mounts' = Without({l.m})
             /\ points' = Front(points)
             /\ Idle /\ UNCHANGED <<dirs, lazy, helper, pinned, fault>>
        ELSE HelperRetains /\ UNCHANGED fault
     \/ ~fault /\ fault' = TRUE /\ HelperRetains

\* AttachmentLease::close, at last.
CloseView ==
  /\ helper = "closing" /\ points = <<>>
  /\ IF Busy(Base) THEN HelperRetains /\ UNCHANGED fault
     ELSE /\ mounts' = Without({Base}) /\ helper' = "closed"
          /\ Idle /\ UNCHANGED <<dirs, lazy, pinned, points, fault>>

\* The helper ends, and its namespace with it.  Without its word that all is closed, the supervisor gives
\* nothing up (Step::teardown_after_command); it keeps the volumes only if the command succeeded.
HelperExits ==
  /\ helper \in {"failed", "retained", "closed"}
  /\ Detach(Of("helper")) /\ pinned' = FALSE /\ points' = <<>>
  /\ \/ helper = "closed" /\ helper' = "none" /\ phase' \in {"close", "undo"}
     \/ helper = "failed" /\ helper' = "lost" /\ phase' = "undo"
     \/ helper = "retained" /\ helper' = "lost" /\ phase' = "retained"
  /\ UNCHANGED <<stage, dirs, held, walk, leases, tool, history>>

--------------------------------------------------------------------------
(* The command moves directories that are not mount points where it runs, or puts links in their place. *)

Above(d) == {d} \cup Range(Along(Ups, [x \in DOMAIN dirs |-> <<dirs[x].up>>])[d])
IsMountPoint(d) == \E m \in DOMAIN mounts : mounts[m].on = d
Free(up, name) == \A d \in DOMAIN dirs : dirs[d].up # up \/ dirs[d].name # name

Move ==
  /\ helper = "running" /\ moves < MaxMoves
  /\ \E d \in DOMAIN dirs : d[2] # 0 /\ ~IsMountPoint(d) /\
       \E to \in {x \in DOMAIN dirs : x[1] = d[1] /\ ~dirs[x].link /\ d \notin Above(x)}, name \in Names :
         Free(to, name) /\ dirs' = [dirs EXCEPT ![d].up = to, ![d].name = name]
  /\ moves' = moves + 1
  /\ UNCHANGED <<stage, mounts, lazy, held, supervisor, helperState, directives, fault>>

PutLink ==
  /\ helper = "running" /\ moves < MaxMoves
  /\ \E d \in DOMAIN dirs :
       /\ d[2] # 0 /\ ~IsMountPoint(d) /\ \A x \in DOMAIN dirs : dirs[x].up # d
       /\ ~dirs[d].link /\ dirs' = [dirs EXCEPT ![d].link = TRUE]
  /\ moves' = moves + 1
  /\ UNCHANGED <<stage, mounts, lazy, held, supervisor, helperState, directives, fault>>

\* Somebody opens a file through one of the mounts and keeps it open.
Hold ==
  /\ helper = "running" /\ held = {}
  /\ \E m \in DOMAIN mounts : held' = {m}
  /\ UNCHANGED <<stage, dirs, mounts, lazy, supervisor, helperState, history>>

--------------------------------------------------------------------------
(* The supervisor unmounts. *)

\* A directive without a helper is over, or its setup failed (copy_directive, Assigned::reject).
Finish ==
  /\ phase = "mounted" /\ helper \in {"none", "prepared"}
  /\ phase' \in {"close", "undo"} /\ helper' = "none"
  /\ UNCHANGED <<stage, dirs, mounts, lazy, held, walk, leases, tool, pinned, points, history>>

\* Volume::into_snapshot, when the directives are done.
Seal ==
  /\ phase = "idle" /\ phase' = "seal"
  /\ UNCHANGED <<stage, dirs, mounts, lazy, held, walk, leases, tool, helperState, history>>

\* Which lease is given up next: a volume's mounts; its stage filesystems when it is sealed or could not be mounted.
VolumeTurn ==
  \/ phase \in {"close", "undo"} /\ Len(leases) > Len(plan)
  \/ phase \in {"seal", "rollback"} /\ leases # <<>>
ToolTurn ==
  /\ tool # None
  /\ \/ phase \in {"close", "undo"} /\ Len(leases) = Len(plan)
     \/ phase = "rollback" /\ leases = <<>>
     \/ phase = "stranded"

\* The path of a lease: its own directory, or a name in the directory that is pinned.
Target(l) == IF l.parent = None THEN {Top(l.mount)} ELSE Named(l.parent, l.name)

\* The tools are unmounted even when the output could not be mounted and is retained.
Retain == phase' = IF phase = "rollback" /\ tool # None THEN "stranded" ELSE "retained"

\* MountLease::close, first half: what is written reaches the disk before the last use is given up.
Release ==
  /\ VolumeTurn /\ Last(leases).open
  /\ \/ leases' = [leases EXCEPT ![Len(leases)].open = FALSE] /\ UNCHANGED <<phase, fault>>
     \/ ~fault /\ fault' = TRUE /\ Retain /\ UNCHANGED leases
  /\ UNCHANGED <<stage, dirs, mounts, lazy, held, walk, tool, helperState, moves, directives>>

Unmount(l) ==
  IF Busy(l.m) \/ l # Top(l.m)
  THEN Retain /\ UNCHANGED <<mounts, leases>>
  ELSE mounts' = Without({l.m}) /\ leases' = Front(leases) /\ UNCHANGED phase

Close ==
  /\ VolumeTurn /\ ~Last(leases).open
  /\ IF Target(Last(leases)) = {} THEN Retain /\ UNCHANGED <<mounts, leases>>
     ELSE \E l \in Target(Last(leases)) : Unmount(l)
  /\ UNCHANGED <<stage, dirs, lazy, held, walk, tool, helperState, history>>

\* BootstrapVolumes::unmount_until and mount_root_until, for the tools.
ReleaseTool ==
  /\ ToolTurn /\ tool.open
  /\ \/ tool' = [open |-> FALSE] /\ UNCHANGED <<phase, fault>>
     \/ ~fault /\ fault' = TRUE /\ phase' = "retained" /\ UNCHANGED tool
  /\ UNCHANGED <<stage, dirs, mounts, lazy, held, walk, leases, helperState, moves, directives>>

CloseTool ==
  /\ ToolTurn /\ ~tool.open
  /\ IF Busy(Tool) THEN phase' = "retained" /\ UNCHANGED <<mounts, tool>>
     ELSE mounts' = Without({Tool}) /\ tool' = None /\ phase' = IF phase = "stranded" THEN "retained" ELSE phase
  /\ UNCHANGED <<stage, dirs, lazy, held, walk, leases, helperState, history>>

\* The volumes are unmounted: kept for the next directive, or dropped.
Unmounted ==
  /\ Len(leases) = Len(plan) /\ tool = None
  /\ \/ /\ phase = "close" /\ phase' = "idle"
        /\ UNCHANGED <<stage, dirs, mounts, lazy, held, walk, leases, tool, helperState, history>>
     \/ phase = "undo" /\ Drop /\ UNCHANGED fault

\* Mutant: the end of a rollback is not recognised.
ClosedOnly ==
  /\ phase = "seal" /\ leases = <<>> /\ tool = None /\ phase' = "unmounted"
  /\ UNCHANGED <<stage, dirs, mounts, lazy, held, walk, leases, tool, helperState, history>>

\* All that the stage mounted is gone.
Closed ==
  /\ phase \in {"seal", "rollback"} /\ leases = <<>> /\ tool = None
  /\ phase' = IF phase = "seal" THEN "unmounted" ELSE "refused"
  /\ UNCHANGED <<stage, dirs, mounts, lazy, held, walk, leases, tool, helperState, history>>

--------------------------------------------------------------------------
Steps ==
  \/ Populate \/ Begin \/ MountTool \/ MountRoot \/ Resolve \/ Component \/ Mounted \/ PrepareOutput \/ GetView
  \/ WithOutput \/ Attach \/ Capture \/ CommandEnds \/ CloseChild \/ CloseView \/ HelperExits
  \/ Finish \/ Seal \/ Release \/ Close \/ ReleaseTool \/ CloseTool \/ Unmounted \/ Closed
Next == Steps \/ Move \/ PutLink \/ Hold

\* Both programs go on; commands end (their deadline sees to it), and nobody else has to do anything.
Spec == Init /\ [][Next]_vars /\ WF_vars(Steps)

--------------------------------------------------------------------------
Locations == [m : Ids, d : DOMAIN dirs]
Phases ==
  {"populate", "idle", "tool", "root", "attach", "mounted", "close", "undo", "rollback", "stranded", "seal",
   "retained", "unmounted", "refused"}

\* The state stays well formed: what a mount is on is a mount that is there, and a
\* directory that is there (Volume, MountLease, MountChildren).
TypeOK ==
  /\ bootstrap \in BOOLEAN /\ pinned \in BOOLEAN /\ fault \in BOOLEAN
  /\ moves \in 0..MaxMoves /\ directives \in 0..MaxDirectives
  /\ DOMAIN mounts \cup lazy \cup held \subseteq Ids
  /\ \A m \in DOMAIN mounts : mounts[m].parent # None => mounts[m].parent \in DOMAIN mounts /\ mounts[m].on \in DOMAIN dirs
  /\ \A d \in DOMAIN dirs : dirs[d].up # None => dirs[d].up \in DOMAIN dirs
  /\ phase \in Phases
  /\ helper \in {"none", "prepared", "viewed", "attach", "capture", "running", "closing", "closed", "retained", "failed", "lost"}
  /\ walk # None => walk.at \in Locations
  /\ tool # None => tool \in [open : BOOLEAN]
  /\ \A i \in DOMAIN leases : leases[i].parent # None => leases[i].parent \in Locations
  /\ \A i \in DOMAIN points : points[i].parent \in Locations

\* Whenever a directive begins, every path of the plan shows its own filesystem, a mount below another one
\* included; so it does below the root the command gets.  No image, and nothing an earlier command
\* did, can have them attached elsewhere (StageMounts::attach, Volume::view, Mount::attach).
Starting == {"none", "prepared", "viewed", "attach", "capture"}
PlanIsShown ==
  \A i \in DOMAIN plan :
    /\ phase = "mounted" /\ helper \in Starting => Walk(Top(Root), plan[i]) = {Top(Clone(i))}
    /\ helper = "capture" => Walk(Top(Base), (IF bootstrap THEN <<Mnt>> ELSE <<>>) \o plan[i]) = {Top(View(i))}

\* A command starts with every mount of its view captured, and none before the
\* mount it lies on (MountChildren::capture).
CapturedAll ==
  helper = "running" =>
    /\ {points[i].mount : i \in DOMAIN points} = Children
    /\ \A i, j \in DOMAIN points : i < j => mounts[points[i].mount].parent # points[j].mount

\* Wherever commands move the directories above a mount point, what a captured path
\* names is the mount it was captured for (MountChildren, MountLease::close).
PathsHold ==
  /\ helper = "closing" => \A i \in DOMAIN points : Lookup(points[i]) = {Top(points[i].mount)}
  /\ \A i \in DOMAIN leases : Target(leases[i]) = {Top(leases[i].mount)}

\* Unless something failed, only a mount that somebody else uses keeps either side
\* from unmounting everything it mounted: the order never stands in its own way.
RetainedForCause == {phase, helper} \cap {"retained", "stranded"} # {} => fault \/ held # {}

\* A clean end is evidence: none of the mounts is there, out of reach or in use
\* (AttachmentLease::close, Volume::unmount).
CleanMeansGone ==
  /\ helper = "closed" => Of("helper") = {} /\ \A m \in lazy : m[1] # "helper"
  /\ phase = "unmounted" => Of("own") \cup Of("supervisor") \cup Of("tool") = {} /\ \A m \in lazy : m[1] = "helper"

\* Mounts are shown, captured and taken away as planned, and a clean end says so
\* truly (Volume::mount_ext4, Volume::unmount, MountChildren).
MountsAreKept ==
  TypeOK /\ PlanIsShown /\ CapturedAll /\ PathsHold /\ RetainedForCause /\ CleanMeansGone

\* A stage's mounts end up unmounted, refused or retained (Volume::unmount).
MountsEnd == <>(phase \in {"unmounted", "refused", "retained"})

--------------------------------------------------------------------------
(* The inductive invariant behind these properties. *)

PlanInv ==
  /\ plan \in Seq(Seq(STRING) \ {<<>>}) /\ Forest(dirs, Len(plan) + 1)
  /\ \A i, j \in DOMAIN plan : (plan[i] = plan[j] => i = j) /\ (i < j => Len(plan[i]) <= Len(plan[j]))

\* A mount lies in an older one of its side, not on its top, and no two at one place; the output's root
\* may lie in one that lies in none.
TreeInv ==
  \A m \in DOMAIN mounts :
    LET x == mounts[m]
    IN  /\ m \in Ids /\ m[2] <= Len(plan) + 1 /\ x = [fs |-> m[2], parent |-> x.parent, on |-> x.on]
        /\ x.parent # None =>
             /\ x.parent \in DOMAIN mounts /\ x.parent[1] = m[1]
             /\ x.parent[2] < m[2] \/ (m[2] = 0 /\ mounts[x.parent].parent = None)
             /\ x.on \in DOMAIN dirs /\ x.on[1] = x.parent[2] /\ x.on[2] # 0
             /\ \A y \in DOMAIN mounts : mounts[y].parent = x.parent /\ mounts[y].on = x.on => y = m

\* A pinned directory and a name lead to the place of a mount.
Pinned(p) ==
  /\ p.mount \in DOMAIN mounts /\ p.parent \in Locations
  /\ mounts[p.mount].parent = p.parent.m
  /\ dirs[mounts[p.mount].on].up = p.parent.d /\ dirs[mounts[p.mount].on].name = p.name

\* The leases are for the stage's mounts, in their order.
Leased(i) == IF i <= Len(plan) THEN Own(i) ELSE Clone(i - Len(plan) - 1)
LeaseInv ==
  /\ leases \in Seq([mount : Ids, parent : AnyLocation \cup {None}, name : STRING \cup {None}, open : BOOLEAN])
  /\ Len(leases) <= 2 * Len(plan) + 1
  /\ Of("own") \cup Of("supervisor") = {leases[i].mount : i \in DOMAIN leases}
  /\ \A i \in DOMAIN leases :
       /\ leases[i].mount = Leased(i)
       /\ IF i <= Len(plan) + 1 THEN leases[i].parent = None /\ mounts[Leased(i)].parent = None ELSE Pinned(leases[i])

ToolInv ==
  /\ tool # None => tool \in [open : BOOLEAN]
  /\ Of("tool") = (IF tool = None THEN {} ELSE {Tool})
  /\ tool # None => mounts[Tool].parent = None

PhaseInv ==
  /\ phase = "populate" => Len(leases) <= Len(plan)
  /\ phase \in {"idle", "tool", "root"} => Len(leases) = Len(plan)
  /\ phase = "attach" => Len(leases) > Len(plan)
  /\ phase = "mounted" => Len(leases) = 2 * Len(plan) + 1 /\ helper # "lost"
  /\ phase \in {"close", "undo"} => Len(leases) >= Len(plan)
  /\ phase = "tool" => bootstrap
  /\ phase \in {"populate", "idle", "tool", "seal", "unmounted", "refused"} => tool = None
  /\ phase \in {"root", "attach", "mounted"} => (tool # None <=> bootstrap)
  /\ helper = "lost" => phase \in {"undo", "retained", "refused"}
  /\ helper \notin {"none", "lost"} => phase = "mounted"
  /\ phase # "attach" => walk = None
  /\ phase \in {"unmounted", "refused"} => leases = <<>>

\* A location that is reached by its path: no link on the way, and nothing mounted there.
Clear(l) == \A d \in Above(l.d) : d[2] # 0 => ~dirs[d].link /\ On(At(l, d)) = {}
PathTo(l) == Paths[l.m] \o Rel[l.d]

WalkInv ==
  walk # None =>
    /\ Nth \in DOMAIN plan /\ walk.left \in Seq(STRING) \ {<<>>}
    /\ walk.at \in Locations /\ walk.at.m \in Of("supervisor") /\ walk.at.d[1] = walk.at.m[2]
    /\ Clear(walk.at) /\ PathTo(walk.at) \o walk.left = plan[Nth]

\* The place of a mount of the plan is reached by its path.
ShownInv ==
  phase \in {"attach", "mounted"} /\ helper \in Starting =>
    \A i \in 1..(Nth - 1) :
      LET on == mounts[Clone(i)].on
      IN  /\ Paths[Clone(i)] = plan[i] /\ ~dirs[on].link
          /\ Clear([m |-> mounts[Clone(i)].parent, d |-> dirs[on].up])

Viewing == {"viewed", "attach", "capture", "running"}
HelperInv ==
  /\ helper \in {"none", "prepared", "closed", "failed", "lost"} => Of("helper") = {} /\ points = <<>> /\ ~pinned
  /\ helper \in Viewing => Of("helper") = {View(i) : i \in 0..Len(plan)} \cup (IF bootstrap THEN {ToolView} ELSE {})
  /\ helper \in Viewing \ {"running"} => points = <<>>
  /\ points \in Seq([mount : Ids, parent : AnyLocation, name : STRING])
  /\ \A i \in DOMAIN points : points[i].parent \in Locations /\ points[i].parent.m[1] = "helper" /\ points[i].mount # Base
  /\ helper \in {"running", "closing"} =>
       /\ \A i \in DOMAIN points : Pinned(points[i])
       /\ \A i, j \in DOMAIN points :
            (points[i].mount = points[j].mount => i = j) /\ (i < j => mounts[points[i].mount].parent # points[j].mount)
       /\ Base \in DOMAIN mounts /\ mounts[Base].parent = None /\ Children = {points[i].mount : i \in DOMAIN points}
  /\ helper = "closing" => ~pinned

\* Until the command runs, the view is the tree that was mounted.
ViewInv ==
  helper \in {"viewed", "attach", "capture"} =>
    /\ \A i \in 1..Len(plan) :
         mounts[View(i)].on = mounts[Clone(i)].on /\ mounts[View(i)].parent = View(mounts[Clone(i)].parent[2])
    /\ mounts[Base].parent = None
    /\ bootstrap /\ helper # "capture" => mounts[View(0)].parent = None
    /\ bootstrap /\ helper = "capture" =>
         LET x == mounts[View(0)]
         IN  /\ x.parent = Base /\ dirs[x.on].up = <<Len(plan) + 1, 0>> /\ dirs[x.on].name = Mnt /\ ~dirs[x.on].link

UseInv ==
  /\ phase # "refused" => \A m \in lazy : m[1] = "helper"
  /\ lazy # {} => helper \in {"failed", "lost"} \/ phase = "refused"
  /\ RetainedForCause

IInv ==
  TypeOK /\ PlanInv /\ TreeInv /\ LeaseInv /\ ToolInv /\ PhaseInv /\ WalkInv /\ ShownInv /\ HelperInv /\ ViewInv /\ UseInv
=============================================================================
