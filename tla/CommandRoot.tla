----------------------------- MODULE CommandRoot -----------------------------
(***************************************************************************)
(* The setup helper turns the view of an image into the root of a command  *)
(* (src/src/isolation/root.rs): it pins where /dev, /proc and /sys are in  *)
(* the image and in the output view, mounts its own there, puts a private  *)
(* shell into an image without one (shell.rs), makes a clone of the tree   *)
(* its root, and gives up its rights.  The image is untrusted: any of the  *)
(* names may be a link, a file, missing, or inside another one.            *)
(*                                                                         *)
(* One process works alone, and after any error it only exits.  A location *)
(* is <<view, node>>, since both views may show the same filesystem.       *)
(***************************************************************************)
EXTENDS Naturals, Sequences, SequencesExt

CONSTANTS
  Inputs,    \* [disk, over, bootstrap, absent, libraries, extra]: images, kernels and appliances
  MaxLinks   \* links a lookup follows

VARIABLES
  given,     \* the input
  disk,      \* nodes [up, name, kind, to, layer], 1 and 2 the tops of the image and the output
  over,      \* what is mounted: from the location covered to the one that shows instead
  todo,      \* what is left of the setup
  targets,   \* the pinned mount points
  loose,     \* control files of a mounted proc that can be written
  private,   \* top directories covered for the shell
  phase, fault

mounted == <<disk, over>>
vars == <<given, mounted, todo, targets, loose, private, phase, fault>>

Views == {"root", "output"}
Kinds == {"dir", "file", "link"}
Layers == {"root", "output", "stage", "dev", "proc", "sys", "pts", "shm", "shell"}

TreeOf(d) ==
  /\ \A n \in DOMAIN d : d[n] \in [up : 0..(n - 1), name : STRING, kind : Kinds, to : Seq(STRING), layer : Layers]
  /\ \A n, m \in DOMAIN d : d[n].up = d[m].up /\ d[n].up # 0 /\ d[n].name = d[m].name => n = m

\* Filesystems are trees whose names are unique, and directories cover directories.
ImageAssumption(d, o) ==
  /\ d \in Seq([up : Nat, name : STRING, kind : Kinds, to : Seq(STRING), layer : {"root", "output", "stage"}])
  /\ TreeOf(d) /\ Len(d) >= 2 /\ \A n \in 1..2 : d[n].up = 0 /\ d[n].kind = "dir"
  /\ DOMAIN o \subseteq Views \X DOMAIN d
  /\ \A l \in DOMAIN o : o[l] \in Views \X DOMAIN d /\ d[l[2]].kind = "dir" /\ d[o[l][2]].kind = "dir"

RuntimeNames == <<"dev", "proc", "sys">>
Tools == << <<"bin", "sh">>, <<"bin", "cat">> >>

\* The appliance's libraries are files in directories, which are not the kernel's.
LibraryAssumption(libraries) ==
  /\ libraries \in Seq(Seq(STRING))
  /\ \A i \in DOMAIN libraries : Len(libraries[i]) >= 2 /\ Head(libraries[i]) \notin {"dev", "proc", "sys"}
  /\ LET all == Tools \o libraries
     IN  \A i, j \in DOMAIN all : Len(all[i]) < Len(all[j]) => SubSeq(all[j], 1, Len(all[i])) # all[i]

RootAssumption ==
  /\ MaxLinks \in Nat /\ {"/", "dev", "proc", "sys", "pts", "shm", "bin", "sh", "cat"} \subseteq STRING
  /\ \A g \in Inputs : /\ ImageAssumption(g.disk, g.over) /\ LibraryAssumption(g.libraries)
                       /\ g.bootstrap \in BOOLEAN /\ g.extra \in BOOLEAN /\ g.absent \subseteq STRING

TopOf(view) == <<view, IF view = "root" THEN 1 ELSE 2>>
Controls == <<"sys", "sysrq-trigger", "irq", "bus">>

\* RuntimeTargets::resolve, for one of the views.
Pin(view) == [i \in 1..3 |-> <<"directory", view, RuntimeNames[i]>>] \o << <<"check", view, "targets">> >>
Runtime(view) == << <<"attach", view, "proc">>, <<"attach", view, "sys">> >>

\* CommandDevices::attach
Devices(bootstrap) ==
  << <<"attach", "root", "dev">>, <<"below", "root", "pts">>, <<"below", "root", "shm">> >>
  \o (IF bootstrap THEN << <<"clone", "output", "dev">> >> ELSE <<>>)

\* CommandRoot::enter: the output is looked at first, but the root's are mounted first.
Enter(bootstrap) ==
  (IF bootstrap THEN Pin("output") ELSE <<>>) \o Pin("root")
  \o Runtime("root") \o (IF bootstrap THEN Runtime("output") ELSE <<>>) \o Devices(bootstrap)
  \o << <<"shell", "root", "sh">>, <<"pivot", "root", "tree">>, <<"start", "root", "command">> >>

Init ==
  /\ given \in Inputs
  /\ disk = given.disk /\ over = given.over
  /\ todo = Enter(given.bootstrap)
  /\ targets = <<>> /\ loose = {} /\ private = {}
  /\ phase = "setup" /\ fault = FALSE

--------------------------------------------------------------------------
(* Lookups *)

Cross(o, l) == IF l \in DOMAIN o THEN o[l] ELSE l
Kind(l) == disk[l[2]].kind
EntryOf(d, l, name) == {n \in DOMAIN d : d[n].up = l[2] /\ d[n].name = name}
Entry(l, name) == EntryOf(disk, l, name)
Error(e) == [err |-> e, at |-> <<"root", 0>>]
Found(l) == [err |-> "ok", at |-> l]

\* One name of a lookup w, in nodes d where o is mounted: it stops with an error, or goes on.
Stops(e, w) == [err |-> e, on |-> w]
Goes(w) == [err |-> "ok", on |-> w]
OneName(d, o, root, flags, w) ==
  LET entry == EntryOf(d, w.at, Head(w.path))
      next == <<w.at[1], CHOOSE n \in entry : TRUE>>
      node == d[next[2]]
  IN  IF d[w.at[2]].kind # "dir" THEN Stops("NOTDIR", w)
      ELSE IF entry = {} THEN Stops("NOENT", w)
      ELSE IF node.kind = "link"
      THEN IF "links" \notin flags \/ w.links = 0 THEN Stops("LOOP", w)
           ELSE Goes([at |-> root, path |-> node.to \o Tail(w.path), links |-> w.links - 1])
      ELSE IF next \in DOMAIN o /\ "mounts" \notin flags THEN Stops("XDEV", w)
      ELSE Goes([at |-> Cross(o, next), path |-> Tail(w.path), links |-> w.links])

\* openat2 below a directory that is its root.  The flags: "links" are followed (IN_ROOT), mounts are crossed ("mounts").
Lookup(d, o, root, flags) ==
  LET look[w \in [at : Views \X DOMAIN d, path : Seq(STRING), links : 0..MaxLinks]] ==
        IF w.path = <<>> THEN Found(w.at)
        ELSE LET s == OneName(d, o, root, flags, w) IN IF s.err # "ok" THEN Error(s.err) ELSE look[s.on]
  IN  look
OpenIn(d, o, root, path, flags) == Lookup(d, o, root, flags)[[at |-> root, path |-> path, links |-> MaxLinks]]
Open(root, path, flags) == OpenIn(disk, over, root, path, flags)

OpenDir(root, path, flags) ==
  LET r == Open(root, path, flags) IN IF r.err = "ok" /\ Kind(r.at) # "dir" THEN Error("NOTDIR") ELSE r

Node(up, name, kind, layer) == [up |-> up, name |-> name, kind |-> kind, to |-> <<>>, layer |-> layer]
Free(l, name) == Entry(l, name) = {}

\* A function with one more argument, or another value there.
With(f, x, y) == [z \in DOMAIN f \cup {x} |-> IF z = x THEN y ELSE f[z]]

--------------------------------------------------------------------------
At(op) == phase = "setup" /\ Head(todo)[1] = op
View == Head(todo)[2]
What == Head(todo)[3]
Done == todo' = Tail(todo) /\ UNCHANGED <<given, phase, fault>>
Fail == phase' = "failed" /\ UNCHANGED <<given, mounted, todo, targets, loose, private, fault>>

\* Any of the system calls.
Interrupted ==
  /\ phase = "setup" /\ fault' = TRUE /\ phase' = "failed"
  /\ UNCHANGED <<given, mounted, todo, targets, loose, private>>

\* RuntimeTargets::directory: a missing name is made; a link that leads nowhere is not.
Directory ==
  /\ At("directory")
  /\ LET top == TopOf(View)
         found == OpenDir(top, <<What>>, {"links"})
         make == found.err = "NOENT" /\ Free(top, What)
     IN  IF found.err # "ok" /\ ~make THEN Fail
         ELSE /\ disk' = IF make THEN Append(disk, Node(top[2], What, "dir", View)) ELSE disk
              /\ targets' = With(targets, <<View, What>>, IF make THEN <<View, Len(disk) + 1>> ELSE found.at)
              /\ Done /\ UNCHANGED <<over, loose, private>>

Ancestors(n) ==
  LET go[x \in DOMAIN disk] == IF disk[x].up = 0 THEN {} ELSE {disk[x].up} \cup go[disk[x].up]
  IN  go[n]

\* reject_nested, both ways, and the keys compared.
Apart(a, b) == a # b /\ a[2] \notin Ancestors(b[2]) /\ b[2] \notin Ancestors(a[2])

CheckTargets ==
  /\ At("check")
  /\ LET t(name) == targets[<<View, name>>]
     IN  IF \A i, j \in 1..3 : t(RuntimeNames[i]) # TopOf(View) /\ (i < j => Apart(t(RuntimeNames[i]), t(RuntimeNames[j])))
         THEN Done /\ UNCHANGED <<mounted, targets, loose, private>>
         ELSE Fail

\* Mutant: the first one that is missing ends the loop.
ReadOnlyToFirst(absent) ==
  {Controls[i] : i \in {k \in 1..Len(Controls) : \A j \in 1..k : Controls[j] \notin absent}}

\* ProcRestrictions::install, path by path: one the kernel lacks is passed over, and on any
\* other one a read-only view of it is mounted.
ReadOnly(absent) ==
  LET after[i \in 0..Len(Controls)] ==
        IF i = 0 THEN {} ELSE IF Controls[i] \in absent THEN after[i - 1] ELSE after[i - 1] \cup {Controls[i]}
  IN  after[Len(Controls)]

\* What is writable afterwards, of what this kernel has.
Unrestricted(absent) == (Range(Controls) \ absent) \ ReadOnly(absent)

\* RuntimeFilesystem::attach, and the private devices with their two directories.
Attach ==
  /\ At("attach")
  /\ LET top == Len(disk) + 1
         new == <<Node(0, "/", "dir", What)>> \o
                (IF What = "dev" THEN <<Node(top, "pts", "dir", "dev"), Node(top, "shm", "dir", "dev")>> ELSE <<>>)
     IN  /\ disk' = disk \o new
         /\ over' = With(over, targets[<<View, What>>], <<View, top>>)
  /\ loose' = IF What = "proc" THEN loose \cup ({View} \X Unrestricted(given.absent)) ELSE loose
  /\ Done /\ UNCHANGED <<targets, private>>

\* The top of the devices in the root.
DevTop == over[targets[<<"root", "dev">>]]

\* DeviceRuntime::attach
AttachBelow ==
  /\ At("below")
  /\ disk' = Append(disk, Node(0, "/", "dir", What))
  /\ \E n \in Entry(DevTop, What) : over' = With(over, <<"root", n>>, <<"root", Len(disk) + 1>>)
  /\ Done /\ UNCHANGED <<targets, loose, private>>

\* The same devices in the output view: a recursive clone.
CloneDevices ==
  /\ At("clone")
  /\ LET below == {n \in DOMAIN disk : disk[n].up = DevTop[2] /\ <<"root", n>> \in DOMAIN over}
     IN  over' = [l \in {targets[<<"output", "dev">>]} \cup {<<"output", n>> : n \in below} \cup DOMAIN over |->
                    IF l = targets[<<"output", "dev">>] THEN <<"output", DevTop[2]>>
                    ELSE IF l[1] = "output" /\ l[2] \in below THEN <<"output", over[<<"root", l[2]>>][2]>> ELSE over[l]]
  /\ Done /\ UNCHANGED <<disk, targets, loose, private>>

--------------------------------------------------------------------------
(* The shell *)

Root == TopOf("root")

\* shell_present, and the lookups that end the setup.
Sought == Open(Root, <<"bin", "sh">>, {"links", "mounts"})
ShellPresent == Sought.err = "ok" /\ Kind(Sought.at) = "file"
SearchFails == Sought.err \notin {"ok", "NOENT", "NOTDIR"}

\* reject_non_regular
NonRegular(path) ==
  LET r == Open(Root, path, {"mounts"}) IN r.err \notin {"ok", "NOENT"} \/ (r.err = "ok" /\ Kind(r.at) # "file")

\* shell::install: what is to be placed; a library that is a tool is there already when its turn comes.
ChooseShell ==
  /\ At("shell")
  /\ LET all == Tools \o given.libraries
         place == [i \in DOMAIN all |-> <<"place", "root", all[i]>>]
     IN  IF ShellPresent THEN todo' = Tail(todo) /\ UNCHANGED <<given, mounted, targets, loose, private, phase, fault>>
         ELSE IF SearchFails \/ \E i \in 1..2 : NonRegular(Tools[i]) THEN Fail
         ELSE todo' = place \o Tail(todo) /\ UNCHANGED <<given, mounted, targets, loose, private, phase, fault>>

\* Mutant: a directory that is there is used as it is.
CoveredIfMissing(top) ==
  LET found == OpenDir(Root, <<top>>, {})
      made == Append(disk, Node(1, top, "dir", "root"))
  IN  IF found.err = "NOENT"
      THEN [err |-> "ok", disk |-> Append(made, Node(0, "/", "dir", "shell")),
            over |-> With(over, <<"root", Len(made)>>, <<"root", Len(made) + 1>>), at |-> <<"root", Len(made) + 1>>]
      ELSE [err |-> IF found.err = "XDEV" /\ top \in private THEN "ok" ELSE found.err, disk |-> disk, over |-> over,
            at |-> OpenDir(Root, <<top>>, {"mounts"}).at]

\* Layout::directory: [err, disk, over, at], at the top of the private filesystem.
Covered(top) ==
  LET found == OpenDir(Root, <<top>>, {})
      there == IF found.err = "NOENT" THEN <<"root", Len(disk) + 1>> ELSE found.at
      disk1 == IF found.err = "NOENT" THEN Append(disk, Node(1, top, "dir", "root")) ELSE disk
  IN  IF top \in private THEN [err |-> "ok", disk |-> disk, over |-> over, at |-> OpenDir(Root, <<top>>, {"mounts"}).at]
      ELSE IF found.err \notin {"ok", "NOENT"} THEN [err |-> found.err, disk |-> disk, over |-> over, at |-> Root]
      ELSE [err |-> "ok", disk |-> Append(disk1, Node(0, "/", "dir", "shell")),
            over |-> With(over, there, <<"root", Len(disk1) + 1>>), at |-> <<"root", Len(disk1) + 1>>]

\* write_bytes below that directory: the directories of the path, then the file.
Into(s, name, kind) ==
  LET child == {n \in DOMAIN s.disk : s.disk[n].up = s.at /\ s.disk[n].name = name}
  IN  IF child # {} THEN [disk |-> s.disk, at |-> CHOOSE n \in child : TRUE]
      ELSE [disk |-> Append(s.disk, Node(s.at, name, kind, "shell")), at |-> Len(s.disk) + 1]
Written(d, top, path) ==
  LET down[i \in 0..Len(path)] ==
        IF i = 0 THEN [disk |-> d, at |-> top]
        ELSE Into(down[i - 1], path[i], IF i = Len(path) THEN "file" ELSE "dir")
  IN  down[Len(path)].disk

\* Layout::place.  A library may be there already.
Place ==
  /\ At("place")
  /\ LET c == Covered(Head(What))
     IN  IF Tail(What) = <<>> \/ c.err # "ok" THEN Fail
         ELSE /\ disk' = Written(c.disk, c.at[2], Tail(What)) /\ over' = c.over
              /\ private' = private \cup {Head(What)}
              /\ Done /\ UNCHANGED <<targets, loose>>

--------------------------------------------------------------------------
\* The recursive clone of the view.
CloneOfTree == over

\* The clone becomes the root, and the old one is detached.
Pivot ==
  /\ At("pivot") /\ over' = CloneOfTree /\ Done /\ UNCHANGED <<disk, targets, loose, private>>

\* What a path of the command shows: the filesystem it ends in, or an error.
Shows(view, path) ==
  LET r == Open(TopOf(view), path, {"links", "mounts"}) IN IF r.err = "ok" THEN disk[r.at[2]].layer ELSE r.err

\* EnteredRoot::restrict and RestrictedCommand::start: descriptors are audited in /proc, which has to be
\* a real one, and another one that is still open ends the setup.
Start ==
  /\ At("start")
  /\ IF Shows("root", <<"proc">>) # "proc" \/ given.extra THEN Fail
     ELSE phase' = "started" /\ todo' = <<>> /\ UNCHANGED <<given, mounted, targets, loose, private, fault>>

Next ==
  \/ Directory \/ CheckTargets \/ Attach \/ AttachBelow \/ CloneDevices
  \/ ChooseShell \/ Place \/ Pivot \/ Start \/ Interrupted

Spec == Init /\ [][Next]_vars

--------------------------------------------------------------------------
\* The state stays well formed: what is mounted covers a node that is there, and a
\* target is a directory of its view (RuntimeTargets).
TypeOK ==
  /\ phase \in {"setup", "started", "failed"} /\ fault \in BOOLEAN
  /\ \A n \in DOMAIN disk : disk[n].up \in 0..(n - 1) /\ disk[n].layer \in Layers
  /\ \A l \in DOMAIN over : l[2] \in DOMAIN disk /\ over[l][2] \in DOMAIN disk /\ Kind(over[l]) = "dir"
  /\ \A t \in DOMAIN targets : targets[t][1] = t[1] /\ Kind(targets[t]) = "dir"
  /\ loose \subseteq Views \X Range(Controls)

InUse == IF given.bootstrap THEN Views ELSE {"root"}
Ordinary(view, name) == \A n \in Entry(TopOf(view), name) : Kind(<<view, n>>) = "dir"

\* However the image arranged the three names, a started command finds nothing of the
\* image's there.  Where it has directories or nothing, the command finds the runtime's
\* own filesystems, in both views: none hides another one, and the devices have their
\* terminals and shared memory (RuntimeTargets, CommandDevices).  A link may lead through
\* a directory that another filesystem covers; even then /proc is the real one.
RuntimeShown ==
  phase = "started" =>
    \A view \in InUse, i \in 1..3 :
      LET name == RuntimeNames[i]
      IN  /\ Shows(view, <<name>>) \notin {"root", "output", "stage"}
          /\ Ordinary(view, name) \/ <<view, name>> = <<"root", "proc">> => Shows(view, <<name>>) = name
          /\ name = "dev" /\ Shows(view, <<"dev">>) = "dev" =>
               Shows(view, <<"dev", "pts">>) = "pts" /\ Shows(view, <<"dev", "shm">>) = "shm"

\* Whatever happens, and however far the setup comes, the filesystems that are sealed
\* later keep what they had and gain nothing but empty mount points at their top
\* (runtime.rs, shell.rs: "Only the empty mount-point directories remain").
LayersKeepClean ==
  /\ \A n \in DOMAIN given.disk : disk[n] = given.disk[n] /\ \A x \in DOMAIN disk : disk[x].up = n => x \in DOMAIN given.disk \/ n \in 1..2
  /\ \A n \in DOMAIN disk \ DOMAIN given.disk : disk[n].layer \in {"root", "output"} =>
       disk[n].kind = "dir" /\ disk[n].up \in 1..2 /\ \A x \in DOMAIN disk : disk[x].up # n

\* No command finds a control file of the kernel writable in any of the procs, also
\* where the kernel lacks some of them (ProcRestrictions::install).
ControlsAreReadOnly == phase = "started" => loose = {}

\* A started command has a shell in its final root: the image's own regular file, or
\* the appliance's with its libraries (shell::install, EnteredRoot::restrict).
ShellWorks ==
  phase = "started" =>
    /\ ShellPresent
    /\ private # {} =>
         /\ disk[Sought.at[2]].layer = "shell"
         /\ \A i \in DOMAIN given.libraries :
              LET r == Open(Root, given.libraries[i], {"links", "mounts"}) IN r.err = "ok" /\ Kind(r.at) = "file"

\* A bare image, or one with ordinary directories, is never refused unless something
\* failed (runtime.rs: "bare roots").
BareRootsWork ==
  LET Plain(view, name) == \A n \in Entry(TopOf(view), name) \cap DOMAIN given.disk : given.disk[n].kind = "dir" /\ <<view, n>> \notin DOMAIN given.over
      tops == {Head(given.libraries[i]) : i \in DOMAIN given.libraries} \cup {"bin"}
      plain == /\ \A view \in Views, i \in 1..3 : Plain(view, RuntimeNames[i])
               /\ \A top \in tops : Plain("root", top)
               /\ \A n \in DOMAIN given.disk : given.disk[n].name \in {"sh", "cat"} => given.disk[n].kind = "file"
  IN  phase = "failed" /\ ~fault /\ ~given.extra => ~plain

\* A command starts in a root that works, and the image pays nothing for it
\* (CommandRoot::enter, RestrictedCommand::start).
RootIsSafe ==
  TypeOK /\ RuntimeShown /\ LayersKeepClean /\ ControlsAreReadOnly /\ ShellWorks /\ BareRootsWork
=============================================================================
