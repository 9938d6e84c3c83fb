----------------------------- MODULE BuildRuntime -----------------------------
(***************************************************************************)
(* The control resources of one build (src/src/storage/runtime.rs,         *)
(* storage/mod.rs, anchor/): a private tmpfs, a directory it and a cgroup  *)
(* hierarchy are mounted on, and the lease on the recovery directory.      *)
(* They are made step by step before the stages run, and removed step by   *)
(* step behind them; only then may the build publish.  A stage that could  *)
(* not end what it started leaves attachment points and domains behind,    *)
(* and those must keep what they rest on.                                  *)
(***************************************************************************)
EXTENDS Naturals

CONSTANTS
  Points,    \* attachment points of the stages' volumes
  Domains,   \* domains of the stages' commands
  MaxFaults  \* bound: system calls that fail for a reason outside the build

VARIABLES
  pc,        \* the next step
  exists,    \* the directories and mounts that exist
  points,    \* attachment points under "volumes", and whether something is mounted there
  domains,   \* domains under "group": each keeps the recovery lease
  lease,     \* the recovery lease: "free", or "held" by the runtime
  clock,     \* the deadline of the setup, or of the clean-up, is "ahead" or "over"
  faults, cleanup, \* failed calls so far; the clean-up is "whole", or "cut" by one of them or the clock
  stages, output \* what the stages returned; the output is "private" or "public"

things == <<exists, points, domains, lease>>
vars == <<pc, exists, points, domains, lease, clock, faults, cleanup, stages, output>>

\* "scratch" is the directory for scratch files, "tmpfs" the file system (Workspace);
\* "target" is where it is mounted ("workspace"), and "cgroup2" is mounted on "cgroups".
Things == {"scratch", "tmpfs", "target", "workspace", "recovery", "volumes", "cgroups", "cgroup2", "group"}
Making == {"var", "scratch", "tmpfs", "run", "scope", "target", "workspace", "recovery", "volumes", "cgroups",
           "cgroup2", "group", "lease"}
Undoing == {"begin", "no_recovery", "no_volumes", "no_group", "no_cgroup2", "no_cgroups", "no_workspace", "no_target",
            "finish"}

Init ==
  /\ pc = "var" /\ exists = {} /\ points = [p \in Points |-> "none"] /\ domains = {} /\ lease = "free"
  /\ clock = "ahead" /\ faults = 0 /\ cleanup = "whole" /\ stages = "none" /\ output = "private"

\* The deadline passes.
Late == pc \in Making \cup Undoing /\ clock = "ahead" /\ clock' = "over" /\ UNCHANGED <<pc, things, faults, cleanup, stages, output>>

--------------------------------------------------------------------------
(* Workspace::create, and Runtime::create *)

Checked == {"target", "workspace", "cgroup2", "group"}  \* steps the budget is checked before

Make(step, new, next) ==
  /\ pc = step /\ (step \in Checked => clock = "ahead")
  /\ exists' = exists \cup new /\ pc' = next
  /\ UNCHANGED <<points, domains, lease, clock, faults, cleanup, stages, output>>

\* RecoveryDirectory::open: the directory is locked, and the last check of the budget.
Lock ==
  /\ pc = "lease" /\ clock = "ahead" /\ lease' = "held" /\ pc' = "stages"
  /\ UNCHANGED <<exists, points, domains, clock, faults, cleanup, stages, output>>

MakeStep ==
  \/ Make("var", {}, "scratch")
  \/ Make("scratch", {"scratch"}, "tmpfs")
  \/ Make("tmpfs", {"tmpfs"}, "run")
  \/ Make("run", {}, "scope")
  \/ Make("scope", {}, "target")
  \/ Make("target", {"target"}, "workspace")
  \/ Make("workspace", {"workspace"}, "recovery")
  \/ Make("recovery", {"recovery"}, "volumes")
  \/ Make("volumes", {"volumes"}, "cgroups")
  \/ Make("cgroups", {"cgroups"}, "cgroup2")
  \/ Make("cgroup2", {"cgroup2"}, "group")
  \/ Make("group", {"group"}, "lease")
  \/ Lock

\* What a step may have made although it failed: its directory, without its permissions.
Half(step) == IF step \in {"recovery", "volumes", "cgroups", "group"} THEN {{}, {step}} ELSE {{}}
\* After a failed step what there is is removed: without a target, the workspace is dropped.
MakeEnds ==
  /\ pc' = IF "target" \in exists THEN "begin" ELSE "drop"
  /\ clock' = "ahead"
  /\ UNCHANGED <<points, domains, lease, cleanup, stages, output>>
MakeFault ==
  /\ pc \in Making /\ faults < MaxFaults /\ faults' = faults + 1
  /\ \E half \in Half(pc) : exists' = exists \cup half
  /\ MakeEnds
MakeLate == clock = "over" /\ pc \in Checked \cup {"lease"} /\ UNCHANGED <<faults, exists>> /\ MakeEnds

--------------------------------------------------------------------------
(* The stages *)

\* A volume is attached, and removed again: the directory comes first and goes last.
Attach(p) ==
  /\ pc = "stages" /\ points' = [points EXCEPT ![p] = CASE @ = "none" -> "directory" [] OTHER -> "mounted"]
  /\ UNCHANGED <<pc, exists, domains, lease, clock, faults, cleanup, stages, output>>
Detach(p) ==
  /\ pc = "stages" /\ points' = [points EXCEPT ![p] = CASE @ = "mounted" -> "directory" [] OTHER -> "none"]
  /\ UNCHANGED <<pc, exists, domains, lease, clock, faults, cleanup, stages, output>>
\* A command's domain is created, and removed.
Enter(d) == /\ pc = "stages" /\ domains' = domains \cup {d}
            /\ UNCHANGED <<pc, exists, points, lease, clock, faults, cleanup, stages, output>>
Leave(d) == /\ pc = "stages" /\ domains' = domains \ {d}
            /\ UNCHANGED <<pc, exists, points, lease, clock, faults, cleanup, stages, output>>

\* The operation returns: nothing is taken on trust about what it left.
Return ==
  /\ pc = "stages" /\ \E r \in {"ok", "failed"} : stages' = r
  /\ pc' = "begin" /\ lease' = "free" /\ clock' = "ahead"
  /\ UNCHANGED <<exists, points, domains, faults, cleanup, output>>

--------------------------------------------------------------------------
(* RuntimeMounts::close *)

Free(p) == points[p] = "none"
\* The kernel refuses to remove a directory with entries, and to unmount what is in use.
Refused(thing) ==
  CASE thing = "volumes" -> \E p \in Points : ~Free(p)
    [] thing = "group" -> domains # {}
    [] thing = "cgroup2" -> domains # {}
    [] thing = "cgroups" -> "cgroup2" \in exists
    [] thing = "workspace" -> lease = "held" \/ domains # {} \/ "cgroup2" \in exists \/ \E p \in Points : points[p] = "mounted"
    [] thing = "target" -> "workspace" \in exists
    [] OTHER -> FALSE

\* One thing is removed.  What was never mounted is skipped with what belongs to it.
Undo(step, thing, timed, skipped, next, after) ==
  /\ pc = step /\ (skipped \/ ((timed => clock = "ahead") /\ ~Refused(thing)))
  /\ exists' = IF skipped THEN exists ELSE exists \ {thing}
  /\ pc' = IF skipped THEN after ELSE next
  /\ UNCHANGED <<points, domains, lease, clock, faults, cleanup, stages, output>>

\* remove_empty of a directory that is not there succeeds.
UndoStep ==
  \/ Undo("begin", "none", TRUE, FALSE, "no_recovery", "")
  \/ Undo("no_recovery", "recovery", FALSE, FALSE, "no_volumes", "")
  \/ Undo("no_volumes", "volumes", FALSE, FALSE, "no_group", "")
  \/ Undo("no_group", "group", TRUE, "cgroup2" \notin exists, "no_cgroup2", "no_cgroups")
  \/ Undo("no_cgroup2", "cgroup2", FALSE, FALSE, "no_cgroups", "")
  \/ Undo("no_cgroups", "cgroups", TRUE, "workspace" \notin exists, "no_workspace", "no_target")
  \/ Undo("no_workspace", "workspace", FALSE, FALSE, "no_target", "")
  \/ Undo("no_target", "target", FALSE, FALSE, "finish", "")
  \/ Undo("finish", "none", TRUE, FALSE, "assemble", "")

\* The first failure ends closing: the owner is forgotten, and what is left stays until the
\* machine is disposed of.
GiveUp(how) ==
  /\ cleanup' = how /\ pc' = "drop" /\ stages' = "failed"
  /\ UNCHANGED <<things, clock, output>>
UndoFault == pc \in Undoing /\ faults < MaxFaults /\ faults' = faults + 1 /\ GiveUp("cut")
UndoStops ==
  /\ UNCHANGED faults
  /\ \/ pc \in {"begin", "finish"} /\ clock = "over" /\ GiveUp("cut")
     \/ pc = "no_group" /\ clock = "over" /\ "cgroup2" \in exists /\ GiveUp("cut")
     \/ pc = "no_cgroups" /\ clock = "over" /\ "workspace" \in exists /\ GiveUp("cut")
     \/ pc = "no_volumes" /\ Refused("volumes") /\ GiveUp(cleanup)
     \/ pc = "no_group" /\ Refused("group") /\ "cgroup2" \in exists /\ GiveUp(cleanup)

--------------------------------------------------------------------------
(* The build, behind the runtime *)

\* StageOutput::assemble_staged, on the error path not reached.
Assemble ==
  /\ pc = "assemble" /\ pc' = "drop"
  /\ stages' = IF stages = "ok" THEN "ready" ELSE "failed"
  /\ UNCHANGED <<things, clock, faults, cleanup, output>>

\* The workspace is dropped: its scratch directory is removed, its tmpfs lives on only where
\* it is still mounted.  What was assembled is published, unless that fails (Publication).
DropWorkspace ==
  /\ pc = "drop" /\ pc' = "done" /\ exists' = exists \ {"scratch", "tmpfs"}
  /\ output' \in IF stages = "ready" THEN {"public", "private"} ELSE {output}
  /\ UNCHANGED <<points, domains, lease, clock, faults, cleanup, stages>>

\* A build without stages selects what it inherits, or refuses its request,
\* before anything is made; what it assembled is published like any other.
Direct ==
  /\ pc = "var" /\ pc' = "done" /\ output' \in {"public", "private"}
  /\ UNCHANGED <<things, clock, faults, cleanup, stages>>

Steps == Direct \/ MakeStep \/ MakeLate \/ UndoStep \/ UndoStops \/ Assemble \/ DropWorkspace
Stage == \/ \E p \in Points : Attach(p) \/ Detach(p)
         \/ \E d \in Domains : Enter(d) \/ Leave(d)
Next == Steps \/ Late \/ MakeFault \/ UndoFault \/ Stage \/ Return
\* The supervisor takes its next step; the stages return (each directive has its deadline).
Spec == Init /\ [][Next]_vars /\ WF_vars(Steps) /\ WF_vars(Return)

--------------------------------------------------------------------------
TypeOK ==
  /\ pc \in Making \cup Undoing \cup {"stages", "assemble", "drop", "done"}
  /\ exists \subseteq Things /\ points \in [Points -> {"none", "directory", "mounted"}] /\ domains \subseteq Domains
  /\ lease \in {"free", "held"} /\ clock \in {"ahead", "over"}
  /\ cleanup \in {"whole", "cut"} /\ output \in {"private", "public"} /\ faults \in Nat
  /\ stages \in {"none", "ok", "failed", "ready"}

\* Whatever is left of a stage keeps what it rests on: an attachment point its directory and
\* the mount below, a domain its hierarchy and the mount with the recovery lease it shares
\* (RuntimeMounts::close: "Never unmount pins or command mounts, even if the kernel would").
NothingPulledAway ==
  /\ (\E p \in Points : ~Free(p)) => {"workspace", "volumes"} \subseteq exists
  /\ domains # {} => {"workspace", "cgroup2", "group"} \subseteq exists

\* While the stages run everything they are given is there, whatever the setup met on its way.
ReadyForStages ==
  pc = "stages" => exists = Things /\ lease = "held"

\* Only a build whose stages succeeded and left nothing is published, after all of its control
\* resources are gone ("Explicit close is required before publication").
PublishedIsClean ==
  output = "public" => exists = {} /\ domains = {} /\ (\A p \in Points : Free(p)) /\ lease = "free"

\* Every failed setup is undone, and every failed build cleaned up, but for what a stage left
\* behind and what a failing clean-up could not remove.
RetainedForCause ==
  pc = "done" /\ cleanup = "whole" /\ domains = {} /\ (\A p \in Points : Free(p)) => exists = {} /\ lease = "free"

\* The safety of the runtime of one build.
RuntimeSound == TypeOK /\ NothingPulledAway /\ ReadyForStages /\ PublishedIsClean /\ RetainedForCause

\* Each build ends, however it goes.
BuildEnds == <>(pc = "done")
=============================================================================
