------------------------------- MODULE MCStages --------------------------------
(***************************************************************************)
(* A plan's stages, in one run: the initial state chooses whether they are *)
(* put in order (StageOrder), whether the filesystems of one are mounted,  *)
(* used and unmounted (VolumeMounts), or whether the root of one of its    *)
(* commands is set up (CommandRoot).  The variables of the others stay as  *)
(* they are; "phase" and "fault" are those of the mounts or of the root.   *)
(***************************************************************************)
EXTENDS VolumeMounts

CONSTANTS Inputs, MaxLinks,          \* see CommandRoot
          StageNames, MaxSelectors   \* see StageOrder

ASSUME StageIsSound == StageAssumption
ASSUME NamesAssumption == StageNames \subseteq Nat /\ IsFiniteSet(StageNames)
ASSUME SelectorsAssumption == MaxSelectors \in Nat

VARIABLES machine,
          given, disk, over, todo, targets, loose, private,
          stages, deps, selectors, pass, roots, stack, visiting, done, order, result

volume  == <<stage, dirs, mounts, lazy, held, walk, leases, tool, helperState, moves, directives>>
command == <<given, disk, over, todo, targets, loose, private>>
search  == <<stages, deps, selectors, pass, roots, stack, visiting, done, order, result>>

C == INSTANCE CommandRoot
O == INSTANCE StageOrder WITH Names <- StageNames

ASSUME RootIsSound == C!RootAssumption

VI == INSTANCE StageInputs
CI == INSTANCE RootInputs

MCCases == VI!MCCases
MCNames == VI!Names2
MCInputs == CI!MCInputs

\* The variables of a machine that was not chosen.
Unused == "unused"
NoSteps   == phase = Unused /\ fault = Unused
NoVolume  == /\ plan = Unused /\ bootstrap = Unused /\ dirs = Unused /\ mounts = Unused
             /\ lazy = Unused /\ held = Unused /\ walk = Unused /\ leases = Unused /\ tool = Unused
             /\ helper = Unused /\ pinned = Unused /\ points = Unused /\ moves = Unused
             /\ directives = Unused
NoCommand == /\ given = Unused /\ disk = Unused /\ over = Unused /\ todo = Unused
             /\ targets = Unused /\ loose = Unused /\ private = Unused
NoSearch  == /\ stages = Unused /\ deps = Unused /\ selectors = Unused /\ pass = Unused
             /\ roots = Unused /\ stack = Unused /\ visiting = Unused /\ done = Unused
             /\ order = Unused /\ result = Unused

StagesInit ==
  \/ machine = "order" /\ O!Init /\ NoSteps /\ NoVolume /\ NoCommand
  \/ machine = "stage" /\ Init /\ NoCommand /\ NoSearch
  \/ machine = "root" /\ C!Init /\ NoVolume /\ NoSearch

Ordering  == machine = "order" /\ UNCHANGED <<machine, phase, fault, volume, command>>
Mounting  == machine = "stage" /\ UNCHANGED <<machine, command, search>>
Entering  == machine = "root" /\ UNCHANGED <<machine, volume, search>>

StagesNext == (Ordering /\ O!Next) \/ (Mounting /\ Next) \/ (Entering /\ C!Next)

all == <<machine, phase, fault, volume, command, search>>
StagesSpec == /\ StagesInit /\ [][StagesNext]_all
              /\ WF_all(Ordering /\ O!Next) /\ WF_all(Mounting /\ Steps)

--------------------------------------------------------------------------
\* The stages are built in an order that has everything a stage is made from
\* before it, each once, and none for nothing (Plan::walk).
SoundOrder == machine = "order" => O!SoundOrder

\* The planner accepts and rejects for the right reasons, in the right pass
\* (Plan::try_from, Plan::walk).
SoundVerdict == machine = "order" => O!SoundVerdict

\* Each filesystem of a stage is where the plan says, whatever commands move,
\* and a clean unmount is evidence that it is no longer used (Volume::unmount).
StageIsKept == machine = "stage" => MountsAreKept

\* However the image arranged its names, a started command has its runtime and a
\* shell, and the sealed layers gain nothing but mount points (CommandRoot::enter).
RootIsSafe == machine = "root" => C!RootIsSafe

\* The planner answers.
PlannerEnds == machine = "order" => O!PlannerEnds

\* A stage's mounts end up unmounted, refused or retained.
StageEnds == machine = "stage" => MountsEnd
=============================================================================
