------------------------------ MODULE Appliance ------------------------------
(***************************************************************************)
(* The build appliance as a whole: the guest's exchange with the launcher  *)
(* (BuildPort) around one build with its control resources (BuildRuntime). *)
(* What the guest calls a pipeline is the whole life of a runtime, from    *)
(* its first directory to the end of its removal (src/src/appliance/mod.rs *)
(* calls Pipeline::run between decoding and reporting); meanwhile the      *)
(* launcher reads, answers, babbles and leaves, and the guest does not     *)
(* look at the port.                                                       *)
(***************************************************************************)
EXTENDS BuildPort

CONSTANTS Points, Domains, MaxFaults    \* see BuildRuntime

VARIABLES step, exists, points, domains, lease, clock, faults, cleanup, stages, output

runtime == <<step, exists, points, domains, lease, clock, faults, cleanup, stages, output>>

R == INSTANCE BuildRuntime WITH pc <- step

ApplianceInit == Init /\ R!Init

\* One step of the build.
Work == pc = "build" /\ R!Next /\ UNCHANGED vars

\* Mutant: the pipeline is left before its runtime is closed.
ConcludeUnclosed ==
  /\ pc = "build" /\ step \in {"begin", "done"}
  /\ LET outcome == IF (step = "begin" /\ stages = "ok") \/ output = "public" THEN "ok" ELSE "pipeline"
     IN  Returns(outcome) /\ builds' = Append(builds, outcome)
  /\ UNCHANGED <<exit, down, up, host, runtime>>

\* Pipeline::run returns: Ok after the publication, an error otherwise.
Conclude ==
  /\ pc = "build" /\ step = "done"
  /\ LET outcome == IF output = "public" THEN "ok" ELSE "pipeline"
     IN  Returns(outcome) /\ builds' = Append(builds, outcome)
  /\ UNCHANGED <<exit, down, up, host, runtime>>

\* The guest beside its build.
Exchange ==
  /\ \/ Request \/ Decode \/ DecodeFails \/ Poll \/ Resolve
     \/ Report \/ Acknowledged \/ AcknowledgementLost
  /\ UNCHANGED runtime

\* The launcher, and what fails without it.
Surroundings ==
  /\ OpenFails \/ WriteFails \/ HostReads \/ HostAnswers \/ HostBabbles \/ HostLeaves
  /\ UNCHANGED runtime

ApplianceNext == Exchange \/ Work \/ Conclude \/ Surroundings

\* The guest and its build run until they wait; a launcher that stays answers.
ApplianceSpec ==
  /\ ApplianceInit /\ [][ApplianceNext]_<<vars, runtime>>
  /\ WF_<<vars, runtime>>(Exchange \/ Conclude)
  /\ WF_<<vars, runtime>>(pc = "build" /\ R!Steps /\ UNCHANGED vars)
  /\ WF_<<vars, runtime>>(pc = "build" /\ R!Return /\ UNCHANGED vars)
  /\ WF_<<vars, runtime>>(HostReads /\ UNCHANGED runtime)
  /\ WF_<<vars, runtime>>(HostAnswers /\ UNCHANGED runtime)

--------------------------------------------------------------------------
(* Properties. *)

\* The build's resources keep their order whatever the launcher does, and what
\* stays behind has its cause (see the parts in BuildRuntime).
RuntimeIsSound == R!RuntimeSound

\* Both ends of the port tell one story, and nothing the launcher sent was
\* swallowed before a build (see the parts in BuildPort).
PortIsHonest == TypeOK /\ OneStory /\ NothingSwallowed /\ SuccessIsHeard

\* The launcher hears of a success only when the image is public and the build
\* has left nothing, and hears of any outcome, and sees the appliance end, only
\* outside a build: no runtime is abandoned half way when the launcher leaves.
HeardIsDone ==
  /\ Finish("ok") \in Range(heard) =>
       output = "public" /\ exists = {} /\ domains = {} /\ lease = "free"
  /\ (exit # "running" \/ \E o \in {"ok"} \cup Errors : Finish(o) \in Range(heard)) =>
       step \in {"var", "done"} /\ (output = "public" <=> builds = <<"ok">>)

\* The appliance is sound as a whole: its build, its port, and the two together
\* (appliance::run).
ApplianceIsSound == RuntimeIsSound /\ PortIsHonest /\ HeardIsDone

\* A launcher that stays hears an outcome, every build ends, and neither end of
\* the port waits for the other for ever.
ApplianceEnds ==
  /\ OutcomeReported
  /\ GuestEnds
  /\ (pc = "build") ~> (step = "done")
=============================================================================
