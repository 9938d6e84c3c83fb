-------------------------- MODULE CommandStepProofs --------------------------
(***************************************************************************)
(* Safety of CommandStep for every set of daemons, every set of statuses   *)
(* and every number of directives.                                         *)
(***************************************************************************)
EXTENDS CommandStep, TLAPS

-----------------------------------------------------------------------------
(* The actions of the supervisor that leave every process as it is. *)

SteadySupervisor ==
    \/ CreateNamespace \/ MountStorage \/ CreateDomain \/ Rollback
    \/ OfferDomain \/ AwaitJoined \/ AbandonLaunch
    \/ SendVolume \/ SendGate \/ AwaitReady \/ StartCommand \/ Admit \/ FailSetup
    \/ ObserveExit \/ ObserveFailure \/ AwaitCleanup
    \/ AwaitEmpty \/ RemoveDomain
    \/ RejectAssigned \/ ReleaseNamespace \/ Unmount \/ Judge
    \/ MountCopy \/ CopyFiles \/ Finish

LEMMA Steady == SteadySupervisor => UNCHANGED <<processes, at>>
  BY DEF SteadySupervisor, CreateNamespace, MountStorage, CreateDomain, Rollback,
         OfferDomain, AwaitJoined, AbandonLaunch, SendVolume, SendGate, AwaitReady,
         StartCommand, Admit, FailSetup, ObserveExit, ObserveFailure, AwaitCleanup,
         AwaitEmpty, RemoveDomain, RejectAssigned, ReleaseNamespace, Unmount, Judge,
         MountCopy, CopyFiles, Finish

\* The actions of helpers, image code, kernel and clock leave the supervisor
\* and what it holds as they are.
LEMMA OthersKeepSupervisor ==
    Helpers \/ SpawnDaemon \/ ExitImage \/ Die => UNCHANGED <<plan, resources, link>>
  BY DEF Helpers, ExchangeIdentity, JoinDomain, ReportJoined, ReceiveVolume, PrepareRoot,
         ReceiveGate, SpawnNamespaces, CollectNamespaces, FinishRelay, CleanUp,
         ReportCleanup, LeaveReceiver, SpawnInit, CollectInit, LeaveNamespaces,
         SendReady, SpawnShell, CollectDaemon, ReportStatus, LeaveInit, FailHelper,
         SpawnDaemon, ExitImage, Die, channel

-----------------------------------------------------------------------------
(* Types *)

LEMMA InitTypeOK == Init => TypeOK
  <1> SUFFICES ASSUME Init PROVE TypeOK
    OBVIOUS
  <1>1. PlanTypes
    BY DirectivesAssumption DEF Init, PlanTypes, Points, Unset
  <1>2. ResourceTypes
    BY DEF Init, ResourceTypes
  <1>3. ProcessTypes
    BY DEF Init, ProcessTypes, Life, HelperPoints
  <1>4. WireTypes
    BY DEF Init, WireTypes
  <1> QED
    BY <1>1, <1>2, <1>3, <1>4 DEF TypeOK

LEMMA PlanTypesStep == TypeOK /\ Next => PlanTypes'
  <1> SUFFICES ASSUME PlanTypes, Next PROVE PlanTypes'
    BY DEF TypeOK
  <1> USE DEF PlanTypes, Points, Terminal, Go
  <1>1. CASE BeginExec \/ BeginCopy
    BY <1>1 DEF BeginExec, BeginCopy, FreshStep, Unset
  <1>2. CASE \/ CreateNamespace \/ MountStorage \/ Rollback \/ Finish \/ MountCopy
             \/ OfferDomain \/ AwaitJoined \/ SendVolume \/ SendGate \/ AwaitReady \/ Admit
    BY <1>2 DEF CreateNamespace, MountStorage, Rollback, Finish, MountCopy, OfferDomain,
                AwaitJoined, SendVolume, SendGate, AwaitReady, Admit, Retain
  <1>3. CASE \/ CreateDomain \/ Launch \/ AbandonLaunch \/ StartCommand \/ FailSetup
             \/ ObserveExit \/ ObserveFailure \/ CopyFiles
    BY <1>3 DEF CreateDomain, Launch, AbandonLaunch, StartCommand, FailSetup,
                ObserveExit, ObserveFailure, CopyFiles, Arm
  <1>4. CASE AwaitCleanup
    BY <1>4 DEF AwaitCleanup
  <1>5. CASE \/ TerminateHelper \/ AwaitTermination \/ CancelDomain \/ AwaitEmpty
             \/ RemoveDomain \/ CollectReceiver \/ Drain
             \/ RejectAssigned \/ ReleaseNamespace \/ Unmount
    BY <1>5 DEF TerminateHelper, AwaitTermination, CancelDomain, AwaitEmpty,
                RemoveDomain, CollectReceiver, Drain, Retain,
                RejectAssigned, ReleaseNamespace, Unmount
  <1>6. CASE Judge
    <2>1. sup = "judge" /\ sup' \in {"next", "rejected"}
      BY <1>6 DEF Judge
    <2>2. UNCHANGED <<timer, outcome, certified>>
      BY <1>6 DEF Judge
    <2> QED
      BY <1>6, <2>1, <2>2, DirectivesAssumption DEF Judge, Terminal
  <1>7. CASE Helpers \/ SpawnDaemon \/ ExitImage \/ Die
    BY <1>7, OthersKeepSupervisor DEF plan
  <1>8. ASSUME NEW d \in Timers, Expire(d) PROVE PlanTypes'
    BY <1>8 DEF Expire
  <1>9. CASE Ended
    BY <1>9 DEF Ended, vars, plan
  <1> QED
    BY <1>1, <1>2, <1>3, <1>4, <1>5, <1>6, <1>7, <1>8, <1>9
    DEF Next, Supervisor, Environment

LEMMA ResourceTypesStep == TypeOK /\ Next => ResourceTypes'
  <1> SUFFICES ASSUME ResourceTypes, Next PROVE ResourceTypes'
    BY DEF TypeOK
  <1> USE DEF ResourceTypes, resources
  <1>1. CASE BeginExec \/ BeginCopy
    BY <1>1 DEF BeginExec, BeginCopy, FreshStep
  <1>2. CASE \/ CreateNamespace \/ MountStorage \/ CreateDomain \/ Rollback \/ MountCopy
    BY <1>2 DEF CreateNamespace, MountStorage, CreateDomain, Rollback, MountCopy, Retain
  <1>3. CASE \/ Launch \/ AbandonLaunch \/ StartCommand \/ FailSetup \/ Finish
             \/ ObserveExit \/ ObserveFailure \/ CopyFiles \/ AwaitCleanup
             \/ OfferDomain \/ AwaitJoined \/ SendVolume \/ SendGate \/ AwaitReady \/ Admit
             \/ TerminateHelper \/ AwaitTermination
    BY <1>3 DEF Launch, AbandonLaunch, StartCommand, FailSetup, Finish, OfferDomain,
                ObserveExit, ObserveFailure, CopyFiles, AwaitCleanup,
                AwaitJoined, SendVolume, SendGate, AwaitReady, Admit,
                TerminateHelper, AwaitTermination
  <1>4. CASE \/ CancelDomain \/ AwaitEmpty \/ RemoveDomain \/ CollectReceiver \/ Drain
             \/ RejectAssigned \/ ReleaseNamespace \/ Unmount \/ Judge
    BY <1>4 DEF CancelDomain, AwaitEmpty, RemoveDomain, CollectReceiver, Drain, Retain,
                RejectAssigned, ReleaseNamespace, Unmount, Judge
  <1>5. CASE Helpers \/ SpawnDaemon \/ ExitImage \/ Die
    BY <1>5, OthersKeepSupervisor
  <1>6. ASSUME NEW d \in Timers, Expire(d) PROVE ResourceTypes'
    BY <1>6 DEF Expire
  <1>7. CASE Ended
    BY <1>7 DEF Ended, vars
  <1> QED
    BY <1>1, <1>2, <1>3, <1>4, <1>5, <1>6, <1>7 DEF Next, Supervisor, Environment

-----------------------------------------------------------------------------
(* The kernel's operations keep the types of what it holds. *)

KernelTypes ==
    proc \in [Process -> Life] /\ members \subseteq Process /\ code \in [Process -> Int]

LEMMA NamedProcesses == /\ {"receiver", "namespaces", "init", "shell"} \subseteq Process
                        /\ Image \subseteq Process /\ Daemons \subseteq Process
  BY DEF Process, Trusted, Image

LEMMA NormalType == \A s \in Int : Normal(s) \in Int
  BY DEF Normal

LEMMA SpawnTypes ==
    ASSUME KernelTypes, NEW c \in Process, NEW p, Spawn(c, p)
    PROVE KernelTypes'
  BY DEF KernelTypes, Spawn, Life

LEMMA ExitTypes ==
    ASSUME KernelTypes, NEW p \in Process, NEW s \in Int, Exit(p, s)
    PROVE KernelTypes'
  <1>1. code' \in [Process -> Int] /\ members' \subseteq Process
    BY DEF KernelTypes, Exit
  <1>2. CASE p = "init"
    BY <1>1, <1>2 DEF KernelTypes, Exit, Life, Runs
  <1>3. CASE p # "init"
    BY <1>1, <1>3 DEF KernelTypes, Exit, Life
  <1> QED
    BY <1>2, <1>3

LEMMA KillTypes ==
    ASSUME KernelTypes, NEW set, Kill(set)
    PROVE KernelTypes'
  <1>1. proc' \in [Process -> Life] /\ members' \subseteq Process
    BY DEF KernelTypes, Kill, Life, Runs
  <1>2. code' \in [Process -> Int]
    BY DEF KernelTypes, Kill, Killed, Runs
  <1> QED
    BY <1>1, <1>2 DEF KernelTypes

LEMMA CollectTypes ==
    ASSUME KernelTypes, NEW p, Collect(p)
    PROVE KernelTypes'
  BY DEF KernelTypes, Collect, Life

LEMMA DieTypes ==
    ASSUME KernelTypes, Die
    PROVE KernelTypes'
  <1>1. PICK p \in Process :
          proc' = [q \in Process |->
                     CASE q = p -> "zombie"
                       [] p = "init" /\ q \in Image /\ proc[q] = "zombie" -> "reaped"
                       [] OTHER -> proc[q]]
    BY DEF Die
  <1>2. ASSUME NEW q \in Process
        PROVE (CASE q = p -> "zombie"
                 [] p = "init" /\ q \in Image /\ proc[q] = "zombie" -> "reaped"
                 [] OTHER -> proc[q]) \in Life
    <2>1. proc[q] \in Life
      BY DEF KernelTypes
    <2> QED
      BY <2>1 DEF Life
  <1>3. proc' \in [Process -> Life]
    BY <1>1, <1>2
  <1> QED
    BY <1>3 DEF KernelTypes, Die

-----------------------------------------------------------------------------

LEMMA KernelTypesStep == TypeOK /\ Next => KernelTypes'
  <1> SUFFICES ASSUME ProcessTypes, Next PROVE KernelTypes'
    BY DEF TypeOK
  <1>0. KernelTypes
    BY DEF ProcessTypes, KernelTypes
  <1>k. UNCHANGED processes => KernelTypes'
    BY <1>0 DEF KernelTypes, processes
  <1>1. CASE BeginExec \/ BeginCopy
    BY <1>1 DEF BeginExec, BeginCopy, FreshStep, KernelTypes, Life
  <1>2. CASE SteadySupervisor
    BY <1>2, Steady, <1>k
  <1>3. CASE Launch
    BY <1>3, <1>0, <1>k, SpawnTypes, NamedProcesses DEF Launch
  <1>4. CASE TerminateHelper
    BY <1>4, <1>0, KillTypes DEF TerminateHelper
  <1>5. CASE CancelDomain
    BY <1>5, <1>0, <1>k, KillTypes DEF CancelDomain
  <1>6. CASE AwaitTermination \/ CollectReceiver \/ Drain
    BY <1>6, <1>0, <1>k, CollectTypes DEF AwaitTermination, CollectReceiver, Drain
  <1>7. CASE Helpers
    <2>1. CASE \/ ExchangeIdentity \/ ReportJoined \/ ReceiveVolume \/ PrepareRoot
               \/ ReceiveGate \/ FinishRelay \/ CleanUp \/ ReportCleanup \/ SendReady
      BY <2>1, <1>k DEF ExchangeIdentity, ReportJoined, ReceiveVolume, PrepareRoot,
                        ReceiveGate, FinishRelay, CleanUp, ReportCleanup, SendReady
    <2>2. CASE JoinDomain
      BY <2>2, <1>0, NamedProcesses DEF JoinDomain, KernelTypes
    <2>3. CASE SpawnNamespaces \/ SpawnInit \/ SpawnShell
      BY <2>3, <1>0, SpawnTypes, NamedProcesses DEF SpawnNamespaces, SpawnInit, SpawnShell
    <2>4. CASE CollectNamespaces \/ CollectInit \/ CollectDaemon \/ ReportStatus
      BY <2>4, <1>0, CollectTypes
      DEF CollectNamespaces, CollectInit, CollectDaemon, ReportStatus
    <2>5. \A h \in Process : Normal(code[h]) \in Int
      BY <1>0, NormalType DEF KernelTypes
    <2>6. CASE LeaveReceiver \/ LeaveNamespaces \/ LeaveInit
      BY <2>5, <2>6, <1>0, ExitTypes, NamedProcesses
      DEF LeaveReceiver, LeaveNamespaces, LeaveInit
    <2>7. CASE FailHelper
      BY <2>7, <1>0, ExitTypes DEF FailHelper, Failed, Process
    <2> QED
      BY <1>7, <2>1, <2>2, <2>3, <2>4, <2>6, <2>7 DEF Helpers
  <1>8. CASE SpawnDaemon
    BY <1>8, <1>0, SpawnTypes, NamedProcesses DEF SpawnDaemon
  <1>9. CASE ExitImage
    BY <1>9, <1>0, ExitTypes, StatusesAssumption, NamedProcesses DEF ExitImage
  <1>10. CASE Die
    BY <1>10, <1>0, DieTypes
  <1>11. CASE Ended \/ \E d \in Timers : Expire(d)
    BY <1>11, <1>k DEF Ended, Expire, vars
  <1> QED
    BY <1>1, <1>2, <1>3, <1>4, <1>5, <1>6, <1>7, <1>8, <1>9, <1>10, <1>11
    DEF Next, Supervisor, Environment, SteadySupervisor

AtType == at \in [Trusted -> HelperPoints]

LEMMA HelperGoType ==
    ASSUME AtType, NEW h \in Trusted, NEW from, NEW to \in HelperPoints, HelperGo(h, from, to)
    PROVE AtType'
  BY DEF AtType, HelperGo

LEMMA AtTypeStep == TypeOK /\ Next => AtType'
  <1> SUFFICES ASSUME AtType, Next PROVE AtType'
    BY DEF TypeOK, ProcessTypes, AtType
  <1> USE DEF HelperPoints, Trusted
  <1>k. UNCHANGED at => AtType'
    BY DEF AtType
  <1>1. CASE BeginExec \/ BeginCopy
    BY <1>1 DEF BeginExec, BeginCopy, FreshStep, AtType
  <1>2. CASE SteadySupervisor
    BY <1>2, Steady, <1>k
  <1>3. CASE \/ Launch \/ TerminateHelper \/ CancelDomain \/ AwaitTermination
             \/ CollectReceiver \/ Drain \/ Environment \/ Ended
    BY <1>3, <1>k DEF Launch, TerminateHelper, CancelDomain, AwaitTermination,
       CollectReceiver, Drain, Environment, SpawnDaemon, ExitImage, Die, Expire, Ended, vars
  <1>4. CASE \/ ExchangeIdentity \/ JoinDomain \/ ReportJoined \/ ReceiveVolume \/ PrepareRoot
             \/ ReceiveGate \/ SpawnNamespaces \/ CollectNamespaces \/ FinishRelay
    BY <1>4, HelperGoType DEF ExchangeIdentity, JoinDomain, ReportJoined, ReceiveVolume,
       PrepareRoot, ReceiveGate, SpawnNamespaces, CollectNamespaces, FinishRelay
  <1>5. CASE \/ CleanUp \/ ReportCleanup \/ LeaveReceiver
             \/ SpawnInit \/ CollectInit \/ LeaveNamespaces
    BY <1>5, HelperGoType DEF CleanUp, ReportCleanup, LeaveReceiver,
       SpawnInit, CollectInit, LeaveNamespaces
  <1>6. CASE SendReady \/ SpawnShell \/ ReportStatus \/ LeaveInit
    BY <1>6, HelperGoType DEF SendReady, SpawnShell, ReportStatus, LeaveInit
  <1>7. CASE CollectDaemon \/ FailHelper
    BY <1>7, <1>k DEF CollectDaemon, FailHelper
  <1> QED
    BY <1>1, <1>2, <1>3, <1>4, <1>5, <1>6, <1>7
    DEF Next, Supervisor, SteadySupervisor, Helpers

-----------------------------------------------------------------------------
(* Types of the channel and the gate *)

LEMMA AppendType ==
    ASSUME NEW S, NEW s \in Seq(S), NEW e \in S
    PROVE Append(s, e) \in Seq(S)
  OBVIOUS

Down == Seq({"identity", "offer", "volume", "gate"})

LEMMA DownStep == TypeOK /\ Next => down' \in Down
  <1> SUFFICES ASSUME down \in Down, Next PROVE down' \in Down
    BY DEF TypeOK, WireTypes, Down
  <1>1. CASE BeginExec \/ BeginCopy \/ Launch
    <2>1. <<>> \in Down /\ <<"identity">> \in Down
      BY DEF Down
    <2> QED
      BY <1>1, <2>1 DEF BeginExec, BeginCopy, FreshStep, Launch
  <1>2. CASE OfferDomain \/ SendVolume \/ SendGate
    <2>1. \A e \in {"identity", "offer", "volume", "gate"} : Append(down, e) \in Down
      BY AppendType DEF Down
    <2> QED
      BY <1>2, <2>1 DEF OfferDomain, SendVolume, SendGate
  <1>3. CASE ExchangeIdentity \/ JoinDomain \/ ReceiveVolume \/ ReceiveGate
    BY <1>3 DEF Down, ExchangeIdentity, JoinDomain, ReceiveVolume, ReceiveGate, Take
  <1>4. \/ BeginExec \/ BeginCopy \/ Launch \/ OfferDomain \/ SendVolume \/ SendGate
        \/ ExchangeIdentity \/ JoinDomain \/ ReceiveVolume \/ ReceiveGate
        \/ UNCHANGED down
    <2>1. CASE Supervisor
      BY <2>1 DEF Supervisor, channel, CreateNamespace, MountStorage, CreateDomain, Rollback,
         AwaitJoined, AbandonLaunch, AwaitReady, StartCommand, Admit, FailSetup,
         ObserveExit, ObserveFailure, AwaitCleanup, TerminateHelper, AwaitTermination,
         CancelDomain, AwaitEmpty, RemoveDomain, CollectReceiver, Drain,
         RejectAssigned, ReleaseNamespace, Unmount, Judge, MountCopy, CopyFiles, Finish
    <2>2. CASE Helpers
      BY <2>2 DEF Helpers, channel, ReportJoined, PrepareRoot, SpawnNamespaces,
         CollectNamespaces, FinishRelay, CleanUp, ReportCleanup, LeaveReceiver, SpawnInit,
         CollectInit, LeaveNamespaces, SendReady, SpawnShell, CollectDaemon, ReportStatus,
         LeaveInit, FailHelper
    <2>3. CASE Environment \/ Ended
      BY <2>3 DEF Environment, SpawnDaemon, ExitImage, Die, Expire, Ended, vars, channel
    <2> QED
      BY <2>1, <2>2, <2>3 DEF Next
  <1> QED
    BY <1>1, <1>2, <1>3, <1>4

\* The only packets the receiver sends, and the only ones the supervisor takes.
LEMMA UpMoves ==
    ASSUME Next
    PROVE \/ up' = <<>>
          \/ UNCHANGED up
          \/ up # <<>> /\ up' = Tail(up)
          \/ ExchangeIdentity \/ ReportJoined \/ ReportCleanup
  <1>1. CASE Supervisor
    BY <1>1 DEF Supervisor, channel, CreateNamespace, MountStorage, CreateDomain, Rollback,
       AwaitJoined, AbandonLaunch, AwaitReady, StartCommand, Admit, FailSetup,
       ObserveExit, ObserveFailure, AwaitCleanup, TerminateHelper, AwaitTermination,
       CancelDomain, AwaitEmpty, RemoveDomain, CollectReceiver, Drain,
       RejectAssigned, ReleaseNamespace, Unmount, Judge, MountCopy, CopyFiles, Finish,
       BeginExec, BeginCopy, FreshStep, Launch, OfferDomain, SendVolume, SendGate, Receive
  <1>2. CASE Helpers
    BY <1>2 DEF Helpers, channel, PrepareRoot, SpawnNamespaces, JoinDomain, ReceiveVolume,
       ReceiveGate, CollectNamespaces, FinishRelay, CleanUp, LeaveReceiver, SpawnInit,
       CollectInit, LeaveNamespaces, SendReady, SpawnShell, CollectDaemon, ReportStatus,
       LeaveInit, FailHelper
  <1>3. CASE Environment \/ Ended
    BY <1>3 DEF Environment, SpawnDaemon, ExitImage, Die, Expire, Ended, vars, channel
  <1> QED
    BY <1>1, <1>2, <1>3 DEF Next

LEMMA UpStep == TypeOK /\ Next => up' \in Seq(Packets)
  <1> SUFFICES ASSUME up \in Seq(Packets), code \in [Process -> Int], Next
               PROVE up' \in Seq(Packets)
    BY DEF TypeOK, WireTypes, ProcessTypes
  <1>1. \A k \in {"identity", "joined", "cleaned", "failed"}, s \in Int :
           [kind |-> k, status |-> s] \in Packets
    BY DEF Packets
  <1>2. ASSUME NEW k \in {"identity", "joined", "cleaned", "failed"}, NEW s \in Int, Send(k, s)
        PROVE up' \in Seq(Packets)
    <2>1. [kind |-> k, status |-> s] \in Packets
      BY <1>1
    <2>2. up' = Append(up, [kind |-> k, status |-> s])
      BY <1>2 DEF Send
    <2> QED
      BY <2>1, <2>2, AppendType
  <1>3. CASE ExchangeIdentity \/ ReportJoined \/ ReportCleanup
    <2>1. code["namespaces"] \in Int
      BY NamedProcesses
    <2> QED
      BY <1>2, <1>3, <2>1 DEF ExchangeIdentity, ReportJoined, ReportCleanup
  <1>4. <<>> \in Seq(Packets)
    OBVIOUS
  <1>5. up # <<>> => Tail(up) \in Seq(Packets)
    OBVIOUS
  <1> QED
    BY <1>3, <1>4, <1>5, UpMoves

LEMMA WireTypesStep == TypeOK /\ Next => WireTypes'
  <1> SUFFICES ASSUME TypeOK, Next PROVE WireTypes'
    OBVIOUS
  <1>t. WireTypes /\ code \in [Process -> Int]
    BY DEF TypeOK, ProcessTypes
  <1>1. down' \in Down /\ up' \in Seq(Packets)
    BY DownStep, UpStep
  <1>2. /\ link' \in {"open", "shut"}
        /\ gate' \in {"none", "paired", "ready", "started", "running", "reported"}
        /\ holder' \in Trusted \cup {"queued"}
        /\ report' \in Int
        /\ network' \in {"on", "off"}
        /\ scaffold' \in {"none", "present", "removed"}
    <2>1. CASE Supervisor
      BY <2>1, <1>t DEF WireTypes, Supervisor, channel, gateVars, imageVars, CreateNamespace,
         MountStorage, CreateDomain, Rollback,
         AwaitJoined, AbandonLaunch, AwaitReady, StartCommand, Admit, FailSetup,
         ObserveExit, ObserveFailure, AwaitCleanup, TerminateHelper, AwaitTermination,
         CancelDomain, AwaitEmpty, RemoveDomain, CollectReceiver, Drain,
         RejectAssigned, ReleaseNamespace, Unmount, Judge, MountCopy, CopyFiles, Finish,
         BeginExec, BeginCopy, FreshStep, Launch, OfferDomain, SendVolume, SendGate
    <2>2. CASE Helpers
      <3>1. code["shell"] \in Int
        BY <1>t, NamedProcesses
      <3> QED
        BY <2>2, <3>1, <1>t DEF WireTypes, Trusted, Helpers, channel, gateVars, imageVars,
           ExchangeIdentity, JoinDomain, ReportJoined, ReceiveVolume, PrepareRoot,
           ReceiveGate, SpawnNamespaces, CollectNamespaces, FinishRelay, CleanUp,
           ReportCleanup, LeaveReceiver, SpawnInit, CollectInit, LeaveNamespaces,
           SendReady, SpawnShell, CollectDaemon, ReportStatus, LeaveInit, FailHelper
    <2>3. CASE Environment \/ Ended
      BY <2>3, <1>t DEF WireTypes, Environment, SpawnDaemon, ExitImage, Die, Expire, Ended,
         vars, channel, gateVars, imageVars
    <2> QED
      BY <2>1, <2>2, <2>3 DEF Next
  <1> QED
    BY <1>1, <1>2 DEF WireTypes, Down

LEMMA TypeStep == TypeOK /\ Next => TypeOK'
  BY PlanTypesStep, ResourceTypesStep, KernelTypesStep, AtTypeStep, WireTypesStep
  DEF TypeOK, ProcessTypes, KernelTypes, AtType

\* Every variable keeps its type, whatever the daemons, the statuses and the
\* number of directives are.
THEOREM TypeCorrect == Spec => []TypeOK
  <1>1. TypeOK /\ [Next]_vars => TypeOK'
    <2>1. TypeOK /\ UNCHANGED vars => TypeOK'
      BY DEF TypeOK, PlanTypes, ResourceTypes, ProcessTypes, WireTypes, vars, plan,
             resources, processes, channel, gateVars, imageVars
    <2> QED
      BY <2>1, TypeStep
  <1> QED
    BY InitTypeOK, <1>1, PTL DEF Spec

-----------------------------------------------------------------------------
(* The kernel's operations and the process tree *)

LEMMA Distinct == /\ "receiver" \notin Image /\ "namespaces" \notin Image
                  /\ "init" \notin Image
  BY DaemonsAssumption DEF Image, Trusted

\* A process is spawned by a running member of the domain; image code by init
\* or by image code.
LEMMA SpawnTree ==
    ASSUME KernelTypes, TreeInv, NEW c \in Process, NEW p \in Process, Spawn(c, p),
           Runs(p), p \in members,
           c \in Image => p \in Image \cup {"init"}
    PROVE TreeInv'
  <1>1. /\ proc' = [proc EXCEPT ![c] = "running"]
        /\ members' = members \cup {c}
        /\ proc[c] = "absent" /\ proc[p] = "running"
    BY DEF Spawn, Runs
  <1>2. ASSUME proc'["init"] \notin Live PROVE \A q \in Image : proc'[q] \in Gone
    <2>1. c # "init" /\ proc["init"] \notin Live
      BY <1>1, <1>2, NamedProcesses DEF KernelTypes, Live
    <2>2. c \notin Image
      BY <2>1, <1>1 DEF TreeInv, Gone, Live
    <2> QED
      BY <2>1, <2>2, <1>1, NamedProcesses DEF TreeInv, KernelTypes
  <1>3. \A q \in Process \ {"receiver"} : proc'[q] \in Live => q \in members'
    BY <1>1 DEF TreeInv, KernelTypes
  <1> QED
    BY <1>2, <1>3 DEF TreeInv, Live, Gone

LEMMA ExitTree ==
    ASSUME KernelTypes, TreeInv, NEW p \in Process, NEW s, Exit(p, s), Runs(p)
    PROVE TreeInv'
  <1>1. UNCHANGED members
    BY DEF Exit
  <1>2. \A q \in Process : proc'[q] \in Live => proc[q] \in Live
    BY DEF Exit, KernelTypes, Live, Runs
  <1>3. ASSUME proc'["init"] \notin Live PROVE \A q \in Image : proc'[q] \in Gone
    <2>1. p # "init"
      BY <1>3, NamedProcesses DEF Exit, Live, Runs
    <2>2. proc' = [proc EXCEPT ![p] = "zombie"]
      BY <2>1 DEF Exit
    <2>3. proc["init"] \notin Live
      BY <1>3, <2>1, <2>2, NamedProcesses DEF KernelTypes
    <2>4. p \notin Image
      BY <2>3 DEF TreeInv, Gone, Runs
    <2> QED
      BY <2>2, <2>3, <2>4, NamedProcesses DEF TreeInv, KernelTypes
  <1> QED
    BY <1>1, <1>2, <1>3 DEF TreeInv, Live, Gone

LEMMA KillTree ==
    ASSUME KernelTypes, TreeInv, NEW set, Kill(set)
    PROVE TreeInv'
  <1>1. /\ UNCHANGED members
        /\ \A q \in Process : /\ proc'[q] \in Live <=> proc[q] \in Live
                              /\ proc[q] \in Gone => proc'[q] \in Gone
    BY DEF Kill, KernelTypes, Live, Runs, Gone
  <1> QED
    BY <1>1, NamedProcesses DEF TreeInv, Live, Gone

LEMMA CollectTree ==
    ASSUME KernelTypes, TreeInv, NEW p \in Process, Collect(p)
    PROVE TreeInv'
  <1>1. /\ UNCHANGED members
        /\ \A q \in Process : /\ proc'[q] \in Live <=> proc[q] \in Live
                              /\ proc[q] \in Gone => proc'[q] \in Gone
    BY DEF Collect, KernelTypes, Live, Gone
  <1> QED
    BY <1>1, NamedProcesses DEF TreeInv, Live, Gone

LEMMA DieTree ==
    ASSUME KernelTypes, TreeInv, Die
    PROVE TreeInv'
  <1>1. PICK p \in Process :
          /\ proc[p] = "dying"
          /\ p = "init" => \A q \in Image : proc[q] \notin Live
          /\ proc' = [q \in Process |->
                        CASE q = p -> "zombie"
                          [] p = "init" /\ q \in Image /\ proc[q] = "zombie" -> "reaped"
                          [] OTHER -> proc[q]]
    BY DEF Die
  <1>2. UNCHANGED members
    BY DEF Die
  <1>3. \A q \in Process : proc'[q] \in Live => proc[q] \in Live
    BY <1>1, Distinct DEF Live
  <1>4. ASSUME proc'["init"] \notin Live, NEW q \in Image PROVE proc'[q] \in Gone
    <2>0. q \in Process /\ q # "init" /\ proc[q] \in Life
      BY NamedProcesses, Distinct DEF KernelTypes
    <2>1. CASE p = "init"
      <3>1. proc[q] \in Gone \cup {"zombie"}
        BY <2>0, <2>1, <1>1 DEF Life, Live, Gone
      <3>2. CASE proc[q] = "zombie"
        BY <3>2, <2>0, <2>1, <1>1 DEF Gone
      <3>3. CASE proc[q] \in Gone
        BY <3>3, <2>0, <2>1, <1>1 DEF Gone
      <3> QED
        BY <3>1, <3>2, <3>3
    <2>2. CASE p # "init"
      <3>1. proc["init"] \notin Live
        BY <1>4, <1>1, <2>2, NamedProcesses
      <3>2. proc[q] \in Gone /\ q # p
        BY <3>1, <1>1 DEF TreeInv, Gone, Live
      <3> QED
        BY <3>2, <2>0, <2>2, <1>1
    <2> QED
      BY <2>1, <2>2
  <1> QED
    BY <1>2, <1>3, <1>4 DEF TreeInv, Live, Gone

-----------------------------------------------------------------------------
(* The kernel's operations, applied by the actions *)

LEMMA Parts == IInv => /\ TypeOK /\ TreeInv /\ JoinInv /\ PhaseInv /\ HoldInv
                       /\ PlanTypes /\ ResourceTypes /\ ProcessTypes /\ WireTypes
                       /\ KernelTypes /\ AtType
  BY DEF IInv, TypeOK, ProcessTypes, KernelTypes, AtType

\* What a helper or image code does to the processes is done by a running one.
LEMMA OthersRun ==
    ASSUME Helpers \/ SpawnDaemon \/ ExitImage
    PROVE ~NoneRuns
  <1>1. CASE \/ ExchangeIdentity \/ JoinDomain \/ ReportJoined \/ ReceiveVolume \/ PrepareRoot
             \/ ReceiveGate \/ SpawnNamespaces \/ CollectNamespaces \/ FinishRelay
             \/ CleanUp \/ ReportCleanup \/ LeaveReceiver
    BY <1>1, NamedProcesses DEF NoneRuns, HelperGo, ExchangeIdentity, JoinDomain, ReportJoined,
       ReceiveVolume, PrepareRoot, ReceiveGate, SpawnNamespaces, CollectNamespaces,
       FinishRelay, CleanUp, ReportCleanup, LeaveReceiver
  <1>2. CASE \/ SpawnInit \/ CollectInit \/ LeaveNamespaces \/ SendReady \/ SpawnShell
             \/ CollectDaemon \/ ReportStatus \/ LeaveInit
    BY <1>2, NamedProcesses DEF NoneRuns, HelperGo, SpawnInit, CollectInit, LeaveNamespaces,
       SendReady, SpawnShell, CollectDaemon, ReportStatus, LeaveInit
  <1>3. CASE FailHelper \/ SpawnDaemon \/ ExitImage
    BY <1>3, NamedProcesses DEF NoneRuns, FailHelper, SpawnDaemon, ExitImage, Process
  <1> QED
    BY <1>1, <1>2, <1>3 DEF Helpers

\* The helpers and image code, as the kernel sees them.
LEMMA OthersMove ==
    ASSUME IInv, Helpers \/ SpawnDaemon \/ ExitImage
    PROVE \/ UNCHANGED processes
          \/ /\ UNCHANGED <<proc, code>> /\ proc["receiver"] = "running"
             /\ members' = members \cup {"receiver"}
          \/ \E c \in Process \ {"receiver"}, p \in Process :
               /\ Spawn(c, p) /\ Runs(p) /\ p \in members
               /\ c \in Image => p \in Image \cup {"init"}
          \/ \E p \in Process, s \in Int : Runs(p) /\ Exit(p, s)
          \/ \E p \in Process \ {"receiver"} : Collect(p)
  <1>0. KernelTypes /\ TreeInv /\ JoinInv
    BY Parts
  <1>1. CASE \/ ExchangeIdentity \/ ReportJoined \/ ReceiveVolume \/ PrepareRoot
             \/ ReceiveGate \/ FinishRelay \/ CleanUp \/ ReportCleanup \/ SendReady
    BY <1>1 DEF ExchangeIdentity, ReportJoined, ReceiveVolume, PrepareRoot,
                ReceiveGate, FinishRelay, CleanUp, ReportCleanup, SendReady
  <1>2. CASE JoinDomain
    BY <1>2 DEF JoinDomain, HelperGo, Runs
  <1>3. CASE SpawnNamespaces
    <2>1. Spawn("namespaces", "receiver") /\ Runs("receiver") /\ at["receiver"] = "launch"
      BY <1>3 DEF SpawnNamespaces, HelperGo
    <2>2. "receiver" \in members
      BY <2>1, <1>0 DEF JoinInv
    <2> QED
      BY <2>1, <2>2, NamedProcesses, Distinct
  <1>4. CASE SpawnInit
    <2>1. Spawn("init", "namespaces") /\ Runs("namespaces")
      BY <1>4 DEF SpawnInit, HelperGo
    <2>2. "namespaces" \in members
      BY <2>1, <1>0, NamedProcesses DEF TreeInv, Runs, Live
    <2> QED
      BY <2>1, <2>2, NamedProcesses, Distinct
  <1>5. CASE SpawnShell
    <2>1. Spawn("shell", "init") /\ Runs("init")
      BY <1>5 DEF SpawnShell, HelperGo
    <2>2. "init" \in members
      BY <2>1, <1>0, NamedProcesses DEF TreeInv, Runs, Live
    <2> QED
      BY <2>1, <2>2, NamedProcesses, Distinct
  <1>6. CASE SpawnDaemon
    <2>1. PICK p \in Image, d \in Daemons : Runs(p) /\ Spawn(d, p)
      BY <1>6 DEF SpawnDaemon
    <2>2. p \in Process \ {"receiver"} /\ d \in Process \ {"receiver"}
      BY NamedProcesses, Distinct DEF Image
    <2>3. p \in members
      BY <2>1, <2>2, <1>0 DEF TreeInv, Runs, Live
    <2> QED
      BY <2>1, <2>2, <2>3
  <1>7. CASE CollectNamespaces \/ CollectInit \/ ReportStatus
    BY <1>7, NamedProcesses, Distinct DEF CollectNamespaces, CollectInit, ReportStatus
  <1>8. CASE CollectDaemon
    BY <1>8, NamedProcesses, Distinct DEF CollectDaemon, Image
  <1>9. CASE LeaveReceiver \/ LeaveNamespaces \/ LeaveInit
    <2>1. \A h \in Process : Normal(code[h]) \in Int
      BY <1>0, NormalType DEF KernelTypes
    <2> QED
      BY <2>1, <1>9, NamedProcesses DEF LeaveReceiver, LeaveNamespaces, LeaveInit, HelperGo
  <1>10. CASE FailHelper
    BY <1>10 DEF FailHelper, Failed, Process
  <1>11. CASE ExitImage
    BY <1>11, StatusesAssumption, NamedProcesses DEF ExitImage
  <1> QED
    BY <1>1, <1>2, <1>3, <1>4, <1>5, <1>6, <1>7, <1>8, <1>9, <1>10, <1>11 DEF Helpers

\* Nothing that another process does brings the receiver back or moves it out.
LEMMA OthersReceiver ==
    ASSUME IInv, Helpers \/ SpawnDaemon \/ ExitImage \/ Die
    PROVE /\ members \subseteq members'
          /\ Runs("receiver")' => Runs("receiver")
          /\ proc["receiver"] \in Gone <=> proc'["receiver"] \in Gone
          /\ proc["receiver"] = "absent" <=> proc'["receiver"] = "absent"
  <1>0. KernelTypes /\ "receiver" \in Process /\ "receiver" \notin Image
    BY Parts, NamedProcesses, Distinct
  <1>1. CASE Helpers \/ SpawnDaemon \/ ExitImage
    <2>1. CASE UNCHANGED processes
      BY <2>1 DEF processes, Runs
    <2>2. CASE UNCHANGED proc /\ members' = members \cup {"receiver"}
      BY <2>2 DEF Runs
    <2>3. ASSUME NEW c \in Process \ {"receiver"}, NEW p \in Process, Spawn(c, p)
          PROVE members \subseteq members' /\ UNCHANGED proc["receiver"]
      BY <2>3, <1>0 DEF Spawn, KernelTypes
    <2>4. ASSUME NEW p \in Process, NEW s, Runs(p), Exit(p, s)
          PROVE /\ members \subseteq members'
                /\ proc'["receiver"] # proc["receiver"] =>
                     proc["receiver"] = "running" /\ proc'["receiver"] = "zombie"
      BY <2>4, <1>0 DEF Exit, KernelTypes, Runs
    <2>5. ASSUME NEW p \in Process \ {"receiver"}, Collect(p)
          PROVE members \subseteq members' /\ UNCHANGED proc["receiver"]
      BY <2>5, <1>0 DEF Collect, KernelTypes
    <2> QED
      BY <1>1, <2>1, <2>2, <2>3, <2>4, <2>5, OthersMove DEF Runs, Gone
  <1>2. CASE Die
    <2>1. /\ UNCHANGED members
          /\ proc'["receiver"] # proc["receiver"] =>
               proc["receiver"] = "dying" /\ proc'["receiver"] = "zombie"
      BY <1>2, <1>0 DEF Die
    <2> QED
      BY <2>1 DEF Runs, Gone
  <1> QED
    BY <1>1, <1>2

-----------------------------------------------------------------------------
(* Every step keeps the inductive invariant *)

\* What the supervisor does to the processes.
LEMMA SupervisorMove ==
    ASSUME Supervisor
    PROVE \/ UNCHANGED <<processes, at>>
          \/ FreshStep /\ sup = "next" /\ sup' \in {"namespace", "copy"}
          \/ Launch
          \/ \E set : Kill(set) /\ UNCHANGED at /\ (TerminateHelper \/ CancelDomain)
          \/ (\E p \in Process : Collect(p)) /\ UNCHANGED at
                /\ (AwaitTermination \/ CollectReceiver \/ Drain)
  <1>1. CASE SteadySupervisor
    BY <1>1, Steady
  <1>2. CASE BeginExec \/ BeginCopy
    BY <1>2 DEF BeginExec, BeginCopy, Go
  <1>3. CASE TerminateHelper \/ CancelDomain
    BY <1>3 DEF TerminateHelper, CancelDomain
  <1>4. CASE AwaitTermination \/ CollectReceiver
    BY <1>4, NamedProcesses DEF AwaitTermination, CollectReceiver
  <1>5. CASE Drain
    BY <1>5, NamedProcesses DEF Drain, Children, Adopted
  <1> QED
    BY <1>1, <1>2, <1>3, <1>4, <1>5 DEF Supervisor, SteadySupervisor

LEMMA FreshProcesses ==
    ASSUME FreshStep
    PROVE /\ \A p \in Process : proc'[p] = "absent"
          /\ at'["receiver"] = "start" /\ up' = <<>> /\ members' = {}
  BY DEF FreshStep, Trusted

LEMMA TreeStep == IInv /\ Next => TreeInv'
  <1> SUFFICES ASSUME IInv, Next PROVE TreeInv'
    OBVIOUS
  <1>0. KernelTypes /\ TreeInv /\ PhaseInv
    BY Parts
  <1>k. UNCHANGED processes => TreeInv'
    BY <1>0 DEF TreeInv, processes
  <1>1. CASE Supervisor
    <2>1. CASE FreshStep
      BY <2>1, FreshProcesses, NamedProcesses DEF TreeInv, Gone, Live
    <2>2. CASE Launch
      <3>1. CASE UNCHANGED processes
        BY <3>1, <1>k
      <3>2. CASE Spawn("receiver", "supervisor")
        <4>1. /\ members \subseteq members'
              /\ \A p \in Process \ {"receiver"} : UNCHANGED proc[p]
          BY <3>2, <1>0 DEF Spawn, KernelTypes
        <4> QED
          BY <4>1, <1>0, NamedProcesses, Distinct DEF TreeInv
      <3> QED
        BY <2>2, <3>1, <3>2 DEF Launch
    <2> QED
      BY <1>1, <1>0, <1>k, <2>1, <2>2, SupervisorMove, KillTree, CollectTree
  <1>2. CASE Helpers \/ SpawnDaemon \/ ExitImage
    <2>1. ASSUME UNCHANGED <<proc, code>>, members' = members \cup {"receiver"} PROVE TreeInv'
      BY <2>1, <1>0 DEF TreeInv
    <2> QED
      BY <1>2, <1>0, <1>k, <2>1, OthersMove, SpawnTree, ExitTree, CollectTree
  <1>3. CASE Die
    BY <1>3, <1>0, DieTree
  <1>4. CASE Ended \/ \E d \in Timers : Expire(d)
    BY <1>4, <1>k DEF Ended, Expire, vars
  <1> QED
    BY <1>1, <1>2, <1>3, <1>4 DEF Next, Environment

\* The receiver at its join: every step of its own or of the supervisor.
LEMMA JoinStep == IInv /\ Next => JoinInv'
  <1> SUFFICES ASSUME IInv, Next PROVE JoinInv'
    OBVIOUS
  <1> DEFINE J1 == proc["receiver"] = "absent" => at["receiver"] = "start"
             J2 == Runs("receiver") /\ at["receiver"] \notin {"start", "join"}
                     => "receiver" \in members
             J3 == \A i \in 1..Len(up) : up[i].kind = "joined" => "receiver" \in members
             J4 == sup \in JoinedPoints => "receiver" \in members
  <1>0. /\ J1 /\ J2 /\ J3 /\ J4
        /\ KernelTypes /\ PhaseInv /\ AtType /\ up \in Seq(Packets)
        /\ "receiver" \in Process /\ "receiver" \in Trusted
    BY Parts, NamedProcesses DEF JoinInv, Trusted, WireTypes
  <1>1. CASE FreshStep /\ sup' \in {"namespace", "copy"}
    BY <1>1, FreshProcesses, <1>0 DEF JoinInv, Runs, JoinedPoints
  <1>2. CASE Launch
    <2>1. UNCHANGED at /\ members \subseteq members'
      BY <1>2 DEF Launch, Spawn, processes
    <2>3. at["receiver"] = "start" \/ UNCHANGED proc
      BY <1>2, <1>0 DEF Launch, Spawn, processes
    <2>2. UNCHANGED up /\ sup' \notin JoinedPoints
      BY <1>2 DEF Launch, Go, JoinedPoints
    <2> QED
      BY <2>1, <2>2, <2>3, <1>0 DEF JoinInv, Runs
  <1> SUFFICES ASSUME ~(FreshStep /\ sup' \in {"namespace", "copy"}), ~Launch
               PROVE JoinInv'
    BY <1>1, <1>2
  <1>3. /\ members \subseteq members'
        /\ proc'["receiver"] = "absent" => proc["receiver"] = "absent"
        /\ Runs("receiver")' => Runs("receiver")
    <2>1. CASE Supervisor
      <3>1. ASSUME NEW set, Kill(set)
            PROVE /\ UNCHANGED members
                  /\ proc'["receiver"] = "absent" => proc["receiver"] = "absent"
                  /\ Runs("receiver")' => Runs("receiver")
        BY <3>1, <1>0 DEF Kill, KernelTypes, Runs
      <3>2. ASSUME NEW p \in Process, Collect(p)
            PROVE /\ UNCHANGED members
                  /\ proc'["receiver"] = "absent" => proc["receiver"] = "absent"
                  /\ Runs("receiver")' => Runs("receiver")
        BY <3>2, <1>0 DEF Collect, KernelTypes, Runs
      <3> QED
        BY <2>1, <3>1, <3>2, SupervisorMove DEF processes, Runs
    <2>2. CASE Helpers \/ SpawnDaemon \/ ExitImage \/ Die
      BY <2>2, OthersReceiver
    <2>3. CASE Ended \/ \E d \in Timers : Expire(d)
      BY <2>3 DEF Ended, Expire, vars, processes, Runs
    <2> QED
      BY <2>1, <2>2, <2>3 DEF Next, Environment
  <1>4. J1' /\ J2'
    <2>1. CASE UNCHANGED at["receiver"]
      BY <2>1, <1>3, <1>0
    <2>2. CASE Runs("receiver") /\ at["receiver"] \notin {"start", "join"}
      BY <2>2, <1>3, <1>0 DEF Runs
    <2>3. CASE ExchangeIdentity
      <3>1. at'["receiver"] = "join" /\ Runs("receiver")
        BY <2>3, <1>0 DEF ExchangeIdentity, HelperGo, AtType
      <3> QED
        BY <3>1, <1>3 DEF Runs
    <2>4. CASE JoinDomain
      BY <2>4, <1>3 DEF JoinDomain, HelperGo, Runs
    <2>5. \/ UNCHANGED at["receiver"]
          \/ Runs("receiver") /\ at["receiver"] \notin {"start", "join"}
          \/ ExchangeIdentity \/ JoinDomain
      <3>1. CASE Supervisor
        BY <3>1, SupervisorMove DEF TerminateHelper, CancelDomain
      <3>2. CASE Helpers
        <4>1. CASE \/ ReportJoined \/ ReceiveVolume \/ PrepareRoot \/ ReceiveGate
                   \/ SpawnNamespaces \/ CollectNamespaces \/ FinishRelay
                   \/ CleanUp \/ ReportCleanup \/ LeaveReceiver
          BY <4>1 DEF ReportJoined, ReceiveVolume, PrepareRoot, ReceiveGate, HelperGo,
             SpawnNamespaces, CollectNamespaces, FinishRelay, CleanUp, ReportCleanup,
             LeaveReceiver
        <4>2. CASE SpawnInit \/ CollectInit \/ LeaveNamespaces
          BY <4>2, <1>0 DEF SpawnInit, CollectInit, LeaveNamespaces, HelperGo, AtType
        <4>3. CASE SendReady \/ SpawnShell \/ ReportStatus \/ LeaveInit
          BY <4>3, <1>0 DEF SendReady, SpawnShell, ReportStatus, LeaveInit, HelperGo, AtType
        <4>4. CASE CollectDaemon \/ FailHelper
          BY <4>4 DEF CollectDaemon, FailHelper
        <4> QED
          BY <3>2, <4>1, <4>2, <4>3, <4>4 DEF Helpers
      <3>3. CASE Environment \/ Ended
        BY <3>3 DEF Environment, SpawnDaemon, ExitImage, Die, Expire, Ended, vars
      <3> QED
        BY <3>1, <3>2, <3>3 DEF Next
    <2> QED
      BY <2>1, <2>2, <2>3, <2>4, <2>5
  <1>5. J3'
    <2>1. CASE up' = <<>>
      BY <2>1
    <2>2. CASE UNCHANGED up
      BY <2>2, <1>0, <1>3
    <2>3. CASE up # <<>> /\ up' = Tail(up)
      BY <2>3, <1>0, <1>3
    <2>4. ASSUME NEW kind, NEW status, Send(kind, status),
                 kind = "joined" => "receiver" \in members
          PROVE J3'
      <3>1. up' = Append(up, [kind |-> kind, status |-> status])
        BY <2>4 DEF Send
      <3>2. /\ Len(up') = Len(up) + 1
            /\ \A i \in 1..Len(up) : up'[i] = up[i]
            /\ up'[Len(up) + 1] = [kind |-> kind, status |-> status]
        BY <3>1, <1>0
      <3>3. ASSUME NEW i \in 1..Len(up'), up'[i].kind = "joined" PROVE "receiver" \in members
        <4>1. CASE i = Len(up) + 1
          <5>1. up'[i].kind = kind
            BY <3>2, <4>1
          <5> QED
            BY <5>1, <3>3, <2>4
        <4>2. CASE i # Len(up) + 1
          <5>1. i \in 1..Len(up)
            BY <3>2, <4>2, <1>0
          <5> QED
            BY <5>1, <3>2, <3>3, <1>0
        <4> QED
          BY <4>1, <4>2
      <3> QED
        BY <3>3, <1>3
    <2>5. CASE ReportJoined
      BY <2>5, <2>4, <1>0 DEF ReportJoined, HelperGo
    <2>6. CASE ExchangeIdentity \/ ReportCleanup
      BY <2>6, <2>4 DEF ExchangeIdentity, ReportCleanup
    <2> QED
      BY <2>1, <2>2, <2>3, <2>5, <2>6, UpMoves
  <1>6. J4'
    <2>1. CASE AwaitJoined
      <3>1. up # <<>> /\ Head(up).kind = "joined"
        BY <2>1 DEF AwaitJoined, Receive
      <3>2. 1 \in 1..Len(up) /\ up[1].kind = "joined"
        BY <3>1, <1>0
      <3> QED
        BY <3>2, <1>0, <1>3
    <2>2. AwaitJoined \/ (sup' \in JoinedPoints => sup \in JoinedPoints)
      <3>1. CASE Supervisor
        <4>1. CASE \/ BeginExec \/ CreateNamespace \/ MountStorage \/ CreateDomain \/ Rollback
                   \/ OfferDomain \/ AbandonLaunch \/ BeginCopy \/ MountCopy \/ CopyFiles
                   \/ Finish \/ TerminateHelper \/ AwaitTermination \/ CancelDomain
          BY <4>1 DEF Go, Retain, JoinedPoints, BeginExec, CreateNamespace, MountStorage,
             CreateDomain, Rollback, OfferDomain, AbandonLaunch, BeginCopy, MountCopy,
             CopyFiles, Finish, TerminateHelper, AwaitTermination, CancelDomain
        <4>2. CASE \/ SendVolume \/ SendGate \/ AwaitReady \/ StartCommand \/ Admit \/ FailSetup
                   \/ ObserveExit \/ ObserveFailure \/ AwaitCleanup
          BY <4>2 DEF Go, JoinedPoints, SendVolume, SendGate, AwaitReady, StartCommand, Admit,
             FailSetup, ObserveExit, ObserveFailure, AwaitCleanup
        <4>3. CASE \/ AwaitEmpty \/ RemoveDomain \/ CollectReceiver \/ Drain \/ RejectAssigned
                   \/ ReleaseNamespace \/ Unmount \/ Judge
          BY <4>3 DEF Go, Retain, JoinedPoints, AwaitEmpty, RemoveDomain, CollectReceiver,
             Drain, RejectAssigned, ReleaseNamespace, Unmount, Judge
        <4> QED
          BY <3>1, <4>1, <4>2, <4>3 DEF Supervisor
      <3>2. CASE Helpers \/ SpawnDaemon \/ ExitImage \/ Die
        BY <3>2, OthersKeepSupervisor DEF plan
      <3>3. CASE Ended \/ \E d \in Timers : Expire(d)
        BY <3>3 DEF Ended, Expire, vars, plan
      <3> QED
        BY <3>1, <3>2, <3>3 DEF Next, Environment
    <2> QED
      BY <2>1, <2>2, <1>0, <1>3
  <1> QED
    BY <1>4, <1>5, <1>6 DEF JoinInv

-----------------------------------------------------------------------------
(* Quiescence *)

LEMMA QuietRuns == Quiescent => NoneRuns
  BY DEF Quiescent, NoneRuns, Runs, Gone

\* No step of a process that does not run, and no spawn, wakes one up.
LEMMA GoneStays ==
    ASSUME IInv, Next, Quiescent, ~Launch
    PROVE Quiescent'
  <1>0. KernelTypes /\ NoneRuns
    BY Parts, QuietRuns
  <1>1. CASE Supervisor
    <2>1. CASE FreshStep
      BY <2>1, FreshProcesses DEF Quiescent, Gone
    <2>2. ASSUME NEW set, Kill(set) PROVE Quiescent'
      BY <2>2, <1>0 DEF Kill, Quiescent, NoneRuns
    <2>3. ASSUME NEW p \in Process, Collect(p) PROVE FALSE
      BY <2>3 DEF Collect, Quiescent, Gone
    <2> QED
      BY <1>1, <2>1, <2>2, <2>3, SupervisorMove DEF Quiescent, processes
  <1>2. CASE Helpers \/ SpawnDaemon \/ ExitImage
    BY <1>2, <1>0, OthersRun
  <1>3. CASE Die
    BY <1>3 DEF Die, Quiescent, Gone
  <1>4. CASE Ended \/ \E d \in Timers : Expire(d)
    BY <1>4 DEF Ended, Expire, vars, processes, Quiescent
  <1> QED
    BY <1>1, <1>2, <1>3, <1>4 DEF Next, Environment

LEMMA NoneStays ==
    ASSUME IInv, Next, NoneRuns, ~Launch
    PROVE NoneRuns'
  <1>0. KernelTypes
    BY Parts
  <1>1. CASE Supervisor
    <2>1. CASE FreshStep
      BY <2>1, FreshProcesses DEF NoneRuns, Runs
    <2>2. ASSUME NEW set, Kill(set) PROVE NoneRuns'
      BY <2>2, <1>0 DEF Kill, NoneRuns, Runs
    <2>3. ASSUME NEW p \in Process, Collect(p) PROVE NoneRuns'
      BY <2>3, <1>0 DEF Collect, NoneRuns, Runs, KernelTypes
    <2> QED
      BY <1>1, <2>1, <2>2, <2>3, SupervisorMove DEF NoneRuns, Runs, processes
  <1>2. CASE Helpers \/ SpawnDaemon \/ ExitImage
    BY <1>2, OthersRun
  <1>3. CASE Die
    BY <1>3, <1>0 DEF Die, NoneRuns, Runs, KernelTypes
  <1>4. CASE Ended \/ \E d \in Timers : Expire(d)
    BY <1>4 DEF Ended, Expire, vars, processes, NoneRuns, Runs
  <1> QED
    BY <1>1, <1>2, <1>3, <1>4 DEF Next, Environment

\* A drain that finds no child, after the receiver was collected, leaves
\* nothing: what the dead tree still holds would be adopted.
LEMMA DrainedIsQuiescent ==
    ASSUME IInv, Children = {}, proc["receiver"] \in Gone, NoneRuns
    PROVE Quiescent
  <1>0. KernelTypes /\ TreeInv
    BY Parts
  <1>1. proc["namespaces"] \in Gone
    BY <1>0 DEF Children, Adopted, Live, Gone
  <1>2. proc["init"] \in Gone
    BY <1>0, <1>1 DEF Children, Adopted, Live, Gone
  <1>3. \A p \in Image : proc[p] \in Gone
    BY <1>0, <1>2 DEF TreeInv, Live, Gone
  <1> QED
    BY <1>1, <1>2, <1>3 DEF Quiescent, Process, Trusted

\* Killing the members of the domain stops everything once the receiver has
\* joined or is dead.
LEMMA CancelStopsAll ==
    ASSUME IInv, Kill(members), "receiver" \in members \/ ~Runs("receiver")
    PROVE NoneRuns'
  <1>0. KernelTypes /\ TreeInv
    BY Parts
  <1>1. \A p \in Process : Runs(p) => p \in members
    BY <1>0 DEF TreeInv, Runs, Live
  <1> QED
    BY <1>0, <1>1 DEF Kill, NoneRuns, Runs

\* The supervisor's moves between the groups of its program points.
LEMMA SupervisorPoints ==
    ASSUME Supervisor
    PROVE /\ sup' \in QuietPoints => \/ sup \in QuietPoints
                                     \/ Drain /\ sup \in {"drain", "collect"} /\ Children = {}
                                             /\ UNCHANGED processes
          /\ sup' \in CancelledPoints =>
               \/ sup \in CancelledPoints
               \/ CancelDomain /\ sup \in {"cancel", "abandon"} /\ Kill(members)
               \/ (CreateDomain \/ Rollback) /\ sup \in QuietPoints
          /\ sup' \in {"terminating", "abandon"} =>
               \/ TerminateHelper
               \/ sup = "terminating" /\ AwaitTermination
               \/ Launch
          /\ sup' \in {"drain", "collect"} =>
               \/ sup \in {"drain", "collect"} /\ Drain
               \/ CollectReceiver /\ Collect("receiver")
               \/ RemoveDomain /\ proc["receiver"] \in Gone
               \/ (CreateDomain \/ Rollback) /\ sup \in QuietPoints
  <1> USE DEF Go, Retain, QuietPoints, CancelledPoints
  <1>1. CASE \/ BeginExec \/ CreateNamespace \/ MountStorage \/ CreateDomain \/ Rollback
             \/ Launch \/ BeginCopy \/ MountCopy \/ CopyFiles \/ Finish
    BY <1>1 DEF BeginExec, CreateNamespace, MountStorage, CreateDomain, Rollback, Launch,
       BeginCopy, MountCopy, CopyFiles, Finish
  <1>2. CASE \/ OfferDomain \/ AwaitJoined \/ AbandonLaunch
             \/ SendVolume \/ SendGate \/ AwaitReady \/ StartCommand \/ Admit \/ FailSetup
             \/ ObserveExit \/ ObserveFailure \/ AwaitCleanup
    BY <1>2 DEF OfferDomain, AwaitJoined, AbandonLaunch, SendVolume, SendGate, AwaitReady,
       StartCommand, Admit, FailSetup, ObserveExit, ObserveFailure, AwaitCleanup
  <1>3. CASE TerminateHelper \/ AwaitTermination \/ CancelDomain \/ AwaitEmpty \/ RemoveDomain
    BY <1>3 DEF TerminateHelper, AwaitTermination, CancelDomain, AwaitEmpty, RemoveDomain
  <1>4. CASE CollectReceiver \/ Drain
    BY <1>4 DEF CollectReceiver, Drain
  <1>5. CASE RejectAssigned \/ ReleaseNamespace \/ Unmount \/ Judge
    BY <1>5 DEF RejectAssigned, ReleaseNamespace, Unmount, Judge
  <1> QED
    BY <1>1, <1>2, <1>3, <1>4, <1>5 DEF Supervisor

LEMMA IdleStep ==
    ASSUME Ended \/ \E d \in Timers : Expire(d)
    PROVE UNCHANGED <<sup, directive, outcome, resources, processes, at, channel>>
  BY DEF Ended, Expire, vars, plan

LEMMA PhaseStep == IInv /\ Next => PhaseInv'
  <1> SUFFICES ASSUME IInv, Next PROVE PhaseInv'
    OBVIOUS
  <1>0. KernelTypes /\ PhaseInv /\ JoinInv /\ "receiver" \in Process
    BY Parts, NamedProcesses
  <1>1. CASE Supervisor
    <2>0. Launch => sup = "launch" /\ sup' \in {"identify", "abandon"}
      BY DEF Launch, Go
    <2>1. (sup \in QuietPoints => Quiescent) /\ (sup \in CancelledPoints => NoneRuns)
      BY <1>0 DEF PhaseInv
    <2>2. sup' \in QuietPoints => Quiescent'
      <3>1. CASE sup \in QuietPoints
        BY <3>1, <2>0, <2>1, GoneStays DEF QuietPoints
      <3>2. CASE sup \in {"drain", "collect"} /\ Children = {} /\ UNCHANGED processes
        <4>1. Quiescent
          BY <3>2, <1>0, DrainedIsQuiescent DEF PhaseInv, CancelledPoints
        <4> QED
          BY <4>1, <3>2 DEF Quiescent, processes
      <3> QED
        BY <1>1, <3>1, <3>2, SupervisorPoints
    <2>3. sup' \in CancelledPoints => NoneRuns'
      <3>1. CASE sup \in CancelledPoints
        BY <3>1, <2>0, <2>1, NoneStays DEF CancelledPoints
      <3>2. CASE sup \in {"cancel", "abandon"} /\ Kill(members)
        BY <3>2, <1>0, CancelStopsAll DEF PhaseInv, JoinInv, JoinedPoints
      <3>3. CASE sup \in QuietPoints /\ ~Launch
        BY <3>3, <2>1, QuietRuns, NoneStays
      <3> QED
        BY <1>1, <2>0, <3>1, <3>2, <3>3, SupervisorPoints DEF CancelledPoints
    <2>4. sup' \in {"terminating", "abandon"} => ~Runs("receiver")'
      <3>1. CASE TerminateHelper
        BY <3>1, <1>0 DEF TerminateHelper, Kill, Runs
      <3>2. CASE sup = "terminating" /\ AwaitTermination
        BY <3>2, <1>0 DEF PhaseInv, AwaitTermination, Collect, KernelTypes, processes, Runs
      <3>3. CASE Launch /\ sup' = "abandon"
        <4>1. UNCHANGED processes /\ Quiescent
          BY <3>3, <2>0, <2>1 DEF Launch, Go, QuietPoints
        <4> QED
          BY <4>1, <1>0 DEF Quiescent, Gone, Runs, processes
      <3> QED
        BY <1>1, <2>0, <3>1, <3>2, <3>3, SupervisorPoints
        DEF Launch, Go
    <2>5. sup' \in {"drain", "collect"} => proc'["receiver"] \in Gone
      <3>1. CASE sup \in {"drain", "collect"} /\ Drain
        BY <3>1, <1>0 DEF PhaseInv, Drain, Collect, KernelTypes, processes, Gone
      <3>2. CASE Collect("receiver")
        BY <3>2, <1>0 DEF Collect, KernelTypes, Gone
      <3>3. CASE RemoveDomain /\ proc["receiver"] \in Gone
        BY <3>3 DEF RemoveDomain, processes
      <3>4. CASE (CreateDomain \/ Rollback) /\ sup \in QuietPoints
        BY <3>4, <2>1, <1>0 DEF CreateDomain, Rollback, processes, Quiescent
      <3> QED
        BY <1>1, <3>1, <3>2, <3>3, <3>4, SupervisorPoints
    <2> QED
      BY <2>2, <2>3, <2>4, <2>5 DEF PhaseInv
  <1>2. CASE Helpers \/ SpawnDaemon \/ ExitImage \/ Die
    <2>2. UNCHANGED sup
      BY <1>2, OthersKeepSupervisor DEF plan
    <2>3. ~Launch
      BY <2>2 DEF Launch, Go
    <2>4. sup \in QuietPoints => Quiescent'
      BY <1>0, <2>3, GoneStays DEF PhaseInv
    <2>5. sup \in CancelledPoints => NoneRuns'
      BY <1>0, <2>3, NoneStays DEF PhaseInv
    <2>6. /\ sup \in {"terminating", "abandon"} => ~Runs("receiver")'
          /\ sup \in {"drain", "collect"} => proc'["receiver"] \in Gone
      BY <1>2, <1>0, OthersReceiver DEF PhaseInv
    <2> QED
      BY <2>2, <2>4, <2>5, <2>6 DEF PhaseInv
  <1>3. CASE Ended \/ \E d \in Timers : Expire(d)
    BY <1>3, <1>0, IdleStep DEF PhaseInv, Quiescent, NoneRuns, Runs, processes
  <1> QED
    BY <1>1, <1>2, <1>3 DEF Next, Environment

LEMMA AbsentStays ==
    ASSUME IInv, Next, \A p \in Process : proc[p] = "absent", ~Launch
    PROVE \A p \in Process : proc'[p] = "absent"
  <1>1. CASE Supervisor
    <2>1. ASSUME NEW set, Kill(set) PROVE \A p \in Process : proc'[p] = "absent"
      BY <2>1 DEF Kill, Runs
    <2>2. ASSUME NEW p \in Process, Collect(p) PROVE FALSE
      BY <2>2 DEF Collect
    <2> QED
      BY <1>1, <2>1, <2>2, FreshProcesses, SupervisorMove DEF processes
  <1>2. CASE Helpers \/ SpawnDaemon \/ ExitImage
    BY <1>2, OthersRun DEF NoneRuns, Runs
  <1>3. CASE Die
    BY <1>3 DEF Die
  <1>4. CASE Ended \/ \E d \in Timers : Expire(d)
    BY <1>4, IdleStep DEF processes
  <1> QED
    BY <1>1, <1>2, <1>3, <1>4 DEF Next, Environment

Held ==
    /\ sup \in HeldPoints => namespace = "held"
    /\ sup \in MountedPoints => storage = "mounted"
    /\ sup \in UnmountedPoints => storage = "unmounted"
    /\ sup \in {"rollback", "launch"} => domain = "live"
    /\ sup = "retained" => storage = "retained"

LEMMA HeldStep == Held /\ Next => Held'
  <1> SUFFICES ASSUME Held, Next PROVE Held'
    OBVIOUS
  <1> USE DEF Go, Retain, Held, HeldPoints, MountedPoints, UnmountedPoints, BusyPoints
  <1>1. CASE \/ BeginExec \/ CreateNamespace \/ MountStorage \/ CreateDomain \/ Rollback
             \/ BeginCopy \/ MountCopy \/ CopyFiles \/ Finish
    BY <1>1 DEF BeginExec, CreateNamespace, MountStorage, CreateDomain, Rollback,
       BeginCopy, MountCopy, CopyFiles, Finish, FreshStep, resources
  <1>2. CASE \/ Launch \/ OfferDomain \/ AwaitJoined \/ AbandonLaunch
             \/ SendVolume \/ SendGate \/ AwaitReady \/ StartCommand
    BY <1>2 DEF Launch, OfferDomain, AwaitJoined, AbandonLaunch, SendVolume, SendGate,
       AwaitReady, StartCommand, resources
  <1>3. CASE Admit \/ FailSetup \/ ObserveExit \/ ObserveFailure \/ AwaitCleanup
    BY <1>3 DEF Admit, FailSetup, ObserveExit, ObserveFailure, AwaitCleanup, resources
  <1>4. CASE TerminateHelper \/ AwaitTermination \/ CancelDomain \/ AwaitEmpty \/ RemoveDomain
    BY <1>4 DEF TerminateHelper, AwaitTermination, CancelDomain, AwaitEmpty, RemoveDomain,
       resources
  <1>5. CASE CollectReceiver \/ Drain
    BY <1>5 DEF CollectReceiver, Drain
  <1>6. CASE RejectAssigned \/ ReleaseNamespace \/ Unmount \/ Judge
    BY <1>6 DEF RejectAssigned, ReleaseNamespace, Unmount, Judge
  <1>7. CASE Helpers \/ SpawnDaemon \/ ExitImage \/ Die
    BY <1>7, OthersKeepSupervisor DEF plan, resources
  <1>8. CASE Ended \/ \E d \in Timers : Expire(d)
    BY <1>8, IdleStep DEF resources
  <1> QED
    BY <1>1, <1>2, <1>3, <1>4, <1>5, <1>6, <1>7, <1>8 DEF Next, Supervisor, Environment

\* How the namespace and the domain come to be released, missing or removed.
LEMMA ReleaseMoves ==
    ASSUME Next
    PROVE /\ namespace' = "released" =>
               namespace = "released" \/ (sup \in QuietPoints /\ ~Launch)
          /\ domain' = "none" => domain = "none" \/ FreshStep
          /\ domain' = "removed" =>
               \/ domain = "removed"
               \/ Rollback /\ sup \in QuietPoints
               \/ RemoveDomain /\ sup \in CancelledPoints /\ ~Populated /\ UNCHANGED processes
  <1> USE DEF Go, Retain, QuietPoints, CancelledPoints
  <1>1. CASE \/ BeginExec \/ CreateNamespace \/ MountStorage \/ CreateDomain \/ Rollback
             \/ BeginCopy \/ MountCopy \/ CopyFiles \/ Finish
    BY <1>1 DEF BeginExec, CreateNamespace, MountStorage, CreateDomain, Rollback, Launch,
       BeginCopy, MountCopy, CopyFiles, Finish, FreshStep, resources
  <1>2. CASE \/ Launch \/ OfferDomain \/ AwaitJoined \/ AbandonLaunch
             \/ SendVolume \/ SendGate \/ AwaitReady \/ StartCommand
    BY <1>2 DEF Launch, OfferDomain, AwaitJoined, AbandonLaunch, SendVolume, SendGate,
       AwaitReady, StartCommand, resources
  <1>3. CASE Admit \/ FailSetup \/ ObserveExit \/ ObserveFailure \/ AwaitCleanup
    BY <1>3 DEF Admit, FailSetup, ObserveExit, ObserveFailure, AwaitCleanup, resources
  <1>4. CASE TerminateHelper \/ AwaitTermination \/ CancelDomain \/ AwaitEmpty \/ RemoveDomain
    BY <1>4 DEF TerminateHelper, AwaitTermination, CancelDomain, AwaitEmpty, RemoveDomain,
       resources
  <1>5. CASE CollectReceiver \/ Drain
    BY <1>5 DEF CollectReceiver, Drain
  <1>6. CASE RejectAssigned \/ ReleaseNamespace \/ Unmount \/ Judge
    BY <1>6 DEF RejectAssigned, ReleaseNamespace, Unmount, Judge, Launch
  <1>7. CASE Helpers \/ SpawnDaemon \/ ExitImage \/ Die
    BY <1>7, OthersKeepSupervisor DEF resources
  <1>8. CASE Ended \/ \E d \in Timers : Expire(d)
    BY <1>8, IdleStep DEF resources
  <1> QED
    BY <1>1, <1>2, <1>3, <1>4, <1>5, <1>6, <1>7, <1>8 DEF Next, Supervisor, Environment

\* An empty cgroup whose neighbours do not run stays empty.
LEMMA EmptyStays ==
    ASSUME IInv, Next, NoneRuns, ~Populated, ~Launch
    PROVE ~Populated'
  <1>0. KernelTypes
    BY Parts
  <1>1. CASE Supervisor
    <2>1. ASSUME NEW set, Kill(set) PROVE ~Populated'
      BY <2>1, <1>0 DEF Kill, Populated, Live, Runs, KernelTypes
    <2>2. ASSUME NEW p \in Process, Collect(p) PROVE ~Populated'
      BY <2>2, <1>0 DEF Collect, Populated, Live, KernelTypes
    <2> QED
      BY <1>1, <2>1, <2>2, FreshProcesses, SupervisorMove DEF processes, Populated
  <1>2. CASE Helpers \/ SpawnDaemon \/ ExitImage
    BY <1>2, OthersRun
  <1>3. CASE Die
    <2>1. UNCHANGED members /\ \A q \in Process : proc'[q] \in Live => proc[q] \in Live
      BY <1>3, <1>0 DEF Die, Live, KernelTypes
    <2> QED
      BY <2>1, <1>0 DEF Populated, KernelTypes, Live
  <1>4. CASE Ended \/ \E d \in Timers : Expire(d)
    BY <1>4, IdleStep DEF processes, Populated
  <1> QED
    BY <1>1, <1>2, <1>3, <1>4 DEF Next, Environment

LEMMA HoldStep == IInv /\ Next => HoldInv'
  <1> SUFFICES ASSUME IInv, Next PROVE HoldInv'
    OBVIOUS
  <1>0. HoldInv /\ PhaseInv /\ KernelTypes
    BY Parts
  <1>1. Held'
    BY <1>0, HeldStep DEF Held, HoldInv
  <1>2. namespace' = "released" => Quiescent'
    <2>1. Launch => namespace = "held" /\ UNCHANGED namespace
      BY <1>0 DEF HoldInv, HeldPoints, Launch, Go, resources
    <2>2. namespace = "released" \/ sup \in QuietPoints => Quiescent
      BY <1>0 DEF HoldInv, PhaseInv
    <2> QED
      BY <2>1, <2>2, GoneStays, ReleaseMoves
  <1>l. Launch => domain = "live" /\ UNCHANGED domain
    BY <1>0 DEF HoldInv, Launch, Go, resources
  <1>3. domain' = "none" => \A p \in Process : proc'[p] = "absent"
    BY <1>0, <1>l, AbsentStays, FreshProcesses, ReleaseMoves DEF HoldInv
  <1>4. domain' = "removed" => ~Populated' /\ NoneRuns'
    <2>1. CASE domain = "removed"
      <3>1. ~Populated /\ NoneRuns
        BY <2>1, <1>0 DEF HoldInv
      <3>2. CASE Launch
        BY <2>1, <3>2, <1>l
      <3> QED
        BY <3>1, <3>2, EmptyStays, NoneStays
    <2>2. CASE Rollback /\ sup \in QuietPoints
      <3>1. Quiescent /\ UNCHANGED processes
        BY <2>2, <1>0 DEF PhaseInv, Rollback
      <3> QED
        BY <3>1, <1>0 DEF Quiescent, processes, Populated, NoneRuns, Runs, Gone, Live, KernelTypes
    <2>3. CASE RemoveDomain /\ sup \in CancelledPoints /\ ~Populated /\ UNCHANGED processes
      BY <2>3, <1>0 DEF PhaseInv, processes, Populated, NoneRuns, Runs
    <2> QED
      BY <2>1, <2>2, <2>3, ReleaseMoves
  <1> QED
    BY <1>1, <1>2, <1>3, <1>4 DEF HoldInv, Held

-----------------------------------------------------------------------------
(* The theorems *)

LEMMA InitIInv == Init => IInv
  <1> SUFFICES ASSUME Init PROVE IInv
    OBVIOUS
  <1>1. TypeOK
    BY InitTypeOK
  <1>2. /\ sup = "next" /\ up = <<>> /\ members = {} /\ namespace = "none"
        /\ storage = "unmounted" /\ domain = "none"
        /\ \A p \in Process : proc[p] = "absent"
        /\ at["receiver"] = "start"
    BY DEF Init, Trusted
  <1>3. TreeInv
    BY <1>2, NamedProcesses DEF TreeInv, Gone, Live
  <1>4. JoinInv
    BY <1>2, NamedProcesses DEF JoinInv, JoinedPoints, Runs
  <1>5. PhaseInv
    BY <1>2 DEF PhaseInv, Quiescent, Gone, CancelledPoints
  <1>6. HoldInv
    BY <1>2 DEF HoldInv, HeldPoints, MountedPoints, UnmountedPoints, BusyPoints
  <1> QED
    BY <1>1, <1>3, <1>4, <1>5, <1>6 DEF IInv

LEMMA StutterIInv == IInv /\ UNCHANGED vars => IInv'
  BY DEF IInv, TypeOK, PlanTypes, ResourceTypes, ProcessTypes, WireTypes, TreeInv, JoinInv,
         PhaseInv, HoldInv, Quiescent, NoneRuns, Populated, Runs,
         vars, plan, resources, processes, channel, gateVars, imageVars

\* The inductive invariant of a stage's directives.
THEOREM Inductive == Spec => []IInv
  <1>1. IInv /\ [Next]_vars => IInv'
    BY TypeStep, TreeStep, JoinStep, PhaseStep, HoldStep, StutterIInv DEF IInv
  <1> QED
    BY InitIInv, <1>1, PTL DEF Spec

\* The storage is given back, and the namespace released, only when every
\* process of the step is dead and reaped.
THEOREM Quiescence == Spec => []QuiescentRelease
  <1>1. IInv => QuiescentRelease
    BY DEF IInv, TypeOK, PlanTypes, Points, Terminal, PhaseInv, HoldInv, QuiescentRelease,
           QuietPoints, MountedPoints, HeldPoints, BusyPoints
  <1> QED
    BY <1>1, Inductive, PTL

\* Image code lives only inside a domain that can still be cancelled, and a
\* domain is removed only when nothing lives in it.
THEOREM Containment == Spec => []ImageContained
  <1>1. ASSUME IInv, NEW p \in Image \cup {"init"}, proc[p] \in Live
        PROVE  p \in members /\ domain = "live"
    <2>1. p \in Process \ {"receiver"}
      BY <1>1, NamedProcesses, Distinct
    <2>2. p \in members
      BY <1>1, <2>1 DEF IInv, TreeInv
    <2>3. domain # "removed"
      BY <1>1, <2>2 DEF IInv, HoldInv, Populated
    <2>4. domain # "none"
      BY <1>1, <2>1 DEF IInv, HoldInv, Live
    <2> QED
      BY <1>1, <2>2, <2>3, <2>4 DEF IInv, TypeOK, ResourceTypes
  <1>2. ASSUME IInv, domain = "removed", NEW p \in members
        PROVE  proc[p] \notin Live
    BY <1>2 DEF IInv, HoldInv, Populated, Live
  <1>3. IInv => ImageContained
    BY <1>1, <1>2 DEF ImageContained
  <1> QED
    BY <1>3, Inductive, PTL

\* The drain never takes the status of a process the supervisor still owns.
THEOREM Ownership == Spec => []OwnedStatus
  <1>1. IInv => OwnedStatus
    BY DEF IInv, PhaseInv, OwnedStatus
  <1> QED
    BY <1>1, Inductive, PTL

\* After cancellation no process takes a step until the next directive.
THEOREM Cancellation == Spec => []CancelReachesAll
  <1>1. IInv => CancelReachesAll
    BY QuietRuns DEF IInv, PhaseInv, CancelReachesAll, QuietPoints, CancelledPoints, NoneRuns
  <1> QED
    BY <1>1, Inductive, PTL

-----------------------------------------------------------------------------
(* The start gate: before the execution timeout runs, the gate was not      *)
(* opened, and no process of the image was ever started.                    *)

Unstarted == \A p \in Image : proc[p] = "absent"

StartInv ==
    timer["exec"] = "unset" => gate \in {"none", "paired", "ready"} /\ Unstarted

LEMMA SpawnUnstarted ==
    ASSUME KernelTypes, Unstarted, NEW c \in Process \ Image, NEW p, Spawn(c, p)
    PROVE  Unstarted'
  BY NamedProcesses DEF KernelTypes, Unstarted, Spawn

LEMMA CollectUnstarted ==
    ASSUME KernelTypes, Unstarted, NEW p, Collect(p)
    PROVE  Unstarted'
  BY NamedProcesses DEF KernelTypes, Unstarted, Collect

LEMMA KillUnstarted ==
    ASSUME KernelTypes, Unstarted, NEW set, Kill(set)
    PROVE  Unstarted'
  BY NamedProcesses DEF KernelTypes, Unstarted, Kill, Runs

LEMMA ExitUnstarted ==
    ASSUME KernelTypes, Unstarted, NEW p \in Process, NEW s, Runs(p), Exit(p, s)
    PROVE  Unstarted'
  <1>1. p \notin Image
    BY DEF Unstarted, Runs
  <1>2. CASE p = "init"
    BY <1>2, NamedProcesses DEF KernelTypes, Unstarted, Exit, Runs
  <1>3. CASE p # "init"
    BY <1>1, <1>3, NamedProcesses DEF KernelTypes, Unstarted, Exit
  <1> QED
    BY <1>2, <1>3

LEMMA DieUnstarted ==
    ASSUME KernelTypes, Unstarted, Die
    PROVE  Unstarted'
  <1>1. PICK p \in Process :
          /\ proc[p] = "dying"
          /\ proc' = [q \in Process |->
                       CASE q = p -> "zombie"
                         [] p = "init" /\ q \in Image /\ proc[q] = "zombie" -> "reaped"
                         [] OTHER -> proc[q]]
    BY DEF Die
  <1>2. SUFFICES ASSUME NEW q \in Image PROVE proc'[q] = "absent"
    BY DEF Unstarted
  <1>3. q \in Process /\ proc[q] = "absent"
    BY NamedProcesses DEF Unstarted
  <1> QED
    BY <1>1, <1>3

LEMMA StartStep == TypeOK /\ StartInv /\ Next => StartInv'
  <1> SUFFICES ASSUME TypeOK, StartInv, Next, timer'["exec"] = "unset"
               PROVE  gate' \in {"none", "paired", "ready"} /\ Unstarted'
    BY DEF StartInv
  <1> DEFINE Shut == gate' \in {"none", "paired", "ready"}
  <1>0. KernelTypes
    BY DEF TypeOK, ProcessTypes, KernelTypes
  <1>f. CASE BeginExec \/ BeginCopy
    BY <1>f, NamedProcesses DEF BeginExec, BeginCopy, FreshStep, Unstarted
  <1>t. ASSUME ~(BeginExec \/ BeginCopy) PROVE timer["exec"] = "unset"
    <2>1. timer \in [Timers -> {"unset", "pending", "expired"}]
      BY DEF TypeOK, PlanTypes
    <2>2. UNCHANGED timer \/ \E d \in Timers : Arm(d) \/ Expire(d)
      <3>1. CASE Supervisor
        BY <1>t, <3>1 DEF Supervisor, Timers, CreateNamespace, MountStorage, CreateDomain,
           Rollback, Launch, OfferDomain, AwaitJoined, AbandonLaunch, SendVolume, SendGate,
           AwaitReady, StartCommand, Admit, FailSetup, ObserveExit, ObserveFailure,
           AwaitCleanup, TerminateHelper, AwaitTermination, CancelDomain, AwaitEmpty,
           RemoveDomain, CollectReceiver, Drain, RejectAssigned, ReleaseNamespace,
           Unmount, Judge, MountCopy, CopyFiles, Finish
      <3>2. CASE Helpers \/ SpawnDaemon \/ ExitImage \/ Die
        BY <3>2, OthersKeepSupervisor DEF plan
      <3>3. CASE Ended \/ \E d \in Timers : Expire(d)
        BY <3>3 DEF Ended, vars, plan
      <3> QED
        BY <3>1, <3>2, <3>3 DEF Next, Environment
    <2> QED
      BY <2>1, <2>2 DEF Arm, Expire, Timers
  <1> SUFFICES ASSUME ~(BeginExec \/ BeginCopy), timer["exec"] = "unset",
                      gate \in {"none", "paired", "ready"}, Unstarted
               PROVE  Shut /\ Unstarted'
    BY <1>f, <1>t DEF StartInv
  <1>k. UNCHANGED proc => Unstarted'
    BY DEF Unstarted
  <1>1. CASE Supervisor
    <2>1. ~StartCommand
      <3>1. timer \in [Timers -> {"unset", "pending", "expired"}]
        BY DEF TypeOK, PlanTypes
      <3> QED
        BY <3>1 DEF StartCommand, Arm, Timers
    <2>2. Shut
      <3>1. CASE SendGate
        BY <3>1 DEF SendGate
      <3> QED
        BY <1>1, <2>1, <3>1 DEF Supervisor, gateVars, CreateNamespace, MountStorage,
           CreateDomain, Rollback, Launch, OfferDomain, AwaitJoined, AbandonLaunch,
           SendVolume, AwaitReady, Admit, FailSetup, ObserveExit, ObserveFailure,
           AwaitCleanup, TerminateHelper, AwaitTermination, CancelDomain, AwaitEmpty,
           RemoveDomain, CollectReceiver, Drain, RejectAssigned, ReleaseNamespace,
           Unmount, Judge, MountCopy, CopyFiles, Finish
    <2>3. Unstarted'
      <3>1. CASE SteadySupervisor
        BY <3>1, Steady, <1>k DEF processes
      <3>2. CASE Launch
        BY <3>2, <1>0, <1>k, SpawnUnstarted, Distinct, NamedProcesses DEF Launch, processes
      <3>3. CASE TerminateHelper \/ CancelDomain
        BY <3>3, <1>0, <1>k, KillUnstarted DEF TerminateHelper, CancelDomain, processes
      <3>4. CASE AwaitTermination \/ CollectReceiver \/ Drain
        BY <3>4, <1>0, <1>k, CollectUnstarted
        DEF AwaitTermination, CollectReceiver, Drain, processes
      <3> QED
        BY <1>1, <3>1, <3>2, <3>3, <3>4 DEF Supervisor, SteadySupervisor
    <2> QED
      BY <2>2, <2>3
  <1>2. CASE Helpers
    <2>1. CASE SendReady
      BY <2>1, <1>k DEF SendReady, processes
    <2>2. CASE \/ ExchangeIdentity \/ ReportJoined \/ ReceiveVolume \/ PrepareRoot
               \/ ReceiveGate \/ FinishRelay \/ CleanUp \/ ReportCleanup \/ JoinDomain
      BY <2>2, <1>k DEF ExchangeIdentity, ReportJoined, ReceiveVolume, PrepareRoot,
         ReceiveGate, FinishRelay, CleanUp, ReportCleanup, JoinDomain, processes, gateVars
    <2>3. CASE SpawnNamespaces \/ SpawnInit
      BY <2>3, <1>0, SpawnUnstarted, Distinct, NamedProcesses DEF SpawnNamespaces, SpawnInit
    <2>4. ~SpawnShell
      BY DEF SpawnShell
    <2>5. ~ReportStatus
      BY DEF ReportStatus, Collect, Unstarted, Image
    <2>6. CASE CollectNamespaces \/ CollectInit \/ CollectDaemon
      BY <2>6, <1>0, CollectUnstarted
      DEF CollectNamespaces, CollectInit, CollectDaemon, gateVars
    <2>7. CASE LeaveReceiver \/ LeaveNamespaces \/ LeaveInit
      BY <2>7, <1>0, ExitUnstarted, NamedProcesses
      DEF LeaveReceiver, LeaveNamespaces, LeaveInit, HelperGo, gateVars
    <2>8. CASE FailHelper
      BY <2>8, <1>0, ExitUnstarted DEF FailHelper, Process, gateVars
    <2> QED
      BY <1>2, <2>1, <2>2, <2>3, <2>4, <2>5, <2>6, <2>7, <2>8 DEF Helpers
  <1>3. ~SpawnDaemon /\ ~ExitImage
    BY DEF SpawnDaemon, ExitImage, Unstarted, Runs
  <1>4. CASE Die
    BY <1>4, <1>0, DieUnstarted DEF Die, gateVars
  <1>5. CASE Ended \/ \E d \in Timers : Expire(d)
    BY <1>5, <1>k DEF Ended, Expire, vars, gateVars, processes
  <1> QED
    BY <1>1, <1>2, <1>3, <1>4, <1>5 DEF Next, Environment

\* No process of the image exists in a step whose start gate was never opened.
THEOREM Started == Spec => []NoImageBeforeStart
  <1>1. Init => StartInv
    BY NamedProcesses DEF Init, StartInv, Unstarted
  <1>2. TypeOK /\ StartInv /\ [Next]_vars => StartInv'
    <2>1. StartInv /\ UNCHANGED vars => StartInv'
      BY DEF StartInv, Unstarted, vars, plan, processes, gateVars
    <2> QED
      BY <2>1, StartStep
  <1>3. StartInv => NoImageBeforeStart
    BY DEF StartInv, Unstarted, NoImageBeforeStart
  <1> QED
    BY <1>1, <1>2, <1>3, TypeCorrect, PTL DEF Spec

-----------------------------------------------------------------------------
(* Honest success: how a status travels from the shell to the supervisor.    *)

\* A process that has ended, or is about to.
Over == {"dying", "zombie", "reaped"}

\* The gate before the start packet, and the points at which it is shut.
ShutGate == {"none", "paired", "ready"}
EarlyPoints == {"namespace", "mount", "assigned", "rollback", "launch", "identify", "join",
                "volume", "gate", "ready", "start"}

\* Only the start packet opens the gate, and what init reports of a shell stays.
Gating ==
    /\ sup \in EarlyPoints => gate \in ShutGate
    /\ at["init"] \in {"serve", "exit", "left"} => gate \notin ShutGate
    /\ at["init"] \in {"exit", "left"} \/ outcome = "exited" => gate = "reported"
    /\ gate = "reported" => proc["shell"] = "reaped" /\ report = code["shell"]

\* A helper that went to its end relays its child's status; one that did not
\* ends with a status that is not 0.
Relays(p, child) ==
    /\ at[p] = "left" => proc[p] \in Over /\ code[p] = Normal(code[child])
    /\ at[p] # "left" /\ proc[p] \in Over => code[p] \in {Failed, Killed}

RelayedPoints == {"relay", "cleanup", "cleaned", "failed", "linger", "doomed", "left"}

Chain ==
    /\ Relays("init", "shell") /\ Relays("namespaces", "init")
    /\ at["namespaces"] \in {"exit", "left"} => proc["init"] = "reaped"
    /\ at["receiver"] \in RelayedPoints => proc["namespaces"] = "reaped"

\* What the receiver says of its cleanup is true.
Cleaning ==
    /\ at["receiver"] \in {"cleaned", "linger", "left"} => scaffold # "present"
    /\ \A i \in 1..Len(up) : up[i].kind = "cleaned" =>
         at["receiver"] \in {"linger", "left"} /\ up[i].status = code["namespaces"]

\* What the supervisor has certified, and what it accepts.
Judging ==
    /\ certified = "yes" =>
         /\ at["receiver"] \in {"linger", "left"}
         /\ gate = "reported" /\ code["namespaces"] = Normal(report)
    /\ sup = "acknowledge" => outcome = "exited"
    /\ sup \in {"judge", "next"} /\ outcome = "exited" => certified = "yes"
    /\ sup = "next" /\ outcome = "exited" => report = 0

HonestInv == Gating /\ Chain /\ Cleaning /\ Judging

LEMMA ShellDistinct == /\ "shell" \in Process /\ "shell" \in Image
                       /\ \A d \in Daemons : d \notin {"shell", "receiver", "namespaces", "init"}
  BY NamedProcesses, DaemonsAssumption DEF Image, Trusted

LEMMA FreshHonest == BeginExec \/ BeginCopy => HonestInv'
  <1> SUFFICES ASSUME BeginExec \/ BeginCopy PROVE HonestInv'
    OBVIOUS
  <1>1. /\ sup' \in {"namespace", "copy"} /\ outcome' = "none" /\ certified' = "none"
        /\ gate' = "none" /\ up' = <<>> /\ scaffold' = "none"
    BY DEF BeginExec, BeginCopy, FreshStep, Go
  <1>2. \A p \in {"receiver", "namespaces", "init"} : at'[p] = "start"
    BY DEF BeginExec, BeginCopy, FreshStep, Trusted
  <1>3. \A p \in {"namespaces", "init"} : proc'[p] = "absent"
    BY FreshProcesses, NamedProcesses DEF BeginExec, BeginCopy
  <1>4. Gating'
    BY <1>1, <1>2 DEF Gating, ShutGate, EarlyPoints
  <1>5. Chain'
    BY <1>2, <1>3 DEF Chain, Relays, Over, RelayedPoints
  <1>6. Cleaning' /\ Judging'
    BY <1>1, <1>2 DEF Cleaning, Judging
  <1> QED
    BY <1>4, <1>5, <1>6 DEF HonestInv

\* Within a directive a process that ended keeps its status, and is only reaped.
LEMMA Settled ==
    ASSUME IInv, Next, ~(BeginExec \/ BeginCopy), NEW q \in Process, proc[q] \in Over
    PROVE  /\ proc'[q] \in Over /\ code'[q] = code[q]
           /\ proc[q] = "reaped" => proc'[q] = "reaped"
  <1>0. KernelTypes
    BY Parts
  <1> DEFINE Stays == /\ proc'[q] \in Over /\ code'[q] = code[q]
                      /\ proc[q] = "reaped" => proc'[q] = "reaped"
  <1>k. UNCHANGED <<proc, code>> => Stays
    OBVIOUS
  <1>s. ASSUME NEW c \in Process, NEW p, Spawn(c, p) PROVE Stays
    BY <1>0, <1>s DEF Spawn, KernelTypes, Over
  <1>c. ASSUME NEW p \in Process, Collect(p) PROVE Stays
    BY <1>0, <1>c DEF Collect, KernelTypes, Over
  <1>x. ASSUME NEW set, Kill(set) PROVE Stays
    BY <1>0, <1>x DEF Kill, KernelTypes, Over, Runs
  <1>e. ASSUME NEW p \in Process, NEW s, Runs(p), Exit(p, s) PROVE Stays
    BY <1>0, <1>e DEF Exit, KernelTypes, Over, Runs
  <1>d. CASE Die
    <2>1. PICK p \in Process :
            /\ proc[p] = "dying"
            /\ proc' = [r \in Process |->
                          CASE r = p -> "zombie"
                            [] p = "init" /\ r \in Image /\ proc[r] = "zombie" -> "reaped"
                            [] OTHER -> proc[r]]
      BY <1>d DEF Die
    <2>2. UNCHANGED code
      BY <1>d DEF Die
    <2>3. CASE q = p
      BY <2>1, <2>2, <2>3 DEF Over
    <2>4. CASE q # p /\ p = "init" /\ q \in Image /\ proc[q] = "zombie"
      <3>1. proc'[q] = "reaped"
        BY <2>1, <2>4
      <3> QED
        BY <2>2, <2>4, <3>1 DEF Over
    <2>5. CASE q # p /\ ~(p = "init" /\ q \in Image /\ proc[q] = "zombie")
      <3>1. proc'[q] = proc[q]
        BY <2>1, <2>5
      <3> QED
        BY <2>2, <3>1
    <2> QED
      BY <2>3, <2>4, <2>5
  <1>1. CASE Supervisor
    <2>1. CASE Launch
      BY <2>1, <1>s, <1>k, NamedProcesses DEF Launch, processes
    <2>2. ~(FreshStep /\ sup = "next" /\ sup' \in {"namespace", "copy"})
      BY <1>1 DEF Supervisor, BeginExec, BeginCopy, FreshStep,
         CreateNamespace, MountStorage, CreateDomain, Rollback, Launch, OfferDomain,
         AwaitJoined, AbandonLaunch, SendVolume, SendGate, AwaitReady, StartCommand, Admit,
         FailSetup, ObserveExit, ObserveFailure, AwaitCleanup, TerminateHelper,
         AwaitTermination, CancelDomain, AwaitEmpty, RemoveDomain, CollectReceiver, Drain,
         RejectAssigned, ReleaseNamespace, Unmount, Judge, MountCopy, CopyFiles, Finish,
         Go, Retain
    <2> QED
      BY <1>1, <2>1, <2>2, SupervisorMove, <1>k, <1>x, <1>c DEF processes
  <1>2. CASE Helpers \/ SpawnDaemon \/ ExitImage
    BY <1>2, OthersMove, <1>k, <1>s, <1>e, <1>c DEF processes
  <1>3. CASE Ended \/ \E d \in Timers : Expire(d)
    BY <1>3, <1>k DEF Ended, Expire, vars, processes
  <1> QED
    BY <1>1, <1>2, <1>3, <1>d DEF Next, Environment

\* Who moves the helpers.
LEMMA AtMoves ==
    ASSUME AtType, Next, ~(BeginExec \/ BeginCopy)
    PROVE  /\ at'["init"] # at["init"] => SendReady \/ SpawnShell \/ ReportStatus \/ LeaveInit
           /\ at'["namespaces"] # at["namespaces"] => SpawnInit \/ CollectInit \/ LeaveNamespaces
           /\ at'["receiver"] # at["receiver"] =>
                \/ ExchangeIdentity \/ JoinDomain \/ ReportJoined \/ ReceiveVolume
                \/ PrepareRoot \/ ReceiveGate \/ SpawnNamespaces \/ CollectNamespaces
                \/ FinishRelay \/ CleanUp \/ ReportCleanup \/ LeaveReceiver
  <1> DEFINE OfInit == SendReady \/ SpawnShell \/ ReportStatus \/ LeaveInit
             OfNamespaces == SpawnInit \/ CollectInit \/ LeaveNamespaces
             OfReceiver == \/ ExchangeIdentity \/ JoinDomain \/ ReportJoined \/ ReceiveVolume
                           \/ PrepareRoot \/ ReceiveGate \/ SpawnNamespaces
                           \/ CollectNamespaces \/ FinishRelay \/ CleanUp \/ ReportCleanup
                           \/ LeaveReceiver
  <1>1. OfInit => at' = [at EXCEPT !["init"] = at'["init"]]
    BY DEF SendReady, SpawnShell, ReportStatus, LeaveInit, HelperGo, AtType, Trusted
  <1>2. OfNamespaces => at' = [at EXCEPT !["namespaces"] = at'["namespaces"]]
    BY DEF SpawnInit, CollectInit, LeaveNamespaces, HelperGo, AtType, Trusted
  <1>3. OfReceiver => at' = [at EXCEPT !["receiver"] = at'["receiver"]]
    BY DEF ExchangeIdentity, JoinDomain, ReportJoined, ReceiveVolume, PrepareRoot,
       ReceiveGate, SpawnNamespaces, CollectNamespaces, FinishRelay, CleanUp,
       ReportCleanup, LeaveReceiver, HelperGo, AtType, Trusted
  <1>4. OfInit \/ OfNamespaces \/ OfReceiver \/ UNCHANGED at
    <2>1. CASE SteadySupervisor
      BY <2>1, Steady
    <2>2. CASE \/ Launch \/ TerminateHelper \/ CancelDomain \/ AwaitTermination
               \/ CollectReceiver \/ Drain \/ Environment \/ Ended
      BY <2>2 DEF Launch, TerminateHelper, CancelDomain, AwaitTermination,
         CollectReceiver, Drain, Environment, SpawnDaemon, ExitImage, Die, Expire, Ended, vars
    <2>3. CASE CollectDaemon \/ FailHelper
      BY <2>3 DEF CollectDaemon, FailHelper
    <2> QED
      BY <2>1, <2>2, <2>3 DEF Next, Supervisor, SteadySupervisor, Helpers
  <1> QED
    BY <1>1, <1>2, <1>3, <1>4 DEF AtType, Trusted

\* Who moves the gate, and the placeholders of the resolver.
LEMMA GateMoves ==
    ASSUME Next, ~(BeginExec \/ BeginCopy)
    PROVE  \/ UNCHANGED <<gate, report>>
           \/ SendGate \/ StartCommand \/ SendReady \/ SpawnShell \/ ReportStatus
  <1>1. CASE Supervisor
    BY <1>1 DEF Supervisor, gateVars, CreateNamespace, MountStorage,
       CreateDomain, Rollback, Launch, OfferDomain, AwaitJoined, AbandonLaunch,
       SendVolume, AwaitReady, Admit, FailSetup, ObserveExit, ObserveFailure,
       AwaitCleanup, TerminateHelper, AwaitTermination, CancelDomain, AwaitEmpty,
       RemoveDomain, CollectReceiver, Drain, RejectAssigned, ReleaseNamespace,
       Unmount, Judge, MountCopy, CopyFiles, Finish
  <1>2. CASE Helpers
    BY <1>2 DEF Helpers, gateVars, ExchangeIdentity, JoinDomain, ReportJoined, ReceiveVolume,
       PrepareRoot, ReceiveGate, SpawnNamespaces, CollectNamespaces, FinishRelay, CleanUp,
       ReportCleanup, LeaveReceiver, SpawnInit, CollectInit, LeaveNamespaces, CollectDaemon,
       LeaveInit, FailHelper
  <1>3. CASE Environment \/ Ended
    BY <1>3 DEF Environment, SpawnDaemon, ExitImage, Die, Expire, Ended, vars, gateVars
  <1> QED
    BY <1>1, <1>2, <1>3 DEF Next

LEMMA ScaffoldMoves ==
    ASSUME Next, ~(BeginExec \/ BeginCopy)
    PROVE  UNCHANGED scaffold \/ PrepareRoot \/ CleanUp
  <1>1. CASE Supervisor
    BY <1>1 DEF Supervisor, imageVars, CreateNamespace, MountStorage,
       CreateDomain, Rollback, Launch, OfferDomain, AwaitJoined, AbandonLaunch,
       SendVolume, SendGate, AwaitReady, StartCommand, Admit, FailSetup, ObserveExit,
       ObserveFailure, AwaitCleanup, TerminateHelper, AwaitTermination, CancelDomain,
       AwaitEmpty, RemoveDomain, CollectReceiver, Drain, RejectAssigned, ReleaseNamespace,
       Unmount, Judge, MountCopy, CopyFiles, Finish
  <1>2. CASE Helpers
    BY <1>2 DEF Helpers, imageVars, ExchangeIdentity, JoinDomain, ReportJoined, ReceiveVolume,
       ReceiveGate, SpawnNamespaces, CollectNamespaces, FinishRelay,
       ReportCleanup, LeaveReceiver, SpawnInit, CollectInit, LeaveNamespaces, CollectDaemon,
       LeaveInit, FailHelper, SendReady, SpawnShell, ReportStatus
  <1>3. CASE Environment \/ Ended
    BY <1>3 DEF Environment, SpawnDaemon, ExitImage, Die, Expire, Ended, vars, imageVars
  <1> QED
    BY <1>1, <1>2, <1>3 DEF Next

\* How the supervisor comes to know, and to its verdict.
LEMMA VerdictMoves ==
    ASSUME Next, ~(BeginExec \/ BeginCopy)
    PROVE  /\ sup' \in EarlyPoints => sup \in EarlyPoints
           /\ outcome' = "exited" => outcome = "exited" \/ ObserveExit
           /\ certified' = certified \/ AwaitCleanup
           /\ sup' = "acknowledge" => ObserveExit \/ (sup = "acknowledge" /\ outcome' = outcome)
           /\ sup' = "judge" => /\ UNCHANGED <<outcome, certified>>
                                /\ sup = "judge" \/ (outcome = "exited" => certified = "yes")
           /\ sup' = "next" => UNCHANGED <<outcome, certified>> /\ (sup = "next" \/ Judge)
  <1>1. CASE \/ CreateNamespace \/ MountStorage \/ CreateDomain \/ Rollback \/ Launch
             \/ OfferDomain \/ AwaitJoined \/ AbandonLaunch \/ SendVolume \/ SendGate
             \/ AwaitReady \/ StartCommand \/ Admit \/ FailSetup
    BY <1>1 DEF CreateNamespace, MountStorage, CreateDomain, Rollback, Launch, OfferDomain,
       AwaitJoined, AbandonLaunch, SendVolume, SendGate, AwaitReady, StartCommand, Admit,
       FailSetup, Go, Retain, EarlyPoints
  <1>2. CASE ObserveExit
    <2>1. sup' \notin EarlyPoints /\ sup' # "judge" /\ sup' # "next" /\ certified' = certified
      BY <1>2 DEF ObserveExit, Go, EarlyPoints
    <2> QED
      BY <1>2, <2>1
  <1>f. CASE ObserveFailure
    BY <1>f DEF ObserveFailure, Go, EarlyPoints
  <1>c. CASE AwaitCleanup
    <2>1. sup' = "cancel" /\ outcome' = outcome
      BY <1>c DEF AwaitCleanup, Go
    <2> QED
      BY <1>c, <2>1 DEF EarlyPoints
  <1>t. CASE \/ TerminateHelper \/ AwaitTermination \/ CancelDomain \/ AwaitEmpty
             \/ RemoveDomain \/ CollectReceiver
    BY <1>t DEF TerminateHelper, AwaitTermination, CancelDomain, AwaitEmpty, RemoveDomain,
       CollectReceiver, Go, Retain, EarlyPoints
  <1>3. CASE Drain
    BY <1>3 DEF Drain, Go, Retain, EarlyPoints
  <1>4. CASE \/ RejectAssigned \/ ReleaseNamespace \/ Unmount \/ Judge
             \/ MountCopy \/ CopyFiles \/ Finish
    BY <1>4 DEF RejectAssigned, ReleaseNamespace, Unmount, Judge, MountCopy, CopyFiles,
       Finish, Go, Retain, EarlyPoints
  <1>5. CASE Helpers \/ SpawnDaemon \/ ExitImage \/ Die
    BY <1>5, OthersKeepSupervisor DEF plan
  <1>6. CASE Ended \/ \E d \in Timers : Expire(d)
    BY <1>6 DEF Ended, Expire, vars, plan
  <1> QED
    BY <1>1, <1>2, <1>f, <1>c, <1>t, <1>3, <1>4, <1>5, <1>6 DEF Next, Supervisor, Environment

\* A helper that ends within a step relays its child's status or was made to fail.
LEMMA Ending ==
    ASSUME IInv, Next, ~(BeginExec \/ BeginCopy),
           NEW p \in {"init", "namespaces"}, proc[p] \notin Over, proc'[p] \in Over
    PROVE  \/ p = "init" /\ LeaveInit
           \/ p = "namespaces" /\ LeaveNamespaces
           \/ code'[p] \in {Failed, Killed}
  <1>0. KernelTypes /\ p \in Process /\ p \notin Image /\ p # "receiver"
    BY Parts, NamedProcesses, Distinct
  <1>k. ~UNCHANGED proc
    OBVIOUS
  <1>s. ASSUME NEW c \in Process, NEW q, Spawn(c, q) PROVE FALSE
    BY <1>0, <1>s DEF Spawn, KernelTypes, Over
  <1>c. ASSUME NEW q \in Process, Collect(q) PROVE FALSE
    BY <1>0, <1>c DEF Collect, KernelTypes, Over
  <1>x. ASSUME NEW set, Kill(set) PROVE code'[p] = Killed
    BY <1>0, <1>x DEF Kill, KernelTypes, Over, Runs
  <1>e. ASSUME NEW q \in Process \ {p}, NEW s, Exit(q, s) PROVE FALSE
    BY <1>0, <1>e DEF Exit, KernelTypes, Over
  <1>f. ASSUME Exit(p, Failed) PROVE code'[p] = Failed
    BY <1>0, <1>f DEF Exit, KernelTypes
  <1>d. CASE Die
    <2>1. PICK q \in Process :
            /\ proc[q] = "dying"
            /\ proc' = [r \in Process |->
                          CASE r = q -> "zombie"
                            [] q = "init" /\ r \in Image /\ proc[r] = "zombie" -> "reaped"
                            [] OTHER -> proc[r]]
      BY <1>d DEF Die
    <2>2. p # q
      BY <2>1 DEF Over
    <2>3. proc'[p] = proc[p]
      BY <2>1, <2>2, <1>0
    <2> QED
      BY <2>3
  <1>1. CASE Supervisor
    <2>1. ~Launch
      BY <1>s, <1>k, NamedProcesses DEF Launch, processes
    <2>2. ~SteadySupervisor
      BY Steady, <1>k DEF processes
    <2>3. ~AwaitTermination /\ ~CollectReceiver /\ ~Drain
      BY <1>c, <1>k, NamedProcesses
      DEF AwaitTermination, CollectReceiver, Drain, Children, Adopted, processes
    <2>4. CASE TerminateHelper \/ CancelDomain
      BY <2>4, <1>x, <1>k DEF TerminateHelper, CancelDomain, processes
    <2> QED
      BY <1>1, <2>1, <2>2, <2>3, <2>4 DEF Supervisor, SteadySupervisor
  <1>2. CASE Helpers
    <2>1. CASE \/ ExchangeIdentity \/ ReportJoined \/ ReceiveVolume \/ PrepareRoot
               \/ ReceiveGate \/ FinishRelay \/ CleanUp \/ ReportCleanup \/ JoinDomain
               \/ SendReady
      BY <2>1, <1>k DEF ExchangeIdentity, ReportJoined, ReceiveVolume, PrepareRoot,
         ReceiveGate, FinishRelay, CleanUp, ReportCleanup, JoinDomain, SendReady, processes
    <2>2. CASE SpawnNamespaces \/ SpawnInit \/ SpawnShell
      BY <2>2, <1>s, NamedProcesses DEF SpawnNamespaces, SpawnInit, SpawnShell
    <2>3. CASE CollectNamespaces \/ CollectInit \/ CollectDaemon \/ ReportStatus
      BY <2>3, <1>c, NamedProcesses
      DEF CollectNamespaces, CollectInit, CollectDaemon, ReportStatus
    <2>4. CASE LeaveReceiver
      BY <2>4, <1>e, <1>0, NamedProcesses DEF LeaveReceiver
    <2>5. CASE LeaveInit
      BY <2>5, <1>e, NamedProcesses DEF LeaveInit
    <2>6. CASE LeaveNamespaces
      BY <2>6, <1>e, NamedProcesses DEF LeaveNamespaces
    <2>7. CASE FailHelper
      <3>1. PICK h \in Trusted : Exit(h, Failed)
        BY <2>7 DEF FailHelper
      <3> QED
        BY <3>1, <1>e, <1>f DEF Process
    <2> QED
      BY <1>2, <2>1, <2>2, <2>3, <2>4, <2>5, <2>6, <2>7 DEF Helpers
  <1>3. ~SpawnDaemon /\ ~ExitImage
    BY <1>s, <1>e, <1>0, NamedProcesses DEF SpawnDaemon, ExitImage
  <1>4. ~Ended /\ \A d \in Timers : ~Expire(d)
    BY <1>k DEF Ended, Expire, vars, processes
  <1> QED
    BY <1>1, <1>2, <1>3, <1>4, <1>d DEF Next, Environment

LEMMA GatingStep == IInv /\ HonestInv /\ Next => Gating'
  <1> SUFFICES ASSUME IInv, Gating, Next PROVE Gating'
    BY DEF HonestInv
  <1>f. CASE BeginExec \/ BeginCopy
    BY <1>f, FreshHonest DEF HonestInv
  <1> SUFFICES ASSUME ~(BeginExec \/ BeginCopy) PROVE Gating'
    BY <1>f
  <1>0. KernelTypes /\ AtType /\ "shell" \in Process
    BY Parts, ShellDistinct
  <1>1. gate = "reported" => /\ proc'["shell"] = "reaped"
                             /\ code'["shell"] = code["shell"]
    BY <1>0, Settled DEF Gating, Over
  <1>2. CASE SendGate
    <2>1. /\ sup = "gate" /\ gate' = "paired"
          /\ UNCHANGED <<at, outcome>>
      BY <1>2 DEF SendGate, Go
    <2> QED
      BY <2>1 DEF Gating, ShutGate, EarlyPoints
  <1>3. CASE StartCommand
    <2>1. /\ sup = "start" /\ sup' = "admitted" /\ gate' = "started"
          /\ UNCHANGED <<at, outcome>>
      BY <1>3 DEF StartCommand, Go
    <2> QED
      BY <2>1 DEF Gating, ShutGate, EarlyPoints
  <1>4. CASE SendReady
    <2>1. /\ gate = "paired" /\ gate' = "ready" /\ at'["init"] = "ready"
          /\ UNCHANGED <<sup, outcome>>
      BY <1>4, <1>0 DEF SendReady, HelperGo, AtType, Trusted, plan
    <2> QED
      BY <2>1 DEF Gating, ShutGate
  <1>5. CASE SpawnShell
    <2>1. /\ gate = "started" /\ gate' = "running" /\ at'["init"] = "serve"
          /\ UNCHANGED <<sup, outcome>>
      BY <1>5, <1>0 DEF SpawnShell, HelperGo, AtType, Trusted, plan
    <2> QED
      BY <2>1 DEF Gating, ShutGate
  <1>6. CASE ReportStatus
    <2>1. /\ at["init"] = "serve" /\ gate' = "reported" /\ report' = code["shell"]
          /\ UNCHANGED sup
      BY <1>6 DEF ReportStatus, HelperGo, plan
    <2>2. proc'["shell"] = "reaped" /\ code'["shell"] = code["shell"]
      BY <1>6, <1>0 DEF ReportStatus, Collect, KernelTypes
    <2> QED
      BY <2>1, <2>2 DEF Gating, ShutGate
  <1>7. ASSUME UNCHANGED <<gate, report>>, ~SendReady, ~SpawnShell, ~ReportStatus
        PROVE  Gating'
    <2>1. sup' \in EarlyPoints => gate' \in ShutGate
      BY <1>7, VerdictMoves DEF Gating
    <2>2. \/ at'["init"] = at["init"]
          \/ at["init"] = "exit" /\ at'["init"] = "left"
      <3>1. LeaveInit => at["init"] = "exit" /\ at'["init"] = "left"
        BY <1>0 DEF LeaveInit, HelperGo, AtType, Trusted
      <3> QED
        BY <3>1, <1>0, <1>7, AtMoves
    <2>3. outcome' = "exited" => gate' = "reported"
      BY <1>7, VerdictMoves DEF Gating, ObserveExit
    <2>4. /\ at'["init"] \in {"serve", "exit", "left"} => gate' \notin ShutGate
          /\ at'["init"] \in {"exit", "left"} => gate' = "reported"
      BY <1>7, <2>2 DEF Gating
    <2>5. gate' = "reported" => proc'["shell"] = "reaped" /\ report' = code'["shell"]
      BY <1>7, <1>1 DEF Gating
    <2> QED
      BY <2>1, <2>3, <2>4, <2>5 DEF Gating
  <1> QED
    BY <1>2, <1>3, <1>4, <1>5, <1>6, <1>7, GateMoves

\* What becomes of one helper's status in a step that does not begin a directive.
LEMMA RelayStep ==
    ASSUME IInv, Next, ~(BeginExec \/ BeginCopy),
           NEW p \in {"init", "namespaces"}, NEW child \in Process, Relays(p, child),
           at[p] \in {"exit", "left"} => proc[child] = "reaped",
           p = "init" => child = "shell", p = "namespaces" => child = "init"
    PROVE  Relays(p, child)'
  <1>0. KernelTypes /\ AtType /\ p \in Process /\ p \in Trusted
    BY Parts, NamedProcesses DEF Trusted
  <1>l. ASSUME (p = "init" /\ LeaveInit) \/ (p = "namespaces" /\ LeaveNamespaces)
        PROVE  /\ at[p] = "exit" /\ at'[p] = "left"
               /\ proc'[p] \in Over /\ code'[p] = Normal(code[child])
    BY <1>0, <1>l DEF LeaveInit, LeaveNamespaces, HelperGo, AtType, Exit, KernelTypes,
       Runs, Over
  <1>c. at[p] \in {"exit", "left"} => code'[child] = code[child]
    BY Settled DEF Over
  <1>s. proc[p] \in Over => proc'[p] \in Over /\ code'[p] = code[p]
    BY <1>0, Settled
  <1>1. ASSUME at'[p] = "left"
        PROVE  proc'[p] \in Over /\ code'[p] = Normal(code'[child])
    <2>1. CASE at[p] = "left"
      BY <2>1, <1>c, <1>s DEF Relays
    <2>2. CASE at[p] # "left"
      <3>1. \/ p = "init" /\ (SendReady \/ SpawnShell \/ ReportStatus \/ LeaveInit)
            \/ p = "namespaces" /\ (SpawnInit \/ CollectInit \/ LeaveNamespaces)
        BY <1>0, <1>1, <2>2, AtMoves
      <3>2. /\ SendReady => at'["init"] = "ready"
            /\ SpawnShell => at'["init"] = "serve"
            /\ ReportStatus => at'["init"] = "exit"
            /\ SpawnInit => at'["namespaces"] = "wait"
            /\ CollectInit => at'["namespaces"] = "exit"
        BY <1>0 DEF SendReady, SpawnShell, ReportStatus, SpawnInit, CollectInit, HelperGo,
           AtType, Trusted
      <3>3. (p = "init" /\ LeaveInit) \/ (p = "namespaces" /\ LeaveNamespaces)
        BY <1>1, <3>1, <3>2
      <3> QED
        BY <3>3, <1>l, <1>c
    <2> QED
      BY <2>1, <2>2
  <1>2. ASSUME at'[p] # "left", proc'[p] \in Over
        PROVE  code'[p] \in {Failed, Killed}
    <2>1. CASE proc[p] \in Over
      <3>1. at[p] # "left"
        <4>1. at[p] = "left" => UNCHANGED at[p]
          <5>1. /\ SendReady \/ SpawnShell \/ ReportStatus \/ LeaveInit => at["init"] # "left"
                /\ SpawnInit \/ CollectInit \/ LeaveNamespaces => at["namespaces"] # "left"
            BY DEF SendReady, SpawnShell, ReportStatus, LeaveInit, SpawnInit, CollectInit,
               LeaveNamespaces, HelperGo
          <5> QED
            BY <5>1, <1>0, AtMoves
        <4> QED
          BY <4>1, <1>2
      <3> QED
        BY <2>1, <3>1, <1>s DEF Relays
    <2>2. CASE proc[p] \notin Over
      BY <2>2, <1>2, <1>l, Ending
    <2> QED
      BY <2>1, <2>2
  <1> QED
    BY <1>1, <1>2 DEF Relays

LEMMA ChainStep == IInv /\ HonestInv /\ Next => Chain'
  <1> SUFFICES ASSUME IInv, Gating, Chain, Next PROVE Chain'
    BY DEF HonestInv
  <1>f. CASE BeginExec \/ BeginCopy
    BY <1>f, FreshHonest DEF HonestInv
  <1> SUFFICES ASSUME ~(BeginExec \/ BeginCopy) PROVE Chain'
    BY <1>f
  <1>0. KernelTypes /\ AtType /\ {"shell", "init", "namespaces"} \subseteq Process
    BY Parts, ShellDistinct, NamedProcesses
  <1>1. Relays("init", "shell")'
    BY <1>0, RelayStep DEF Chain, Gating
  <1>2. Relays("namespaces", "init")'
    BY <1>0, RelayStep DEF Chain
  <1>3. ASSUME at'["namespaces"] \in {"exit", "left"} PROVE proc'["init"] = "reaped"
    <2>1. CASE at["namespaces"] \in {"exit", "left"}
      BY <2>1, <1>0, Settled DEF Chain, Over
    <2>2. CASE at["namespaces"] \notin {"exit", "left"}
      <3>1. SpawnInit => at'["namespaces"] = "wait"
        BY <1>0 DEF SpawnInit, HelperGo, AtType, Trusted
      <3>2. ~LeaveNamespaces
        BY <2>2 DEF LeaveNamespaces, HelperGo
      <3>3. CollectInit
        BY <1>0, <1>3, <2>2, <3>1, <3>2, AtMoves
      <3> QED
        BY <1>0, <3>3 DEF CollectInit, Collect, KernelTypes
    <2> QED
      BY <2>1, <2>2
  <1>4. ASSUME at'["receiver"] \in RelayedPoints PROVE proc'["namespaces"] = "reaped"
    <2>1. CASE at["receiver"] \in RelayedPoints
      BY <2>1, <1>0, Settled DEF Chain, Over
    <2>2. CASE at["receiver"] \notin RelayedPoints
      <3>1. /\ \/ ExchangeIdentity \/ JoinDomain \/ ReportJoined \/ ReceiveVolume
               \/ PrepareRoot \/ ReceiveGate \/ SpawnNamespaces
               => at'["receiver"] \notin RelayedPoints
            /\ FinishRelay \/ CleanUp \/ ReportCleanup \/ LeaveReceiver
               => at["receiver"] \in RelayedPoints
        BY <1>0 DEF ExchangeIdentity, JoinDomain, ReportJoined, ReceiveVolume, PrepareRoot,
           ReceiveGate, SpawnNamespaces, FinishRelay, CleanUp, ReportCleanup, LeaveReceiver,
           HelperGo, AtType, Trusted, RelayedPoints
      <3>2. CollectNamespaces
        BY <1>0, <1>4, <2>2, <3>1, AtMoves
      <3> QED
        BY <1>0, <3>2 DEF CollectNamespaces, Collect, KernelTypes
    <2> QED
      BY <2>1, <2>2
  <1> QED
    BY <1>1, <1>2, <1>3, <1>4 DEF Chain

\* What the receiver's last points keep.
LEMMA ReceiverMoves ==
    ASSUME AtType, Next, ~(BeginExec \/ BeginCopy)
    PROVE  /\ at["receiver"] \in {"linger", "left"} => at'["receiver"] \in {"linger", "left"}
           /\ at'["receiver"] \in {"cleaned", "linger", "left"} =>
                at["receiver"] \in {"cleaned", "linger", "left"} \/ CleanUp
  <1>1. /\ \/ ExchangeIdentity \/ JoinDomain \/ ReportJoined \/ ReceiveVolume
           \/ PrepareRoot \/ ReceiveGate \/ SpawnNamespaces \/ CollectNamespaces
           \/ FinishRelay
           => /\ at["receiver"] \notin {"linger", "left"}
              /\ at'["receiver"] \notin {"cleaned", "linger", "left"}
        /\ CleanUp => at["receiver"] \notin {"linger", "left"}
        /\ LeaveReceiver => at["receiver"] = "linger" /\ at'["receiver"] = "left"
        /\ ReportCleanup =>
             \/ at["receiver"] = "cleaned" /\ at'["receiver"] = "linger"
             \/ at["receiver"] = "failed" /\ at'["receiver"] = "doomed"
    BY DEF ExchangeIdentity, JoinDomain, ReportJoined, ReceiveVolume, PrepareRoot,
       ReceiveGate, SpawnNamespaces, CollectNamespaces, FinishRelay, CleanUp, ReportCleanup,
       LeaveReceiver, HelperGo, AtType, Trusted
  <1> QED
    BY <1>1, AtMoves

LEMMA CleaningStep == IInv /\ HonestInv /\ Next => Cleaning'
  <1> SUFFICES ASSUME IInv, Chain, Cleaning, Next PROVE Cleaning'
    BY DEF HonestInv
  <1>f. CASE BeginExec \/ BeginCopy
    BY <1>f, FreshHonest DEF HonestInv
  <1> SUFFICES ASSUME ~(BeginExec \/ BeginCopy) PROVE Cleaning'
    BY <1>f
  <1>0. /\ AtType /\ up \in Seq(Packets) /\ up' \in Seq(Packets)
        /\ "namespaces" \in Process
    BY Parts, UpStep, NamedProcesses DEF WireTypes
  <1>1. ASSUME at'["receiver"] \in {"cleaned", "linger", "left"} PROVE scaffold' # "present"
    <2>1. CASE CleanUp
      BY <1>0, <1>1, <2>1 DEF CleanUp, HelperGo, AtType, Trusted
    <2>2. CASE ~CleanUp
      <3>1. at["receiver"] \in {"cleaned", "linger", "left"}
        BY <1>0, <1>1, <2>2, ReceiverMoves
      <3>2. ~PrepareRoot
        BY <3>1 DEF PrepareRoot, HelperGo
      <3> QED
        BY <2>2, <3>1, <3>2, ScaffoldMoves DEF Cleaning
    <2> QED
      BY <2>1, <2>2
  <1>2. at["receiver"] \in {"linger", "left"} =>
          at'["receiver"] \in {"linger", "left"} /\ code'["namespaces"] = code["namespaces"]
    BY <1>0, ReceiverMoves, Settled DEF Chain, RelayedPoints, Over
  <1>3. ASSUME NEW j \in 1..Len(up'), up'[j].kind = "cleaned"
        PROVE  at'["receiver"] \in {"linger", "left"} /\ up'[j].status = code'["namespaces"]
    <2>k. ASSUME NEW i \in 1..Len(up), up'[j] = up[i]
          PROVE  at'["receiver"] \in {"linger", "left"} /\ up'[j].status = code'["namespaces"]
      BY <1>2, <1>3, <2>k DEF Cleaning
    <2>1. CASE UNCHANGED up
      BY <2>1, <2>k
    <2>2. CASE up # <<>> /\ up' = Tail(up)
      <3>1. j + 1 \in 1..Len(up) /\ up'[j] = up[j + 1]
        BY <1>0, <2>2
      <3> QED
        BY <3>1, <2>k
    <2>3. CASE up' = <<>>
      BY <2>3
    <2>4. CASE ExchangeIdentity \/ ReportJoined
      <3>1. PICK k \in {"identity", "joined"} : up' = Append(up, [kind |-> k, status |-> 0])
        BY <2>4 DEF ExchangeIdentity, ReportJoined, Send
      <3>2. j \in 1..Len(up) /\ up'[j] = up[j]
        BY <1>0, <1>3, <3>1
      <3> QED
        BY <3>2, <2>k
    <2>5. CASE ReportCleanup
      <3>1. UNCHANGED code
        BY <2>5 DEF ReportCleanup, processes
      <3>2. CASE HelperGo("receiver", "cleaned", "linger") /\ Send("cleaned", code["namespaces"])
        <4>1. up' = Append(up, [kind |-> "cleaned", status |-> code["namespaces"]])
          BY <3>2 DEF Send
        <4>2. at'["receiver"] = "linger"
          BY <3>2, <1>0 DEF HelperGo, AtType, Trusted
        <4>3. CASE j \in 1..Len(up)
          <5>1. up'[j] = up[j]
            BY <1>0, <4>1, <4>3
          <5> QED
            BY <4>3, <5>1, <2>k
        <4>4. CASE j \notin 1..Len(up)
          <5>1. up'[j] = [kind |-> "cleaned", status |-> code["namespaces"]]
            BY <1>0, <4>1, <4>4
          <5> QED
            BY <5>1, <4>2, <3>1
        <4> QED
          BY <4>3, <4>4
      <3>3. CASE Send("failed", 0)
        <4>1. up' = Append(up, [kind |-> "failed", status |-> 0])
          BY <3>3 DEF Send
        <4>2. j \in 1..Len(up) /\ up'[j] = up[j]
          BY <1>0, <1>3, <4>1
        <4> QED
          BY <4>2, <2>k
      <3> QED
        BY <2>5, <3>2, <3>3 DEF ReportCleanup
    <2> QED
      BY <2>1, <2>2, <2>3, <2>4, <2>5, UpMoves
  <1> QED
    BY <1>1, <1>3 DEF Cleaning

LEMMA JudgingStep == IInv /\ HonestInv /\ Next => Judging'
  <1> SUFFICES ASSUME IInv, Gating, Chain, Cleaning, Judging, Next PROVE Judging'
    BY DEF HonestInv
  <1>f. CASE BeginExec \/ BeginCopy
    BY <1>f, FreshHonest DEF HonestInv
  <1> SUFFICES ASSUME ~(BeginExec \/ BeginCopy) PROVE Judging'
    BY <1>f
  <1>0. /\ AtType /\ KernelTypes /\ up \in Seq(Packets) /\ "namespaces" \in Process
    BY Parts, NamedProcesses DEF WireTypes
  <1>1. gate = "reported" => UNCHANGED <<gate, report>>
    <2> SUFFICES ASSUME gate = "reported" PROVE UNCHANGED <<gate, report>>
      OBVIOUS
    <2>1. ~SendGate /\ ~StartCommand
      BY DEF SendGate, StartCommand, Go, Gating, ShutGate, EarlyPoints
    <2>2. ~SendReady /\ ~SpawnShell
      BY DEF SendReady, SpawnShell
    <2>3. ~ReportStatus
      BY DEF ReportStatus, Collect, Gating
    <2> QED
      BY <2>1, <2>2, <2>3, GateMoves
  <1>2. at["receiver"] \in {"linger", "left"} =>
          at'["receiver"] \in {"linger", "left"} /\ code'["namespaces"] = code["namespaces"]
    BY <1>0, ReceiverMoves, Settled DEF Chain, RelayedPoints, Over
  <1>3. ASSUME certified' = "yes"
        PROVE  /\ at'["receiver"] \in {"linger", "left"}
               /\ gate' = "reported" /\ code'["namespaces"] = Normal(report')
    <2>1. /\ at["receiver"] \in {"linger", "left"}
          /\ gate = "reported" /\ code["namespaces"] = Normal(report)
      <3>1. CASE certified = "yes"
        BY <3>1 DEF Judging
      <3>2. CASE certified # "yes"
        <4>1. AwaitCleanup
          BY <1>3, <3>2, VerdictMoves
        <4>2. sup = "acknowledge" /\ up # <<>> /\ Certifies(Head(up))
          BY <1>3, <3>2, <4>1 DEF AwaitCleanup, Go
        <4>3. gate = "reported"
          BY <4>2 DEF Judging, Gating
        <4>4. 1 \in 1..Len(up) /\ Head(up) = up[1]
          BY <1>0, <4>2
        <4>5. up[1].kind = "cleaned" /\ up[1].status = Normal(report)
          BY <4>2, <4>4 DEF Certifies
        <4> QED
          BY <4>3, <4>4, <4>5 DEF Cleaning
      <3> QED
        BY <3>1, <3>2
    <2> QED
      BY <1>1, <1>2, <2>1
  <1>4. sup' = "acknowledge" => outcome' = "exited"
    BY VerdictMoves DEF Judging, ObserveExit
  <1>5. sup' = "judge" /\ outcome' = "exited" => certified' = "yes"
    BY VerdictMoves DEF Judging
  <1>6. ASSUME sup' = "next", outcome' = "exited"
        PROVE  certified' = "yes" /\ report' = 0
    <2>1. UNCHANGED <<outcome, certified>> /\ (sup = "next" \/ Judge)
      BY <1>6, VerdictMoves
    <2>2. outcome = "exited" /\ gate = "reported" /\ UNCHANGED report
      BY <1>6, <2>1, <1>1 DEF Gating
    <2>3. certified = "yes" /\ report = 0
      BY <1>6, <2>1, <2>2 DEF Judging, Judge, Go
    <2> QED
      BY <2>1, <2>2, <2>3
  <1> QED
    BY <1>3, <1>4, <1>5, <1>6 DEF Judging

\* A stage goes on after a command only if its shell ended with 0, every helper
\* relayed that status, and the resolver's placeholders are gone from the image.
THEOREM Honesty == Spec => []AcceptedIsHonest
  <1>1. Init => HonestInv
    <2> SUFFICES ASSUME Init PROVE HonestInv
      OBVIOUS
    <2>1. Gating /\ Chain
      BY NamedProcesses
      DEF Init, Gating, Chain, Relays, ShutGate, EarlyPoints, RelayedPoints, Over, Trusted
    <2>2. Cleaning /\ Judging
      BY DEF Init, Cleaning, Judging, Trusted
    <2> QED
      BY <2>1, <2>2 DEF HonestInv
  <1>2. IInv /\ HonestInv /\ [Next]_vars => HonestInv'
    <2>1. HonestInv /\ UNCHANGED vars => HonestInv'
      BY DEF HonestInv, Gating, Chain, Relays, Cleaning, Judging, vars, plan, processes,
         channel, gateVars, imageVars
    <2> QED
      BY <2>1, GatingStep, ChainStep, CleaningStep, JudgingStep DEF HonestInv
  <1>3. IInv /\ HonestInv => AcceptedIsHonest
    <2> SUFFICES ASSUME IInv, HonestInv, sup = "next", outcome = "exited"
                 PROVE  /\ \A p \in {"shell", "init", "namespaces"} : code[p] = 0
                        /\ scaffold # "present"
      BY DEF AcceptedIsHonest
    <2>0. \A p \in Process : code[p] \in Int
      BY Parts DEF KernelTypes
    <2>1. /\ certified = "yes" /\ report = 0 /\ gate = "reported"
          /\ at["receiver"] \in {"linger", "left"}
          /\ code["namespaces"] = Normal(0) /\ code["shell"] = 0
      BY DEF HonestInv, Judging, Gating
    <2>2. \A s \in Int : Normal(s) = 0 => s = 0
      BY DEF Normal
    <2>3. code["namespaces"] = 0
      BY <2>1 DEF Normal
    <2>4. proc["namespaces"] = "reaped" /\ scaffold # "present"
      BY <2>1 DEF HonestInv, Chain, Cleaning, RelayedPoints
    <2>5. Failed # 0 /\ Killed # 0
      BY DEF Failed, Killed
    <2>6. at["namespaces"] = "left" /\ Normal(code["init"]) = 0 /\ proc["init"] = "reaped"
      BY <2>3, <2>4, <2>5 DEF HonestInv, Chain, Relays, Over
    <2>7. code["init"] = 0
      BY <2>0, <2>2, <2>6, NamedProcesses
    <2> QED
      BY <2>1, <2>3, <2>4, <2>7
  <1> QED
    BY <1>1, <1>2, <1>3, Inductive, PTL DEF Spec

-----------------------------------------------------------------------------
(* Refinement *)

Unreaped == {p \in Process : proc[p] \notin Gone}
Stage == IF sup \in Terminal THEN sup ELSE "open"

\* Processes change only while the storage is mounted or retained, except that
\* the next directive forgets those that are gone.
LEMMA TenantsMove ==
    ASSUME IInv, Next
    PROVE \/ Unreaped' = Unreaped
          \/ storage \in {"mounted", "retained"} /\ Launch
          \/ storage \in {"mounted", "retained"} /\ ~Quiescent
  <1>1. CASE Launch
    BY <1>1 DEF Launch, Go, IInv, HoldInv, MountedPoints, HeldPoints
  <1>2. CASE ~Launch /\ Quiescent
    <2>1. Quiescent'
      BY <1>2, GoneStays
    <2> QED
      BY <1>2, <2>1 DEF Unreaped, Quiescent
  <1>3. CASE ~Quiescent
    BY <1>3 DEF IInv, TypeOK, PlanTypes, Points, Terminal, ResourceTypes, PhaseInv, HoldInv,
       QuietPoints, MountedPoints, HeldPoints, BusyPoints
  <1> QED
    BY <1>1, <1>2, <1>3

\* The supervisor's moves of the storage.
LEMMA StorageMoves ==
    ASSUME Supervisor
    PROVE \/ UNCHANGED storage /\ sup \notin Terminal /\ sup' \notin Terminal
          \/ /\ sup \in {"mount", "copy"} /\ sup' \notin Terminal
             /\ storage' = "mounted" /\ UNCHANGED processes
          \/ /\ sup \in {"finalize", "copied"} /\ sup' = "judge"
             /\ storage' = "unmounted" /\ UNCHANGED processes
          \/ sup = "next" /\ sup' = "completed" /\ UNCHANGED <<storage, processes>>
          \/ /\ sup \in QuietPoints \ Terminal /\ sup' = "rejected"
             /\ storage' = "discarded" /\ UNCHANGED processes
          \/ /\ sup \in MountedPoints /\ sup' = "retained"
             /\ storage' = "retained"
             /\ UNCHANGED processes \/ \E p \in Process : Collect(p)
  <1> USE DEF Go, Retain, Terminal
  <1>1. CASE CreateNamespace \/ MountStorage \/ MountCopy \/ Judge \/ Finish
    BY <1>1 DEF CreateNamespace, MountStorage, MountCopy, Judge, Finish, QuietPoints, resources
  <1>2. CASE \/ BeginExec \/ BeginCopy \/ CreateDomain \/ Launch \/ CopyFiles
             \/ OfferDomain \/ AwaitJoined \/ AbandonLaunch
             \/ SendVolume \/ SendGate \/ AwaitReady \/ StartCommand \/ Admit
    BY <1>2 DEF BeginExec, BeginCopy, FreshStep, CreateDomain, Launch, CopyFiles, OfferDomain,
       AwaitJoined, AbandonLaunch, SendVolume, SendGate, AwaitReady, StartCommand, Admit,
       resources
  <1>3. CASE \/ FailSetup \/ ObserveExit \/ ObserveFailure \/ AwaitCleanup
             \/ TerminateHelper \/ AwaitTermination
    BY <1>3 DEF FailSetup, ObserveExit, ObserveFailure, AwaitCleanup, TerminateHelper,
       AwaitTermination, resources
  <1>4. CASE Rollback \/ CancelDomain \/ AwaitEmpty \/ RemoveDomain
    BY <1>4 DEF Rollback, CancelDomain, AwaitEmpty, RemoveDomain,
       MountedPoints, HeldPoints, BusyPoints
  <1>5. CASE CollectReceiver
    BY <1>5, NamedProcesses DEF CollectReceiver, MountedPoints, HeldPoints, BusyPoints
  <1>6. CASE Drain
    <2>1. \A p \in Children : p \in Process
      BY NamedProcesses DEF Children, Adopted
    <2> QED
      BY <1>6, <2>1 DEF Drain, MountedPoints, HeldPoints, BusyPoints
  <1>7. CASE RejectAssigned \/ ReleaseNamespace \/ Unmount
    BY <1>7 DEF RejectAssigned, ReleaseNamespace, Unmount, MountedPoints, QuietPoints
  <1> QED
    BY <1>1, <1>2, <1>3, <1>4, <1>5, <1>6, <1>7 DEF Supervisor

\* Every step of the directives is a step of the lease, or leaves it alone.
LEMMA LeaseStep == IInv /\ Next => [Lease!Next]_(Lease!vars)
  <1> SUFFICES ASSUME IInv, Next PROVE [Lease!Next]_(Lease!vars)
    OBVIOUS
  <1> USE DEF Lease!vars, Lease!Next, Unreaped, Stage
  <1>0. /\ HoldInv /\ PhaseInv /\ KernelTypes
        /\ Unreaped \in SUBSET Process /\ Unreaped' \in SUBSET Process
        /\ Quiescent => Unreaped = {}
    BY Parts DEF Quiescent
  <1>p. UNCHANGED processes => Unreaped' = Unreaped
    BY DEF processes
  <1>u. ASSUME UNCHANGED <<storage, Stage>> PROVE [Lease!Next]_(Lease!vars)
    <2>1. CASE Unreaped' = Unreaped
      BY <1>u, <2>1
    <2>2. CASE storage \in {"mounted", "retained"}
      BY <1>u, <2>2, <1>0 DEF Lease!Use
    <2> QED
      BY <2>1, <2>2, TenantsMove
  <1>1. CASE Supervisor
    <2>1. CASE UNCHANGED storage /\ sup \notin Terminal /\ sup' \notin Terminal
      BY <2>1, <1>u
    <2>2. CASE /\ sup \in {"mount", "copy"} /\ sup' \notin Terminal
               /\ storage' = "mounted" /\ UNCHANGED processes
      <3>1. storage = "unmounted" /\ sup \notin Terminal
        BY <2>2, <1>0 DEF HoldInv, UnmountedPoints, Terminal
      <3> QED
        BY <2>2, <3>1, <1>p DEF Lease!Mount
    <2>3. CASE /\ sup \in {"finalize", "copied"} /\ sup' = "judge"
               /\ storage' = "unmounted" /\ UNCHANGED processes
      <3>1. storage = "mounted" /\ sup \notin Terminal /\ sup' \notin Terminal
        BY <2>3, <1>0 DEF HoldInv, MountedPoints, Terminal
      <3>2. Unreaped = {}
        BY <2>3, <1>0 DEF PhaseInv, QuietPoints
      <3> QED
        BY <2>3, <3>1, <3>2, <1>p DEF Lease!Return
    <2>4. CASE sup = "next" /\ sup' = "completed" /\ UNCHANGED <<storage, processes>>
      <3>1. storage = "unmounted"
        BY <2>4, <1>0 DEF HoldInv, UnmountedPoints
      <3> QED
        BY <2>4, <3>1, <1>p DEF Lease!Complete, Terminal
    <2>5. CASE /\ sup \in QuietPoints \ Terminal /\ sup' = "rejected"
               /\ storage' = "discarded" /\ UNCHANGED processes
      <3>1. Unreaped = {}
        BY <2>5, <1>0 DEF PhaseInv
      <3> QED
        BY <2>5, <3>1, <1>p DEF Lease!Reject, Terminal
    <2>6. CASE /\ sup \in MountedPoints /\ sup' = "retained"
               /\ storage' = "retained"
               /\ UNCHANGED processes \/ \E p \in Process : Collect(p)
      <3>1. storage = "mounted" /\ sup \notin Terminal
        BY <2>6, <1>0 DEF HoldInv, MountedPoints, HeldPoints, BusyPoints, Terminal
      <3>2. ASSUME NEW p \in Process, Collect(p) PROVE Unreaped' \subseteq Unreaped
        BY <3>2, <1>0 DEF Collect, KernelTypes, Gone
      <3>3. Unreaped' \in SUBSET Unreaped
        BY <2>6, <3>2, <1>p
      <3> QED
        BY <2>6, <3>1, <3>3 DEF Lease!Retain, Terminal
    <2> QED
      BY <1>1, <2>1, <2>2, <2>3, <2>4, <2>5, <2>6, StorageMoves
  <1>2. CASE Helpers \/ SpawnDaemon \/ ExitImage \/ Die
    BY <1>2, <1>u, OthersKeepSupervisor DEF plan, resources
  <1>3. CASE Ended \/ \E d \in Timers : Expire(d)
    BY <1>3, <1>u, IdleStep DEF resources
  <1> QED
    BY <1>1, <1>2, <1>3 DEF Next, Environment

LEMMA InitLease == Init => Lease!Init
  BY DEF Init, Lease!Init, Gone, Terminal

\* The stage's directives implement the lease of its storage: it is unmounted,
\* dropped or passed on only when nothing uses it, and retained otherwise.
THEOREM Refinement == Spec => KeepsLease
  <1>1. UNCHANGED vars => UNCHANGED Lease!vars
    BY DEF vars, plan, resources, processes, Lease!vars
  <1>2. IInv /\ [Next]_vars => [Lease!Next]_(Lease!vars)
    BY <1>1, LeaseStep
  <1> QED
    BY InitLease, Inductive, <1>2, PTL DEF Spec, KeepsLease, Lease!Spec

=============================================================================
