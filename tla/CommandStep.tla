----------------------------- MODULE CommandStep -----------------------------
(***************************************************************************)
(* The lifetime of the directives of one stage (step/, domain/, process/,  *)
(* isolation/, execution/helper.rs).                                       *)
(*                                                                         *)
(* The supervisor walks the plan's directives.  For an Exec directive it   *)
(* creates a user namespace, mounts the stage's volume, creates a cgroup   *)
(* (the command domain), spawns the receiver helper, moves it into the     *)
(* domain, hands it the volume and one end of the execution gate, waits    *)
(* for readiness, starts the command, observes its status and tears        *)
(* everything down in a fixed order before it accepts the storage.         *)
(*                                                                         *)
(* The receiver spawns the namespace helper, which spawns the PID 1 of the *)
(* image's PID namespace (init), which spawns the image's shell; the shell *)
(* may leave any number of daemons behind.  Every process may fail or stop *)
(* between any two of its steps.                                           *)
(***************************************************************************)
EXTENDS Integers, Sequences

CONSTANTS
    Daemons,        \* processes the image's shell may leave behind
    MaxDirectives,  \* bound on the directives of the plan
    Statuses        \* raw wait statuses image code may end with: an exit
                    \* code, or minus the signal that killed it

Trusted == {"receiver", "namespaces", "init"}
Image == {"shell"} \cup Daemons
Process == Trusted \cup Image

ASSUME DaemonsAssumption == Daemons \cap (Trusted \cup {"shell"}) = {}
ASSUME StatusesAssumption == Statuses \subseteq Int
ASSUME DirectivesAssumption == MaxDirectives \in Nat

VARIABLES
    directive,   \* directives completed so far
    sup,         \* program point of the supervisor
    timer,       \* the three deadlines of a step
    outcome,     \* what the supervisor knows about the command
    certified,   \* whether the receiver certified its cleanup
    namespace,   \* UserNamespace<Mapped>
    storage,     \* the stage's volume
    domain,      \* CommandDomain
    proc,        \* the life of each process of the step
    members,     \* processes in the command domain's cgroup
    code,        \* raw wait status of each process
    at,          \* program point of each trusted helper
    down,        \* packets from the supervisor to the receiver
    up,          \* packets from the receiver to the supervisor
    link,        \* "shut" once the supervisor dropped its end of the channel
    gate,        \* the execution gate, one packet at a time
    holder,      \* who holds the gate's inner end
    report,      \* raw status init reported through the gate
    network,     \* the directive asked for networking
    scaffold     \* placeholders of the resolver in the image root

plan == <<directive, sup, timer, outcome, certified>>
resources == <<namespace, storage, domain>>
processes == <<proc, members, code>>
channel == <<down, up, link>>
gateVars == <<gate, holder, report>>
imageVars == <<network, scaffold>>
vars == <<plan, resources, processes, at, channel, gateVars, imageVars>>

-----------------------------------------------------------------------------
(* Processes, as the kernel keeps them.  "dying" has a pending SIGKILL, or, *)
(* for init, called exit: it takes no further step, but is not dead yet.   *)

Life == {"absent", "running", "dying", "zombie", "reaped"}
Live == {"running", "dying"}
Gone == {"absent", "reaped"}

Killed == -9
Failed == 1

\* The exit code a helper derives from the status of the child it waited for
\* (std::process::exit(status.code().unwrap_or(128 + signal))).
Normal(s) == IF s < 0 THEN 128 - s ELSE s

Runs(p) == proc[p] = "running"

\* fork: the child is in its parent's cgroup.
Spawn(child, parent) ==
    /\ proc[child] = "absent"
    /\ proc' = [proc EXCEPT ![child] = "running"]
    /\ members' = IF parent \in members THEN members \cup {child} ELSE members
    /\ UNCHANGED code

\* exit: every process of the namespace goes down with its init.
Exit(p, status) ==
    /\ code' = [code EXCEPT ![p] = status]
    /\ proc' = IF p = "init"
               THEN [q \in Process |->
                       IF q \in Image \cup {"init"} /\ Runs(q) THEN "dying" ELSE proc[q]]
               ELSE [proc EXCEPT ![p] = "zombie"]
    /\ UNCHANGED members

\* SIGKILL to every running process of a set.
Kill(set) ==
    /\ proc' = [p \in Process |-> IF p \in set /\ Runs(p) THEN "dying" ELSE proc[p]]
    /\ code' = [p \in Process |-> IF p \in set /\ Runs(p) THEN Killed ELSE code[p]]
    /\ UNCHANGED members

Collect(p) ==
    /\ proc[p] = "zombie"
    /\ proc' = [proc EXCEPT ![p] = "reaped"]
    /\ UNCHANGED <<members, code>>

\* cgroup.events populated: zombies do not count.
Populated == \E p \in members : proc[p] \in Live

\* The children of the supervisor: the receiver, and what it adopts as the
\* subreaper.  Processes of the image are init's, and init's alone.
Adopted == {p \in {"namespaces", "init"} :
              /\ proc[p] \notin Gone
              /\ \/ p = "namespaces" /\ proc["receiver"] \notin Live
                 \/ p = "init" /\ proc["namespaces"] \notin Live}
\* Mutant: what the supervisor adopted is not drained.
ChildrenSpawned == {p \in {"receiver"} : proc[p] \notin Gone}

Children == Adopted \cup {p \in {"receiver"} : proc[p] \notin Gone}

ReceiverLost == proc["receiver"] \notin Live

\* Every end of the gate but the supervisor's is closed.
GateLost == IF holder = "queued" THEN ReceiverLost ELSE proc[holder] \notin Live

-----------------------------------------------------------------------------
(* The supervisor: step/directives.rs, one Exec directive. *)

Timers == {"setup", "exec", "teardown"}
Terminal == {"completed", "rejected", "retained"}

Unset == [d \in Timers |-> "unset"]
Pending(d) == timer[d] = "pending"
Arm(d) == timer' = [timer EXCEPT ![d] = "pending"]

\* The supervisor moves from one program point to another.
Go(from, to) == sup = from /\ sup' = to

Init ==
    /\ directive = 0
    /\ sup = "next"
    /\ timer = Unset
    /\ outcome = "none" /\ certified = "none"
    /\ namespace = "none" /\ storage = "unmounted" /\ domain = "none"
    /\ proc = [p \in Process |-> "absent"]
    /\ members = {}
    /\ code = [p \in Process |-> 0]
    /\ at = [p \in Trusted |-> "start"]
    /\ down = <<>> /\ up = <<>> /\ link = "open"
    /\ gate = "none" /\ holder = "queued" /\ report = 0
    /\ network = "off" /\ scaffold = "none"

\* SetupBudget::begin.  The processes, channel and gate of a directive are its
\* own; the previous directive's are forgotten.
FreshStep ==
    /\ directive < MaxDirectives
    /\ timer' = [Unset EXCEPT !["setup"] = "pending"]
    /\ outcome' = "none" /\ certified' = "none"
    /\ namespace' = "none" /\ domain' = "none"
    /\ proc' = [p \in Process |-> "absent"]
    /\ members' = {}
    /\ code' = [p \in Process |-> 0]
    /\ at' = [p \in Trusted |-> "start"]
    /\ down' = <<>> /\ up' = <<>> /\ link' = "open"
    /\ gate' = "none" /\ holder' = "queued" /\ report' = 0
    /\ scaffold' = "none"
    /\ UNCHANGED <<directive, storage>>

BeginExec ==
    /\ Go("next", "namespace")
    /\ network' \in {"on", "off"}
    /\ FreshStep

\* The seed helper of UserNamespace::create is awaited or terminated here; a
\* failure drops the volume, which was never mounted.
CreateNamespace ==
    /\ \/ /\ Pending("setup")
          /\ Go("namespace", "mount")
          /\ namespace' = "held"
          /\ UNCHANGED storage
       \/ /\ Go("namespace", "rejected")
          /\ storage' = "discarded"
          /\ UNCHANGED namespace
    /\ UNCHANGED <<directive, timer, outcome, certified, domain,
                   processes, at, channel, gateVars, imageVars>>

MountStorage ==
    /\ \/ /\ Pending("setup")
          /\ Go("mount", "assigned")
          /\ storage' = "mounted"
          /\ UNCHANGED namespace
       \/ /\ Go("mount", "rejected")
          /\ storage' = "discarded"
          /\ namespace' = "released"
    /\ UNCHANGED <<directive, timer, outcome, certified, domain,
                   processes, at, channel, gateVars, imageVars>>

\* Command root and ownership validation, then StoragePreparation::create.
\* A directory that was made but could not be validated is rolled back.
CreateDomain ==
    /\ \/ /\ Pending("setup")
          /\ Go("assigned", "launch")
          /\ domain' = "live"
          /\ UNCHANGED <<timer, outcome>>
       \/ /\ Pending("setup")
          /\ Go("assigned", "rollback")
          /\ domain' = "live"
          /\ outcome' = "failed"
          /\ Arm("teardown")
       \/ /\ Go("assigned", "collect")
          /\ outcome' = "failed"
          /\ Arm("teardown")
          /\ UNCHANGED domain
    /\ UNCHANGED <<directive, certified, namespace, storage,
                   processes, at, channel, gateVars, imageVars>>

\* Mutant: the retained storage is dropped, and its drop unmounts it.
RetainDropped(from) ==
    /\ Go(from, "retained")
    /\ storage' = "discarded"

Retain(from) ==
    /\ Go(from, "retained")
    /\ storage' = "retained"

Rollback ==
    /\ \/ /\ Pending("teardown")
          /\ Go("rollback", "collect")
          /\ domain' = "removed"
          /\ UNCHANGED storage
       \/ /\ Retain("rollback")
          /\ UNCHANGED domain
    /\ UNCHANGED <<directive, timer, outcome, certified, namespace,
                   processes, at, channel, gateVars, imageVars>>

\* Process::launch_supervised up to the supervisor's own identity offer.
Launch ==
    /\ \/ /\ Pending("setup")
          /\ Go("launch", "identify")
          /\ Spawn("receiver", "supervisor")
          /\ down' = <<"identity">>
          /\ UNCHANGED <<timer, outcome>>
       \/ /\ Go("launch", "abandon")
          /\ outcome' = "failed"
          /\ Arm("teardown")
          /\ UNCHANGED <<processes, down>>
    /\ UNCHANGED <<directive, certified, resources, at, up, link, gateVars, imageVars>>

Receive(packet) == up # <<>> /\ Head(up) = packet /\ up' = Tail(up)

\* The receiver's identity, then the join permit and the cgroup.procs offer.
OfferDomain ==
    /\ Go("identify", "join")
    /\ Pending("setup")
    /\ Receive([kind |-> "identity", status |-> 0])
    /\ down' = Append(down, "offer")
    /\ UNCHANGED <<directive, timer, outcome, certified, resources,
                   processes, at, link, gateVars, imageVars>>

AwaitJoined ==
    /\ Go("join", "volume")
    /\ Pending("setup")
    /\ Receive([kind |-> "joined", status |-> 0])
    /\ UNCHANGED <<directive, timer, outcome, certified, resources,
                   processes, at, down, link, gateVars, imageVars>>

\* HelperLaunchFailure: the exchange or the join failed; the channel is gone.
AbandonLaunch ==
    /\ \/ Go("identify", "terminate")
       \/ Go("join", "terminate")
    /\ outcome' = "failed"
    /\ Arm("teardown")
    /\ link' = "shut"
    /\ UNCHANGED <<directive, certified, resources,
                   processes, at, down, up, gateVars, imageVars>>

\* Network preparation and the volume transfer.
SendVolume ==
    /\ Go("volume", "gate")
    /\ Pending("setup") /\ ~ReceiverLost
    /\ down' = Append(down, "volume")
    /\ UNCHANGED <<directive, timer, outcome, certified, resources,
                   processes, at, up, link, gateVars, imageVars>>

SendGate ==
    /\ Go("gate", "ready")
    /\ Pending("setup") /\ ~ReceiverLost
    /\ down' = Append(down, "gate")
    /\ gate' = "paired"
    /\ UNCHANGED <<directive, timer, outcome, certified, resources,
                   processes, at, up, link, holder, report, imageVars>>

AwaitReady ==
    /\ Go("ready", "start")
    /\ Pending("setup")
    /\ gate = "ready"
    /\ UNCHANGED <<directive, timer, outcome, certified, resources,
                   processes, at, channel, gateVars, imageVars>>

\* PreparedStep::start: the execution timeout begins before the start packet.
StartCommand ==
    /\ Go("start", "admitted")
    /\ Pending("setup")
    /\ ~GateLost
    /\ Arm("exec")
    /\ gate' = "started"
    /\ UNCHANGED <<directive, outcome, certified, resources,
                   processes, at, channel, holder, report, imageVars>>

\* now >= admission after the start packet is CommandStartFailure::Late.
Admit ==
    /\ Go("admitted", "observe")
    /\ Pending("setup") /\ Pending("exec")
    /\ UNCHANGED <<directive, timer, outcome, certified, resources,
                   processes, at, channel, gateVars, imageVars>>

\* Every failure of execute() before observation tears the step down.
FailSetup ==
    /\ \/ Go("volume", "cancel")
       \/ Go("gate", "cancel")
       \/ ~Pending("setup") /\ Go("ready", "cancel")
       \/ GateLost /\ Go("ready", "cancel")
       \/ Go("start", "cancel")
       \/ ~(Pending("setup") /\ Pending("exec")) /\ Go("admitted", "cancel")
    /\ outcome' = "failed"
    /\ Arm("teardown")
    /\ UNCHANGED <<directive, certified, resources,
                   processes, at, channel, gateVars, imageVars>>

\* Mutant: a status that is already there is taken whatever the time.
ObserveExitLate ==
    /\ Go("observe", "acknowledge")
    /\ gate = "reported"
    /\ outcome' = "exited"
    /\ Arm("teardown")
    /\ UNCHANGED <<directive, certified, resources,
                   processes, at, channel, gateVars, imageVars>>

\* RunningCommand::observe: a status seen at or after the cutoff is no status.
ObserveExit ==
    /\ Go("observe", "acknowledge")
    /\ gate = "reported"
    /\ Pending("exec")
    /\ outcome' = "exited"
    /\ Arm("teardown")
    /\ UNCHANGED <<directive, certified, resources,
                   processes, at, channel, gateVars, imageVars>>

\* The execution timeout, or a gate that ends without a status.
ObserveFailure ==
    /\ Go("observe", "cancel")
    /\ ~Pending("exec") \/ (GateLost /\ gate # "reported")
    /\ outcome' = "unobserved"
    /\ Arm("teardown")
    /\ UNCHANGED <<directive, certified, resources,
                   processes, at, channel, gateVars, imageVars>>

\* Mutant: the helper's own exit code is not compared.
CertifiesAny(packet) ==
    /\ packet.kind = "cleaned"
    /\ packet.status >= 0

\* Supervision::cleanup_until: the namespace helper's exit code must be the
\* one the reported shell status normalises to.
Certifies(packet) ==
    /\ packet.kind = "cleaned"
    /\ packet.status >= 0
    /\ packet.status = Normal(report)

AwaitCleanup ==
    /\ Go("acknowledge", "cancel")
    /\ \/ /\ Pending("teardown") /\ up # <<>>
          /\ certified' = IF Certifies(Head(up)) THEN "yes" ELSE "no"
          /\ up' = Tail(up)
       \/ /\ ~Pending("teardown") \/ (up = <<>> /\ ReceiverLost)
          /\ UNCHANGED <<certified, up>>
    /\ UNCHANGED <<directive, timer, outcome, resources,
                   processes, at, down, link, gateVars, imageVars>>

-----------------------------------------------------------------------------
(* Teardown, under one deadline that no step renews. *)

\* terminate_until: SIGKILL through the pidfd, then a bounded wait.
TerminateHelper ==
    /\ Go("terminate", "terminating")
    /\ Kill({"receiver"})
    /\ UNCHANGED <<directive, timer, outcome, certified, resources,
                   at, channel, gateVars, imageVars>>

\* The domain is cancelled whether or not the helper could be collected.
AwaitTermination ==
    /\ Go("terminating", "abandon")
    /\ \/ Collect("receiver")
       \/ /\ ~Pending("teardown") /\ proc["receiver"] \in Live
          /\ UNCHANGED processes
    /\ UNCHANGED <<directive, timer, outcome, certified, resources,
                   at, channel, gateVars, imageVars>>

\* Mutant: nothing is killed once the deadline has passed.
CancelDomainInTime ==
    /\ \/ /\ Go("cancel", "empty") \/ Go("abandon", "abandoned")
          /\ IF Pending("teardown") THEN Kill(members) ELSE UNCHANGED processes
          /\ UNCHANGED storage
       \/ /\ Retain("cancel") \/ Retain("abandon")
          /\ UNCHANGED processes
    /\ link' = "shut"
    /\ UNCHANGED <<directive, timer, outcome, certified, namespace, domain,
                   at, down, up, gateVars, imageVars>>

\* ContainedHelper::finish_until drops the channel; CommandDomain::cancel
\* writes cgroup.kill, even after the deadline, unless the lease is stale.
CancelDomain ==
    /\ \/ /\ Go("cancel", "empty") \/ Go("abandon", "abandoned")
          /\ Kill(members)
          /\ UNCHANGED storage
       \/ /\ Retain("cancel") \/ Retain("abandon")
          /\ UNCHANGED processes
    /\ link' = "shut"
    /\ UNCHANGED <<directive, timer, outcome, certified, namespace, domain,
                   at, down, up, gateVars, imageVars>>

\* Mutant: the wait for an empty domain has no deadline.
AwaitEmptyForever ==
    /\ ~Populated
    /\ Go("empty", "remove") \/ Go("abandoned", "discard")
    /\ UNCHANGED <<directive, timer, outcome, certified, resources,
                   processes, at, channel, gateVars, imageVars>>

\* wait_empty_until: an empty domain is accepted even past the deadline.
AwaitEmpty ==
    /\ \/ /\ ~Populated
          /\ Go("empty", "remove") \/ Go("abandoned", "discard")
          /\ UNCHANGED storage
       \/ /\ Populated /\ ~Pending("teardown")
          /\ Retain("empty") \/ Retain("abandoned")
    /\ UNCHANGED <<directive, timer, outcome, certified, namespace, domain,
                   processes, at, channel, gateVars, imageVars>>

\* Mutant: the step goes on although the helper was not collected.
RemoveDomainRegardless ==
    /\ \/ /\ ~Populated
          /\ domain' = "removed"
          /\ Go("remove", "wait") \/ Go("discard", "collect")
          /\ UNCHANGED storage
       \/ /\ Retain("remove") \/ Retain("discard")
          /\ UNCHANGED domain
    /\ UNCHANGED <<directive, timer, outcome, certified, namespace,
                   processes, at, channel, gateVars, imageVars>>

\* rmdir of the cgroup.  After a failed launch the step goes on only if its
\* helper was collected as well.
RemoveDomain ==
    /\ \/ /\ ~Populated
          /\ domain' = "removed"
          /\ \/ Go("remove", "wait") /\ UNCHANGED storage
             \/ proc["receiver"] \in Gone /\ Go("discard", "collect") /\ UNCHANGED storage
             \/ proc["receiver"] \notin Gone /\ Retain("discard")
       \/ /\ Retain("remove") \/ Retain("discard")
          /\ UNCHANGED domain
    /\ UNCHANGED <<directive, timer, outcome, certified, namespace,
                   processes, at, channel, gateVars, imageVars>>

\* Process::wait_until on the receiver.
CollectReceiver ==
    /\ \/ /\ Go("wait", "drain")
          /\ Collect("receiver")
          /\ UNCHANGED storage
       \/ /\ Retain("wait")
          /\ ~Pending("teardown") /\ proc["receiver"] \in Live
          /\ UNCHANGED processes
    /\ UNCHANGED <<directive, timer, outcome, certified, namespace, domain,
                   at, channel, gateVars, imageVars>>

\* ChildReaper::drain: waitpid(-1) until ECHILD.
Drain ==
    /\ \/ \E p \in Children :
            /\ sup \in {"drain", "collect"}
            /\ Collect(p)
            /\ \/ Pending("teardown") /\ UNCHANGED <<sup, storage>>
               \/ ~Pending("teardown") /\ Retain(sup)
       \/ /\ Children = {}
          /\ Go("drain", "release") \/ Go("collect", "return")
          /\ UNCHANGED <<storage, processes>>
       \/ /\ Children # {} /\ ~Pending("teardown")
          /\ \A p \in Children : proc[p] \in Live
          /\ Retain("drain") \/ Retain("collect")
          /\ UNCHANGED processes
    /\ UNCHANGED <<directive, timer, outcome, certified, namespace, domain,
                   at, channel, gateVars, imageVars>>

\* Assigned::reject after its drain: nothing of a rejected step is kept.
RejectAssigned ==
    /\ namespace' = "released"
    /\ \/ /\ Pending("teardown")
          /\ Go("return", "rejected")
          /\ storage' = "discarded"
       \/ Retain("return")
    /\ UNCHANGED <<directive, timer, outcome, certified, domain,
                   processes, at, channel, gateVars, imageVars>>

\* Step::teardown_until after quiescence: namespace, then network.
ReleaseNamespace ==
    /\ \/ /\ Pending("teardown")
          /\ Go("release", "finalize")
          /\ namespace' = "released"
          /\ UNCHANGED storage
       \/ /\ ~Pending("teardown")
          /\ Retain("release")
          /\ UNCHANGED namespace
       \/ /\ network = "on"
          /\ Retain("release")
          /\ namespace' = "released"
    /\ UNCHANGED <<directive, timer, outcome, certified, domain,
                   processes, at, channel, gateVars, imageVars>>

\* teardown_after_command forgets an uncertified completion; otherwise
\* TeardownCompletion::unmount releases the mount.  A COPY unmounts at once.
Unmount ==
    /\ \/ /\ Go("finalize", "judge") \/ Go("copied", "judge")
          /\ Pending("teardown")
          /\ outcome = "exited" => certified = "yes"
          /\ storage' = "unmounted"
       \/ Retain("finalize")
       \/ Retain("copied")
    /\ UNCHANGED <<directive, timer, outcome, certified, namespace, domain,
                   processes, at, channel, gateVars, imageVars>>

\* ExecutedStorage::after_teardown: only a command that exited with success
\* and was finalized in time hands its storage to the next directive.
Judge ==
    /\ \/ /\ Go("judge", "next")
          /\ Pending("teardown")
          /\ outcome = "copied" \/ (outcome = "exited" /\ report = 0)
          /\ directive' = directive + 1
          /\ UNCHANGED storage
       \/ /\ Go("judge", "rejected")
          /\ storage' = "discarded"
          /\ UNCHANGED directive
    /\ UNCHANGED <<timer, outcome, certified, namespace, domain,
                   processes, at, channel, gateVars, imageVars>>
-----------------------------------------------------------------------------
(* A Copy directive: copy_directive.  No process is started. *)

BeginCopy ==
    /\ Go("next", "copy")
    /\ network' = "off"
    /\ FreshStep

MountCopy ==
    /\ \/ /\ Pending("setup")
          /\ Go("copy", "copying")
          /\ storage' = "mounted"
       \/ /\ Go("copy", "rejected")
          /\ storage' = "discarded"
    /\ UNCHANGED <<directive, timer, outcome, certified, namespace, domain,
                   processes, at, channel, gateVars, imageVars>>

\* The copy, between two checks of the setup budget.
CopyFiles ==
    /\ Go("copying", "copied")
    /\ \/ Pending("setup") /\ outcome' = "copied"
       \/ outcome' = "failed"
    /\ Arm("teardown")
    /\ UNCHANGED <<directive, certified, resources,
                   processes, at, channel, gateVars, imageVars>>

Finish ==
    /\ Go("next", "completed")
    /\ UNCHANGED <<directive, timer, outcome, certified, resources,
                   processes, at, channel, gateVars, imageVars>>

Supervisor ==
    \/ BeginExec \/ CreateNamespace \/ MountStorage \/ CreateDomain \/ Rollback
    \/ Launch \/ OfferDomain \/ AwaitJoined \/ AbandonLaunch
    \/ SendVolume \/ SendGate \/ AwaitReady \/ StartCommand \/ Admit \/ FailSetup
    \/ ObserveExit \/ ObserveFailure \/ AwaitCleanup
    \/ TerminateHelper \/ AwaitTermination
    \/ CancelDomain \/ AwaitEmpty \/ RemoveDomain \/ CollectReceiver \/ Drain
    \/ RejectAssigned \/ ReleaseNamespace \/ Unmount \/ Judge
    \/ BeginCopy \/ MountCopy \/ CopyFiles \/ Finish

-----------------------------------------------------------------------------
(* The trusted helpers inside the domain. *)

\* HelperInvocation::run: a role goes through its calls in the order they are
\* written, from one point to the next; where one fails it is FailHelper's.
HelperGo(h, from, to) ==
    /\ Runs(h) /\ at[h] = from
    /\ at' = [at EXCEPT ![h] = to]

\* A packet already queued is readable after the supervisor shut the channel
\* down; sending is not possible any more.
Take(packet) == down # <<>> /\ Head(down) = packet /\ down' = Tail(down)
Send(packet, s) == link = "open" /\ up' = Append(up, [kind |-> packet, status |-> s])

\* The supervisor still owns its end of the gate.
GateHeld == sup \in {"ready", "start", "admitted", "observe"}

ExchangeIdentity ==
    /\ HelperGo("receiver", "start", "join")
    /\ Take("identity") /\ Send("identity", 0)
    /\ UNCHANGED <<plan, resources, processes, link, gateVars, imageVars>>

\* Mutant: the helper takes the offer and does not write cgroup.procs.
JoinDomainUnwritten ==
    /\ HelperGo("receiver", "join", "joined")
    /\ Take("offer")
    /\ domain = "live"
    /\ UNCHANGED <<plan, resources, processes, up, link, gateVars, imageVars>>

\* join_domain_until: writing to cgroup.procs of a removed domain fails.
JoinDomain ==
    /\ HelperGo("receiver", "join", "joined")
    /\ Take("offer")
    /\ domain = "live"
    /\ members' = members \cup {"receiver"}
    /\ UNCHANGED <<plan, resources, proc, code, up, link, gateVars, imageVars>>

ReportJoined ==
    /\ HelperGo("receiver", "joined", "volume")
    /\ Send("joined", 0)
    /\ UNCHANGED <<plan, resources, processes, down, link, gateVars, imageVars>>

ReceiveVolume ==
    /\ HelperGo("receiver", "volume", "prepare")
    /\ Take("volume")
    /\ UNCHANGED <<plan, resources, processes, up, link, gateVars, imageVars>>

\* VolumeInput::prepare: the resolver needs placeholders in the image root.
PrepareRoot ==
    /\ HelperGo("receiver", "prepare", "gate")
    /\ scaffold' = IF network = "on" THEN "present" ELSE scaffold
    /\ UNCHANGED <<plan, resources, processes, channel, gateVars, network>>

ReceiveGate ==
    /\ HelperGo("receiver", "gate", "launch")
    /\ Take("gate")
    /\ holder' = "receiver"
    /\ UNCHANGED <<plan, resources, processes, up, link, gate, report, imageVars>>

\* CommandReceiver::execute passes the gate on with the namespace helper.
SpawnNamespaces ==
    /\ HelperGo("receiver", "launch", "wait")
    /\ Spawn("namespaces", "receiver")
    /\ holder' = "namespaces"
    /\ UNCHANGED <<plan, resources, channel, gate, report, imageVars>>

CollectNamespaces ==
    /\ HelperGo("receiver", "wait", "relay")
    /\ Collect("namespaces")
    /\ UNCHANGED <<plan, resources, channel, gateVars, imageVars>>

\* DiagnosticRelay::finish: both pipes end when their last writer is dead.
FinishRelay ==
    /\ HelperGo("receiver", "relay", "cleanup")
    /\ \A p \in Image \cup {"init"} : proc[p] \notin Live
    /\ UNCHANGED <<plan, resources, processes, channel, gateVars, imageVars>>

\* Resolver placeholders, root view, mount namespace: any of them may fail,
\* with the placeholders removed or not.
CleanUp ==
    /\ \/ /\ HelperGo("receiver", "cleanup", "cleaned")
          /\ scaffold' = IF scaffold = "present" THEN "removed" ELSE scaffold
       \/ /\ HelperGo("receiver", "cleanup", "failed")
          /\ \/ UNCHANGED scaffold
             \/ scaffold = "present" /\ scaffold' = "removed"
    /\ UNCHANGED <<plan, resources, processes, channel, gateVars, network>>

ReportCleanup ==
    /\ \/ /\ HelperGo("receiver", "cleaned", "linger")
          /\ Send("cleaned", code["namespaces"])
       \/ /\ HelperGo("receiver", "failed", "doomed")
          /\ Send("failed", 0)
    /\ UNCHANGED <<plan, resources, processes, down, link, gateVars, imageVars>>

\* wait_for_loss_until, then the exit code of the command.
LeaveReceiver ==
    /\ HelperGo("receiver", "linger", "left")
    /\ link = "shut"
    /\ Exit("receiver", Normal(code["namespaces"]))
    /\ UNCHANGED <<plan, resources, channel, gateVars, imageVars>>

SpawnInit ==
    /\ HelperGo("namespaces", "start", "wait")
    /\ Spawn("init", "namespaces")
    /\ holder' = "init"
    /\ UNCHANGED <<plan, resources, channel, gate, report, imageVars>>

CollectInit ==
    /\ HelperGo("namespaces", "wait", "exit")
    /\ Collect("init")
    /\ UNCHANGED <<plan, resources, channel, gateVars, imageVars>>

LeaveNamespaces ==
    /\ HelperGo("namespaces", "exit", "left")
    /\ Exit("namespaces", Normal(code["init"]))
    /\ UNCHANGED <<plan, resources, channel, gateVars, imageVars>>

\* ready_for_reporting, its two halves; the shell is spawned after the second.
SendReady ==
    /\ HelperGo("init", "start", "ready")
    /\ gate = "paired" /\ GateHeld
    /\ gate' = "ready"
    /\ UNCHANGED <<plan, resources, processes, channel, holder, report, imageVars>>

\* Mutant: the shell does not wait for the start packet.
SpawnShellEarly ==
    /\ HelperGo("init", "ready", "serve")
    /\ gate \in {"ready", "started"}
    /\ gate' = "running"
    /\ Spawn("shell", "init")
    /\ UNCHANGED <<plan, resources, channel, holder, report, imageVars>>

SpawnShell ==
    /\ HelperGo("init", "ready", "serve")
    /\ gate = "started"
    /\ gate' = "running"
    /\ Spawn("shell", "init")
    /\ UNCHANGED <<plan, resources, channel, holder, report, imageVars>>

\* NamespaceInit::execute: init reaps everything; the shell's status is
\* reported before init exits.
CollectDaemon ==
    /\ Runs("init") /\ at["init"] = "serve"
    /\ \E d \in Daemons : Collect(d)
    /\ UNCHANGED <<plan, resources, at, channel, gateVars, imageVars>>

ReportStatus ==
    /\ HelperGo("init", "serve", "exit")
    /\ GateHeld
    /\ Collect("shell")
    /\ gate' = "reported" /\ report' = code["shell"]
    /\ UNCHANGED <<plan, resources, channel, holder, imageVars>>

LeaveInit ==
    /\ HelperGo("init", "exit", "left")
    /\ Exit("init", Normal(code["shell"]))
    /\ UNCHANGED <<plan, resources, channel, gateVars, imageVars>>

\* Any helper may fail or time out before any of its steps.
FailHelper ==
    /\ \E h \in Trusted : Runs(h) /\ Exit(h, Failed)
    /\ UNCHANGED <<plan, resources, at, channel, gateVars, imageVars>>

Helpers ==
    \/ ExchangeIdentity \/ JoinDomain \/ ReportJoined \/ ReceiveVolume
    \/ PrepareRoot \/ ReceiveGate \/ SpawnNamespaces \/ CollectNamespaces
    \/ FinishRelay \/ CleanUp \/ ReportCleanup \/ LeaveReceiver
    \/ SpawnInit \/ CollectInit \/ LeaveNamespaces
    \/ SendReady \/ SpawnShell \/ CollectDaemon \/ ReportStatus \/ LeaveInit
    \/ FailHelper

-----------------------------------------------------------------------------
(* Image code, the kernel and the clock. *)

SpawnDaemon ==
    /\ \E p \in Image, d \in Daemons : Runs(p) /\ Spawn(d, p)
    /\ UNCHANGED <<plan, resources, at, channel, gateVars, imageVars>>

ExitImage ==
    /\ \E p \in Image, s \in Statuses : Runs(p) /\ Exit(p, s)
    /\ UNCHANGED <<plan, resources, at, channel, gateVars, imageVars>>

\* A dying process becomes a zombie; init only after its namespace is empty,
\* whose zombies the kernel reaps on its behalf.
Die ==
    /\ \E p \in Process :
         /\ proc[p] = "dying"
         /\ p = "init" => \A q \in Image : proc[q] \notin Live
         /\ proc' = [q \in Process |->
                       CASE q = p -> "zombie"
                         [] p = "init" /\ q \in Image /\ proc[q] = "zombie" -> "reaped"
                         [] OTHER -> proc[q]]
    /\ UNCHANGED <<plan, resources, members, code, at, channel, gateVars, imageVars>>

\* The deadlines the supervisor may still read: it starts its teardown when it
\* is done with the other two.
Watched(d) ==
    /\ sup \notin Terminal \cup {"next"}
    /\ d # "teardown" => timer["teardown"] = "unset"

Expire(d) ==
    /\ Pending(d) /\ Watched(d)
    /\ timer' = [timer EXCEPT ![d] = "expired"]
    /\ UNCHANGED <<directive, sup, outcome, certified, resources,
                   processes, at, channel, gateVars, imageVars>>

Environment == SpawnDaemon \/ ExitImage \/ Die \/ \E d \in Timers : Expire(d)

\* The build has ended; nothing more is promised.
Ended == sup \in Terminal /\ UNCHANGED vars

Next == Supervisor \/ Helpers \/ Environment \/ Ended

\* The supervisor is scheduled and time passes.  Nothing obliges a helper,
\* image code or the death of a killed process.
Fairness == WF_vars(Supervisor) /\ \A d \in Timers : WF_vars(Expire(d))

Spec == Init /\ [][Next]_vars /\ Fairness

-----------------------------------------------------------------------------
(* Properties *)

Points == {"next", "namespace", "mount", "assigned", "rollback", "launch", "identify",
           "join", "volume", "gate", "ready", "start", "admitted", "observe",
           "acknowledge", "terminate", "terminating", "cancel", "abandon",
           "empty", "abandoned", "remove", "discard", "wait", "drain", "collect",
           "release", "return", "finalize", "judge", "copy", "copying", "copied"}
          \cup Terminal

Packets == [kind : {"identity", "joined", "cleaned", "failed"}, status : Int]

HelperPoints == {"start", "join", "joined", "volume", "prepare", "gate", "launch",
                 "wait", "relay", "cleanup", "cleaned", "failed", "linger", "doomed",
                 "left", "exit", "ready", "serve"}

PlanTypes ==
    /\ directive \in 0..MaxDirectives
    /\ sup \in Points
    /\ sup \notin Terminal \cup {"next"} => directive < MaxDirectives
    /\ timer \in [Timers -> {"unset", "pending", "expired"}]
    /\ outcome \in {"none", "failed", "exited", "unobserved", "copied"}
    /\ certified \in {"none", "yes", "no"}

ResourceTypes ==
    /\ namespace \in {"none", "held", "released"}
    /\ storage \in {"unmounted", "mounted", "discarded", "retained"}
    /\ domain \in {"none", "live", "removed"}

ProcessTypes ==
    /\ proc \in [Process -> Life]
    /\ members \subseteq Process
    /\ code \in [Process -> Int]
    /\ at \in [Trusted -> HelperPoints]

WireTypes ==
    /\ down \in Seq({"identity", "offer", "volume", "gate"})
    /\ up \in Seq(Packets)
    /\ link \in {"open", "shut"}
    /\ gate \in {"none", "paired", "ready", "started", "running", "reported"}
    /\ holder \in Trusted \cup {"queued"}
    /\ report \in Int
    /\ network \in {"on", "off"}
    /\ scaffold \in {"none", "present", "removed"}

\* Every variable has its type.
TypeOK == PlanTypes /\ ResourceTypes /\ ProcessTypes /\ WireTypes

Quiescent == \A p \in Process : proc[p] \in Gone

\* The step's storage is unmounted, and its namespace released, only when every
\* process of the step is dead and reaped (Step::teardown_until, Assigned::reject).
QuiescentRelease ==
    storage \in {"unmounted", "discarded"} \/ namespace = "released" => Quiescent

\* Image code, and the init that admits it, live only inside a domain the
\* supervisor can still cancel; and a removed domain has no live member, so that
\* a helper that joins late is not missed.
ImageContained ==
    /\ \A p \in Image \cup {"init"} : proc[p] \in Live => p \in members /\ domain = "live"
    /\ domain = "removed" => \A p \in members : proc[p] \notin Live

\* No image process exists before the supervisor released the start gate, and
\* none after a step that never released it.
NoImageBeforeStart ==
    (\E p \in Image : proc[p] # "absent") => timer["exec"] # "unset"

\* waitpid(-1) is never called while the supervisor owns an uncollected child,
\* so the drain cannot take the receiver's status (ChildReaper::drain_until).
OwnedStatus == sup \in {"drain", "collect"} => proc["receiver"] \in Gone

\* Once cancellation was requested, no process of the step takes another step,
\* unless the step retains everything.
CancelReachesAll ==
    sup \in {"empty", "abandoned", "remove", "discard", "wait", "drain", "collect",
             "release", "return", "finalize", "judge", "next"}
        => \A p \in Process : ~Runs(p)

\* A directive that hands its storage on after a command: the shell itself and
\* every helper that relays its status ended with 0, and the receiver removed
\* the resolver's placeholders from the image.
AcceptedIsHonest ==
    sup = "next" /\ outcome = "exited" =>
        /\ \A p \in {"shell", "init", "namespaces"} : code[p] = 0
        /\ scaffold # "present"

\* Whatever the helpers and the image do, the supervisor ends.
SupervisorEnds == <>(sup \in Terminal)

\* A command that outlives its timeout fails the build.
TimeoutFails == timer["exec"] = "expired" /\ Runs("shell") ~> sup \in {"rejected", "retained"}

-----------------------------------------------------------------------------
(* The inductive invariant behind the safety properties. *)

\* Program points at which no process of the step exists or is left.
QuietPoints == {"next", "namespace", "mount", "assigned", "rollback", "launch",
                "release", "return", "finalize", "judge",
                "copy", "copying", "copied", "completed", "rejected"}

\* Program points between the spawn of the receiver and its quiescence.
BusyPoints == {"identify", "join", "volume", "gate", "ready", "start", "admitted",
               "observe", "acknowledge", "terminate", "terminating", "cancel",
               "abandon", "empty", "abandoned", "remove", "discard", "wait",
               "drain", "collect"}

\* Program points that follow the receiver's Joined packet.
JoinedPoints == {"volume", "gate", "ready", "start", "admitted", "observe",
                 "acknowledge", "cancel"}

\* Program points that follow the write to cgroup.kill.
CancelledPoints == {"empty", "abandoned", "remove", "discard", "wait", "drain", "collect"}

\* The process tree: image code needs its init, and only the receiver is ever
\* alive outside the domain.
TreeInv ==
    /\ proc["init"] \notin Live => \A p \in Image : proc[p] \in Gone
    /\ \A p \in Process \ {"receiver"} : proc[p] \in Live => p \in members

\* The receiver goes nowhere before it joined, and what it says of it is true.
JoinInv ==
    /\ proc["receiver"] = "absent" => at["receiver"] = "start"
    /\ Runs("receiver") /\ at["receiver"] \notin {"start", "join"} => "receiver" \in members
    /\ \A i \in 1..Len(up) : up[i].kind = "joined" => "receiver" \in members
    /\ sup \in JoinedPoints => "receiver" \in members

NoneRuns == \A p \in Process : ~Runs(p)

\* What the supervisor may conclude about the processes at each point.
PhaseInv ==
    /\ sup \in QuietPoints => Quiescent
    /\ sup \in CancelledPoints => NoneRuns
    /\ sup \in {"terminating", "abandon"} => ~Runs("receiver")
    /\ sup \in {"drain", "collect"} => proc["receiver"] \in Gone

HeldPoints == BusyPoints \cup {"mount", "assigned", "rollback", "launch"}
UnmountedPoints == {"next", "namespace", "mount", "copy", "judge", "completed"}
MountedPoints == (HeldPoints \ {"mount"})
                   \cup {"release", "return", "finalize", "copying", "copied"}

\* What is held at each point, and what a cgroup that is gone tells.
HoldInv ==
    /\ sup \in HeldPoints => namespace = "held"
    /\ sup \in MountedPoints => storage = "mounted"
    /\ sup \in UnmountedPoints => storage = "unmounted"
    /\ sup \in {"rollback", "launch"} => domain = "live"
    /\ sup = "retained" => storage = "retained"
    /\ namespace = "released" => Quiescent
    /\ domain = "none" => \A p \in Process : proc[p] = "absent"
    /\ domain = "removed" => ~Populated /\ NoneRuns

IInv == TypeOK /\ TreeInv /\ JoinInv /\ PhaseInv /\ HoldInv

\* The step keeps the contract of StorageLease, whose tenants are the
\* processes of the step that are not yet reaped.
Lease == INSTANCE StorageLease WITH
    Tenants <- Process,
    tenants <- {p \in Process : proc[p] \notin Gone},
    stage <- IF sup \in Terminal THEN sup ELSE "open"

KeepsLease == Lease!Spec

=============================================================================
