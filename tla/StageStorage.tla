----------------------------- MODULE StageStorage -----------------------------
(***************************************************************************)
(* The storage of one stage: who owns which kernel object while a stage is *)
(* prepared, formatted, mounted, sealed and released (storage/,            *)
(* formatter/execution.rs, pipeline/bootstrap.rs, pipeline/carapace.rs,    *)
(* pipeline/root.rs).                                                      *)
(*                                                                         *)
(* A volume is a stack of parts, each held by the ones above it:           *)
(*                                                                         *)
(*     child      the stage mounts, attached inside the mounted root       *)
(*     mount      the mounted root filesystem                              *)
(*     stage      the stage mounts (an ESP or a tmpfs)                     *)
(*     root, esp  linear mappings of the partitions                        *)
(*     snapshot   the writable snapshot                                    *)
(*     loop       the loop device of its store                             *)
(*     origin     the read-only mapping it is a snapshot of                *)
(*                                                                         *)
(* "output" is the volume that becomes a layer.  A stage with FORMAT also  *)
(* has a disposable "tool" volume; a COPY from another stage opens a       *)
(* "reader" volume while the others are mounted.                           *)
(*                                                                         *)
(* The owner of a part is a value of the program.  An explicit close tells *)
(* whether the part is gone; dropping the value only asks the kernel to    *)
(* remove it once nobody holds it ("doomed"); what may still be in use is  *)
(* leaked on purpose, until the VM is disposed of ("forgotten").           *)
(***************************************************************************)
EXTENDS Naturals, Sequences

CONSTANTS
    Directives,     \* how many directives a stage may have
    MaxLost,        \* requests of one clean-up by destructors that may fail
    Layouts,        \* sets of volumes whose disks may have an ESP
    Probed          \* objects that other programs look at

Volumes == {"output", "tool", "reader"}
Stack == <<"child", "mount", "stage", "root", "esp", "snapshot", "loop">>
Parts == {Stack[i] : i \in DOMAIN Stack} \cup {"origin"}
Objects == Volumes \X Parts

ASSUME BoundsAssumption ==
    /\ Directives \subseteq Nat /\ MaxLost \in Nat
    /\ Layouts \subseteq SUBSET Volumes
    /\ Probed \subseteq Objects

Below(p) == {Stack[j] : j \in {j \in DOMAIN Stack : \E i \in 1..(j - 1) : Stack[i] = p}}

Attachments == {"child", "mount", "stage"}
Mappings == {"root", "esp", "snapshot", "origin"}

VARIABLES
    kind,       \* the stage extends a root ("extend") or formats one ("image")
    parted,     \* volumes whose disk has an ESP
    mounts,     \* what the stage mounts: "none", an "esp" (and others), a "tmpfs"
    obj,        \* what became of every part of every volume
    pc,         \* what the stage is doing
    todo,       \* the objects it opens, formats or closes now, in order
    left,       \* directives still to come
    failed,     \* an error is on its way out
    broken,     \* a clean-up failed, or could not be attempted
    residue,    \* an attachment directory was left behind
    inputs,     \* the formatter's staged files
    child,      \* the formatter's process
    tenants,    \* processes of the command hold clones of the mounts
    prober,     \* the object another program has open for a moment
    dirty,      \* output filesystems with data that is not in the store
    store,      \* the output's store: "valid", or "overflown" and invalidated
    sealed,     \* the store was sealed into a layer
    runtime, verdict

given == <<kind, parted, mounts>>
data == <<dirty, store, sealed>>
outcome == <<runtime, verdict>>
vars == <<given, obj, pc, todo, left, failed, broken, residue, inputs, child,
          tenants, prober, data, outcome>>

-----------------------------------------------------------------------------
(* What the kernel lets go of. *)

Present(v, p) == obj[<<v, p>>] # "none"

\* The output's views are open in the formatter.
Formatting(v) == v = "output" /\ child \in {"running", "exited", "lost"}
\* A clone of a mount keeps its filesystem, and so the device below, busy.
Cloned(v) == tenants /\ v \in {"output", "tool"}

\* What keeps an object busy.
Held(x) ==
    LET v == x[1]
        p == x[2]
    IN  \/ prober = x
        \/ p \in {"origin", "loop"} /\ Present(v, "snapshot")
        \/ p = "snapshot" /\ (Present(v, "root") \/ Present(v, "esp"))
        \/ p = "root" /\ (Present(v, "mount") \/ Cloned(v) \/ Formatting(v))
        \/ p = "esp" /\ Formatting(v)
        \/ /\ p = "esp" /\ v = "output" /\ mounts = "esp"
           /\ tenants \/ Present(v, "stage") \/ Present(v, "child")
        \/ p = "mount" /\ Present(v, "child")

\* A deferred removal, an autoclear or a lazy detach takes place.
Reap ==
    \E x \in Objects :
        /\ obj[x] = "doomed" /\ ~Held(x)
        /\ obj' = [obj EXCEPT ![x] = "none"]
        /\ UNCHANGED <<given, pc, todo, left, failed, broken, residue, inputs,
                       child, tenants, prober, data, outcome>>

\* Another program (udev's metadata probe) opens a device that was announced.
Probe ==
    /\ prober = <<>>
    /\ \E x \in Probed :
        /\ obj[x] \in {"owned", "forgotten"}
        /\ prober' = x
    /\ UNCHANGED <<given, obj, pc, todo, left, failed, broken, residue, inputs,
                   child, tenants, data, outcome>>

EndProbe ==
    /\ prober # <<>>
    /\ prober' = <<>>
    /\ UNCHANGED <<given, obj, pc, todo, left, failed, broken, residue, inputs,
                   child, tenants, data, outcome>>

\* COPY, the command or the formatter writes to one of the output's filesystems.
Write ==
    /\ ~failed
    /\ \E f \in {"root", "esp"} :
        /\ \/ child \in {"running", "lost"} /\ (f = "esp" => "output" \in parted)
           \/ /\ tenants \/ pc \in {"operate", "copy"}
              /\ f = "esp" => mounts = "esp"
        /\ dirty' = dirty \cup {f}
    /\ UNCHANGED <<given, obj, pc, todo, left, failed, broken, residue, inputs,
                   child, tenants, prober, store, sealed, outcome>>

\* The kernel writes it back, or finds the store full and invalidates it.
Writeback ==
    /\ ~failed
    /\ dirty # {}
    /\ \/ \E f \in dirty : dirty' = dirty \ {f} /\ UNCHANGED store
       \/ store' = "overflown" /\ UNCHANGED dirty
    /\ UNCHANGED <<given, obj, pc, todo, left, failed, broken, residue, inputs,
                   child, tenants, prober, sealed, outcome>>

-----------------------------------------------------------------------------
(* The ways out of an owner. *)

\* An owner and what it holds is leaked: its volume's parts, not the origin it
\* only borrows.
Forget(o, V) ==
    [x \in Objects |-> IF o[x] = "owned" /\ x[1] \in V /\ x[2] # "origin"
                       THEN "forgotten" ELSE o[x]]

\* An explicit close that failed.  An attachment is leaked; a mapping or a loop
\* device falls back to its destructor.  What lies below is leaked, but for the
\* loop device, which is dropped with its snapshot.
FailedClose(x, gone) ==
    [y \in Objects |->
        IF y = x
        THEN IF gone THEN "none"
             ELSE IF x[2] \in Attachments THEN "forgotten" ELSE "doomed"
        ELSE IF y[1] = x[1] /\ y[2] \in Below(x[2]) /\ obj[y] = "owned"
        THEN IF x[2] = "snapshot" THEN "doomed" ELSE "forgotten"
        ELSE obj[y]]

\* Destructors run for the objects of X.  Some requests fail: the object, or the
\* empty directory of an attachment, stays.
Directory == <<"directory">>
Destroy(o, X, bad, gone) ==
    LET owned == {x \in X : o[x] = "owned"} IN
    \E losses \in [1..MaxLost -> {x \in owned : x[2] # "loop"} \cup {<<>>, Directory}] :
        LET lost == {losses[i] : i \in 1..MaxLost} \ {<<>>}
            remains == Directory \in lost
        IN
        /\ remains => \E x \in owned \ lost : x[2] \in {"mount", "stage"}
        /\ obj' = [x \in Objects |->
                    IF x \notin owned THEN o[x]
                    ELSE IF x \in lost THEN "forgotten" ELSE "doomed"]
        /\ residue' = (residue \/ remains \/ gone)
        /\ broken' = (broken \/ bad \/ lost # {})

\* The stage returns an error: everything it still owns is dropped.  What became of
\* the data is not followed any further.
Abandon(o, bad, gone) ==
    /\ Destroy(o, Objects, bad, gone)
    /\ inputs' = IF inputs = "owned" THEN "none" ELSE inputs
    /\ pc' = "closing" /\ todo' = <<>> /\ failed' = TRUE
    /\ dirty' = {} /\ store' = "valid"
    /\ UNCHANGED <<given, left, prober, sealed, outcome>>

-----------------------------------------------------------------------------
(* What is opened and closed, in which order. *)

Along(v, ps) == [i \in DOMAIN ps |-> <<v, ps[i]>>]
Exists(x) ==
    /\ x[2] = "esp" => x[1] \in parted
    /\ x[2] \in {"stage", "child"} => x[1] = "output" /\ mounts # "none"

\* What of todo is still to be opened, and to be closed, and the next of either.
Unopened == {i \in DOMAIN todo : Exists(todo[i]) /\ obj[todo[i]] # "owned"}
Unclosed == {i \in DOMAIN todo : obj[todo[i]] = "owned"}
First(S) == {todo[i] : i \in {k \in S : \A j \in S : k <= j}}

\* into_snapshot, close, detach.
Discard(v) == Along(v, <<"stage", "root", "esp", "snapshot", "loop">>)

ToolRoot == IF kind = "image" THEN Along("tool", <<"mount">>) ELSE <<>>
Mounting == ToolRoot \o Along("output", <<"mount", "child">>)
Unmounting == Along("output", <<"child", "mount">>) \o ToolRoot
Finishing == Discard("tool") \o Discard("output")
Releasing == Along("tool", <<"origin">>) \o Along("output", <<"origin">>)
Reading == Along("reader", <<"origin", "loop", "snapshot", "root", "esp", "mount">>)
Unreading == Along("reader", <<"mount", "root", "esp", "snapshot", "loop", "origin">>)

\* The root is formatted first, then the ESP.
Formats == Along("output", IF "output" \in parted THEN <<"root", "esp">> ELSE <<"root">>)

\* What is closed explicitly when an object could not be opened.
Undo(x) ==
    LET v == x[1]
        p == x[2]
        tool == IF v = "output" THEN ToolRoot ELSE <<>>
    IN  CASE p = "esp"   -> Along(v, <<"root">>)
          [] p = "stage" -> Discard(v)
          [] p = "mount" -> Discard(v) \o tool
          [] p = "child" -> Along(v, <<"child", "mount">>) \o Discard(v) \o tool
          [] OTHER       -> <<>>

Init ==
    /\ kind \in {"extend", "image"}
    /\ parted \in Layouts
    /\ mounts \in {"none", "esp", "tmpfs"}
    /\ left \in Directives
    /\ obj = [x \in Objects |-> "none"]
    /\ pc = "activate"
    /\ todo = <<<<IF kind = "image" THEN "tool" ELSE "output", "origin">>>>
    /\ failed = FALSE /\ broken = FALSE /\ residue = FALSE
    /\ inputs = "none" /\ child = "none" /\ tenants = FALSE /\ prober = <<>>
    /\ dirty = {} /\ store = "valid" /\ sealed = FALSE
    /\ runtime = "open" /\ verdict = "none"

-----------------------------------------------------------------------------
(* One object at a time. *)

OpenNext ==
    /\ pc \in {"activate", "prepare", "tooling", "mount", "read"}
    /\ \E x \in First(Unopened) :
        /\ x[2] = "stage" /\ mounts = "esp" => "output" \in parted
        /\ obj' = [obj EXCEPT ![x] = "owned"]
    /\ UNCHANGED <<given, pc, todo, left, failed, broken, residue, inputs, child,
                   tenants, prober, data, outcome>>

\* Of several stage mounts, some may have succeeded before one fails.
OpenFails ==
    /\ pc \in {"activate", "prepare", "tooling", "mount", "read"}
    /\ \E x \in First(Unopened) :
        /\ \E part \in {"none"} \cup IF x[2] \in {"stage", "child"} THEN {"owned"} ELSE {} :
            obj' = [obj EXCEPT ![x] = part]
        /\ todo' = Undo(x)
        /\ pc' = IF x[1] = "reader" THEN "unread" ELSE "undo"
    /\ failed' = TRUE
    /\ UNCHANGED <<given, left, broken, residue, inputs, child, tenants, prober,
                   data, outcome>>

\* The output's filesystem that an attachment belongs to.
Filesystem(x) ==
    CASE x = <<"output", "mount">> -> {"root"}
      [] x[2] \in {"stage", "child"} /\ mounts = "esp" -> {"esp"}
      [] OTHER -> {}

\* Mutant: a deferred removal and an accepted clear() are taken for the end.
ConfirmedDeferred(x) == x[2] \in Mappings \cup {"loop"} \/ ~Held(x)

\* A close is a success only if the kernel confirms that the object is gone: the
\* mapping is removed at once or not at all, the loop device answers ENXIO.
Confirmed(x) == ~Held(x)

\* syncfs and unmount write what is left, which the store may not hold.
CloseNext ==
    /\ pc \in {"undo", "parts", "unmount", "unread", "finish", "release"}
    /\ \E x \in First(Unclosed) :
        /\ Confirmed(x)
        /\ obj' = [obj EXCEPT ![x] = IF Held(x) THEN "doomed" ELSE "none"]
        /\ dirty' = dirty \ Filesystem(x)
        /\ store' \in {store} \cup IF Filesystem(x) = {} THEN {} ELSE {"overflown"}
    /\ UNCHANGED <<given, pc, todo, left, failed, broken, residue, inputs, child,
                   tenants, prober, sealed, outcome>>

\* gone: the filesystem was unmounted, but its directory could not be removed.
CloseFails ==
    /\ pc \in {"undo", "parts", "unmount", "unread", "finish", "release"}
    /\ \E x \in First(Unclosed), gone \in BOOLEAN :
            LET o == FailedClose(x, gone) IN
            /\ gone => x[2] \in {"mount", "stage"} /\ Confirmed(x)
            \* An undo goes on with the other volume.
            /\ \/ /\ pc \in {"undo", "unread"}
                  /\ obj' = o
                  /\ todo' = IF pc = "undo" THEN todo ELSE <<>>
                  /\ broken' = TRUE /\ residue' = (residue \/ gone)
                  /\ UNCHANGED <<given, pc, left, failed, inputs, prober, data, outcome>>
               \* The tool root is not unmounted after the output failed to.
               \/ /\ pc = "unmount"
                  /\ Abandon(IF x[1] = "output" THEN Forget(o, {"tool"}) ELSE o, TRUE, gone)
               \/ /\ pc \in {"parts", "finish", "release"}
                  /\ Abandon(o, TRUE, gone)
    /\ UNCHANGED <<child, tenants>>

\* Mutant: what an undo did not close is leaked.
UndoneLeaking ==
    /\ pc = "undo" /\ Unclosed = {}
    /\ Abandon(Forget(obj, Volumes), FALSE, FALSE)
    /\ UNCHANGED <<child, tenants>>

\* An undo is over; what it did not close is dropped.
Undone ==
    /\ pc = "undo" /\ Unclosed = {}
    /\ Abandon(obj, FALSE, FALSE)
    /\ UNCHANGED <<child, tenants>>

\* An error between two of the steps below.
GiveUp ==
    /\ \/ pc \in {"capture", "prepare", "tooling", "directive", "validate", "seal"}
       \/ pc = "parts" /\ Unclosed = {}
    /\ Abandon(obj, FALSE, FALSE)
    /\ UNCHANGED <<child, tenants>>

-----------------------------------------------------------------------------
(* Preparation and formatting. *)

\* pc and todo move on; the objects stay.
Continue(next, ops) ==
    /\ pc' = next /\ todo' = ops
    /\ UNCHANGED <<given, obj, broken, residue, prober, outcome>>

Activated ==
    /\ pc = "activate" /\ Unopened = {}
    /\ IF kind = "image" THEN Continue("capture", <<>>)
       ELSE Continue("prepare",
                Along("output", <<"loop", "snapshot", "root", "esp", "stage">>))
    /\ UNCHANGED <<left, failed, inputs, child, tenants, data>>

CaptureFormatter ==
    /\ pc = "capture"
    /\ inputs' = "owned"
    /\ Continue("prepare",
            Along("output", <<"origin", "loop", "snapshot", "root", "esp">>))
    /\ UNCHANGED <<left, failed, child, tenants, data>>

Prepared ==
    /\ pc = "prepare" /\ Unopened = {}
    /\ IF kind = "image" THEN Continue("format", Formats)
       ELSE Continue("directive", <<>>)
    /\ UNCHANGED <<left, failed, inputs, child, tenants, data>>

SpawnFormatter ==
    /\ pc = "format" /\ todo # <<>> /\ child = "none"
    /\ child' = "running"
    /\ UNCHANGED <<given, obj, pc, todo, left, failed, broken, residue, inputs,
                   tenants, prober, data, outcome>>

FormatterExits ==
    /\ child = "running"
    /\ child' = "exited"
    /\ UNCHANGED <<given, obj, pc, todo, left, failed, broken, residue, inputs,
                   tenants, prober, data, outcome>>

\* It succeeded in time; the views are flushed, and then the snapshot is healthy.
Formatted ==
    /\ pc = "format" /\ child = "exited" /\ store = "valid"
    /\ child' = "none" /\ dirty' = {}
    /\ Continue("format", Tail(todo))
    /\ UNCHANGED <<left, failed, inputs, tenants, store, sealed>>

\* Mutant: the owners stay in ManuallyDrop although the process is gone.
RejectFormatLeaking ==
    /\ pc = "format" /\ todo # <<>>
    /\ child' = "none" /\ failed' = TRUE
    /\ obj' = Forget(obj, {"output"})
    /\ pc' = "undo" /\ todo' = <<>>
    /\ UNCHANGED <<given, left, broken, residue, inputs, tenants, prober, data, outcome>>

\* It could not be started, failed, or was terminated after its deadline: it is
\* gone, and its storage is closed explicitly.
RejectFormat ==
    /\ pc = "format" /\ todo # <<>>
    /\ child' = "none" /\ failed' = TRUE
    /\ Continue("undo", Discard("output"))
    /\ UNCHANGED <<left, inputs, tenants, data>>

\* Mutant: the owners are dropped although the process may be alive.
LoseFormatterDropping ==
    /\ pc = "format" /\ child \in {"running", "exited"}
    /\ child' = "lost"
    /\ Abandon(obj, TRUE, FALSE)
    /\ UNCHANGED tenants

\* It could not be terminated: it keeps its views, their store and its files.
LoseFormatter ==
    /\ pc = "format" /\ child \in {"running", "exited"}
    /\ child' = "lost" /\ inputs' = "forgotten"
    /\ Destroy(Forget(obj, {"output"}), Objects, TRUE, FALSE)
    /\ pc' = "closing" /\ todo' = <<>> /\ failed' = TRUE
    /\ dirty' = {} /\ store' = "valid"
    /\ UNCHANGED <<given, left, tenants, prober, sealed, outcome>>

FormatDone ==
    /\ pc = "format" /\ todo = <<>>
    /\ Continue("parts", Along("output", <<"root", "esp">>))
    /\ UNCHANGED <<left, failed, inputs, child, tenants, data>>

\* formatter.close(), then the tool volume and the output's views.
CloseFormatter ==
    /\ pc = "parts" /\ Unclosed = {}
    /\ inputs' = "none"
    /\ Continue("tooling", Along("tool", <<"loop", "snapshot", "root", "esp">>)
                             \o Along("output", <<"root", "esp", "stage">>))
    /\ UNCHANGED <<left, failed, child, tenants, data>>

Tooled ==
    /\ pc = "tooling" /\ Unopened = {}
    /\ Continue("directive", <<>>)
    /\ UNCHANGED <<left, failed, inputs, child, tenants, data>>

-----------------------------------------------------------------------------
(* Directives. *)

BeginDirective ==
    /\ pc = "directive" /\ left > 0
    /\ left' = left - 1
    /\ Continue("mount", Mounting)
    /\ UNCHANGED <<failed, inputs, child, tenants, data>>

Mounted ==
    /\ pc = "mount" /\ Unopened = {}
    /\ \/ Continue("operate", <<>>) /\ UNCHANGED failed
       \* The deadline passed while two volumes were mounted.
       \/ /\ kind = "image"
          /\ Continue("unmount", Unmounting) /\ failed' = TRUE
    /\ UNCHANGED <<left, inputs, child, tenants, data>>

\* A command runs over clones of the mounts.
StartCommand ==
    /\ pc = "operate"
    /\ tenants' = TRUE
    /\ Continue("command", <<>>)
    /\ UNCHANGED <<left, failed, inputs, child, data>>

\* The step gives the storage back, and with it the promise that no process is
\* left (CommandStep, StorageLease).
ReturnStorage ==
    /\ pc = "command"
    /\ tenants' = FALSE /\ failed' \in BOOLEAN
    /\ Continue("unmount", Unmounting)
    /\ UNCHANGED <<left, inputs, child, data>>

\* The step retains it.
RetainStorage ==
    /\ pc = "command"
    /\ tenants' \in BOOLEAN
    /\ Abandon(Forget(obj, {"output", "tool"}), TRUE, FALSE)
    /\ UNCHANGED child

OpenSource ==
    /\ pc = "operate"
    /\ Continue("read", Reading)
    /\ UNCHANGED <<left, failed, inputs, child, tenants, data>>

SourceOpen ==
    /\ pc = "read" /\ Unopened = {}
    /\ Continue("copy", <<>>)
    /\ UNCHANGED <<left, failed, inputs, child, tenants, data>>

SourceFails ==
    /\ pc = "read"
    /\ Continue("unread", <<>>) /\ failed' = TRUE
    /\ UNCHANGED <<left, inputs, child, tenants, data>>

Copied ==
    /\ failed' \in BOOLEAN
    /\ \/ pc = "operate" /\ Continue("unmount", Unmounting)
       \/ pc = "copy" /\ Continue("unread", Unreading)
    /\ UNCHANGED <<left, inputs, child, tenants, data>>

\* Mutant: the reader's clean-up is not asked for its result.
SourceClosedQuietly ==
    /\ pc = "unread" /\ Unclosed = {}
    /\ Destroy(obj, {x \in Objects : x[1] = "reader"}, FALSE, FALSE)
    /\ pc' = "unmount" /\ todo' = Unmounting
    /\ UNCHANGED <<given, left, failed, inputs, child, tenants, prober, data, outcome>>

\* What the reader did not close is dropped; then the destination is unmounted.
SourceClosed ==
    /\ pc = "unread" /\ Unclosed = {}
    /\ Destroy(obj, {x \in Objects : x[1] = "reader"}, FALSE, FALSE)
    /\ pc' = "unmount" /\ todo' = Unmounting
    /\ failed' = (failed \/ broken')
    /\ UNCHANGED <<given, left, inputs, child, tenants, prober, data, outcome>>

\* The deadline is checked before the first volume, between two, and at the end;
\* what is still mounted then is leaked.
UnmountLate ==
    /\ pc = "unmount"
    /\ \/ /\ Unopened = {}
          /\ Abandon(Forget(obj, {"output", "tool"}), TRUE, FALSE)
       \/ /\ obj[<<"output", "mount">>] # "owned" /\ obj[<<"tool", "mount">>] = "owned"
          /\ Abandon(Forget(obj, {"tool"}), TRUE, FALSE)
       \/ /\ Unclosed = {}
          /\ Abandon(obj, FALSE, FALSE)
    /\ UNCHANGED <<child, tenants>>

\* An unmounted volume whose directive failed is dropped.
Unmounted ==
    /\ pc = "unmount" /\ Unclosed = {}
    /\ \/ /\ ~failed
          /\ Continue("validate", <<>>)
          /\ UNCHANGED <<left, failed, inputs, data>>
       \/ failed /\ Abandon(obj, FALSE, FALSE)
    /\ UNCHANGED <<child, tenants>>

\* The health of every snapshot, after its filesystem was unmounted.
Validate ==
    /\ pc = "validate" /\ store = "valid"
    /\ Continue("directive", <<>>)
    /\ UNCHANGED <<left, failed, inputs, child, tenants, data>>

-----------------------------------------------------------------------------
(* Finalization. *)

LastDirective ==
    /\ pc = "directive" /\ left = 0
    /\ Continue("finish", Finishing)
    /\ UNCHANGED <<left, failed, inputs, child, tenants, data>>

Detached ==
    /\ pc = "finish" /\ Unclosed = {}
    /\ Continue("seal", <<>>)
    /\ UNCHANGED <<left, failed, inputs, child, tenants, data>>

\* The store's own header must say that it is valid.
Seal ==
    /\ pc = "seal" /\ store = "valid"
    /\ sealed' = TRUE
    /\ Continue("release", Releasing)
    /\ UNCHANGED <<left, failed, inputs, child, tenants, dirty, store>>

Released ==
    /\ pc = "release" /\ Unclosed = {}
    /\ Continue("closing", <<>>)
    /\ UNCHANGED <<left, failed, inputs, child, tenants, data>>

\* Attachment directories below the runtime directory.
Attached == {x \in Objects : x[2] \in {"mount", "stage"} /\ obj[x] \in {"owned", "forgotten"}}

\* The runtime's directories can be removed only if nothing is attached there.
CloseRuntime ==
    /\ pc = "closing"
    /\ Attached = {} /\ ~residue
    /\ runtime' = "closed"
    /\ verdict' = IF failed THEN "failed" ELSE "ok"
    /\ pc' = "end"
    /\ UNCHANGED <<given, obj, todo, left, failed, broken, residue, inputs, child,
                   tenants, prober, data>>

RetainRuntime ==
    /\ pc = "closing"
    /\ runtime' = "retained" /\ verdict' = "failed"
    /\ pc' = "end"
    /\ UNCHANGED <<given, obj, todo, left, failed, broken, residue, inputs, child,
                   tenants, prober, data>>

Prepare ==
    \/ Activated \/ CaptureFormatter \/ Prepared \/ SpawnFormatter \/ Formatted
    \/ RejectFormat \/ LoseFormatter \/ FormatDone \/ CloseFormatter \/ Tooled
Direct ==
    \/ BeginDirective \/ Mounted \/ StartCommand \/ ReturnStorage \/ RetainStorage
    \/ OpenSource \/ SourceOpen \/ SourceFails \/ Copied \/ SourceClosed
    \/ UnmountLate \/ Unmounted \/ Validate
Finalize ==
    LastDirective \/ Detached \/ Seal \/ Released \/ CloseRuntime \/ RetainRuntime
Stage ==
    \/ OpenNext \/ OpenFails \/ CloseNext \/ CloseFails \/ Undone \/ GiveUp
    \/ Prepare \/ Direct \/ Finalize

Environment == Reap \/ Probe \/ EndProbe \/ Write \/ Writeback \/ FormatterExits

\* The stage is over and nothing it left behind changes.
Ended == pc = "end" /\ UNCHANGED vars

Next == Stage \/ Environment \/ Ended
Spec == Init /\ [][Next]_vars

\* The stage is sequential and its waits are bounded; another program's probe
\* ends, and the kernel does what was deferred once the last holder is gone.
Fairness == WF_vars(Stage \/ Reap) /\ WF_vars(EndProbe)
FairSpec == Spec /\ Fairness

-----------------------------------------------------------------------------
(* Properties. *)

TypeOK ==
    /\ kind \in {"extend", "image"} /\ parted \subseteq Volumes
    /\ mounts \in {"none", "esp", "tmpfs"}
    /\ obj \in [Objects -> {"none", "owned", "forgotten", "doomed"}]
    /\ todo \in Seq(Objects) /\ left \in Nat
    /\ {failed, broken, residue, tenants, sealed} \subseteq BOOLEAN
    /\ inputs \in {"none", "owned", "forgotten"}
    /\ child \in {"none", "running", "exited", "lost"}
    /\ prober \in Objects \cup {<<>>}
    /\ dirty \subseteq {"root", "esp"} /\ store \in {"valid", "overflown"}
    /\ runtime \in {"open", "closed", "retained"}
    /\ verdict \in {"none", "ok", "failed"}

\* When a store is sealed, nothing in the kernel can reach it any more: every part
\* of its volume but the origin, which sealing reads, is gone, and no process has
\* the volume open (LoopAttachment::detach, Scratch::seal_snapshot).
SealsAlone ==
    pc = "seal" =>
        /\ \A p \in Parts \ {"origin"} : obj[<<"output", p>>] = "none"
        /\ obj[<<"output", "origin">>] = "owned"
        /\ ~tenants /\ child = "none"

\* A sealed layer is a valid store that holds everything that was written: the
\* last filesystem to be unmounted may overflow it after its last health check
\* (SnapshotExtent::read).
SealedIntact == sealed => store = "valid" /\ dirty = {}

\* A stage that succeeds leaves nothing in the kernel, in no volume, and no process
\* (Runtime::scoped, Root::read, BootstrapBuild::produce).
SuccessLeavesNothing ==
    verdict = "ok" =>
        /\ sealed /\ runtime = "closed"
        /\ \A x \in Objects : obj[x] = "none"
        /\ inputs = "none" /\ child = "none" /\ ~tenants

\* Storage is leaked only when a clean-up failed or could not be attempted; a
\* directive, a format or a COPY that merely failed leaks nothing (FormatInputs::
\* reject, Volume::discard, BootstrapVolumes::mount_root_until).
RetainedForCause ==
    inputs = "forgotten" \/ residue \/ (\E x \in Objects : obj[x] = "forgotten")
        => broken

\* While a process may write, what it writes to is neither removed nor marked for
\* removal: a lost formatter keeps its views and store, a retained command the
\* layers below its mounts (Formatting, Retained).
WritersKeepLayers ==
    LET kept(p) == obj[<<"output", p>>] \in {"owned", "forgotten"} IN
    /\ child \in {"running", "lost"} =>
        /\ inputs \in {"owned", "forgotten"}
        /\ kept("root") /\ kept("snapshot") /\ kept("loop")
        /\ "output" \in parted => kept("esp")
        /\ ~Present("output", "mount") /\ ~Present("output", "stage")
    /\ tenants =>
        /\ kept("mount") /\ kept("root") /\ kept("snapshot") /\ kept("loop")
        /\ mounts = "esp" => kept("stage") /\ kept("esp")

\* The runtime directory is taken down only when nothing is attached below it and
\* no process runs over a mount that was (RuntimeMounts::close).
BarrierHolds == runtime = "closed" => Attached = {} /\ ~residue /\ ~tenants

\* A store is sealed alone, and whole (Scratch::seal_snapshot).
Sealing == TypeOK /\ SealsAlone /\ SealedIntact

\* What is in use stays: by processes that write, and below the runtime directory
\* (Retained, Formatting, RuntimeMounts::close).
UsedIsKept == WritersKeepLayers /\ BarrierHolds

\* A stage that failed, and whose clean-up did not, leaves nothing in the end:
\* what its destructors only requested takes place (MappingLease::drop).
FailureDrains ==
    verdict = "failed" /\ ~broken
        ~> /\ \A x \in Objects : obj[x] = "none"
           /\ inputs = "none" /\ child = "none" /\ ~tenants
=============================================================================
