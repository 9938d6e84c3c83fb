-------------------------- MODULE StageStorageProofs --------------------------
(***************************************************************************)
(* Safety of StageStorage, for every number of directives, every number of *)
(* failing requests, every set of disk layouts and every set of objects    *)
(* that other programs probe.                                              *)
(***************************************************************************)
EXTENDS StageStorage, SequenceTheorems, TLAPS

-----------------------------------------------------------------------------
(* The inductive invariant *)

\* The parts ps of the volumes V.
Of(V, ps) == {x \in Objects : x[1] \in V /\ x[2] \in ps}

\* The objects a sequence names.
Items(s) == {s[i] : i \in DOMAIN s}

\* No volume but the reader's is given up yet.
Standing == pc \notin {"undo", "closing", "end"}
\* The stage's volumes are mounted.
Serving == {"operate", "command", "read", "copy", "unread"}
\* From the end of preparation to the last directive.
Directing == {"directive", "mount", "unmount", "validate"} \cup Serving

ToolMount == IF kind = "image" THEN Of({"tool"}, {"mount"}) ELSE {}
Reader == Of({"reader"}, {"origin", "loop", "snapshot", "root", "esp", "mount"})

\* What every phase opens or closes.
Listing ==
    /\ pc = "activate" =>
         Items(todo) = Of({IF kind = "image" THEN "tool" ELSE "output"}, {"origin"})
    /\ pc = "prepare" =>
         Items(todo) = Of({"output"}, {"loop", "snapshot", "root", "esp",
                                       IF kind = "image" THEN "origin" ELSE "stage"})
    /\ pc = "parts" => Items(todo) = Of({"output"}, {"root", "esp"})
    /\ pc = "tooling" =>
         Items(todo) = Of({"tool"}, {"loop", "snapshot", "root", "esp"})
                         \cup Of({"output"}, {"root", "esp", "stage"})
    /\ pc \in {"mount", "unmount"} =>
         Items(todo) = Of({"output"}, {"mount", "child"}) \cup ToolMount
    /\ pc = "finish" =>
         Items(todo) = Of({"tool", "output"}, {"stage", "root", "esp", "snapshot", "loop"})
    /\ pc = "release" => Items(todo) = Of({"tool", "output"}, {"origin"})
    /\ pc = "read" => Items(todo) = Reader
    /\ pc = "unread" =>
         /\ Items(todo) \subseteq Of({"reader"}, Parts)
         /\ ~failed /\ ~broken => Items(todo) = Reader

\* What does not exist on this disk is never opened.
Absent == \A x \in Objects : ~Exists(x) => obj[x] = "none"

\* What every phase may use.
Owns(ps) == \A x \in Of({"output"}, ps) : Exists(x) => obj[x] = "owned"
Ready ==
    /\ pc = "prepare" /\ kind = "extend" => Owns({"origin"})
    /\ pc = "format" => Owns({"origin", "loop", "snapshot", "root", "esp"})
    /\ pc \in {"parts", "tooling"} => Owns({"origin", "loop", "snapshot"})
    /\ pc \in Directing => Owns({"origin", "loop", "snapshot", "root", "esp", "stage"})
    /\ pc \in Serving => Owns({"mount", "child"})
    /\ pc \in {"finish", "seal"} => Owns({"origin"})

\* What is not there yet, or no longer.
Lacks(V, ps) == \A x \in Of(V, ps) : obj[x] = "none"
Clear ==
    /\ Standing /\ pc \notin Serving \cup {"mount", "unmount"} =>
         Lacks({"output", "tool"}, {"mount", "child"})
    /\ Standing /\ kind = "extend" => Lacks({"tool"}, {"mount"})
    /\ pc \in {"activate", "capture", "format"} \/ (pc = "prepare" /\ kind = "image") =>
         Lacks({"output"}, {"stage"})
    /\ pc \in {"seal", "release"} => Lacks({"output", "tool"}, Parts \ {"origin"})
    /\ Standing /\ pc \notin {"read", "copy", "unread"} /\ ~failed =>
         Lacks({"reader"}, Parts)
    /\ pc \in {"closing", "end"} /\ ~failed => Lacks(Volumes, Parts)

\* Nothing is leaked or doomed while the stage goes on with it.
Solid(V) == \A x \in Of(V, Parts) : obj[x] \in {"none", "owned"}
Whole ==
    /\ Standing => Solid({"output", "tool"})
    /\ pc \in {"read", "copy"} \/ (pc = "unread" /\ ~failed /\ ~broken) => Solid({"reader"})

\* An ESP is mounted only if there is one.
Rooted ==
    (Standing \/ tenants) /\ mounts = "esp" /\ obj[<<"output", "stage">>] # "none"
        => "output" \in parted

\* Where data may still be on its way to the store.
Dirt ==
    /\ dirty # {} => pc \in {"format", "unmount", "undo"} \cup Serving
    /\ pc = "format" /\ child = "none" => dirty = {}
    /\ pc \in {"unmount"} \cup Serving =>
         /\ "root" \in dirty => obj[<<"output", "mount">>] = "owned"
         /\ "esp" \in dirty => mounts = "esp" /\ obj[<<"output", "child">>] = "owned"

\* How far the stage is, and who runs.
Flow ==
    /\ pc \notin {"unmount", "unread", "undo", "closing", "end"} => ~failed
    /\ pc = "capture" => kind = "image"
    /\ child \in {"running", "exited"} => pc = "format" /\ todo # <<>>
    /\ child = "lost" => pc \in {"closing", "end"} /\ failed
    /\ tenants => pc = "command" \/ (pc \in {"closing", "end"} /\ failed)
    /\ sealed => pc \in {"release", "closing", "end"} /\ store = "valid"
    /\ pc = "release" => sealed
    /\ pc \in {"closing", "end"} /\ ~failed => sealed

\* The formatter's files, and how it all ends.
Ends ==
    /\ pc \in {"activate", "capture", "finish", "seal", "release"} \cup Directing
           \cup {"tooling"} => inputs = "none"
    /\ pc \in {"format", "parts"} => inputs = "owned"
    /\ pc = "prepare" => inputs = IF kind = "image" THEN "owned" ELSE "none"
    /\ pc \in {"closing", "end"} /\ ~failed => inputs = "none"
    /\ runtime # "open" \/ verdict # "none" => pc = "end"
    /\ verdict = "ok" => ~failed /\ runtime = "closed"
    /\ runtime = "closed" => Attached = {} /\ ~residue

\* What a process that is left keeps.
Leaked(ps) == \A x \in Of({"output"}, ps) : Exists(x) => obj[x] = "forgotten"
Kept ==
    /\ child = "lost" =>
         /\ inputs = "forgotten"
         /\ Leaked({"root", "esp", "snapshot", "loop"})
         /\ Lacks({"output"}, {"mount", "stage"})
    /\ tenants /\ pc # "command" =>
         Leaked({"mount", "stage", "root", "esp", "snapshot", "loop"})

IInv ==
    /\ TypeOK /\ Listing /\ Absent /\ Ready /\ Clear /\ Whole /\ Rooted /\ Dirt
    /\ Flow /\ Ends /\ Kept /\ RetainedForCause

-----------------------------------------------------------------------------
USE BoundsAssumption DEF given, data, outcome

(* Objects *)

\* The parts of a volume, one by one.
LEMMA PartsAre == Parts = {"child", "mount", "stage", "root", "esp", "snapshot", "loop", "origin"}
  BY DEF Parts, Stack

\* The objects, one by one.
LEMMA ObjectsAre ==
    /\ \A x \in Objects : x[1] \in Volumes /\ x[2] \in Parts /\ x = <<x[1], x[2]>>
    /\ \A v \in Volumes, p \in Parts :
        <<v, p>> \in Objects /\ <<v, p>>[1] = v /\ <<v, p>>[2] = p
  BY DEF Objects

\* The outputs are objects.
LEMMA OutputsIn ==
    \A p \in Parts : \A ps : p \in ps =>
        <<"output", p>> \in Of({"output"}, ps) /\ <<"output", p>> \in Of({"output", "tool"}, ps)
  <1> TAKE p \in Parts
  <1> TAKE ps
  <1> HAVE p \in ps
  <1> DEFINE x == <<"output", p>>
  <1>1. x \in Objects /\ x[1] = "output" /\ x[2] = p
    BY ObjectsAre DEF Volumes
  <1> HIDE DEF x
  <1>2. x \in Of({"output"}, ps) /\ x \in Of({"output", "tool"}, ps)
    BY <1>1 DEF Of
  <1> QED
    BY <1>2 DEF x

\* The empty sequence names no object.
LEMMA NoneIsNoObject == <<>> \notin Objects
  BY DEF Objects

\* The type invariant, part by part.
LEMMA Types ==
    TypeOK <=>
        /\ kind \in {"extend", "image"} /\ parted \subseteq Volumes
        /\ mounts \in {"none", "esp", "tmpfs"}
        /\ obj \in [Objects -> {"none", "owned", "forgotten", "doomed"}]
        /\ todo \in Seq(Objects) /\ left \in Nat
        /\ failed \in BOOLEAN /\ broken \in BOOLEAN /\ residue \in BOOLEAN
        /\ tenants \in BOOLEAN /\ sealed \in BOOLEAN
        /\ inputs \in {"none", "owned", "forgotten"}
        /\ child \in {"none", "running", "exited", "lost"}
        /\ prober \in Objects \cup {<<>>}
        /\ dirty \subseteq {"root", "esp"} /\ store \in {"valid", "overflown"}
        /\ runtime \in {"open", "closed", "retained"}
        /\ verdict \in {"none", "ok", "failed"}
  BY DEF TypeOK

-----------------------------------------------------------------------------
(* Sequences of objects *)

\* What a list of parts of a volume names.
LEMMA AlongItems ==
    ASSUME NEW v \in Volumes, NEW ps \in Seq(Parts)
    PROVE  /\ Along(v, ps) \in Seq(Objects)
           /\ Items(Along(v, ps)) = {<<v, p>> : p \in Items(ps)}
  <1>1. Along(v, ps) \in [1..Len(ps) -> Objects] /\ DOMAIN ps = 1..Len(ps) /\ Len(ps) \in Nat
    BY ObjectsAre, LenProperties DEF Along
  <1>2. Along(v, ps) \in Seq(Objects)
    BY <1>1, SeqDef
  <1> QED
    BY <1>1, <1>2 DEF Items, Along

\* What two lists name, one after the other.
LEMMA ConcatItems ==
    ASSUME NEW s \in Seq(Objects), NEW t \in Seq(Objects)
    PROVE  s \o t \in Seq(Objects) /\ Items(s \o t) = Items(s) \cup Items(t)
  <1> USE LenProperties, ConcatProperties
  <1>1. s \o t \in Seq(Objects)
    OBVIOUS
  <1>2. Items(s \o t) \subseteq Items(s) \cup Items(t)
    BY <1>1 DEF Items
  <1>3. Items(s) \subseteq Items(s \o t)
    BY <1>1 DEF Items
  <1>4. ASSUME NEW i \in DOMAIN t PROVE t[i] \in Items(s \o t)
    <2>1. i + Len(s) \in DOMAIN (s \o t) /\ (s \o t)[i + Len(s)] = t[i]
      BY <1>1
    <2> QED
      BY <2>1 DEF Items
  <1> QED
    BY <1>1, <1>2, <1>3, <1>4 DEF Items

\* Some parts of a volume, in order.
LEMMA AlongOf ==
    ASSUME NEW v \in Volumes, NEW ps \in Seq(Parts)
    PROVE  Along(v, ps) \in Seq(Objects) /\ Items(Along(v, ps)) = Of({v}, Items(ps))
  <1>1. Items(ps) \subseteq Parts
    BY LenProperties DEF Items
  <1> QED
    BY <1>1, AlongItems, ObjectsAre DEF Of

\* The lists of the model, by the parts they name.
LEMMA Lists ==
    ASSUME NEW v \in Volumes
    PROVE
        /\ Along(v, <<"origin">>) \in Seq(Objects)
        /\ Items(Along(v, <<"origin">>)) = Of({v}, {"origin"})
        /\ Along(v, <<"mount">>) \in Seq(Objects)
        /\ Items(Along(v, <<"mount">>)) = Of({v}, {"mount"})
        /\ Along(v, <<"root">>) \in Seq(Objects)
        /\ Items(Along(v, <<"root">>)) = Of({v}, {"root"})
        /\ Along(v, <<"root", "esp">>) \in Seq(Objects)
        /\ Items(Along(v, <<"root", "esp">>)) = Of({v}, {"root", "esp"})
        /\ Along(v, <<"mount", "child">>) \in Seq(Objects)
        /\ Items(Along(v, <<"mount", "child">>)) = Of({v}, {"mount", "child"})
        /\ Along(v, <<"child", "mount">>) \in Seq(Objects)
        /\ Items(Along(v, <<"child", "mount">>)) = Of({v}, {"child", "mount"})
        /\ Along(v, <<"root", "esp", "stage">>) \in Seq(Objects)
        /\ Items(Along(v, <<"root", "esp", "stage">>)) = Of({v}, {"root", "esp", "stage"})
        /\ Along(v, <<"loop", "snapshot", "root", "esp">>) \in Seq(Objects)
        /\ Items(Along(v, <<"loop", "snapshot", "root", "esp">>))
             = Of({v}, {"loop", "snapshot", "root", "esp"})
        /\ Along(v, <<"stage", "root", "esp", "snapshot", "loop">>) \in Seq(Objects)
        /\ Items(Along(v, <<"stage", "root", "esp", "snapshot", "loop">>))
             = Of({v}, {"stage", "root", "esp", "snapshot", "loop"})
        /\ Along(v, <<"loop", "snapshot", "root", "esp", "stage">>) \in Seq(Objects)
        /\ Items(Along(v, <<"loop", "snapshot", "root", "esp", "stage">>))
             = Of({v}, {"loop", "snapshot", "root", "esp", "stage"})
        /\ Along(v, <<"origin", "loop", "snapshot", "root", "esp">>) \in Seq(Objects)
        /\ Items(Along(v, <<"origin", "loop", "snapshot", "root", "esp">>))
             = Of({v}, {"origin", "loop", "snapshot", "root", "esp"})
        /\ Along(v, <<"origin", "loop", "snapshot", "root", "esp", "mount">>) \in Seq(Objects)
        /\ Items(Along(v, <<"origin", "loop", "snapshot", "root", "esp", "mount">>))
             = Of({v}, {"origin", "loop", "snapshot", "root", "esp", "mount"})
        /\ Along(v, <<"mount", "root", "esp", "snapshot", "loop", "origin">>) \in Seq(Objects)
        /\ Items(Along(v, <<"mount", "root", "esp", "snapshot", "loop", "origin">>))
             = Of({v}, {"mount", "root", "esp", "snapshot", "loop", "origin"})
  <1>1. /\ Along(v, <<"origin">>) \in Seq(Objects)
        /\ Items(Along(v, <<"origin">>)) = Of({v}, {"origin"})
    <2>1. <<"origin">> \in Seq(Parts) /\ Items(<<"origin">>) = {"origin"}
      BY PartsAre DEF Items
    <2> QED
      BY <2>1, AlongOf
  <1>2. /\ Along(v, <<"mount">>) \in Seq(Objects)
        /\ Items(Along(v, <<"mount">>)) = Of({v}, {"mount"})
    <2>1. <<"mount">> \in Seq(Parts) /\ Items(<<"mount">>) = {"mount"}
      BY PartsAre DEF Items
    <2> QED
      BY <2>1, AlongOf
  <1>3. /\ Along(v, <<"root">>) \in Seq(Objects)
        /\ Items(Along(v, <<"root">>)) = Of({v}, {"root"})
    <2>1. <<"root">> \in Seq(Parts) /\ Items(<<"root">>) = {"root"}
      BY PartsAre DEF Items
    <2> QED
      BY <2>1, AlongOf
  <1>4. /\ Along(v, <<"root", "esp">>) \in Seq(Objects)
        /\ Items(Along(v, <<"root", "esp">>)) = Of({v}, {"root", "esp"})
    <2>1. <<"root", "esp">> \in Seq(Parts) /\ Items(<<"root", "esp">>) = {"root", "esp"}
      BY PartsAre DEF Items
    <2> QED
      BY <2>1, AlongOf
  <1>5. /\ Along(v, <<"mount", "child">>) \in Seq(Objects)
        /\ Items(Along(v, <<"mount", "child">>)) = Of({v}, {"mount", "child"})
    <2>1. /\ <<"mount", "child">> \in Seq(Parts)
          /\ Items(<<"mount", "child">>) = {"mount", "child"}
      BY PartsAre DEF Items
    <2> QED
      BY <2>1, AlongOf
  <1>6. /\ Along(v, <<"child", "mount">>) \in Seq(Objects)
        /\ Items(Along(v, <<"child", "mount">>)) = Of({v}, {"child", "mount"})
    <2>1. /\ <<"child", "mount">> \in Seq(Parts)
          /\ Items(<<"child", "mount">>) = {"child", "mount"}
      BY PartsAre DEF Items
    <2> QED
      BY <2>1, AlongOf
  <1>7. /\ Along(v, <<"root", "esp", "stage">>) \in Seq(Objects)
        /\ Items(Along(v, <<"root", "esp", "stage">>)) = Of({v}, {"root", "esp", "stage"})
    <2>1. /\ <<"root", "esp", "stage">> \in Seq(Parts)
          /\ Items(<<"root", "esp", "stage">>) = {"root", "esp", "stage"}
      BY PartsAre DEF Items
    <2> QED
      BY <2>1, AlongOf
  <1>8. /\ Along(v, <<"loop", "snapshot", "root", "esp">>) \in Seq(Objects)
        /\ Items(Along(v, <<"loop", "snapshot", "root", "esp">>))
             = Of({v}, {"loop", "snapshot", "root", "esp"})
    <2>1. /\ <<"loop", "snapshot", "root", "esp">> \in Seq(Parts)
          /\ Items(<<"loop", "snapshot", "root", "esp">>) = {"loop", "snapshot", "root", "esp"}
      BY PartsAre DEF Items
    <2> QED
      BY <2>1, AlongOf
  <1>9. /\ Along(v, <<"stage", "root", "esp", "snapshot", "loop">>) \in Seq(Objects)
        /\ Items(Along(v, <<"stage", "root", "esp", "snapshot", "loop">>))
             = Of({v}, {"stage", "root", "esp", "snapshot", "loop"})
    <2>1. /\ <<"stage", "root", "esp", "snapshot", "loop">> \in Seq(Parts)
          /\ Items(<<"stage", "root", "esp", "snapshot", "loop">>)
               = {"stage", "root", "esp", "snapshot", "loop"}
      BY PartsAre DEF Items
    <2> QED
      BY <2>1, AlongOf
  <1>10. /\ Along(v, <<"loop", "snapshot", "root", "esp", "stage">>) \in Seq(Objects)
         /\ Items(Along(v, <<"loop", "snapshot", "root", "esp", "stage">>))
              = Of({v}, {"loop", "snapshot", "root", "esp", "stage"})
    <2>1. /\ <<"loop", "snapshot", "root", "esp", "stage">> \in Seq(Parts)
          /\ Items(<<"loop", "snapshot", "root", "esp", "stage">>)
               = {"loop", "snapshot", "root", "esp", "stage"}
      BY PartsAre DEF Items
    <2> QED
      BY <2>1, AlongOf
  <1>11. /\ Along(v, <<"origin", "loop", "snapshot", "root", "esp">>) \in Seq(Objects)
         /\ Items(Along(v, <<"origin", "loop", "snapshot", "root", "esp">>))
              = Of({v}, {"origin", "loop", "snapshot", "root", "esp"})
    <2>1. /\ <<"origin", "loop", "snapshot", "root", "esp">> \in Seq(Parts)
          /\ Items(<<"origin", "loop", "snapshot", "root", "esp">>)
               = {"origin", "loop", "snapshot", "root", "esp"}
      BY PartsAre DEF Items
    <2> QED
      BY <2>1, AlongOf
  <1>12. /\ Along(v, <<"origin", "loop", "snapshot", "root", "esp", "mount">>) \in Seq(Objects)
         /\ Items(Along(v, <<"origin", "loop", "snapshot", "root", "esp", "mount">>))
              = Of({v}, {"origin", "loop", "snapshot", "root", "esp", "mount"})
    <2>1. /\ <<"origin", "loop", "snapshot", "root", "esp", "mount">> \in Seq(Parts)
          /\ Items(<<"origin", "loop", "snapshot", "root", "esp", "mount">>)
               = {"origin", "loop", "snapshot", "root", "esp", "mount"}
      BY PartsAre DEF Items
    <2> QED
      BY <2>1, AlongOf
  <1>13. /\ Along(v, <<"mount", "root", "esp", "snapshot", "loop", "origin">>) \in Seq(Objects)
         /\ Items(Along(v, <<"mount", "root", "esp", "snapshot", "loop", "origin">>))
              = Of({v}, {"mount", "root", "esp", "snapshot", "loop", "origin"})
    <2>1. /\ <<"mount", "root", "esp", "snapshot", "loop", "origin">> \in Seq(Parts)
          /\ Items(<<"mount", "root", "esp", "snapshot", "loop", "origin">>)
               = {"mount", "root", "esp", "snapshot", "loop", "origin"}
      BY PartsAre DEF Items
    <2> QED
      BY <2>1, AlongOf
  <1> QED
    BY <1>1, <1>2, <1>3, <1>4, <1>5, <1>6, <1>7, <1>8, <1>9, <1>10, <1>11, <1>12, <1>13

\* The empty list names nothing.
LEMMA NothingListed == <<>> \in Seq(Objects) /\ Items(<<>>) = {}
  BY DEF Items

\* What is closed when a volume is discarded (Volume<Unmounted>::discard).
LEMMA DiscardItems ==
    ASSUME NEW v \in Volumes
    PROVE  /\ Discard(v) \in Seq(Objects)
           /\ Items(Discard(v)) = Of({v}, {"stage", "root", "esp", "snapshot", "loop"})
  BY Lists DEF Discard

\* The volumes that a stage may hold.
LEMMA VolumesAre == "output" \in Volumes /\ "tool" \in Volumes /\ "reader" \in Volumes
  BY DEF Volumes

\* The tool root is mounted alone.
LEMMA ToolRootItems == ToolRoot \in Seq(Objects) /\ Items(ToolRoot) = ToolMount
  BY Lists, VolumesAre, NothingListed DEF ToolRoot, ToolMount

\* What is mounted, and unmounted in the opposite order (BootstrapVolumes).
LEMMA MountingItems ==
    /\ Mounting \in Seq(Objects) /\ Unmounting \in Seq(Objects)
    /\ Items(Mounting) = Of({"output"}, {"mount", "child"}) \cup ToolMount
    /\ Items(Unmounting) = Of({"output"}, {"mount", "child"}) \cup ToolMount
  <1>1. /\ Along("output", <<"mount", "child">>) \in Seq(Objects)
        /\ Items(Along("output", <<"mount", "child">>)) = Of({"output"}, {"mount", "child"})
    BY Lists, VolumesAre
  <1>2. /\ Along("output", <<"child", "mount">>) \in Seq(Objects)
        /\ Items(Along("output", <<"child", "mount">>)) = Of({"output"}, {"child", "mount"})
    BY Lists, VolumesAre
  <1>3. Of({"output"}, {"child", "mount"}) = Of({"output"}, {"mount", "child"})
    BY DEF Of
  <1> QED
    BY <1>1, <1>2, <1>3, ToolRootItems, ConcatItems DEF Mounting, Unmounting

\* What is closed before and after the sealing of the store (BootstrapBuild::produce).
LEMMA FinishingItems ==
    /\ Finishing \in Seq(Objects) /\ Releasing \in Seq(Objects)
    /\ Items(Finishing) = Of({"tool", "output"}, {"stage", "root", "esp", "snapshot", "loop"})
    /\ Items(Releasing) = Of({"tool", "output"}, {"origin"})
  <1>1. /\ Discard("tool") \in Seq(Objects) /\ Discard("output") \in Seq(Objects)
        /\ Items(Discard("tool")) = Of({"tool"}, {"stage", "root", "esp", "snapshot", "loop"})
        /\ Items(Discard("output")) = Of({"output"}, {"stage", "root", "esp", "snapshot", "loop"})
    BY DiscardItems, VolumesAre
  <1>2. /\ Finishing \in Seq(Objects)
        /\ Items(Finishing) = Items(Discard("tool")) \cup Items(Discard("output"))
    BY <1>1, ConcatItems DEF Finishing
  <1>3. /\ Along("tool", <<"origin">>) \in Seq(Objects)
        /\ Along("output", <<"origin">>) \in Seq(Objects)
        /\ Items(Along("tool", <<"origin">>)) = Of({"tool"}, {"origin"})
        /\ Items(Along("output", <<"origin">>)) = Of({"output"}, {"origin"})
    BY Lists, VolumesAre
  <1>4. /\ Releasing \in Seq(Objects)
        /\ Items(Releasing) = Of({"tool"}, {"origin"}) \cup Of({"output"}, {"origin"})
    BY <1>3, ConcatItems DEF Releasing
  <1>5. \A ps : Of({"tool", "output"}, ps) = Of({"tool"}, ps) \cup Of({"output"}, ps)
    BY DEF Of
  <1> QED
    BY <1>1, <1>2, <1>4, <1>5

\* What COPY opens of its source, and closes (Root::read).
LEMMA ReadingItems ==
    /\ Reading \in Seq(Objects) /\ Items(Reading) = Reader
    /\ Unreading \in Seq(Objects) /\ Items(Unreading) = Reader
  <1>1. Of({"reader"}, {"mount", "root", "esp", "snapshot", "loop", "origin"}) = Reader
    BY DEF Of, Reader
  <1> QED
    BY <1>1, Lists, VolumesAre DEF Reading, Unreading, Reader

\* What is opened of the output when it is prepared (Root::activate, FormatterRuntime::format).
LEMMA PreparingItems ==
    /\ Along("output", <<"loop", "snapshot", "root", "esp", "stage">>) \in Seq(Objects)
    /\ Items(Along("output", <<"loop", "snapshot", "root", "esp", "stage">>))
         = Of({"output"}, {"loop", "snapshot", "root", "esp", "stage"})
    /\ Along("output", <<"origin", "loop", "snapshot", "root", "esp">>) \in Seq(Objects)
    /\ Items(Along("output", <<"origin", "loop", "snapshot", "root", "esp">>))
         = Of({"output"}, {"loop", "snapshot", "root", "esp", "origin"})
  <1>1. Of({"output"}, {"loop", "snapshot", "root", "esp", "origin"})
          = Of({"output"}, {"origin", "loop", "snapshot", "root", "esp"})
    BY DEF Of
  <1> QED
    BY <1>1, Lists, VolumesAre

\* What is formatted, and what is opened after that (FormattedSnapshot::into_parts,
\* BootstrapBuild::produce).
LEMMA ToolingItems ==
    LET tooling == Along("tool", <<"loop", "snapshot", "root", "esp">>)
                     \o Along("output", <<"root", "esp", "stage">>)
    IN  /\ Formats \in Seq(Objects)
        /\ Along("output", <<"root", "esp">>) \in Seq(Objects)
        /\ Items(Along("output", <<"root", "esp">>)) = Of({"output"}, {"root", "esp"})
        /\ tooling \in Seq(Objects)
        /\ Items(tooling) = Of({"tool"}, {"loop", "snapshot", "root", "esp"})
                              \cup Of({"output"}, {"root", "esp", "stage"})
  <1>1. /\ Along("tool", <<"loop", "snapshot", "root", "esp">>) \in Seq(Objects)
        /\ Items(Along("tool", <<"loop", "snapshot", "root", "esp">>))
             = Of({"tool"}, {"loop", "snapshot", "root", "esp"})
    BY Lists, VolumesAre
  <1>2. /\ Along("output", <<"root", "esp", "stage">>) \in Seq(Objects)
        /\ Items(Along("output", <<"root", "esp", "stage">>))
             = Of({"output"}, {"root", "esp", "stage"})
    BY Lists, VolumesAre
  <1>3. /\ Along("output", <<"root", "esp">>) \in Seq(Objects)
        /\ Items(Along("output", <<"root", "esp">>)) = Of({"output"}, {"root", "esp"})
        /\ Along("output", <<"root">>) \in Seq(Objects)
    BY Lists, VolumesAre
  <1>4. Formats \in Seq(Objects)
    BY <1>3 DEF Formats
  <1> QED
    BY <1>1, <1>2, <1>3, <1>4, ConcatItems

\* An object that could not be opened takes only its own volume, and the tool
\* root, with it (Volume<Unmounted>::mount_ext4).
LEMMA UndoItems ==
    ASSUME NEW x \in Objects
    PROVE  /\ Undo(x) \in Seq(Objects)
           /\ x[1] = "reader" => Items(Undo(x)) \subseteq Of({"reader"}, Parts)
  <1> DEFINE v == x[1]
             tool == IF v = "output" THEN ToolRoot ELSE <<>>
  <1>1. v \in Volumes
    BY ObjectsAre
  <1>2. tool \in Seq(Objects) /\ (v = "reader" => Items(tool) = {})
    BY ToolRootItems, NothingListed
  <1>3. /\ Along(v, <<"root">>) \in Seq(Objects)
        /\ Items(Along(v, <<"root">>)) = Of({v}, {"root"})
    BY <1>1, Lists
  <1>4. /\ Along(v, <<"child", "mount">>) \in Seq(Objects)
        /\ Items(Along(v, <<"child", "mount">>)) = Of({v}, {"child", "mount"})
    BY <1>1, Lists
  <1>5. /\ Discard(v) \in Seq(Objects)
        /\ Items(Discard(v)) = Of({v}, {"stage", "root", "esp", "snapshot", "loop"})
    BY <1>1, DiscardItems
  <1>6. /\ Discard(v) \o tool \in Seq(Objects)
        /\ Items(Discard(v) \o tool) = Items(Discard(v)) \cup Items(tool)
    BY <1>2, <1>5, ConcatItems
  <1>7. /\ Along(v, <<"child", "mount">>) \o Discard(v) \in Seq(Objects)
        /\ Items(Along(v, <<"child", "mount">>) \o Discard(v))
             = Of({v}, {"child", "mount"}) \cup Items(Discard(v))
    BY <1>4, <1>5, ConcatItems
  <1>8. /\ Along(v, <<"child", "mount">>) \o Discard(v) \o tool \in Seq(Objects)
        /\ Items(Along(v, <<"child", "mount">>) \o Discard(v) \o tool)
             = Items(Along(v, <<"child", "mount">>) \o Discard(v)) \cup Items(tool)
    BY <1>2, <1>7, ConcatItems
  <1>9. \A ps : Of({v}, ps) \subseteq Of({v}, Parts)
    BY ObjectsAre DEF Of
  <1>10. Undo(x) \in {Along(v, <<"root">>), Discard(v), Discard(v) \o tool,
                      Along(v, <<"child", "mount">>) \o Discard(v) \o tool, <<>>}
    BY DEF Undo
  <1>11. CASE Undo(x) = Along(v, <<"root">>)
    BY <1>3, <1>9, <1>11
  <1>12. CASE Undo(x) = Discard(v)
    BY <1>5, <1>9, <1>12
  <1>13. CASE Undo(x) = Discard(v) \o tool
    BY <1>2, <1>5, <1>6, <1>9, <1>13
  <1>14. CASE Undo(x) = Along(v, <<"child", "mount">>) \o Discard(v) \o tool
    BY <1>2, <1>5, <1>7, <1>8, <1>9, <1>14
  <1>15. CASE Undo(x) = <<>>
    BY <1>15, NothingListed
  <1> QED
    BY <1>10, <1>11, <1>12, <1>13, <1>14, <1>15

-----------------------------------------------------------------------------
(* One object at a time *)

\* The next object to open is one of the list that is not open.
LEMMA NextToOpen ==
    ASSUME todo \in Seq(Objects), NEW x \in First(Unopened)
    PROVE  x \in Objects /\ x \in Items(todo) /\ Exists(x) /\ obj[x] # "owned"
  BY LenProperties DEF First, Unopened, Items

\* The next object to close is one of the list that is owned.
LEMMA NextToClose ==
    ASSUME todo \in Seq(Objects), NEW x \in First(Unclosed)
    PROVE  x \in Objects /\ x \in Items(todo) /\ obj[x] = "owned"
  BY LenProperties DEF First, Unclosed, Items

\* A list with nothing left to open is open.
LEMMA AllOpen == Unopened = {} => \A x \in Items(todo) : Exists(x) => obj[x] = "owned"
  BY DEF Unopened, Items

\* A list with nothing left to close is closed.
LEMMA AllClosed == Unclosed = {} => \A x \in Items(todo) : obj[x] # "owned"
  BY DEF Unclosed, Items

\* What does not depend on the position of the stage.
LEMMA SameObjects ==
    ASSUME UNCHANGED <<given, obj>>
    PROVE  /\ \A ps : Owns(ps)' <=> Owns(ps)
           /\ \A V, ps : Lacks(V, ps)' <=> Lacks(V, ps)
           /\ \A V : Solid(V)' <=> Solid(V)
           /\ \A ps : Leaked(ps)' <=> Leaked(ps)
           /\ Absent' <=> Absent
           /\ ToolMount' = ToolMount
  <1>1. \A x : Exists(x)' <=> Exists(x)
    BY DEF Exists
  <1>2. ToolMount' = ToolMount
    BY DEF ToolMount
  <1>3. \A ps : Owns(ps)' <=> Owns(ps)
    BY <1>1 DEF Owns
  <1>4. \A ps : Leaked(ps)' <=> Leaked(ps)
    BY <1>1 DEF Leaked
  <1>5. Absent' <=> Absent
    BY <1>1 DEF Absent
  <1> QED
    BY <1>2, <1>3, <1>4, <1>5 DEF Lacks, Solid

\* Parts of what there is, and what a phase that is over has opened or closed.
LEMMA Fewer ==
    /\ \A ps, qs, rs : Owns(ps) /\ Owns(qs) /\ rs \subseteq ps \cup qs => Owns(rs)
    /\ \A V, ps, W, qs : Lacks(V, ps) /\ W \subseteq V /\ qs \subseteq ps => Lacks(W, qs)
  BY DEF Owns, Lacks, Of

\* A phase that opens is over when it owns its list.
LEMMA Opened ==
    \A ps : Unopened = {} /\ Of({"output"}, ps) \subseteq Items(todo) => Owns(ps)
  BY AllOpen DEF Owns

\* A phase that closes is over when it owns nothing of its list.
LEMMA Closed ==
    \A V, ps : Unclosed = {} /\ Solid(V) /\ ps \subseteq Parts /\ Of(V, ps) \subseteq Items(todo)
        => Lacks(V, ps)
  BY AllClosed DEF Lacks, Solid, Of

-----------------------------------------------------------------------------
(* Preparation *)

PrepareMoves ==
    \/ Activated \/ CaptureFormatter \/ Prepared \/ SpawnFormatter \/ FormatterExits
    \/ Formatted \/ RejectFormat \/ FormatDone \/ CloseFormatter \/ Tooled

\* Preparing and formatting the volumes keeps the invariant (BootstrapBuild::produce).
LEMMA PrepareKeeps == ASSUME IInv, PrepareMoves PROVE IInv'
  <1> USE DEF IInv, Continue
  <1>1. UNCHANGED <<given, obj, broken, residue, outcome, tenants, sealed>>
    BY DEF PrepareMoves, Activated, CaptureFormatter, Prepared, SpawnFormatter, FormatterExits,
      Formatted, RejectFormat, FormatDone, CloseFormatter, Tooled
  <1>2. todo' \in Seq(Objects) /\ Listing'
    <2>1. CASE Activated
      BY <2>1, PreparingItems, NothingListed DEF Activated, Listing
    <2>2. CASE CaptureFormatter
      BY <2>2, PreparingItems DEF CaptureFormatter, Listing, Flow
    <2>3. CASE Prepared
      BY <2>3, ToolingItems, NothingListed DEF Prepared, Listing
    <2>4. CASE SpawnFormatter \/ FormatterExits
      <3>1. UNCHANGED <<kind, pc, todo, failed, broken>> /\ ToolMount' = ToolMount
        BY <1>1, <2>4, SameObjects DEF SpawnFormatter, FormatterExits
      <3> QED
        BY <3>1, Types DEF Listing
    <2>5. CASE Formatted
      BY <2>5, HeadTailProperties, Types DEF Formatted, Listing, Flow
    <2>6. CASE RejectFormat
      BY <2>6, DiscardItems, VolumesAre DEF RejectFormat, Listing
    <2>7. CASE FormatDone
      BY <2>7, ToolingItems DEF FormatDone, Listing
    <2>8. CASE CloseFormatter
      BY <2>8, ToolingItems DEF CloseFormatter, Listing
    <2>9. CASE Tooled
      BY <2>9, NothingListed DEF Tooled, Listing
    <2> QED
      BY <2>1, <2>2, <2>3, <2>4, <2>5, <2>6, <2>7, <2>8, <2>9 DEF PrepareMoves
  <1>3. TypeOK'
    <2>1. failed' \in BOOLEAN
      BY Types DEF PrepareMoves, Activated, CaptureFormatter, Prepared, SpawnFormatter,
        FormatterExits, Formatted, RejectFormat, FormatDone, CloseFormatter, Tooled
    <2>2. /\ left' \in Nat /\ inputs' \in {"none", "owned", "forgotten"}
          /\ child' \in {"none", "running", "exited", "lost"}
          /\ prober' \in Objects \cup {<<>>}
          /\ dirty' \subseteq {"root", "esp"} /\ store' \in {"valid", "overflown"}
      BY Types DEF PrepareMoves, Activated, CaptureFormatter, Prepared, SpawnFormatter,
        FormatterExits, Formatted, RejectFormat, FormatDone, CloseFormatter, Tooled
    <2> QED
      BY <1>1, <1>2, <2>1, <2>2, Types DEF TypeOK
  <1>4. Ready'
    <2>1. CASE Activated
      <3>1. kind = "extend" => Owns({"origin"})'
        BY <1>1, <2>1, Opened, SameObjects DEF Activated, Listing
      <3> QED
        BY <2>1, <3>1 DEF Activated, Ready, Directing, Serving
    <2>2. CASE CaptureFormatter
      BY <2>2 DEF CaptureFormatter, Ready, Directing, Serving, Flow
    <2>3. CASE Prepared /\ kind = "image"
      <3>1. Owns({"loop", "snapshot", "root", "esp", "origin"})
        BY <2>3, Opened DEF Prepared, Listing
      <3>2. Owns({"origin", "loop", "snapshot", "root", "esp"})'
        BY <1>1, <3>1, Fewer, SameObjects
      <3> QED
        BY <2>3, <3>2 DEF Prepared, Ready, Directing, Serving
    <2>4. CASE Prepared /\ kind = "extend"
      <3>1. Owns({"loop", "snapshot", "root", "esp", "stage"}) /\ Owns({"origin"})
        BY <2>4, Opened DEF Prepared, Listing, Ready
      <3>2. Owns({"origin", "loop", "snapshot", "root", "esp", "stage"})'
        BY <1>1, <3>1, Fewer, SameObjects
      <3> QED
        BY <2>4, <3>2 DEF Prepared, Ready, Directing, Serving
    <2>5. CASE SpawnFormatter \/ FormatterExits \/ Formatted
      <3>1. UNCHANGED <<kind, pc>>
        BY <2>5 DEF SpawnFormatter, FormatterExits, Formatted
      <3> QED
        BY <1>1, <3>1, SameObjects DEF Ready
    <2>6. CASE RejectFormat
      BY <2>6 DEF RejectFormat, Ready, Directing, Serving
    <2>7. CASE FormatDone
      <3>1. Owns({"origin", "loop", "snapshot"})'
        BY <1>1, <2>7, Fewer, SameObjects DEF FormatDone, Ready
      <3> QED
        BY <2>7, <3>1 DEF FormatDone, Ready, Directing, Serving
    <2>8. CASE CloseFormatter
      BY <1>1, <2>8, SameObjects DEF CloseFormatter, Ready, Directing, Serving
    <2>9. CASE Tooled
      <3>1. Owns({"root", "esp", "stage"}) /\ Owns({"origin", "loop", "snapshot"})
        BY <2>9, Opened DEF Tooled, Listing, Ready
      <3>2. Owns({"origin", "loop", "snapshot", "root", "esp", "stage"})'
        BY <1>1, <3>1, Fewer, SameObjects
      <3> QED
        BY <2>9, <3>2 DEF Tooled, Ready, Directing, Serving
    <2> QED
      BY <2>1, <2>2, <2>3, <2>4, <2>5, <2>6, <2>7, <2>8, <2>9, Types DEF PrepareMoves
  <1>5. Absent' /\ Whole'
    BY <1>1, SameObjects DEF Whole, Standing, PrepareMoves, Activated, CaptureFormatter,
      Prepared, SpawnFormatter, FormatterExits, Formatted, RejectFormat, FormatDone,
      CloseFormatter, Tooled
  <1>6. Clear'
    BY <1>1, SameObjects DEF Clear, Standing, Serving, Flow, PrepareMoves, Activated, CaptureFormatter,
      Prepared, SpawnFormatter, FormatterExits, Formatted, RejectFormat, FormatDone,
      CloseFormatter, Tooled
  <1>7. Rooted'
    BY <1>1 DEF Rooted, Standing, PrepareMoves, Activated, CaptureFormatter,
      Prepared, SpawnFormatter, FormatterExits, Formatted, RejectFormat, FormatDone,
      CloseFormatter, Tooled
  <1>8. Dirt'
    BY <1>1, Types DEF Dirt, Serving, Flow, PrepareMoves, Activated, CaptureFormatter,
      Prepared, SpawnFormatter, FormatterExits, Formatted, RejectFormat, FormatDone,
      CloseFormatter, Tooled
  <1>9. Flow'
    BY DEF Flow, PrepareMoves, Activated, CaptureFormatter,
      Prepared, SpawnFormatter, FormatterExits, Formatted, RejectFormat, FormatDone,
      CloseFormatter, Tooled
  <1>10. Ends'
    BY DEF Ends, Attached, Directing, Serving, Flow, PrepareMoves, Activated, CaptureFormatter,
      Prepared, SpawnFormatter, FormatterExits, Formatted, RejectFormat, FormatDone,
      CloseFormatter, Tooled
  <1>11. Kept'
    BY <1>1, SameObjects DEF Kept, Flow, PrepareMoves, Activated, CaptureFormatter,
      Prepared, SpawnFormatter, FormatterExits, Formatted, RejectFormat, FormatDone,
      CloseFormatter, Tooled
  <1>12. RetainedForCause'
    BY <1>1 DEF RetainedForCause, PrepareMoves, Activated, CaptureFormatter,
      Prepared, SpawnFormatter, FormatterExits, Formatted, RejectFormat, FormatDone,
      CloseFormatter, Tooled
  <1> QED
    BY <1>2, <1>3, <1>4, <1>5, <1>6, <1>7, <1>8, <1>9, <1>10, <1>11, <1>12

-----------------------------------------------------------------------------
(* Directives *)

DirectMoves ==
    \/ BeginDirective \/ Mounted \/ StartCommand \/ ReturnStorage \/ OpenSource
    \/ SourceOpen \/ SourceFails \/ Copied \/ Validate

\* So do the directives (CommandSandbox::run, Root::read).
LEMMA DirectKeeps == ASSUME IInv, DirectMoves PROVE IInv'
  <1> USE DEF IInv, Continue, DirectMoves, BeginDirective, Mounted, StartCommand,
        ReturnStorage, OpenSource, SourceOpen, SourceFails, Copied, Validate
  <1>1. UNCHANGED <<given, obj, broken, residue, prober, inputs, child, data, outcome>>
    OBVIOUS
  <1>2. todo' \in Seq(Objects) /\ Listing'
    <2>1. CASE BeginDirective \/ Mounted \/ ReturnStorage \/ (Copied /\ pc = "operate")
      <3>1. ToolMount' = ToolMount
        BY <1>1, SameObjects
      <3> QED
        BY <2>1, <3>1, MountingItems, NothingListed DEF Listing
    <2>2. CASE OpenSource \/ (Copied /\ pc = "copy")
      <3>1. Reader \subseteq Of({"reader"}, Parts)
        BY ObjectsAre DEF Reader, Of
      <3> QED
        BY <2>2, <3>1, ReadingItems DEF Listing
    <2>3. CASE StartCommand \/ SourceOpen \/ SourceFails \/ Validate
      BY <2>3, NothingListed DEF Listing
    <2> QED
      BY <2>1, <2>2, <2>3
  <1>3. TypeOK'
    <2>1. failed' \in BOOLEAN /\ tenants' \in BOOLEAN
      BY Types
    <2>2. left' \in Nat
      BY Types
    <2> QED
      BY <1>1, <1>2, <2>1, <2>2, Types DEF TypeOK
  <1>4. Ready'
    <2>1. CASE Mounted
      <3>1. Owns({"mount", "child"})
        BY <2>1, Opened DEF Listing
      <3> QED
        BY <1>1, <2>1, <3>1, SameObjects DEF Ready, Directing, Serving
    <2>2. CASE ~Mounted
      BY <1>1, <2>2, SameObjects DEF Ready, Directing, Serving
    <2> QED
      BY <2>1, <2>2
  <1>5. Absent' /\ Whole'
    <2>1. CASE OpenSource
      <3>1. Solid({"reader"})
        BY <2>1 DEF Clear, Standing, Serving, Flow, Lacks, Solid
      <3> QED
        BY <1>1, <2>1, <3>1, SameObjects DEF Whole, Standing
    <2>2. CASE ~OpenSource
      BY <1>1, <2>2, SameObjects DEF Whole, Standing
    <2> QED
      BY <2>1, <2>2
  <1>6. Clear'
    BY <1>1, SameObjects DEF Clear, Standing, Serving, Flow
  <1>7. Rooted'
    BY <1>1 DEF Rooted, Standing
  <1>8. Dirt'
    BY <1>1 DEF Dirt, Serving
  <1>9. Flow'
    BY <1>1 DEF Flow
  <1>10. Ends'
    BY <1>1 DEF Ends, Attached, Directing, Serving
  <1>11. Kept'
    BY <1>1, SameObjects DEF Kept, Flow
  <1>12. RetainedForCause'
    BY <1>1 DEF RetainedForCause
  <1> QED
    BY <1>2, <1>3, <1>4, <1>5, <1>6, <1>7, <1>8, <1>9, <1>10, <1>11, <1>12

-----------------------------------------------------------------------------
(* Finalization *)

FinalMoves == LastDirective \/ Detached \/ Seal \/ Released

\* So do sealing and the release of what is left (PartitionedSnapshot::into_snapshot).
LEMMA FinalKeeps == ASSUME IInv, FinalMoves PROVE IInv'
  <1> USE DEF IInv, Continue, FinalMoves, LastDirective, Detached, Seal, Released
  <1>1. UNCHANGED <<given, obj, broken, residue, prober, inputs, child, tenants, failed, left,
                    dirty, store, outcome>>
    OBVIOUS
  <1>2. todo' \in Seq(Objects) /\ Listing'
    BY FinishingItems, NothingListed DEF Listing
  <1>3. TypeOK'
    <2>1. sealed' \in BOOLEAN
      BY Types
    <2> QED
      BY <1>1, <1>2, <2>1, Types DEF TypeOK
  <1>4. Ready'
    <2>1. CASE LastDirective
      <3>1. Owns({"origin"})
        BY <2>1, Fewer DEF Ready, Directing
      <3> QED
        BY <1>1, <2>1, <3>1, SameObjects DEF Ready, Directing, Serving
    <2>2. CASE ~LastDirective
      BY <1>1, <2>2, SameObjects DEF Ready, Directing, Serving
    <2> QED
      BY <2>1, <2>2
  <1>5. Absent' /\ Whole'
    BY <1>1, SameObjects DEF Whole, Standing
  <1>6. Clear'
    <2>1. CASE LastDirective \/ Seal
      BY <1>1, <2>1, SameObjects DEF Clear, Standing, Serving
    <2>2. CASE Detached
      <3>1. Lacks({"tool", "output"}, {"stage", "root", "esp", "snapshot", "loop"})
        <4>1. Solid({"tool", "output"})
          BY <2>2 DEF Whole, Standing, Solid, Of
        <4> QED
          BY <2>2, <4>1, Closed, PartsAre DEF Listing
      <3>2. Lacks({"output", "tool"}, Parts \ {"origin"})
        BY <2>2, <3>1, PartsAre DEF Clear, Standing, Serving, Lacks, Of
      <3> QED
        BY <1>1, <2>2, <3>2, SameObjects DEF Clear, Standing, Serving
    <2>3. CASE Released
      <3>1. Lacks({"tool", "output"}, {"origin"})
        <4>1. Solid({"tool", "output"})
          BY <2>3 DEF Whole, Standing, Solid, Of
        <4> QED
          BY <2>3, <4>1, Closed, PartsAre DEF Listing
      <3>2. Lacks(Volumes, Parts)
        BY <2>3, <3>1, PartsAre DEF Clear, Standing, Serving, Lacks, Of, Volumes, Flow
      <3> QED
        BY <1>1, <2>3, <3>2, SameObjects DEF Clear, Standing, Serving
    <2> QED
      BY <2>1, <2>2, <2>3
  <1>7. Rooted'
    BY <1>1 DEF Rooted, Standing
  <1>8. Dirt'
    BY <1>1 DEF Dirt, Serving
  <1>9. Flow'
    BY <1>1 DEF Flow
  <1>10. Ends'
    BY <1>1 DEF Ends, Attached, Directing, Serving
  <1>11. Kept'
    BY <1>1, SameObjects DEF Kept, Flow
  <1>12. RetainedForCause'
    BY <1>1 DEF RetainedForCause
  <1> QED
    BY <1>2, <1>3, <1>4, <1>5, <1>6, <1>7, <1>8, <1>9, <1>10, <1>11, <1>12

-----------------------------------------------------------------------------
(* Errors *)

States == {"none", "owned", "forgotten", "doomed"}

\* What destructors do: nothing but to the owned objects of X, and an object or a
\* directory that stays is a clean-up that failed (MappingLease::drop, Point::drop).
LEMMA Destroyed ==
    ASSUME NEW o \in [Objects -> States], NEW X \in SUBSET Objects, NEW bad \in BOOLEAN,
           NEW gone \in BOOLEAN, broken \in BOOLEAN, residue \in BOOLEAN, Destroy(o, X, bad, gone)
    PROVE  /\ obj' \in [Objects -> States]
           /\ \A x \in Objects : x \notin X \/ o[x] # "owned" => obj'[x] = o[x]
           /\ \A x \in Objects : obj'[x] = "forgotten" => o[x] = "forgotten" \/ broken'
           /\ residue' => residue \/ gone \/ broken'
           /\ broken \/ bad => broken'
           /\ residue' \in BOOLEAN /\ broken' \in BOOLEAN
  <1> DEFINE owned == {x \in X : o[x] = "owned"}
  <1>1. PICK losses \in [1..MaxLost -> {x \in owned : x[2] # "loop"} \cup {<<>>, Directory}] :
          LET lost == {losses[i] : i \in 1..MaxLost} \ {<<>>}
              remains == Directory \in lost
          IN  /\ remains => \E x \in owned \ lost : x[2] \in {"mount", "stage"}
              /\ obj' = [x \in Objects |->
                          IF x \notin owned THEN o[x]
                          ELSE IF x \in lost THEN "forgotten" ELSE "doomed"]
              /\ residue' = (residue \/ remains \/ gone)
              /\ broken' = (broken \/ bad \/ lost # {})
    BY DEF Destroy
  <1> DEFINE lost == {losses[i] : i \in 1..MaxLost} \ {<<>>}
             remains == Directory \in lost
  <1>2. /\ obj' = [x \in Objects |->
                    IF x \notin owned THEN o[x]
                    ELSE IF x \in lost THEN "forgotten" ELSE "doomed"]
        /\ residue' = (residue \/ remains \/ gone)
        /\ broken' = (broken \/ bad \/ lost # {})
    BY <1>1
  <1> HIDE DEF lost
  <1>3. residue' \in BOOLEAN /\ broken' \in BOOLEAN
    BY <1>2
  <1>4. residue' => residue \/ gone \/ broken'
    BY <1>2
  <1>5. broken \/ bad => broken'
    BY <1>2
  <1>6. lost # {} => broken'
    BY <1>2
  <1>7. obj' \in [Objects -> States]
    BY <1>2 DEF States
  <1>8. \A x \in Objects : x \notin X \/ o[x] # "owned" => obj'[x] = o[x]
    BY <1>2
  <1>9. \A x \in Objects : obj'[x] = "forgotten" => o[x] = "forgotten" \/ lost # {}
    BY <1>2
  <1> QED
    BY <1>3, <1>4, <1>5, <1>6, <1>7, <1>8, <1>9

\* An error on its way out of the stage keeps the invariant, wherever it comes from
\* (DerivedCarapace::derive).
LEMMA AbandonKeeps ==
    ASSUME IInv, pc \notin {"closing", "end"}, child' = "none",
           NEW o \in [Objects -> States], NEW bad \in BOOLEAN, NEW gone \in BOOLEAN,
           Abandon(o, bad, gone), gone => bad,
           \A x \in Objects : obj[x] = "none" => o[x] = "none",
           \A x \in Objects : o[x] = "forgotten" => obj[x] = "forgotten" \/ bad,
           tenants' \in BOOLEAN,
           tenants' =>
             /\ Standing
             /\ \A x \in Of({"output"}, {"mount", "stage", "root", "esp", "snapshot", "loop"}) :
                  Exists(x) => o[x] = "forgotten"
    PROVE  IInv'
  <1> USE DEF IInv
  <1>1. /\ Destroy(o, Objects, bad, gone)
        /\ inputs' = IF inputs = "owned" THEN "none" ELSE inputs
        /\ pc' = "closing" /\ todo' = <<>> /\ failed' = TRUE
        /\ dirty' = {} /\ store' = "valid"
        /\ UNCHANGED <<given, left, prober, sealed, outcome>>
    BY DEF Abandon
  <1>2. broken \in BOOLEAN /\ residue \in BOOLEAN
    BY Types
  <1>3. /\ obj' \in [Objects -> States]
        /\ \A x \in Objects : o[x] # "owned" => obj'[x] = o[x]
        /\ \A x \in Objects : obj'[x] = "forgotten" => o[x] = "forgotten" \/ broken'
        /\ residue' => residue \/ gone \/ broken'
        /\ broken \/ bad => broken'
        /\ residue' \in BOOLEAN /\ broken' \in BOOLEAN
    BY <1>1, <1>2, Destroyed
  <1>4. \A x : Exists(x)' <=> Exists(x)
    BY <1>1 DEF Exists
  <1>5. TypeOK'
    <2>1. inputs' \in {"none", "owned", "forgotten"}
      BY <1>1, Types
    <2> QED
      BY <1>1, <1>3, <2>1, NothingListed, Types DEF TypeOK, States
  <1>6. Listing' /\ Ready' /\ Whole'
    BY <1>1 DEF Listing, Ready, Whole, Directing, Serving, Standing
  <1>7. Absent'
    BY <1>3, <1>4 DEF Absent
  <1>8. Clear'
    BY <1>1 DEF Clear, Standing
  <1>9. Rooted'
    <2>1. <<"output", "stage">> \in Objects
      BY ObjectsAre, VolumesAre, PartsAre
    <2> QED
      BY <1>1, <1>3, <2>1 DEF Rooted, Standing
  <1>10. Dirt'
    BY <1>1 DEF Dirt, Serving
  <1>11. Flow'
    BY <1>1 DEF Flow
  <1>12. Ends'
    BY <1>1 DEF Ends, Directing, Serving
  <1>13. Kept'
    BY <1>1, <1>3, <1>4 DEF Kept, Leaked, Of
  <1>14. RetainedForCause'
    <2>1. inputs' = "forgotten" => inputs = "forgotten"
      BY <1>1
    <2>2. residue' => residue \/ bad \/ broken'
      BY <1>3
    <2> QED
      BY <1>3, <2>1, <2>2 DEF RetainedForCause
  <1> QED
    BY <1>5, <1>6, <1>7, <1>8, <1>9, <1>10, <1>11, <1>12, <1>13, <1>14

\* So it does while neither the formatter nor a command runs.
LEMMA QuietKeeps ==
    ASSUME IInv, pc \notin {"format", "command", "closing", "end"}, UNCHANGED <<child, tenants>>,
           NEW o \in [Objects -> States], NEW bad \in BOOLEAN, NEW gone \in BOOLEAN,
           Abandon(o, bad, gone), gone => bad,
           \A x \in Objects : obj[x] = "none" => o[x] = "none",
           \A x \in Objects : o[x] = "forgotten" => obj[x] = "forgotten" \/ bad
    PROVE  IInv'
  <1>1. child' = "none" /\ ~tenants'
    BY Types DEF IInv, Flow
  <1>2. tenants' \in BOOLEAN
    BY Types DEF IInv
  <1> QED
    BY <1>1, <1>2, AbandonKeeps

\* Errors between two steps, and when a half-opened volume was closed
\* (Volume<Unmounted>::discard).
LEMMA GiveUpKeeps == ASSUME IInv, Undone \/ GiveUp PROVE IInv'
  <1>1. pc \notin {"format", "command", "closing", "end"}
    BY DEF Undone, GiveUp
  <1>2. Abandon(obj, FALSE, FALSE) /\ UNCHANGED <<child, tenants>>
    BY DEF Undone, GiveUp
  <1>3. obj \in [Objects -> States]
    BY Types DEF IInv, States
  <1> HIDE DEF given, data, outcome
  <1>4. FALSE \in BOOLEAN
    OBVIOUS
  <1> QED
    BY <1>1, <1>2, <1>3, <1>4, QuietKeeps

\* What is leaked is leaked for a reason, and nothing appears.
LEMMA Forgotten ==
    ASSUME NEW o \in [Objects -> States], NEW V \in SUBSET Volumes
    PROVE  /\ Forget(o, V) \in [Objects -> States]
           /\ \A x \in Objects : o[x] = "none" => Forget(o, V)[x] = "none"
           /\ \A x \in Objects : x[1] \in V /\ x[2] # "origin" /\ o[x] = "owned"
                => Forget(o, V)[x] = "forgotten"
           /\ \A x \in Objects : x[1] \notin V => Forget(o, V)[x] = o[x]
  BY DEF Forget, States

LEMMA LeakKeeps ==
    ASSUME IInv, pc \notin {"format", "command", "closing", "end"}, UNCHANGED <<child, tenants>>,
           NEW V \in SUBSET Volumes, Abandon(Forget(obj, V), TRUE, FALSE)
    PROVE  IInv'
  <1> DEFINE o == Forget(obj, V)
  <1>1. o \in [Objects -> States] /\ \A x \in Objects : obj[x] = "none" => o[x] = "none"
    BY Forgotten, Types DEF IInv, States
  <1>2. Abandon(o, TRUE, FALSE) /\ TRUE \in BOOLEAN /\ FALSE \in BOOLEAN
    OBVIOUS
  <1> HIDE DEF o, given, data, outcome
  <1> QED
    BY <1>1, <1>2, QuietKeeps

\* A deadline that passes while volumes are unmounted (BootstrapVolumes::unmount_until).
LEMMA UnmountLateKeeps == ASSUME IInv, UnmountLate PROVE IInv'
  <1>1. pc \notin {"format", "command", "closing", "end"} /\ UNCHANGED <<child, tenants>>
    BY DEF UnmountLate
  <1>2. {"output", "tool"} \in SUBSET Volumes /\ {"tool"} \in SUBSET Volumes
    BY VolumesAre
  <1>3. obj \in [Objects -> States] /\ FALSE \in BOOLEAN
    BY Types DEF IInv, States
  <1> HIDE DEF given, data, outcome
  <1>4. CASE Abandon(Forget(obj, {"output", "tool"}), TRUE, FALSE)
    BY <1>1, <1>2, <1>4, LeakKeeps
  <1>5. CASE Abandon(Forget(obj, {"tool"}), TRUE, FALSE)
    BY <1>1, <1>2, <1>5, LeakKeeps
  <1>6. CASE Abandon(obj, FALSE, FALSE)
    BY <1>1, <1>3, <1>6, QuietKeeps
  <1> QED
    BY <1>4, <1>5, <1>6 DEF UnmountLate

\* An unmounted volume goes on, or is dropped (CommandSandbox::copy_directive).
LEMMA UnmountedKeeps == ASSUME IInv, Unmounted PROVE IInv'
  <1>1. CASE failed
    <2>1. pc \notin {"format", "command", "closing", "end"}
      BY DEF Unmounted
    <2>2. Abandon(obj, FALSE, FALSE) /\ UNCHANGED <<child, tenants>>
      BY <1>1 DEF Unmounted
    <2>3. obj \in [Objects -> States]
      BY Types DEF IInv, States
    <2> HIDE DEF given, data, outcome
    <2>4. FALSE \in BOOLEAN
      OBVIOUS
    <2> QED
      BY <2>1, <2>2, <2>3, <2>4, QuietKeeps
  <1>2. CASE ~failed
    <2> USE DEF IInv
    <2>1. /\ pc = "unmount" /\ pc' = "validate" /\ todo' = <<>> /\ Unclosed = {}
          /\ UNCHANGED <<given, obj, left, failed, broken, residue, inputs, child, tenants,
                         prober, data, outcome>>
      BY <1>2 DEF Unmounted, Continue
    <2>2. TypeOK'
      BY <2>1, NothingListed, Types DEF TypeOK
    <2>3. Listing' /\ Absent' /\ Whole'
      BY <2>1, SameObjects DEF Listing, Whole, Standing
    <2>4. Ready'
      BY <2>1, SameObjects DEF Ready, Directing, Serving
    <2>5. Lacks({"output", "tool"}, {"mount", "child"})
      <3>1. kind # "image" => Lacks({"tool"}, {"mount"})
        BY <2>1, Types DEF Clear, Standing
      <3> QED
        BY <2>1, <3>1, AllClosed, ObjectsAre DEF Listing, ToolMount, Lacks, Of, Whole, Solid,
          Standing, Absent, Exists
    <2>6. Clear'
      BY <1>2, <2>1, <2>5, SameObjects DEF Clear, Standing, Serving
    <2>7. Rooted'
      BY <2>1 DEF Rooted, Standing
    <2>8. Dirt'
      <3>1. obj[<<"output", "mount">>] = "none" /\ obj[<<"output", "child">>] = "none"
        BY <2>5, OutputsIn, PartsAre DEF Lacks
      <3>2. dirty = {}
        BY <2>1, <3>1, Types DEF Dirt, Serving
      <3> QED
        BY <2>1, <3>2 DEF Dirt, Serving
    <2>9. Flow'
      BY <1>2, <2>1 DEF Flow
    <2>10. Ends'
      BY <2>1 DEF Ends, Directing, Serving, Attached
    <2>11. Kept'
      BY <2>1, SameObjects DEF Kept, Flow
    <2>12. RetainedForCause'
      BY <2>1 DEF RetainedForCause
    <2> QED
      BY <2>2, <2>3, <2>4, <2>6, <2>7, <2>8, <2>9, <2>10, <2>11, <2>12
  <1> QED
    BY <1>1, <1>2, Types DEF IInv

\* A step that retains its storage leaks all of it (Assigned).
LEMMA RetainStorageKeeps == ASSUME IInv, RetainStorage PROVE IInv'
  <1> DEFINE o == Forget(obj, {"output", "tool"})
  <1>1. /\ pc = "command" /\ tenants' \in BOOLEAN /\ Abandon(o, TRUE, FALSE) /\ UNCHANGED child
    BY DEF RetainStorage
  <1>2. {"output", "tool"} \in SUBSET Volumes /\ obj \in [Objects -> States]
    BY VolumesAre, Types DEF IInv, States
  <1>3. /\ o \in [Objects -> States] /\ \A x \in Objects : obj[x] = "none" => o[x] = "none"
        /\ \A x \in Objects : x[1] \in {"output", "tool"} /\ x[2] # "origin" /\ obj[x] = "owned"
             => o[x] = "forgotten"
    BY <1>2, Forgotten
  <1>4. child' = "none" /\ Standing
    BY <1>1, Types DEF IInv, Flow, Standing
  <1>5. Owns({"mount", "stage", "root", "esp", "snapshot", "loop"})
    BY <1>1, Fewer DEF IInv, Ready, Directing, Serving
  <1> HIDE DEF o
  <1>6. \A x \in Of({"output"}, {"mount", "stage", "root", "esp", "snapshot", "loop"}) :
          Exists(x) => o[x] = "forgotten"
    BY <1>3, <1>5 DEF Owns, Of
  <1>7. TRUE \in BOOLEAN /\ FALSE \in BOOLEAN
    OBVIOUS
  <1> HIDE DEF given, data, outcome
  <1> QED
    BY <1>1, <1>3, <1>4, <1>6, <1>7, AbandonKeeps

\* A formatter that could not be terminated keeps its views, their store and its files
\* (Formatting::wait).
LEMMA LoseFormatterKeeps == ASSUME IInv, LoseFormatter PROVE IInv'
  <1> USE DEF IInv
  <1> DEFINE o == Forget(obj, {"output"})
  <1>1. /\ pc = "format" /\ child' = "lost" /\ inputs' = "forgotten"
        /\ Destroy(o, Objects, TRUE, FALSE)
        /\ pc' = "closing" /\ todo' = <<>> /\ failed' = TRUE
        /\ dirty' = {} /\ store' = "valid"
        /\ UNCHANGED <<given, left, tenants, prober, sealed, outcome>>
    BY DEF LoseFormatter
  <1>2. {"output"} \in SUBSET Volumes /\ obj \in [Objects -> States]
    BY VolumesAre, Types DEF States
  <1>3. /\ o \in [Objects -> States] /\ \A x \in Objects : obj[x] = "none" => o[x] = "none"
        /\ \A x \in Objects : x[1] \in {"output"} /\ x[2] # "origin" /\ obj[x] = "owned"
             => o[x] = "forgotten"
    BY <1>2, Forgotten
  <1> HIDE DEF o
  <1>4. broken \in BOOLEAN /\ residue \in BOOLEAN /\ TRUE \in BOOLEAN /\ FALSE \in BOOLEAN
    BY Types
  <1>5. Objects \in SUBSET Objects
    OBVIOUS
  <1>6. /\ obj' \in [Objects -> States]
        /\ \A x \in Objects : o[x] # "owned" => obj'[x] = o[x]
        /\ broken' = TRUE /\ residue' \in BOOLEAN
    <2>1. /\ obj' \in [Objects -> States]
          /\ \A x \in Objects : x \notin Objects \/ o[x] # "owned" => obj'[x] = o[x]
          /\ broken \/ TRUE => broken'
          /\ residue' \in BOOLEAN /\ broken' \in BOOLEAN
      BY <1>1, <1>3, <1>4, <1>5, Destroyed
    <2> QED
      BY <2>1
  <1>7. \A x : Exists(x)' <=> Exists(x)
    BY <1>1 DEF Exists
  <1>8. ~tenants
    BY <1>1 DEF Flow
  <1>9. TypeOK'
    BY <1>1, <1>6, NothingListed, Types DEF TypeOK, States
  <1>10. Listing' /\ Ready' /\ Whole'
    BY <1>1 DEF Listing, Ready, Whole, Directing, Serving, Standing
  <1>11. Absent'
    BY <1>3, <1>6, <1>7 DEF Absent
  <1>12. Clear' /\ Rooted'
    BY <1>1, <1>8 DEF Clear, Standing, Rooted
  <1>13. Dirt' /\ Flow'
    BY <1>1, <1>8 DEF Dirt, Serving, Flow
  <1>14. Ends'
    BY <1>1 DEF Ends, Directing, Serving
  <1>15. Kept'
    <2>1. Leaked({"root", "esp", "snapshot", "loop"})'
      BY <1>1, <1>3, <1>6, <1>7 DEF Leaked, Of, Ready, Owns
    <2>2. Lacks({"output"}, {"mount", "stage"})'
      <3>1. Lacks({"output"}, {"mount", "stage"})
        BY <1>1 DEF Clear, Standing, Serving, Lacks, Of
      <3> QED
        BY <1>3, <1>6, <3>1 DEF Lacks, Of
    <2> QED
      BY <1>1, <1>8, <2>1, <2>2 DEF Kept
  <1>16. RetainedForCause'
    BY <1>6 DEF RetainedForCause
  <1> QED
    BY <1>9, <1>10, <1>11, <1>12, <1>13, <1>14, <1>15, <1>16

\* A COPY whose source is closed goes on with its destination; an error of the clean-up is
\* an error of the COPY (Root::read).
LEMMA SourceClosedKeeps == ASSUME IInv, SourceClosed PROVE IInv'
  <1> USE DEF IInv
  <1> DEFINE X == {x \in Objects : x[1] = "reader"}
  <1>1. /\ pc = "unread" /\ Unclosed = {} /\ Destroy(obj, X, FALSE, FALSE)
        /\ pc' = "unmount" /\ todo' = Unmounting /\ failed' = (failed \/ broken')
        /\ UNCHANGED <<given, left, inputs, child, tenants, prober, data, outcome>>
    BY DEF SourceClosed
  <1>2. obj \in [Objects -> States] /\ X \in SUBSET Objects
    BY Types DEF States
  <1>3. broken \in BOOLEAN /\ residue \in BOOLEAN /\ failed \in BOOLEAN /\ FALSE \in BOOLEAN
    BY Types
  <1>4. /\ obj' \in [Objects -> States]
        /\ \A x \in Objects : x \notin X \/ obj[x] # "owned" => obj'[x] = obj[x]
        /\ \A x \in Objects : obj'[x] = "forgotten" => obj[x] = "forgotten" \/ broken'
        /\ residue' => residue \/ broken'
        /\ broken => broken'
        /\ residue' \in BOOLEAN /\ broken' \in BOOLEAN
    <2> HIDE DEF X
    <2>1. /\ obj' \in [Objects -> States]
          /\ \A x \in Objects : x \notin X \/ obj[x] # "owned" => obj'[x] = obj[x]
          /\ \A x \in Objects : obj'[x] = "forgotten" => obj[x] = "forgotten" \/ broken'
          /\ residue' => residue \/ FALSE \/ broken'
          /\ broken \/ FALSE => broken'
          /\ residue' \in BOOLEAN /\ broken' \in BOOLEAN
      BY <1>1, <1>2, <1>3, Destroyed
    <2> QED
      BY <2>1
  <1>5. \A x \in Objects : x[1] # "reader" => obj'[x] = obj[x]
    BY <1>4
  <1> HIDE DEF X
  <1>6. \A x : Exists(x)' <=> Exists(x)
    BY <1>1 DEF Exists
  <1>7. child = "none" /\ ~tenants
    BY <1>1, Types DEF Flow
  <1>8. ~failed' => Lacks({"reader"}, Parts)
    <2>1. ASSUME ~failed' PROVE ~failed /\ ~broken
      BY <1>1, <1>4, <2>1
    <2>2. ASSUME ~failed' PROVE Items(todo) = Reader /\ Solid({"reader"})
      BY <1>1, <2>1, <2>2 DEF Listing, Whole
    <2>3. ASSUME ~failed', NEW x \in Of({"reader"}, Parts) PROVE obj[x] = "none"
      <3>1. CASE x \in Reader
        BY <1>1, <2>2, <2>3, <3>1, AllClosed DEF Solid
      <3>2. CASE x \notin Reader
        BY <3>2, ObjectsAre, PartsAre DEF Absent, Exists, Reader, Of
      <3> QED
        BY <3>1, <3>2
    <2> QED
      BY <2>3 DEF Lacks
  <1>9. TypeOK'
    <2>1. failed' \in BOOLEAN
      BY <1>1
    <2> QED
      BY <1>1, <1>4, <2>1, MountingItems, Types DEF TypeOK, States
  <1>10. Listing'
    <2>1. ToolMount' = ToolMount
      BY <1>1 DEF ToolMount
    <2> QED
      BY <1>1, <2>1, MountingItems DEF Listing
  <1>11. Absent'
    BY <1>4, <1>6 DEF Absent
  <1>12. Ready'
    BY <1>1, <1>5, <1>6 DEF Ready, Directing, Serving, Owns, Of
  <1>13. Whole'
    BY <1>1, <1>5 DEF Whole, Standing, Solid, Of
  <1>14. Clear'
    <2>1. Lacks({"tool"}, {"mount"}) => Lacks({"tool"}, {"mount"})'
      BY <1>5 DEF Lacks, Of
    <2>2. ~failed' => Lacks({"reader"}, Parts)'
      BY <1>4, <1>8 DEF Lacks, Of
    <2> QED
      BY <1>1, <2>1, <2>2 DEF Clear, Standing, Serving
  <1>15. Rooted' /\ Dirt'
    <2>1. \A p \in Parts : obj'[<<"output", p>>] = obj[<<"output", p>>]
      BY <1>5, ObjectsAre, VolumesAre
    <2>2. "mount" \in Parts /\ "child" \in Parts /\ "stage" \in Parts
      BY PartsAre
    <2> QED
      BY <1>1, <2>1, <2>2 DEF Rooted, Standing, Dirt, Serving
  <1>16. Flow'
    BY <1>1, <1>7 DEF Flow
  <1>17. Ends'
    BY <1>1 DEF Ends, Directing, Serving
  <1>18. Kept'
    BY <1>1, <1>7 DEF Kept
  <1>19. RetainedForCause'
    BY <1>1, <1>4 DEF RetainedForCause
  <1> QED
    BY <1>9, <1>10, <1>11, <1>12, <1>13, <1>14, <1>15, <1>16, <1>17, <1>18, <1>19

-----------------------------------------------------------------------------
(* One object is opened or closed *)

\* An object that is opened is one of its phase, and it exists.
LEMMA OpenNextKeeps == ASSUME IInv, OpenNext PROVE IInv'
  <1> USE DEF IInv
  <1>1. PICK x \in First(Unopened) :
          /\ x[2] = "stage" /\ mounts = "esp" => "output" \in parted
          /\ obj' = [obj EXCEPT ![x] = "owned"]
    BY DEF OpenNext
  <1>2. x \in Objects /\ x \in Items(todo) /\ Exists(x)
    BY NextToOpen, Types
  <1>3. /\ pc \in {"activate", "prepare", "tooling", "mount", "read"}
        /\ UNCHANGED <<given, pc, todo, left, failed, broken, residue, inputs, child, tenants,
                       prober, data, outcome>>
    BY DEF OpenNext
  <1>4. obj'[x] = "owned" /\ \A y \in Objects : y # x => obj'[y] = obj[y]
    BY <1>1, <1>2, Types
  <1>5. \A y : Exists(y)' <=> Exists(y)
    BY <1>3 DEF Exists
  <1>6. child = "none" /\ ~tenants
    BY <1>3, Types DEF Flow
  <1>7. TypeOK'
    <2>1. obj' \in [Objects -> States]
      BY <1>1, Types DEF States
    <2> QED
      BY <1>3, <2>1, Types DEF TypeOK, States
  <1>8. Listing'
    BY <1>3 DEF Listing, ToolMount
  <1>9. Absent'
    BY <1>2, <1>4, <1>5 DEF Absent
  <1>10. Ready'
    <2>1. \A ps : Owns(ps) => Owns(ps)'
      BY <1>4, <1>5 DEF Owns, Of
    <2> QED
      BY <1>3, <2>1 DEF Ready, Directing, Serving
  <1>11. Clear'
    <2>1. \A V, ps : Lacks(V, ps) /\ x \notin Of(V, ps) => Lacks(V, ps)'
      BY <1>4 DEF Lacks, Of
    <2>2. CASE pc = "activate"
      <3>1. x[2] = "origin" /\ x[1] # "reader"
        BY <1>2, <2>2 DEF Listing, Of
      <3>2. /\ x \notin Of({"output", "tool"}, {"mount", "child"})
            /\ x \notin Of({"tool"}, {"mount"})
            /\ x \notin Of({"output"}, {"stage"}) /\ x \notin Of({"reader"}, Parts)
        BY <3>1 DEF Of
      <3> QED
        BY <1>3, <2>1, <2>2, <3>2 DEF Clear, Standing, Serving
    <2>3. CASE pc = "prepare"
      <3>1. /\ x[2] \notin {"mount", "child"} /\ x[1] # "reader"
            /\ kind = "image" => x[2] # "stage"
        BY <1>2, <2>3 DEF Listing, Of
      <3>2. /\ x \notin Of({"output", "tool"}, {"mount", "child"})
            /\ x \notin Of({"tool"}, {"mount"})
            /\ kind = "image" => x \notin Of({"output"}, {"stage"})
            /\ x \notin Of({"reader"}, Parts)
        BY <3>1 DEF Of
      <3> QED
        BY <1>3, <2>1, <2>3, <3>2 DEF Clear, Standing, Serving
    <2>4. CASE pc = "tooling"
      <3>1. x[2] \notin {"mount", "child"} /\ x[1] # "reader"
        BY <1>2, <2>4 DEF Listing, Of
      <3>2. /\ x \notin Of({"output", "tool"}, {"mount", "child"})
            /\ x \notin Of({"tool"}, {"mount"})
            /\ x \notin Of({"reader"}, Parts)
        BY <3>1 DEF Of
      <3> QED
        BY <1>3, <2>1, <2>4, <3>2 DEF Clear, Standing, Serving
    <2>5. CASE pc = "mount"
      <3>1. x[1] # "reader" /\ (x[1] = "tool" => kind # "extend")
        BY <1>2, <2>5 DEF Listing, ToolMount, Of
      <3>2. /\ x \notin Of({"reader"}, Parts)
            /\ kind = "extend" => x \notin Of({"tool"}, {"mount"})
        BY <3>1 DEF Of
      <3> QED
        BY <1>3, <2>1, <2>5, <3>2 DEF Clear, Standing, Serving
    <2>6. CASE pc = "read"
      <3>1. x[1] = "reader"
        BY <1>2, <2>6 DEF Listing, Reader, Of
      <3>2. x \notin Of({"tool"}, {"mount"})
        BY <3>1 DEF Of
      <3> QED
        BY <1>3, <2>1, <2>6, <3>2 DEF Clear, Standing, Serving
    <2> QED
      BY <1>3, <2>2, <2>3, <2>4, <2>5, <2>6
  <1>12. Whole'
    <2>1. \A V : Solid(V) => Solid(V)'
      BY <1>4 DEF Solid, Of
    <2> QED
      BY <1>3, <2>1 DEF Whole, Standing
  <1>13. Rooted'
    <2>1. <<"output", "stage">> \in Objects /\ <<"output", "stage">>[2] = "stage"
      BY ObjectsAre, VolumesAre, PartsAre
    <2> QED
      BY <1>1, <1>3, <1>4, <2>1 DEF Rooted, Standing
  <1>14. Dirt'
    <2>1. <<"output", "mount">> \in Objects /\ <<"output", "child">> \in Objects
      BY ObjectsAre, VolumesAre, PartsAre
    <2> QED
      BY <1>3, <1>4, <2>1 DEF Dirt, Serving
  <1>15. Flow'
    BY <1>3 DEF Flow
  <1>16. Ends'
    BY <1>3 DEF Ends, Directing, Serving
  <1>17. Kept'
    BY <1>3, <1>6 DEF Kept
  <1>18. RetainedForCause'
    BY <1>3, <1>4 DEF RetainedForCause
  <1> QED
    BY <1>7, <1>8, <1>9, <1>10, <1>11, <1>12, <1>13, <1>14, <1>15, <1>16, <1>17, <1>18

\* One that could not be opened: what was open is closed (Volume<Unmounted>::mount_ext4,
\* Root::read).
LEMMA OpenFailsKeeps == ASSUME IInv, OpenFails PROVE IInv'
  <1> USE DEF IInv
  <1>1. PICK x \in First(Unopened) :
          /\ \E part \in {"none"} \cup IF x[2] \in {"stage", "child"} THEN {"owned"} ELSE {} :
                obj' = [obj EXCEPT ![x] = part]
          /\ todo' = Undo(x)
          /\ pc' = IF x[1] = "reader" THEN "unread" ELSE "undo"
    BY DEF OpenFails
  <1>2. x \in Objects /\ x \in Items(todo) /\ Exists(x)
    BY NextToOpen, Types
  <1>3. /\ pc \in {"activate", "prepare", "tooling", "mount", "read"}
        /\ failed' = TRUE
        /\ UNCHANGED <<given, left, broken, residue, inputs, child, tenants, prober, data, outcome>>
    BY DEF OpenFails
  <1>4. PICK part \in {"none", "owned"} : obj' = [obj EXCEPT ![x] = part]
    BY <1>1
  <1>5. obj'[x] = part /\ \A y \in Objects : y # x => obj'[y] = obj[y]
    BY <1>2, <1>4, Types
  <1>6. \A y : Exists(y)' <=> Exists(y)
    BY <1>3 DEF Exists
  <1>7. child = "none" /\ ~tenants
    BY <1>3, Types DEF Flow
  <1>8. x[1] = "reader" <=> pc = "read"
    BY <1>2, <1>3 DEF Listing, Reader, ToolMount, Of
  <1>9. TypeOK'
    BY <1>1, <1>2, <1>3, <1>4, UndoItems, Types DEF TypeOK
  <1>10. Listing'
    BY <1>1, <1>2, <1>3, UndoItems DEF Listing
  <1>11. Absent'
    BY <1>2, <1>5, <1>6 DEF Absent
  <1>12. Ready'
    BY <1>1, <1>3, <1>5, <1>6, <1>8 DEF Ready, Directing, Serving, Owns, Of
  <1>13. Clear'
    BY <1>1, <1>3, <1>5, <1>8 DEF Clear, Standing, Serving, Lacks, Of
  <1>14. Whole'
    BY <1>1, <1>3, <1>5, <1>8 DEF Whole, Standing, Solid, Of
  <1>15. Rooted'
    <2>1. <<"output", "stage">> \in Objects /\ <<"output", "stage">>[1] = "output"
      BY ObjectsAre, VolumesAre, PartsAre
    <2> QED
      BY <1>1, <1>3, <1>5, <1>7, <1>8, <2>1 DEF Rooted, Standing
  <1>16. Dirt'
    <2>1. CASE pc = "read"
      <3>1. /\ <<"output", "mount">> \in Objects /\ <<"output", "mount">>[1] = "output"
            /\ <<"output", "child">> \in Objects /\ <<"output", "child">>[1] = "output"
        BY ObjectsAre, VolumesAre, PartsAre
      <3> QED
        BY <1>1, <1>3, <1>5, <1>8, <2>1, <3>1 DEF Dirt, Serving
    <2>2. CASE pc # "read"
      BY <1>1, <1>3, <1>8, <2>2 DEF Dirt, Serving
    <2> QED
      BY <2>1, <2>2
  <1>17. Flow'
    BY <1>1, <1>3 DEF Flow
  <1>18. Ends'
    BY <1>1, <1>3, <1>8 DEF Ends, Directing, Serving
  <1>19. Kept'
    BY <1>3, <1>7 DEF Kept
  <1>20. RetainedForCause'
    BY <1>3, <1>5 DEF RetainedForCause
  <1> QED
    BY <1>9, <1>10, <1>11, <1>12, <1>13, <1>14, <1>15, <1>16, <1>17, <1>18, <1>19, <1>20

\* An object that is closed is gone, and what was written to it is in the store
\* (PartitionedSnapshot::into_snapshot, Volume<Mounted>::unmount).
LEMMA CloseNextKeeps == ASSUME IInv, CloseNext PROVE IInv'
  <1> USE DEF IInv
  <1>1. PICK x \in First(Unclosed) :
          /\ Confirmed(x)
          /\ obj' = [obj EXCEPT ![x] = IF Held(x) THEN "doomed" ELSE "none"]
          /\ dirty' = dirty \ Filesystem(x)
          /\ store' \in {store} \cup IF Filesystem(x) = {} THEN {} ELSE {"overflown"}
    BY DEF CloseNext
  <1>2. x \in Objects /\ x \in Items(todo) /\ obj[x] = "owned"
    BY NextToClose, Types
  <1>3. /\ pc \in {"undo", "parts", "unmount", "unread", "finish", "release"}
        /\ UNCHANGED <<given, pc, todo, left, failed, broken, residue, inputs, child, tenants,
                       prober, sealed, outcome>>
    BY DEF CloseNext
  <1>4. obj'[x] = "none" /\ \A y \in Objects : y # x => obj'[y] = obj[y]
    BY <1>1, <1>2, Types DEF Confirmed
  <1>5. \A y : Exists(y)' <=> Exists(y)
    BY <1>3 DEF Exists
  <1>6. child = "none" /\ ~tenants
    BY <1>3, Types DEF Flow
  <1>7. TypeOK'
    <2>1. obj' \in [Objects -> States]
      BY <1>1, Types DEF States
    <2>2. store' \in {"valid", "overflown"} /\ dirty' \subseteq {"root", "esp"}
      BY <1>1, Types
    <2> QED
      BY <1>3, <2>1, <2>2, Types DEF TypeOK, States
  <1>8. Listing'
    BY <1>3 DEF Listing, ToolMount
  <1>9. Absent'
    BY <1>4, <1>5 DEF Absent
  <1>10. Ready'
    <2>1. \A ps : Owns(ps) /\ x \notin Of({"output"}, ps) => Owns(ps)'
      BY <1>4, <1>5 DEF Owns, Of
    <2>2. CASE pc = "parts"
      <3>1. x \notin Of({"output"}, {"origin", "loop", "snapshot"})
        BY <1>2, <2>2 DEF Listing, Of
      <3> QED
        BY <1>3, <2>1, <2>2, <3>1 DEF Ready, Directing, Serving
    <2>3. CASE pc = "unmount"
      <3>1. x \notin Of({"output"}, {"origin", "loop", "snapshot", "root", "esp", "stage"})
        BY <1>2, <2>3 DEF Listing, ToolMount, Of
      <3> QED
        BY <1>3, <2>1, <2>3, <3>1 DEF Ready, Directing, Serving
    <2>4. CASE pc = "unread"
      <3>1. \A ps : x \notin Of({"output"}, ps)
        BY <1>2, <2>4 DEF Listing, Of
      <3> QED
        BY <1>3, <2>1, <2>4, <3>1 DEF Ready, Directing, Serving
    <2>5. CASE pc = "finish"
      <3>1. x \notin Of({"output"}, {"origin"})
        BY <1>2, <2>5 DEF Listing, Of
      <3> QED
        BY <1>3, <2>1, <2>5, <3>1 DEF Ready, Directing, Serving
    <2>6. CASE pc \in {"undo", "release"}
      BY <1>3, <2>6 DEF Ready, Directing, Serving
    <2> QED
      BY <1>3, <2>2, <2>3, <2>4, <2>5, <2>6
  <1>11. Clear'
    <2>1. \A V, ps : Lacks(V, ps) => Lacks(V, ps)'
      BY <1>4 DEF Lacks, Of
    <2> QED
      BY <1>3, <2>1 DEF Clear, Standing, Serving
  <1>12. Whole'
    <2>1. \A V : Solid(V) => Solid(V)'
      BY <1>4 DEF Solid, Of
    <2> QED
      BY <1>3, <2>1 DEF Whole, Standing
  <1>13. Rooted'
    <2>1. <<"output", "stage">> \in Objects
      BY ObjectsAre, VolumesAre, PartsAre
    <2> QED
      BY <1>3, <1>4, <2>1 DEF Rooted, Standing
  <1>14. Dirt'
    <2>1. /\ <<"output", "mount">> \in Objects /\ <<"output", "child">> \in Objects
          /\ <<"output", "mount">>[1] = "output" /\ <<"output", "child">>[1] = "output"
          /\ <<"output", "child">>[2] = "child"
      BY ObjectsAre, VolumesAre, PartsAre
    <2>2. dirty' \subseteq dirty
      BY <1>1
    <2>3. CASE pc = "unmount"
      <3>1. x = <<"output", "mount">> => Filesystem(x) = {"root"}
        BY DEF Filesystem
      <3>2. x = <<"output", "child">> /\ mounts = "esp" => Filesystem(x) = {"esp"}
        <4>1. <<"output", "child">> # <<"output", "mount">>
          OBVIOUS
        <4> QED
          BY <2>1, <4>1 DEF Filesystem
      <3>3. "root" \in dirty' => x # <<"output", "mount">>
        BY <1>1, <3>1
      <3>4. "esp" \in dirty' => mounts = "esp" /\ x # <<"output", "child">>
        BY <1>1, <2>2, <2>3, <3>2 DEF Dirt
      <3> QED
        BY <1>3, <1>4, <2>1, <2>2, <2>3, <3>3, <3>4 DEF Dirt, Serving
    <2>4. CASE pc = "unread"
      <3>1. x[1] = "reader"
        BY <1>2, <2>4 DEF Listing, Of
      <3> QED
        BY <1>3, <1>4, <2>1, <2>2, <2>4, <3>1 DEF Dirt, Serving
    <2>5. CASE pc \in {"undo", "parts", "finish", "release"}
      BY <1>3, <2>2, <2>5 DEF Dirt, Serving
    <2> QED
      BY <1>3, <2>3, <2>4, <2>5
  <1>15. Flow'
    <2>1. CASE pc = "release"
      <3>1. x[2] = "origin"
        BY <1>2, <2>1 DEF Listing, Of
      <3>2. x # <<"output", "mount">>
        BY <3>1
      <3>3. Filesystem(x) = {}
        BY <3>1, <3>2 DEF Filesystem
      <3>4. store' = store
        BY <1>1, <3>3
      <3> QED
        BY <1>3, <3>4 DEF Flow
    <2>2. CASE pc # "release"
      BY <1>3, <2>2 DEF Flow
    <2> QED
      BY <2>1, <2>2
  <1>16. Ends'
    BY <1>3 DEF Ends, Directing, Serving
  <1>17. Kept'
    BY <1>3, <1>6 DEF Kept
  <1>18. RetainedForCause'
    BY <1>3, <1>4 DEF RetainedForCause
  <1> QED
    BY <1>7, <1>8, <1>9, <1>10, <1>11, <1>12, <1>13, <1>14, <1>15, <1>16, <1>17, <1>18

\* A close that failed leaks what lies below, of its own volume.
LEMMA FailedCloses ==
    ASSUME obj \in [Objects -> States], NEW x \in Objects, obj[x] = "owned", NEW gone \in BOOLEAN
    PROVE  /\ FailedClose(x, gone) \in [Objects -> States]
           /\ \A y \in Objects : obj[y] = "none" => FailedClose(x, gone)[y] = "none"
           /\ \A y \in Objects : y[1] # x[1] => FailedClose(x, gone)[y] = obj[y]
  <1>1. \A y \in Objects : FailedClose(x, gone)[y] \in {obj[y], "none", "forgotten", "doomed"}
    BY DEF FailedClose
  <1>2. FailedClose(x, gone) \in [Objects -> States]
    BY DEF FailedClose, States
  <1> QED
    BY <1>2 DEF FailedClose

\* It is an error of the stage, or of the clean-up that goes on (BootstrapVolumes, Root::read).
LEMMA CloseFailsKeeps == ASSUME IInv, CloseFails PROVE IInv'
  <1> USE DEF IInv
  <1>1. PICK x \in First(Unclosed), gone \in BOOLEAN :
          LET o == FailedClose(x, gone) IN
          \/ /\ pc \in {"undo", "unread"}
             /\ obj' = o
             /\ todo' = IF pc = "undo" THEN todo ELSE <<>>
             /\ broken' = TRUE /\ residue' = (residue \/ gone)
             /\ UNCHANGED <<given, pc, left, failed, inputs, prober, data, outcome>>
          \/ /\ pc = "unmount"
             /\ Abandon(IF x[1] = "output" THEN Forget(o, {"tool"}) ELSE o, TRUE, gone)
          \/ /\ pc \in {"parts", "finish", "release"}
             /\ Abandon(o, TRUE, gone)
    BY DEF CloseFails
  <1> DEFINE o == FailedClose(x, gone)
             p == IF x[1] = "output" THEN Forget(o, {"tool"}) ELSE o
  <1>2. x \in Objects /\ x \in Items(todo) /\ obj[x] = "owned" /\ obj \in [Objects -> States]
    BY NextToClose, Types DEF States
  <1>3. /\ o \in [Objects -> States]
        /\ \A y \in Objects : obj[y] = "none" => o[y] = "none"
        /\ \A y \in Objects : y[1] # x[1] => o[y] = obj[y]
    BY <1>2, FailedCloses
  <1>4. p \in [Objects -> States] /\ \A y \in Objects : obj[y] = "none" => p[y] = "none"
    <2>1. {"tool"} \in SUBSET Volumes
      BY VolumesAre
    <2> HIDE DEF o
    <2> QED
      BY <1>3, <2>1, Forgotten
  <1>5. UNCHANGED <<child, tenants>> /\ TRUE \in BOOLEAN
    BY DEF CloseFails
  <1> HIDE DEF o, p
  <1>6. CASE pc = "unmount" /\ Abandon(p, TRUE, gone)
    <2> HIDE DEF given, data, outcome
    <2> QED
      BY <1>4, <1>5, <1>6, QuietKeeps
  <1>7. CASE pc \in {"parts", "finish", "release"} /\ Abandon(o, TRUE, gone)
    <2> HIDE DEF given, data, outcome
    <2> QED
      BY <1>3, <1>5, <1>7, QuietKeeps
  <1>8. CASE /\ pc \in {"undo", "unread"}
             /\ obj' = o
             /\ todo' = IF pc = "undo" THEN todo ELSE <<>>
             /\ broken' = TRUE /\ residue' = (residue \/ gone)
             /\ UNCHANGED <<given, pc, left, failed, inputs, prober, data, outcome>>
    <2>1. \A y : Exists(y)' <=> Exists(y)
      BY <1>8 DEF Exists
    <2>2. child = "none" /\ ~tenants
      BY <1>8, Types DEF Flow
    <2>3. pc = "unread" => \A y \in Objects : y[1] # "reader" => obj'[y] = obj[y]
      BY <1>2, <1>3, <1>8 DEF Listing, Of
    <2>4. TypeOK'
      <3>1. residue' \in BOOLEAN
        BY <1>8
      <3> QED
        BY <1>3, <1>5, <1>8, <3>1, NothingListed, Types DEF TypeOK, States
    <2>5. Listing'
      BY <1>8, NothingListed DEF Listing
    <2>6. Absent'
      BY <1>3, <1>8, <2>1 DEF Absent
    <2>7. Ready'
      BY <1>8, <2>1, <2>3 DEF Ready, Directing, Serving, Owns, Of
    <2>8. Clear'
      BY <1>8, <2>3 DEF Clear, Standing, Serving, Lacks, Of
    <2>9. Whole'
      BY <1>8, <2>3 DEF Whole, Standing, Solid, Of
    <2>10. Rooted' /\ Dirt'
      <3>1. pc = "unread" =>
              \A q \in Parts : obj'[<<"output", q>>] = obj[<<"output", q>>]
        BY <2>3, ObjectsAre, VolumesAre
      <3>2. "mount" \in Parts /\ "child" \in Parts /\ "stage" \in Parts
        BY PartsAre
      <3> QED
        BY <1>5, <1>8, <2>2, <3>1, <3>2 DEF Rooted, Standing, Dirt, Serving
    <2>11. Flow'
      BY <1>5, <1>8, <2>2 DEF Flow
    <2>12. Ends'
      BY <1>8 DEF Ends, Directing, Serving
    <2>13. Kept'
      BY <1>5, <2>2 DEF Kept
    <2>14. RetainedForCause'
      BY <1>8 DEF RetainedForCause
    <2> QED
      BY <2>4, <2>5, <2>6, <2>7, <2>8, <2>9, <2>10, <2>11, <2>12, <2>13, <2>14
  <1> QED
    BY <1>1, <1>6, <1>7, <1>8 DEF o, p

-----------------------------------------------------------------------------
(* The environment, and the end *)

\* What was deferred takes place (MappingLease::drop).
LEMMA ReapKeeps == ASSUME IInv, Reap PROVE IInv'
  <1> USE DEF IInv
  <1>1. PICK x \in Objects : obj[x] = "doomed" /\ obj' = [obj EXCEPT ![x] = "none"]
    BY DEF Reap
  <1>2. UNCHANGED <<given, pc, todo, left, failed, broken, residue, inputs, child, tenants,
                    prober, data, outcome>>
    BY DEF Reap
  <1>3. obj'[x] = "none" /\ \A y \in Objects : y # x => obj'[y] = obj[y]
    BY <1>1, Types
  <1>4. \A y : Exists(y)' <=> Exists(y)
    BY <1>2 DEF Exists
  <1>5. TypeOK'
    BY <1>1, <1>2, Types DEF TypeOK
  <1>6. Listing'
    BY <1>2 DEF Listing, ToolMount
  <1>7. Absent'
    BY <1>3, <1>4 DEF Absent
  <1>8. Ready'
    <2>1. \A ps : Owns(ps) => Owns(ps)'
      BY <1>1, <1>3, <1>4 DEF Owns, Of
    <2> QED
      BY <1>2, <2>1 DEF Ready
  <1>9. \A V, ps : Lacks(V, ps) => Lacks(V, ps)'
    BY <1>3 DEF Lacks, Of
  <1>10. Clear'
    BY <1>2, <1>9 DEF Clear, Standing
  <1>11. Whole'
    <2>1. \A V : Solid(V) => Solid(V)'
      BY <1>3 DEF Solid, Of
    <2> QED
      BY <1>2, <2>1 DEF Whole, Standing
  <1>12. Rooted' /\ Dirt'
    <2>1. /\ <<"output", "mount">> \in Objects /\ <<"output", "child">> \in Objects
          /\ <<"output", "stage">> \in Objects
      BY ObjectsAre, VolumesAre, PartsAre
    <2> QED
      BY <1>1, <1>2, <1>3, <2>1 DEF Rooted, Standing, Dirt
  <1>13. Flow'
    BY <1>2 DEF Flow
  <1>14. Ends'
    <2>1. Attached' \subseteq Attached
      BY <1>1, <1>3 DEF Attached
    <2> QED
      BY <1>2, <2>1 DEF Ends
  <1>15. Kept'
    <2>1. \A ps : Leaked(ps) => Leaked(ps)'
      BY <1>1, <1>3, <1>4 DEF Leaked, Of
    <2> QED
      BY <1>2, <1>9, <2>1 DEF Kept
  <1>16. RetainedForCause'
    BY <1>2, <1>3 DEF RetainedForCause
  <1> QED
    BY <1>5, <1>6, <1>7, <1>8, <1>10, <1>11, <1>12, <1>13, <1>14, <1>15, <1>16

\* Probes, writes and their write-back, and the end of the runtime (RuntimeMounts::close).
Rests == Probe \/ EndProbe \/ Write \/ Writeback \/ CloseRuntime \/ RetainRuntime \/ UNCHANGED vars

\* So do other programs, the page cache and the end of a stage.
LEMMA RestKeeps == ASSUME IInv, Rests PROVE IInv'
  <1> USE DEF IInv, Rests, Probe, EndProbe, Write, Writeback, CloseRuntime, RetainRuntime, vars
  <1>1. UNCHANGED <<given, obj, todo, left, failed, broken, residue, inputs, child, tenants,
                    sealed>>
    OBVIOUS
  <1>2. pc' = pc \/ (pc = "closing" /\ pc' = "end")
    OBVIOUS
  <1>3. TypeOK'
    <2>1. prober' \in Objects \cup {<<>>}
      BY Types
    <2>2. dirty' \subseteq {"root", "esp"} /\ store' \in {"valid", "overflown"}
      BY Types
    <2>3. runtime' \in {"open", "closed", "retained"} /\ verdict' \in {"none", "ok", "failed"}
      BY Types
    <2> QED
      BY <1>1, <2>1, <2>2, <2>3, Types DEF TypeOK
  <1>4. Listing'
    BY <1>1, <1>2 DEF Listing, ToolMount
  <1>5. Absent' /\ Ready' /\ Whole'
    BY <1>1, <1>2, SameObjects DEF Ready, Whole, Directing, Serving, Standing
  <1>6. Clear'
    BY <1>1, <1>2, SameObjects DEF Clear, Standing
  <1>7. Rooted'
    BY <1>1, <1>2 DEF Rooted, Standing
  <1>8. Dirt' /\ (sealed => store' = store)
    <2>1. CASE Write
      <3>1. child \in {"running", "lost"} => pc = "format"
        BY <2>1 DEF Flow
      <3>2. tenants => pc = "command"
        BY <2>1 DEF Flow
      <3>3. CASE pc = "format"
        <4>1. child # "none"
          BY <2>1, <3>2, <3>3
        <4> QED
          BY <1>1, <2>1, <3>3, <4>1 DEF Dirt, Serving
      <3>4. CASE pc # "format"
        <4>1. PICK f \in {"root", "esp"} : dirty' = dirty \cup {f} /\ (f = "esp" => mounts = "esp")
          BY <2>1, <3>1, <3>4
        <4>2. pc \in {"operate", "copy", "command"}
          BY <2>1, <3>1, <3>2, <3>4
        <4>3. /\ obj[<<"output", "mount">>] = "owned"
              /\ mounts = "esp" => obj[<<"output", "child">>] = "owned"
          <5>1. Owns({"mount", "child"})
            BY <4>2 DEF Ready, Serving
          <5>2. Exists(<<"output", "mount">>) /\ (mounts = "esp" => Exists(<<"output", "child">>))
            BY DEF Exists
          <5> QED
            BY <5>1, <5>2, OutputsIn, PartsAre DEF Owns
        <4> QED
          BY <1>1, <2>1, <4>1, <4>2, <4>3 DEF Dirt, Serving
      <3> QED
        BY <3>3, <3>4
    <2>2. CASE Writeback
      <3>1. dirty' \subseteq dirty /\ dirty # {}
        BY <2>2
      <3>2. ~sealed
        BY <3>1 DEF Dirt, Flow, Serving
      <3> QED
        BY <1>1, <2>2, <3>1, <3>2 DEF Dirt, Serving
    <2>3. CASE Probe \/ EndProbe \/ CloseRuntime \/ RetainRuntime \/ UNCHANGED vars
      <3>1. UNCHANGED <<dirty, store>>
        BY <2>3
      <3> QED
        BY <1>1, <1>2, <3>1 DEF Dirt, Serving
    <2> QED
      BY <2>1, <2>2, <2>3
  <1>9. Flow'
    BY <1>1, <1>2, <1>8 DEF Flow
  <1>10. Ends'
    <2>1. Attached' = Attached
      BY <1>1 DEF Attached
    <2> QED
      BY <1>1, <2>1 DEF Ends, Directing, Serving
  <1>11. Kept'
    BY <1>1, <1>2, SameObjects DEF Kept
  <1>12. RetainedForCause'
    BY <1>1 DEF RetainedForCause
  <1> QED
    BY <1>3, <1>4, <1>5, <1>6, <1>7, <1>8, <1>9, <1>10, <1>11, <1>12

-----------------------------------------------------------------------------
(* The theorems *)

\* Nothing is there before the stage begins (Runtime::scoped).
LEMMA Initially == ASSUME Init PROVE IInv
  <1> DEFINE first == <<IF kind = "image" THEN "tool" ELSE "output", "origin">>
  <1>1. first \in Objects
    BY ObjectsAre, VolumesAre, PartsAre DEF Init
  <1>2. todo = <<first>>
    BY DEF Init
  <1>3. todo \in Seq(Objects) /\ Items(todo) = {first}
    BY <1>1, <1>2 DEF Items
  <1>4. {first} = Of({IF kind = "image" THEN "tool" ELSE "output"}, {"origin"})
    BY <1>1, ObjectsAre DEF Of
  <1> USE DEF Init
  <1>5. TypeOK
    <2>1. left \in Nat
      BY BoundsAssumption
    <2>2. parted \subseteq Volumes
      BY BoundsAssumption
    <2> QED
      BY <1>3, <2>1, <2>2 DEF TypeOK
  <1>6. Listing
    BY <1>3, <1>4 DEF Listing
  <1>7. Absent /\ Ready /\ Clear /\ Whole
    BY DEF Absent, Ready, Directing, Serving, Clear, Whole, Lacks, Solid, Of
  <1>8. Rooted /\ Dirt
    BY ObjectsAre, VolumesAre, PartsAre DEF Rooted, Dirt, Serving
  <1>9. Flow /\ Ends /\ Kept
    BY DEF Flow, Ends, Kept, Directing, Serving
  <1>10. RetainedForCause
    BY DEF RetainedForCause
  <1> QED
    BY <1>5, <1>6, <1>7, <1>8, <1>9, <1>10 DEF IInv

\* Every step of the stage, of the kernel and of the others.
LEMMA Inductive == ASSUME IInv, [Next]_vars PROVE IInv'
  <1>1. CASE PrepareMoves
    BY <1>1, PrepareKeeps
  <1>2. CASE DirectMoves
    BY <1>2, DirectKeeps
  <1>3. CASE FinalMoves
    BY <1>3, FinalKeeps
  <1>4. CASE OpenNext \/ OpenFails
    BY <1>4, OpenNextKeeps, OpenFailsKeeps
  <1>5. CASE CloseNext \/ CloseFails
    BY <1>5, CloseNextKeeps, CloseFailsKeeps
  <1>6. CASE Undone \/ GiveUp
    BY <1>6, GiveUpKeeps
  <1>7. CASE LoseFormatter \/ RetainStorage \/ SourceClosed
    BY <1>7, LoseFormatterKeeps, RetainStorageKeeps, SourceClosedKeeps
  <1>8. CASE UnmountLate \/ Unmounted
    BY <1>8, UnmountLateKeeps, UnmountedKeeps
  <1>9. CASE Reap
    BY <1>9, ReapKeeps
  <1>10. CASE Rests
    BY <1>10, RestKeeps
  <1> QED
    BY <1>1, <1>2, <1>3, <1>4, <1>5, <1>6, <1>7, <1>8, <1>9, <1>10 DEF Next, Stage, Environment,
      Ended, Prepare, Direct, Finalize, PrepareMoves, DirectMoves, FinalMoves, Rests

\* The invariant holds of every behaviour of a stage (DerivedCarapace::derive,
\* BootstrapBuild::produce).
THEOREM StageInvariant == Spec => []IInv
  BY Initially, Inductive, PTL DEF Spec

LEMMA Alone == IInv => SealsAlone /\ SealedIntact
  <1> SUFFICES ASSUME IInv PROVE SealsAlone /\ SealedIntact
    OBVIOUS
  <1> USE DEF IInv
  <1>1. ASSUME pc = "seal" PROVE SealsAlone
    <2>1. ASSUME NEW p \in Parts \ {"origin"} PROVE obj[<<"output", p>>] = "none"
      <3>1. <<"output", p>> \in Of({"output", "tool"}, Parts \ {"origin"})
        BY OutputsIn
      <3> QED
        BY <1>1, <3>1 DEF Clear, Lacks
    <2>2. obj[<<"output", "origin">>] = "owned"
      <3>1. Owns({"origin"}) /\ Exists(<<"output", "origin">>)
        BY <1>1 DEF Ready, Exists
      <3> QED
        BY <3>1, OutputsIn, PartsAre DEF Owns
    <2>3. ~tenants /\ child = "none"
      BY <1>1, Types DEF Flow
    <2> QED
      BY <2>1, <2>2, <2>3 DEF SealsAlone
  <1>2. SealsAlone
    BY <1>1 DEF SealsAlone
  <1>3. SealedIntact
    BY DEF SealedIntact, Flow, Dirt, Serving
  <1> QED
    BY <1>2, <1>3

\* A store is sealed when nothing in the kernel can reach it, and is then valid and
\* holds everything that was written (Scratch::seal_snapshot).
THEOREM SealingHolds == Spec => []Sealing
  <1>1. IInv => Sealing
    BY Alone DEF Sealing, IInv
  <1> QED
    BY <1>1, StageInvariant, PTL

\* A stage that succeeds leaves nothing in the kernel (Runtime::scoped, Root::read).
THEOREM NothingLeft == Spec => []SuccessLeavesNothing
  <1>1. IInv => SuccessLeavesNothing
    <2> SUFFICES ASSUME IInv, verdict = "ok"
                 PROVE  /\ sealed /\ runtime = "closed"
                        /\ \A x \in Objects : obj[x] = "none"
                        /\ inputs = "none" /\ child = "none" /\ ~tenants
      BY DEF SuccessLeavesNothing
    <2> USE DEF IInv
    <2>1. pc = "end" /\ ~failed /\ runtime = "closed"
      BY DEF Ends
    <2>2. \A x \in Objects : obj[x] = "none"
      BY <2>1, ObjectsAre DEF Clear, Lacks, Of
    <2>3. child = "none" /\ ~tenants
      BY <2>1, Types DEF Flow
    <2>4. sealed /\ inputs = "none"
      BY <2>1 DEF Flow, Ends
    <2> QED
      BY <2>1, <2>2, <2>3, <2>4
  <1> QED
    BY <1>1, StageInvariant, PTL

\* Storage is leaked only when a clean-up failed or could not be attempted
\* (FormatInputs::reject, Volume::discard).
THEOREM LeaksForCause == Spec => []RetainedForCause
  <1>1. IInv => RetainedForCause
    BY DEF IInv
  <1> QED
    BY <1>1, StageInvariant, PTL

LEMMA WritersKeep == IInv => WritersKeepLayers
  <1> SUFFICES ASSUME IInv PROVE WritersKeepLayers
    OBVIOUS
  <1> USE DEF IInv
  <1> DEFINE kept(p) == obj[<<"output", p>>] \in {"owned", "forgotten"}
  <1>1. ASSUME NEW ps \in SUBSET Parts, Owns(ps) \/ Leaked(ps),
               NEW p \in ps, Exists(<<"output", p>>)
        PROVE  kept(p)
    BY <1>1, OutputsIn DEF Owns, Leaked
  <1>2. /\ \A p \in {"root", "snapshot", "loop", "mount"} : Exists(<<"output", p>>)
        /\ "output" \in parted => Exists(<<"output", "esp">>)
        /\ mounts = "esp" => Exists(<<"output", "stage">>)
    BY DEF Exists
  <1>3. ASSUME child \in {"running", "lost"}
        PROVE  /\ inputs \in {"owned", "forgotten"}
               /\ kept("root") /\ kept("snapshot") /\ kept("loop")
               /\ "output" \in parted => kept("esp")
               /\ ~Present("output", "mount") /\ ~Present("output", "stage")
    <2> DEFINE ps == {"root", "esp", "snapshot", "loop"}
    <2>1. ps \in SUBSET Parts
      BY PartsAre
    <2>2. Owns(ps) \/ Leaked(ps)
      BY <1>3, Fewer DEF Flow, Ready, Kept
    <2>3. kept("root") /\ kept("snapshot") /\ kept("loop") /\ ("output" \in parted => kept("esp"))
      BY <1>1, <1>2, <2>1, <2>2
    <2>4. Lacks({"output"}, {"mount"}) /\ Lacks({"output"}, {"stage"})
      BY <1>3 DEF Flow, Clear, Standing, Serving, Kept, Lacks, Of
    <2>5. ~Present("output", "mount") /\ ~Present("output", "stage")
      BY <2>4, OutputsIn, PartsAre DEF Lacks, Present
    <2>6. inputs \in {"owned", "forgotten"}
      BY <1>3 DEF Flow, Ends, Kept
    <2> QED
      BY <2>3, <2>5, <2>6
  <1>4. ASSUME tenants
        PROVE  /\ kept("mount") /\ kept("root") /\ kept("snapshot") /\ kept("loop")
               /\ mounts = "esp" => kept("stage") /\ kept("esp")
    <2> DEFINE ps == {"mount", "stage", "root", "esp", "snapshot", "loop"}
    <2>1. ps \in SUBSET Parts
      BY PartsAre
    <2>2. Owns(ps) \/ Leaked(ps)
      BY <1>4, Fewer DEF Flow, Ready, Directing, Serving, Kept
    <2>3. kept("mount") /\ kept("root") /\ kept("snapshot") /\ kept("loop")
      BY <1>1, <1>2, <2>1, <2>2
    <2>4. mounts = "esp" => kept("stage")
      BY <1>1, <1>2, <2>1, <2>2
    <2>5. mounts = "esp" => "output" \in parted
      BY <1>4, <2>4 DEF Rooted
    <2>6. mounts = "esp" => kept("esp")
      BY <1>1, <1>2, <2>1, <2>2, <2>5
    <2> QED
      BY <2>3, <2>4, <2>6
  <1> QED
    BY <1>3, <1>4 DEF WritersKeepLayers

\* What a process may still use is neither removed nor marked for removal, and the runtime
\* directory is taken down only when nothing is attached below it (Formatting, Retained,
\* RuntimeMounts::close).
THEOREM UsedStays == Spec => []UsedIsKept
  <1>1. IInv => BarrierHolds
    <2> SUFFICES ASSUME IInv, runtime = "closed" PROVE Attached = {} /\ ~residue /\ ~tenants
      BY DEF BarrierHolds
    <2> USE DEF IInv
    <2>1. pc = "end" /\ Attached = {} /\ ~residue
      BY DEF Ends
    <2>2. ASSUME tenants PROVE FALSE
      <3>1. obj[<<"output", "mount">>] = "forgotten"
        <4>1. Leaked({"mount", "stage", "root", "esp", "snapshot", "loop"})
          BY <2>1, <2>2 DEF Kept
        <4>2. Exists(<<"output", "mount">>)
          BY DEF Exists
        <4> QED
          BY <4>1, <4>2, OutputsIn, PartsAre DEF Leaked
      <3>2. <<"output", "mount">> \in Objects /\ <<"output", "mount">>[2] = "mount"
        BY ObjectsAre, VolumesAre, PartsAre
      <3> QED
        BY <2>1, <3>1, <3>2 DEF Attached
    <2> QED
      BY <2>1, <2>2
  <1>2. IInv => UsedIsKept
    BY <1>1, WritersKeep DEF UsedIsKept
  <1> QED
    BY <1>2, StageInvariant, PTL
=============================================================================
