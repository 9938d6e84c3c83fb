----------------------------- MODULE Publication -----------------------------
(***************************************************************************)
(* Staging an output image and publishing it: output/mod.rs and            *)
(* output/assembly.rs, with the temporary files sealed scutes keep in the  *)
(* staged blobs directory (storage/sealed.rs).                             *)
(*                                                                         *)
(* One publisher works beside any number of other programs, which may      *)
(* create names at the destination; any of its file operations may fail,   *)
(* and it may die between any two of them.  A destination that does not    *)
(* exist is published by one rename of the staging directory; an empty one *)
(* by moving each top-level entry of the layout into it.                   *)
(*                                                                         *)
(* A file is its name: content is told apart only as far as "whole" (in    *)
(* files) or open for writing (pending).  The staging directory is private *)
(* (mode 0700): nobody else changes what is in it.                         *)
(***************************************************************************)
EXTENDS Naturals, Sequences, FiniteSets

CONSTANTS
    Blobs,       \* digests of ordinary blobs: config, scutes, PMI, boot config
    Scutes,      \* scutes the build's stages seal
    BlobOf,      \* the digest of a sealed scute's encoded stream
    Selections   \* outputs a plan may select

Manifests == {"unbound", "bound"}
\* Mutant: the marker is moved first.
LayoutMarkerFirst == <<"oci-layout", "blobs", "index.json">>

Layout == <<"blobs", "index.json", "oci-layout">>
Top == {"blobs", "index.json", "oci-layout"}
FileNames == Blobs \cup Manifests \cup {"lookup", "index.json", "oci-layout"}

\* Two scutes with the same snapshot bytes have the same digest: only their
\* salts differ.  A sealed scute is one item of an output at most.
ASSUME NamesAssumption ==
    /\ Blobs \cap (Manifests \cup {"lookup", "index.json", "oci-layout", "none"}) = {}
    /\ Blobs \cap Scutes = {}
    /\ BlobOf \in [Scutes -> Blobs]

ASSUME SelectionsAssumption ==
    \A sel \in Selections :
        /\ sel.items \in Seq(Blobs \cup Scutes)
        /\ sel.metadata \subseteq {sel.items[i] : i \in 1..Len(sel.items)}
        /\ \A i, j \in 1..Len(sel.items) :
              sel.items[i] \in Scutes /\ sel.items[i] = sel.items[j] => i = j

VARIABLES
    there,      \* the destination: "absent", "directory", "occupied" or "ours"
    entry,      \* in an existing destination directory, who made each name
    mode,       \* how the staging directory was made, and is to be published
    staging,    \* the staging directory: "none", "made" or "gone"
    at,         \* the publisher's next step
    round,      \* resolve_staging runs twice: to "assemble", then to "bind"
    sel,        \* the output that was selected
    final,      \* the manifest with its build annotations
    pos,        \* the next item to stage, or the next entry to move
    files,      \* whole files of the staged layout
    pending,    \* the file open for writing under its final name
    named,      \* the manifest index.json names
    temps,      \* sealed scutes' temporary files among the staged blobs
    litter,     \* whether a cleanup failed
    verdict     \* what the build reports

content == <<sel, final, files, pending, named, temps>>
place == <<there, entry>>
vars == <<place, mode, staging, at, round, content, pos, litter, verdict>>

NoSelection == [items |-> <<>>, metadata |-> {}]

Init ==
    /\ there \in {"absent", "directory", "occupied"}
    /\ entry = [e \in Top |-> "none"]
    /\ mode = "none" /\ staging = "none"
    /\ at = "create" /\ round = "assemble"
    /\ sel = NoSelection /\ final = "unbound"
    /\ pos = 1
    /\ files = {} /\ pending = "none" /\ named = "none" /\ temps = {}
    /\ litter = "no" /\ verdict = "pending"

-----------------------------------------------------------------------------
(***************************************************************************)
(* Creating the staging directory                                          *)
(***************************************************************************)

StageIn(how) ==
    /\ at = "create"
    /\ mode' = how /\ staging' = "made" /\ at' = "execute"
    /\ UNCHANGED <<place, round, content, pos, litter, verdict>>

CreateSibling == there = "absent" /\ StageIn("rename")

CreateInside ==
    /\ there = "directory"
    /\ \A e \in Top : entry[e] = "none"
    /\ StageIn("children")

\* An occupied destination, an inaccessible parent, or no staging directory.
RejectDestination ==
    /\ at = "create"
    /\ at' = "done" /\ verdict' = "failed"
    /\ UNCHANGED <<place, mode, staging, round, content, pos, litter>>

-----------------------------------------------------------------------------
(***************************************************************************)
(* Staging the layout                                                      *)
(***************************************************************************)

TempsOf(s) == {<<s, "work">>, <<s, "blob">>}
Sealed == {s \in Scutes : <<s, "blob">> \in temps}

\* A stage that succeeds seals a scute: its prepared data and hash files and
\* its encoded stream stay in the blobs directory under temporary names.
Seal(s) ==
    /\ at = "execute" /\ s \notin Sealed
    /\ temps' = temps \cup TempsOf(s)
    /\ UNCHANGED <<place, mode, staging, at, round, sel, final, pos, files,
                   pending, named, litter, verdict>>

\* The output is selected among the finished stages and the captured images;
\* stamping the build on its manifest may leave the manifest as it was.
Select ==
    /\ at = "execute"
    /\ \E chosen \in Selections, stamped \in Manifests :
          /\ \A i \in 1..Len(chosen.items) :
                chosen.items[i] \in Scutes => chosen.items[i] \in Sealed
          /\ sel' = chosen /\ final' = stamped
    /\ at' = "store"
    /\ UNCHANGED <<place, mode, staging, round, pos, files, pending, named,
                   temps, litter, verdict>>

\* pending_file opens, and truncates, the final name; keep leaves it there.
Open(file) ==
    /\ pending = "none"
    /\ pending' = file /\ files' = files \ {file}
    /\ UNCHANGED <<at, pos, named>>

Keep(file) ==
    /\ pending = file
    /\ pending' = "none" /\ files' = files \cup {file}

Unstored == at = "store" /\ pos <= Len(sel.items)

StoreBlob ==
    /\ Unstored /\ sel.items[pos] \in Blobs
    /\ \/ Open(sel.items[pos])
       \/ Keep(sel.items[pos]) /\ pos' = pos + 1 /\ UNCHANGED <<at, named>>
    /\ UNCHANGED <<place, mode, staging, round, sel, final, temps, litter, verdict>>

\* The encoded stream is renamed onto its digest, over an equal one if any.
InstallScute ==
    /\ Unstored /\ sel.items[pos] \in Scutes
    /\ files' = files \cup {BlobOf[sel.items[pos]]}
    /\ temps' = temps \ {<<sel.items[pos], "blob">>}
    /\ pos' = pos + 1
    /\ UNCHANGED <<place, mode, staging, at, round, sel, final, pending, named,
                   litter, verdict>>

StoredAll ==
    /\ at = "store" /\ pos > Len(sel.items)
    /\ at' = "manifest"
    /\ UNCHANGED <<place, mode, staging, round, content, pos, litter, verdict>>

Current == IF round = "assemble" THEN "unbound" ELSE final

\* resolve_staging writes four files, in this order.
Write(here, file, next) ==
    /\ at = here
    /\ \/ Open(file)
       \/ Keep(file) /\ at' = next /\ UNCHANGED <<pos, named>>
    /\ UNCHANGED <<place, mode, staging, round, sel, final, temps, litter, verdict>>

WriteManifest == Write("manifest", Current, "lookup")
WriteLookup == Write("lookup", "lookup", "index")
WriteMarker == Write("marker", "oci-layout", "validate")

WriteIndex ==
    /\ at = "index"
    /\ \/ Open("index.json")
       \/ Keep("index.json") /\ at' = "marker" /\ named' = Current /\ UNCHANGED pos
    /\ UNCHANGED <<place, mode, staging, round, sel, final, temps, litter, verdict>>

\* The layout is opened as a cache and its metadata is read back.  Scutes are
\* not: Cache::verify_metadata leaves them to the consumer's verity device.
Validate ==
    /\ at = "validate"
    /\ {"lookup", Current} \cup sel.metadata \subseteq files
    /\ at' = "unlist"
    /\ UNCHANGED <<place, mode, staging, round, content, pos, litter, verdict>>

Unlist ==
    /\ at = "unlist"
    /\ files' = files \ {"lookup"}
    /\ at' = IF round = "assemble" THEN "manifest" ELSE "replace"
    /\ round' = "bind"
    /\ UNCHANGED <<place, mode, staging, sel, final, pos, pending, named, temps,
                   litter, verdict>>

\* bind_build drops the manifest it replaced, unless stamping changed nothing.
Replace ==
    /\ at = "replace"
    /\ files' = IF final = "unbound" THEN files ELSE files \ {"unbound"}
    /\ at' = "release"
    /\ UNCHANGED <<place, mode, staging, round, sel, final, pos, pending, named,
                   temps, litter, verdict>>

\* The stages' outputs are dropped before publish; their temporary files are
\* unlinked with errors ignored.
Release ==
    /\ at = "release"
    /\ temps' \in SUBSET temps
    /\ at' = "check"
    /\ UNCHANGED <<place, mode, staging, round, sel, final, pos, files, pending,
                   named, litter, verdict>>

Staged == {"execute", "store", "manifest", "lookup", "index", "marker", "validate",
           "unlist", "replace", "check"}

\* A stage, a cache read or a file operation fails: the pending file is
\* removed, and the error unwinds to the owner of the staging directory.
StagingFails ==
    /\ at \in Staged
    /\ pending' = "none" /\ at' = "drop"
    /\ UNCHANGED <<place, mode, staging, round, sel, final, pos, files, named,
                   temps, litter, verdict>>

-----------------------------------------------------------------------------
(***************************************************************************)
(* Publishing                                                              *)
(***************************************************************************)

\* Mutant: the names of the staged blobs are not looked at.
CheckNothing ==
    /\ at = "check"
    /\ at' = IF mode = "rename" THEN "rename" ELSE "move"
    /\ pos' = 1
    /\ UNCHANGED <<place, mode, staging, round, content, litter, verdict>>

\* A name that is not a digest is an unfinished blob, and publish refuses it.
CheckNames ==
    /\ at = "check" /\ temps = {}
    /\ at' = IF mode = "rename" THEN "rename" ELSE "move"
    /\ pos' = 1
    /\ UNCHANGED <<place, mode, staging, round, content, litter, verdict>>

\* Mutant: a plain rename, which replaces an empty directory.
RenameReplacing ==
    /\ at = "rename" /\ there \in {"absent", "directory"}
    /\ there' = "ours" /\ staging' = "gone"
    /\ at' = "done" /\ verdict' = "ok"
    /\ UNCHANGED <<entry, mode, round, content, pos, litter>>

RenameDirectory ==
    /\ at = "rename" /\ there = "absent"
    /\ there' = "ours" /\ staging' = "gone"
    /\ at' = "done" /\ verdict' = "ok"
    /\ UNCHANGED <<entry, mode, round, content, pos, litter>>

\* The name was taken meanwhile (RENAME_NOREPLACE), or the rename failed.
RenameFails ==
    /\ at = "rename"
    /\ at' = "drop"
    /\ UNCHANGED <<place, mode, staging, round, content, pos, litter, verdict>>

MoveEntry ==
    /\ at = "move" /\ pos <= Len(Layout)
    /\ entry[Layout[pos]] = "none"
    /\ entry' = [entry EXCEPT ![Layout[pos]] = "ours"]
    /\ pos' = pos + 1
    /\ UNCHANGED <<there, mode, staging, at, round, content, litter, verdict>>

\* Mutant: a failed move is not rolled back.
MoveFailsUndone ==
    /\ at = "move" /\ pos <= Len(Layout)
    /\ at' = "drop"
    /\ UNCHANGED <<place, mode, staging, round, content, pos, litter, verdict>>

MoveFails ==
    /\ at = "move" /\ pos <= Len(Layout)
    /\ at' = "rollback"
    /\ UNCHANGED <<place, mode, staging, round, content, pos, litter, verdict>>

\* The last entry moved is moved back first; an error is ignored.
MoveBack ==
    /\ at = "rollback" /\ pos > 1
    /\ pos' = pos - 1
    /\ \/ entry' = [entry EXCEPT ![Layout[pos - 1]] = "none"] /\ UNCHANGED litter
       \/ litter' = "yes" /\ UNCHANGED entry
    /\ UNCHANGED <<there, mode, staging, at, round, content, verdict>>

RolledBack ==
    /\ at = "rollback" /\ pos = 1
    /\ at' = "drop"
    /\ UNCHANGED <<place, mode, staging, round, content, pos, litter, verdict>>

\* With every entry moved, the emptied staging directory is removed, and an
\* error of that removal is an error of the build.
Close ==
    /\ at = "move" /\ pos > Len(Layout)
    /\ \/ staging' = "gone" /\ verdict' = "ok" /\ UNCHANGED litter
       \/ verdict' = "failed" /\ litter' = "yes" /\ UNCHANGED staging
    /\ at' = "done"
    /\ UNCHANGED <<place, mode, round, content, pos>>

\* The staging directory goes with its owner, if it can be removed.
Drop ==
    /\ at = "drop"
    /\ \/ staging' = "gone" /\ UNCHANGED litter
       \/ litter' = "yes" /\ UNCHANGED staging
    /\ at' = "done" /\ verdict' = "failed"
    /\ UNCHANGED <<place, mode, round, content, pos>>

-----------------------------------------------------------------------------
(***************************************************************************)
(* The publisher's death, and everyone else                                *)
(***************************************************************************)

Crash ==
    /\ at # "done"
    /\ at' = "done" /\ verdict' = "crashed"
    /\ UNCHANGED <<place, mode, staging, round, content, pos, litter>>

OthersUnchanged ==
    UNCHANGED <<mode, staging, at, round, content, pos, litter, verdict>>

TakeName ==
    /\ there = "absent"
    /\ there' \in {"directory", "occupied"}
    /\ UNCHANGED entry /\ OthersUnchanged

TakeEntry(e) ==
    /\ there = "directory" /\ entry[e] = "none"
    /\ entry' = [entry EXCEPT ![e] = "foreign"]
    /\ UNCHANGED there /\ OthersUnchanged

Stage ==
    \/ CreateSibling \/ CreateInside \/ RejectDestination
    \/ (\E s \in Scutes : Seal(s)) \/ Select
    \/ StoreBlob \/ InstallScute \/ StoredAll
    \/ WriteManifest \/ WriteLookup \/ WriteIndex \/ WriteMarker
    \/ Validate \/ Unlist \/ Replace \/ Release \/ StagingFails

Publish ==
    \/ CheckNames \/ RenameDirectory \/ RenameFails
    \/ MoveEntry \/ MoveFails \/ MoveBack \/ RolledBack \/ Close \/ Drop

Foreign == TakeName \/ \E e \in Top : TakeEntry(e)

Next == Stage \/ Publish \/ Crash \/ Foreign

Spec == Init /\ [][Next]_vars

-----------------------------------------------------------------------------
(***************************************************************************)
(* Properties                                                              *)
(***************************************************************************)

NameOf(item) == IF item \in Scutes THEN BlobOf[item] ELSE item
Names(p) == {NameOf(sel.items[i]) : i \in 1..(p - 1)}
Items == Names(Len(sel.items) + 1)

\* The layout that is to be published, to the last file.
Expected == Items \cup {final, "index.json", "oci-layout"}
Exact == files = Expected /\ pending = "none" /\ named = final /\ temps = {}

\* A reader takes a directory for an image when it finds the marker in it.
Visible == there = "ours" \/ entry["oci-layout"] = "ours"

Whole ==
    /\ Exact
    /\ there = "ours" \/ \A e \in Top : entry[e] = "ours"

Moving == {"rename", "move", "rollback"}

TypeOK ==
    /\ there \in {"absent", "directory", "occupied", "ours"}
    /\ entry \in [Top -> {"none", "foreign", "ours"}]
    /\ mode \in {"none", "rename", "children"}
    /\ staging \in {"none", "made", "gone"}
    /\ at \in Staged \cup Moving \cup {"create", "release", "drop", "done"}
    /\ round \in {"assemble", "bind"}
    /\ sel \in Selections \cup {NoSelection}
    /\ final \in Manifests
    /\ pos \in Nat \ {0}
    /\ files \subseteq FileNames
    /\ pending \in FileNames \cup {"none"}
    /\ named \in Manifests \cup {"none"}
    /\ temps \subseteq Scutes \X {"work", "blob"}
    /\ litter \in {"no", "yes"}
    /\ verdict \in {"pending", "ok", "failed", "crashed"}

\* What the first resolve_staging leaves to the second.
Before == IF round = "assemble" THEN {} ELSE {"unbound", "index.json", "oci-layout"}

\* The staged files at each of the publisher's steps.
StagedSoFar ==
    /\ at \in {"create", "execute"} =>
          files = {} /\ pending = "none" /\ round = "assemble" /\ pos = 1
    /\ at = "store" =>
          /\ round = "assemble" /\ pos <= Len(sel.items) + 1
          /\ files = Names(pos) \ {pending}
          /\ pending # "none" =>
                pos <= Len(sel.items) /\ pending = sel.items[pos] /\ pending \in Blobs
    /\ at = "manifest" =>
          files = (Items \cup Before) \ {pending} /\ pending \in {"none", Current}
    /\ at = "lookup" =>
          files = (Items \cup Before \cup {Current}) \ {pending} /\ pending \in {"none", "lookup"}
    /\ at = "index" =>
          /\ files = (Items \cup Before \cup {Current, "lookup"}) \ {pending}
          /\ pending \in {"none", "index.json"}
    /\ at = "marker" =>
          /\ files = (Items \cup Before \cup {Current, "lookup", "index.json"}) \ {pending}
          /\ pending \in {"none", "oci-layout"}
          /\ named = Current
    /\ at \in {"validate", "unlist"} =>
          /\ files = Items \cup Before \cup {Current, "lookup", "index.json", "oci-layout"}
          /\ pending = "none" /\ named = Current
    /\ at \in {"replace", "release", "check"} \cup Moving => pending = "none" /\ named = final
    /\ at = "replace" => files = Expected \cup {"unbound"}
    /\ at \in {"release", "check"} \cup Moving => files = Expected
    /\ at \in Moving => temps = {}

\* Whose the entries of the destination are, while they are moved and after.
MovedSoFar ==
    /\ there = "ours" => at = "done" /\ mode = "rename" /\ staging = "gone" /\ Exact
    /\ (\E e \in Top : entry[e] = "ours") => mode = "children" /\ Exact
    /\ entry["oci-layout"] = "ours" => \A e \in Top : entry[e] = "ours"
    /\ at \in Staged \cup {"create", "release", "rename"} =>
          litter = "no" /\ \A e \in Top : entry[e] # "ours"
    /\ at \in {"move", "rollback"} =>
          /\ mode = "children" /\ pos \in 1..4
          /\ \A i \in 1..3 : i < pos => entry[Layout[i]] = "ours"
          /\ litter = "no" => \A i \in 1..3 : entry[Layout[i]] = "ours" => i < pos
    /\ at = "move" => litter = "no"
    /\ at \in {"rollback", "drop"} => entry["oci-layout"] # "ours"
    /\ at = "drop" /\ litter = "no" => \A e \in Top : entry[e] # "ours"

\* When the staging directory exists, and what the build has reported.
Reported ==
    /\ at = "create" => staging = "none"
    /\ at \in Staged \cup Moving \cup {"release", "drop"} =>
          staging = "made" /\ mode # "none"
    /\ at = "rename" => mode = "rename"
    /\ verdict # "pending" <=> at = "done"
    /\ verdict = "failed" /\ litter = "no" =>
          /\ there # "ours" /\ \A e \in Top : entry[e] # "ours"
          /\ staging # "made"
    /\ verdict = "ok" => Visible /\ staging = "gone" /\ litter = "no"

\* The inductive invariant: the publisher's position fixes the staged files,
\* and which of them can be outside the staging directory.
Inv == TypeOK /\ StagedSoFar /\ MovedSoFar /\ Reported

\* A reader that finds the marker finds everything: the index names the
\* stamped manifest, and every blob of the selected output is there, with
\* nothing left over from earlier steps, whatever failed and whoever died.
LayoutComplete == Visible => Whole

\* A build that reports success has published, and has cleaned up.
SuccessIsWhole ==
    verdict = "ok" => Visible /\ Whole /\ staging = "gone" /\ litter = "no"

\* A build that fails leaves neither an entry of its own at the destination
\* nor its staging directory, unless the cleanup of one of them failed too.
CleanFailure ==
    verdict = "failed" /\ litter = "no" =>
        /\ there # "ours" /\ \A e \in Top : entry[e] # "ours"
        /\ staging # "made"

\* The verdict of the build tells what is at the destination (publish,
\* publish_children).
HonestVerdict == SuccessIsWhole /\ CleanFailure

\* Nothing that somebody else put at the destination is replaced or moved.
ForeignKept ==
    [][/\ there \in {"directory", "occupied"} => there' = there
       /\ \A e \in Top : entry[e] = "foreign" => entry'[e] = "foreign"]_vars

\* Publishing is a single step to a reader: see AtomicPublication.
Image == IF Visible THEN IF Whole THEN "whole" ELSE "torn" ELSE "none"
Reader == INSTANCE AtomicPublication WITH image <- Image
PublishesAtomically == Reader!Spec

\* DESIGN.md 11.2: "failure leaves no successful image".
NoImageOnFailure == verdict = "failed" => ~Visible
=============================================================================
