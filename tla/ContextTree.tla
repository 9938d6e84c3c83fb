----------------------------- MODULE ContextTree -----------------------------
(***************************************************************************)
(* The committed build context (src/src/context, src/src/copy/source.rs):  *)
(* the context directory is found in the commit through links and          *)
(* submodules, single files are read in it, and the sources of each COPY   *)
(* are selected.  Submodules are opened only when a walk needs one:        *)
(* planning prepares each COPY until its selection meets no closed module, *)
(* and the COPY selects again, much later, from what was opened by then.   *)
(*                                                                         *)
(* A commit is a function from paths to entries, with what is inside its   *)
(* modules; the captured entries have what was scanned.  Names are numbers *)
(* in the order of the names; Here, Up and Top are ".", ".." and the "/"   *)
(* of an absolute link.                                                    *)
(***************************************************************************)
EXTENDS Integers, Sequences, FiniteSets, SequencesExt

CONSTANTS
  Trees,      \* the commits considered
  Contexts,   \* context paths that may be asked for
  Files,      \* paths of files that may be read
  Patterns,   \* sources of a COPY: sequences of parts
  MaxLinks,   \* links a walk follows (40)
  MaxDepth    \* modules inside modules (8)

Here == 0
Up == 0 - 1
Top == 0 - 2

VARIABLES
  tree,      \* the commit, complete
  root,      \* where the context is in it
  entries,   \* CapturedContext.entries: what was scanned, by its path in the context
  complete,  \* history: the entries with every module open that can be
  phase,     \* "capture", "ready", "read", "prepare", "prepared", "copied", "failed"
  request,   \* what is asked for: the context, a file or the sources of a COPY
  pending,   \* parts the walk at hand has left
  at, links, \* where it is, and the links it followed
  others,    \* history: the modules that other requests opened
  result     \* what the request gave

vars == <<tree, root, entries, complete, phase, request, pending, at, links, others, result>>

Unscanned == [p \in {} |-> [kind |-> "missing"]]
Nothing == [is |-> "none"]
Init ==
  /\ tree \in Trees /\ root = <<>> /\ phase = "capture"
  /\ entries = Unscanned /\ complete = Unscanned
  /\ request \in {[is |-> "context", path |-> c] : c \in Contexts}
  /\ pending = request.path /\ at = <<>> /\ links = 0
  /\ others = {} /\ result = Nothing

--------------------------------------------------------------------------
(* The entries of the captured context. *)

Modules == {p \in DOMAIN tree : tree[p].kind = "module"}

\* How deep the store of a module is: the superproject is 0.
Depth(path) == Cardinality(Prefixes(path) \cap Modules)

\* open_module: the mapping is there, the store has the commit, the depth is allowed.
Openable(path) == tree[path].available /\ Depth(path) <= MaxDepth

\* CapturedContext::scan: what is below a directory of the commit, modules closed.
Scanned(top) ==
  {q \in DOMAIN tree : /\ IsStrictPrefix(top, q)
                       /\ \A m \in Modules : IsStrictPrefix(m, q) => IsPrefix(m, top)}
Inside(q) == SubSeq(q, Len(root) + 1, Len(q))
Directory == [kind |-> "dir"]

\* CapturedContext::expand: what is below an open module, and a directory in its place.
Expanded(path) ==
  [p \in DOMAIN entries \cup {Inside(q) : q \in Scanned(root \o path)} |->
     IF p = path THEN Directory ELSE IF p \in DOMAIN entries THEN entries[p] ELSE tree[root \o p]]
Expand(path) == Openable(root \o path) /\ entries' = Expanded(path)
Opened == {p \in DOMAIN entries : root \o p \in Modules /\ entries[p] = Directory}

Absolute(entry) == Head(entry.target) = Top
\* The parts a link puts before those left; a trailing slash requires a directory.
Spliced(entry, rest) == entry.target \o (IF entry.slash THEN <<Here>> ELSE <<>>) \o rest

--------------------------------------------------------------------------
(* Walks that open modules on their way: the context directory, and files. *)

Fails ==
  /\ phase' = "failed" /\ result' = [is |-> "error"]
  /\ UNCHANGED <<tree, root, entries, complete, request, pending, at, links, others>>

Goes(rest, to) ==
  /\ pending' = rest /\ at' = to
  /\ UNCHANGED <<tree, root, complete, phase, request, others, result>>

Part == Head(pending)
Rest == Tail(pending)
Entry(view, path) == IF path \in DOMAIN view THEN view[path] ELSE [kind |-> "missing"]

StepHere ==
  /\ phase \in {"capture", "read"} /\ pending # <<>> /\ Part = Here
  /\ Goes(Rest, at) /\ UNCHANGED <<entries, links>>

StepUp ==
  /\ phase \in {"capture", "read"} /\ pending # <<>> /\ Part = Up
  /\ IF at = <<>> THEN Fails
     ELSE Goes(Rest, Front(at)) /\ UNCHANGED <<entries, links>>

\* One name of either walk.  The walk to the context runs over the commit and
\* enters modules; the walk to a file runs over the entries and expands them.
Follow(view) ==
  /\ pending # <<>> /\ Part \notin {Here, Up}
  /\ LET here == Append(at, Part)
         entry == Entry(view, here)
     IN  CASE entry.kind = "missing" -> Fails
           [] entry.kind = "dir" -> Goes(Rest, here) /\ UNCHANGED <<entries, links>>
           [] entry.kind = "file" ->
                IF phase = "capture" \/ Rest # <<>> THEN Fails
                ELSE Goes(Rest, here) /\ UNCHANGED <<entries, links>>
           [] entry.kind = "link" ->
                IF links + 1 > MaxLinks \/ Absolute(entry) THEN Fails
                ELSE /\ Goes(Spliced(entry, Rest), at)
                     /\ links' = links + 1 /\ UNCHANGED entries
           [] entry.kind = "module" ->
                IF ~Openable(root \o here) THEN Fails
                ELSE /\ Goes(Rest, here)
                     /\ IF phase = "read" THEN Expand(here) ELSE UNCHANGED entries
                     /\ UNCHANGED links

FollowCapture == phase = "capture" /\ Follow(tree)
FollowRead    == phase = "read" /\ Follow(entries)

\* The reference: everything below the context that can be reached by opening
\* modules, where one that cannot be opened stays closed.
Complete(top) ==
  LET shut == {m \in Modules : IsStrictPrefix(top, m) /\ ~Openable(m)}
  IN  [p \in {SubSeq(q, Len(top) + 1, Len(q)) : q \in
                {q \in DOMAIN tree : IsStrictPrefix(top, q) /\ \A m \in shut : ~IsStrictPrefix(m, q)}} |->
         IF top \o p \in Modules \ shut THEN Directory ELSE tree[top \o p]]

Captured ==
  /\ phase = "capture" /\ pending = <<>>
  /\ root' = at /\ phase' = "ready"
  /\ entries' = [p \in {SubSeq(q, Len(at) + 1, Len(q)) : q \in Scanned(at)} |-> tree[at \o p]]
  /\ complete' = Complete(at)
  /\ UNCHANGED <<tree, request, pending, at, links, others, result>>

\* RelativePath::try_from: lexically, the path stays inside and names something.
Depths(path) == [n \in 0..Len(path) |->
  Cardinality({i \in 1..n : path[i] > 0}) - Cardinality({i \in 1..n : path[i] = Up})]
AcceptedPath(path) ==
  /\ \A n \in 0..Len(path) : Depths(path)[n] >= 0
  /\ Depths(path)[Len(path)] > 0

StartRead ==
  /\ phase = "ready"
  /\ \E path \in Files :
       /\ AcceptedPath(path)
       /\ request' = [is |-> "file", path |-> path] /\ pending' = path
  /\ phase' = "read" /\ at' = <<>> /\ links' = 0
  /\ UNCHANGED <<tree, root, entries, complete, others, result>>

ReadEnds ==
  /\ phase = "read" /\ pending = <<>>
  /\ IF Entry(entries, at).kind # "file" THEN Fails
     ELSE /\ phase' = "copied" /\ result' = [is |-> "file", path |-> at]
          /\ UNCHANGED <<tree, root, entries, complete, request, pending, at, links, others>>

--------------------------------------------------------------------------
(* The sources of a COPY: the walk that opens nothing. *)

Error == [is |-> "error"]
Module(path) == [is |-> "module", path |-> path]
Found(path) == [is |-> "path", path |-> path]

Paths == Seq(Int)

\* SourceTree::resolve
Resolve(view, path) ==
  LET walk[w \in [parts : Paths, at : Paths, links : 0..MaxLinks]] ==
        IF w.parts = <<>> THEN Found(w.at)
        ELSE LET name  == Head(w.parts)
                 rest  == Tail(w.parts)
                 here  == Append(w.at, name)
                 entry == Entry(view, here)
             IN  CASE name = Here -> walk[[w EXCEPT !.parts = rest]]
                   [] name = Up -> IF w.at = <<>> THEN Error
                                   ELSE walk[[w EXCEPT !.parts = rest, !.at = Front(w.at)]]
                   [] name > 0 /\ entry.kind = "missing" -> Error
                   [] name > 0 /\ entry.kind = "module" -> Module(here)
                   [] name > 0 /\ entry.kind = "link" ->
                        IF w.links = MaxLinks \/ Absolute(entry) THEN Error
                        ELSE walk[[w EXCEPT !.parts = Spliced(entry, rest), !.links = w.links + 1]]
                   [] name > 0 /\ entry.kind = "file" -> IF rest # <<>> THEN Error ELSE Found(here)
                   [] name > 0 /\ entry.kind = "dir" -> walk[[w EXCEPT !.parts = rest, !.at = here]]
  IN  walk[[parts |-> path, at |-> <<>>, links |-> 0]]

IsDirectory(view, path) == path = <<>> \/ Entry(view, path).kind = "dir"
Before(p, q) ==
  \/ IsStrictPrefix(p, q)
  \/ \E n \in 1..Len(p) : n <= Len(q) /\ p[n] < q[n] /\ SubSeq(p, 1, n - 1) = SubSeq(q, 1, n - 1)
First(paths) == CHOOSE p \in paths : \A q \in paths : p = q \/ Before(p, q)
\* The answer for the first of some paths, from pairs of a path and its answer.
FirstOf(pairs) == (CHOOSE e \in pairs : e[1] = First({d[1] : d \in pairs}))[2]

\* What one path becomes before the next part: a directory to look into, or none.
Entered(view, path, afterWildcard) ==
  IF Entry(view, path).kind = "module" THEN Module(path)
  ELSE IF afterWildcard THEN Found(path) ELSE Resolve(view, path)

Children(view, directory, names) ==
  {p \in DOMAIN view : Len(p) = Len(directory) + 1 /\ Front(p) = directory /\ Last(p) \in names}

\* The paths a pattern selects.  A part is <<names, wild>>; a literal has one name.
Matched(view, pattern) ==
  LET walk[w \in [parts : Seq((SUBSET Int) \X BOOLEAN), paths : SUBSET Paths, wild : BOOLEAN]] ==
        IF w.parts = <<>>
        THEN [is |-> "paths",
              paths |-> {p \in w.paths : w.wild => p = <<>> \/ p \in DOMAIN view}]
        ELSE LET names   == Head(w.parts)[1]
                 wild    == w.wild \/ Head(w.parts)[2]
                 entered == {<<p, Entered(view, p, w.wild)>> : p \in w.paths}
                 wrong   == {e \in entered : e[2].is # "path"}
                 actual  == {e[2].path : e \in {d \in entered \ wrong : IsDirectory(view, d[2].path)}}
             IN  IF wrong # {} THEN FirstOf(wrong)
                 ELSE walk[[parts |-> Tail(w.parts), wild |-> wild,
                            paths |-> IF wild THEN UNION {Children(view, d, names) : d \in actual}
                                      ELSE {Append(d, n) : d \in actual, n \in names}]]
  IN  walk[[parts |-> pattern, paths |-> {<<>>}, wild |-> FALSE]]

\* Mutant: a directory is selected with the modules in it closed.
SelectedShallow(view, path) == Resolve(view, path)

\* Modules at or below what a path resolves to are part of the selection.
Selected(view, path) ==
  LET resolved == Resolve(view, path)
      closed   == {p \in DOMAIN view : view[p].kind = "module" /\ IsPrefix(resolved.path, p)}
  IN  IF resolved.is # "path" \/ closed = {} THEN resolved ELSE Module(First(closed))

\* CopySource::descendants: what a directory brings with it, links unfollowed.
Descendants(view, path) ==
  {<<p, view[p]>> : p \in {q \in DOMAIN view : IsDirectory(view, path) /\ IsStrictPrefix(path, q)}}

Select(view, pattern) ==
  LET walked == Matched(view, pattern)
  IN  IF walked.is # "paths" THEN walked
      ELSE IF walked.paths = {} THEN Error
      ELSE LET chosen == {<<p, Selected(view, p)>> : p \in walked.paths}
               wrong  == {e \in chosen : e[2].is # "path"}
           IN  IF wrong # {} THEN FirstOf(wrong)
               ELSE [is |-> "sources",
                     sources |-> {<<e[1], e[2].path, Descendants(view, e[2].path)>> : e \in chosen}]

StartPrepare ==
  /\ phase = "ready"
  /\ request' \in {[is |-> "copy", pattern |-> p] : p \in Patterns}
  /\ phase' = "prepare"
  /\ UNCHANGED <<tree, root, entries, complete, pending, at, links, others, result>>

\* CopySources::prepare, one turn of its loop.
Prepare ==
  /\ phase = "prepare"
  /\ LET selection == Select(entries, request.pattern)
     IN  CASE selection.is = "module" ->
                IF ~Openable(root \o selection.path) THEN Fails
                ELSE /\ Expand(selection.path)
                     /\ UNCHANGED <<tree, root, complete, phase, request, pending, at, links, others, result>>
           [] selection.is = "error" -> Fails
           [] selection.is = "sources" ->
                /\ phase' = "prepared"
                /\ UNCHANGED <<tree, root, entries, complete, request, pending, at, links, others, result>>

\* Other files and COPYs of the plan open modules before this one, or between
\* its preparation and its execution.
OtherExpands ==
  /\ phase \in {"ready", "prepared"}
  /\ \E path \in DOMAIN entries :
       /\ entries[path].kind = "module"
       /\ Expand(path)
       /\ others' = others \cup {path}
  /\ UNCHANGED <<tree, root, complete, phase, request, pending, at, links, result>>

Copy ==
  /\ phase = "prepared"
  /\ result' = Select(entries, request.pattern) /\ phase' = "copied"
  /\ UNCHANGED <<tree, root, entries, complete, request, pending, at, links, others>>

Works == StepHere \/ StepUp \/ FollowCapture \/ FollowRead \/ Captured \/ ReadEnds \/ Prepare \/ Copy
Next == Works \/ StartRead \/ StartPrepare \/ OtherExpands

Spec == Init /\ [][Next]_vars /\ WF_vars(Works)

--------------------------------------------------------------------------
(* The reference: what a path denotes, component by component. *)

\* busy: the links whose targets are being looked up; meeting one again is a cycle.
Denotes(view, path) ==
  LET walk[w \in [from : Paths, parts : Paths, busy : SUBSET Paths]] ==
        IF w.parts = <<>> THEN {w.from}
        ELSE LET name  == Head(w.parts)
                 here  == Append(w.from, name)
                 entry == Entry(view, here)
                 reached ==
                   CASE name = Here -> {w.from}
                     [] name = Up -> IF w.from = <<>> THEN {} ELSE {Front(w.from)}
                     [] name > 0 /\ entry.kind \in {"dir", "file"} -> {here}
                     [] name > 0 /\ entry.kind = "link" ->
                          IF here \in w.busy \/ Absolute(entry) THEN {}
                          ELSE walk[[w EXCEPT !.parts = Spliced(entry, <<>>), !.busy = w.busy \cup {here}]]
                     [] OTHER -> {}
             IN  IF Len(w.parts) = 1 THEN reached
                 ELSE UNION {walk[[w EXCEPT !.from = d, !.parts = Tail(w.parts)]] :
                             d \in {e \in reached : IsDirectory(view, e)}}
  IN  walk[[from |-> <<>>, parts |-> path, busy |-> {}]]

TypeOK ==
  /\ phase \in {"capture", "ready", "read", "prepare", "prepared", "copied", "failed"}
  /\ root \in DOMAIN tree \cup {<<>>} /\ links \in 0..MaxLinks
  /\ \A p \in Opened : Openable(root \o p)
  /\ \A p \in DOMAIN entries : Front(p) = <<>> \/ Entry(entries, Front(p)) = Directory

\* The context is the directory its path denotes in the commit, links resolved
\* before "..", and the walk fails on no path that denotes a directory.
ContextFound ==
  LET everything == [p \in DOMAIN tree |-> IF tree[p].kind = "module"
                       THEN [kind |-> IF Openable(p) THEN "dir" ELSE "missing"] ELSE tree[p]]
      denoted == Denotes(everything, request.path)
  IN  request.is = "context" =>
        /\ phase = "ready" => denoted = {root} /\ IsDirectory(everything, root)
        /\ phase = "failed" => \A d \in denoted : ~IsDirectory(everything, d)

\* A file is the one its path denotes inside the context, whichever modules the
\* walk or another request opened, and fails only if it denotes none.
FileFound ==
  request.is = "file" =>
    /\ result.is = "file" => Denotes(complete, request.path) = {result.path}
                             /\ complete[result.path].kind = "file"
    /\ result = Error => \A p \in Denotes(complete, request.path) : Entry(complete, p).kind # "file"

\* Lazily opened, the context gives a COPY what it would give with every module
\* open: preparing fails exactly when that selection does, and what is copied
\* later is what was prepared, whatever was opened in between.
LazyIsEager ==
  request.is = "copy" =>
    /\ phase = "copied" => result = Select(complete, request.pattern)
    /\ phase \in {"prepared", "copied"} => Select(complete, request.pattern).is = "sources"
    /\ phase = "failed" => Select(complete, request.pattern).is # "sources"

\* Every source that is copied is what its path denotes, inside the context.
SourcesDenoted ==
  result.is = "sources" => \A source \in result.sources :
    Denotes(complete, source[1]) = {source[2]}

\* Unused modules stay closed: without any one that was opened for this COPY
\* alone, there is no selection.
UnusedStayClosed ==
  request.is = "copy" /\ phase = "copied" =>
    \A m \in Opened \ others :
      LET without == [p \in {q \in DOMAIN entries : ~IsStrictPrefix(m, q)} |->
                        IF p = m THEN tree[root \o p] ELSE entries[p]]
      IN  Select(without, request.pattern).is = "module"

\* The lazily opened context answers as the complete one would.
ContextIsFaithful ==
  TypeOK /\ ContextFound /\ FileFound /\ LazyIsEager /\ SourcesDenoted /\ UnusedStayClosed

\* The loop of prepare, and the walks over links that may form cycles, end.
RequestsEnd ==
  phase \in {"capture", "read", "prepare"} ~> phase \in {"ready", "prepared", "copied", "failed"}
=============================================================================
