------------------------------- MODULE CopyWalk -------------------------------
(***************************************************************************)
(* What a COPY writes (src/src/copy/destination): the destination is       *)
(* resolved with the links of the image that is being built, then each     *)
(* source is written call by call, from the build context or from an       *)
(* earlier stage.  Any call may fail and end the COPY where it is.         *)
(*                                                                         *)
(* The image has two trees: in a bootstrap stage the output is seen at     *)
(* Mnt over the tools, and hides what the tools have there.  Files are     *)
(* inodes, so that several places may name one.  Names are numbers in the  *)
(* order of the names.                                                     *)
(***************************************************************************)
EXTENDS Integers, Sequences, FiniteSets, TLC, SequencesExt

CONSTANTS
  Images,    \* initial trees: [places, data]
  Jobs,      \* COPYs: [origin, bootstrap, path, slash, sources]
  Mnt,       \* the name "mnt"
  MaxLinks   \* links a resolution follows (40)

Here == 0
Up == 0 - 1
Top == 0 - 2

VARIABLES
  job,      \* the directive and its sources
  places,   \* the trees: [dir, mode], [file, inode, mode] or [link, target, slash] at each place
  data,     \* what each inode holds
  phase,    \* the call that comes next
  target,   \* the resolved destination
  source,   \* the number of the source at hand
  left,     \* its descendants that are not written
  open,     \* the directory of an earlier stage that is being read
  goal, made, after, \* directory(goal): how many names are there, and what follows
  leaf,     \* the file or link that is being written
  before,   \* history: the trees at the start
  fault     \* history: a call failed

vars == <<job, places, data, phase, target, source, left, open, goal, made, after, leaf, before, fault>>
tree == <<places, data>>
walk == <<target, source, left, open>>
directory == <<goal, made, after>>
fixed == <<job, before>>

Nothing == [path |-> <<>>, entry |-> [kind |-> "none"]]
Init ==
  /\ job \in Jobs
  /\ \E image \in Images : places = image.places /\ data = image.data /\ before = image
  /\ phase = "start" /\ target = <<>> /\ source = 0 /\ left = {} /\ open = <<>>
  /\ goal = <<>> /\ made = 0 /\ after = "next" /\ leaf = Nothing /\ fault = FALSE

--------------------------------------------------------------------------
(* Where a path of the image is, and what its links make of it. *)

\* CopyDestination::location
Location(path) ==
  IF job.bootstrap /\ path # <<>> /\ Head(path) = Mnt
  THEN <<"output", Tail(path)>> ELSE <<"root", path>>

Missing == [kind |-> "missing"]
Observe(path) == IF Location(path) \in DOMAIN places THEN places[Location(path)] ELSE Missing
IsDirectory(path) == Observe(path).kind = "dir"

Spliced(node, rest) == node.target \o (IF node.slash THEN <<Here>> ELSE <<>>) \o rest
Error == <<Top>>
Paths == Seq(Int)

\* Mutant: a link at the end of a path is followed wherever it is met.
ResolveThrough(path, followFinal) ==
  LET go[w \in [parts : Paths, at : Paths, links : 0..MaxLinks]] ==
        IF w.parts = <<>> THEN w.at
        ELSE LET name == Head(w.parts)
                 rest == Tail(w.parts)
                 here == Append(w.at, name)
                 node == Observe(here)
             IN  CASE name = Top -> go[[w EXCEPT !.parts = rest, !.at = <<>>]]
                   [] name = Here -> go[[w EXCEPT !.parts = rest]]
                   [] name = Up -> go[[w EXCEPT !.parts = rest, !.at = IF @ = <<>> THEN @ ELSE Front(@)]]
                   [] name > 0 /\ node.kind = "link" ->
                        IF w.links = MaxLinks THEN Error
                        ELSE go[[w EXCEPT !.parts = Spliced(node, rest), !.links = @ + 1]]
                   [] OTHER -> go[[w EXCEPT !.parts = rest, !.at = here]]
  IN  go[[parts |-> path, at |-> <<>>, links |-> 0]]

Resolve(path, followFinal) ==
  LET go[w \in [parts : Paths, at : Paths, links : 0..MaxLinks]] ==
        IF w.parts = <<>> THEN w.at
        ELSE LET name == Head(w.parts)
                 rest == Tail(w.parts)
                 here == Append(w.at, name)
                 node == Observe(here)
             IN  CASE name = Top -> go[[w EXCEPT !.parts = rest, !.at = <<>>]]
                   [] name = Here -> go[[w EXCEPT !.parts = rest]]
                   [] name = Up -> go[[w EXCEPT !.parts = rest, !.at = IF @ = <<>> THEN @ ELSE Front(@)]]
                   [] name > 0 /\ node.kind = "link" /\ (followFinal \/ rest # <<>>) ->
                        IF w.links = MaxLinks THEN Error
                        ELSE go[[w EXCEPT !.parts = Spliced(node, rest), !.links = @ + 1]]
                   [] name > 0 /\ node.kind = "file" /\ rest # <<>> -> Error
                   [] OTHER -> go[[w EXCEPT !.parts = rest, !.at = here]]
  IN  go[[parts |-> path, at |-> <<>>, links |-> 0]]

--------------------------------------------------------------------------
(* The calls. *)

Fails == phase' = "failed" /\ UNCHANGED <<fixed, tree, walk, directory, leaf, fault>>

\* directory(path), and what follows it.
Directory(path, next) == phase' = "directory" /\ goal' = path /\ made' = 0 /\ after' = next

\* leaf(path, entry) and image_leaf(path): the checks before the first call.
Refuses(path, entry) == entry.kind = "special" \/ path = <<>> \/ IsDirectory(path)
Leaf(path, entry) ==
  IF Refuses(path, entry) THEN phase' = "failed" /\ UNCHANGED <<directory, leaf>>
  ELSE Directory(Front(path), "unlink") /\ leaf' = [path |-> path, entry |-> entry]

Several == job.origin = "context" /\ Len(job.sources) > 1 /\ ~job.slash
Start ==
  /\ phase = "start"
  /\ LET to == Resolve(<<Top>> \o job.path, TRUE)
     IN  IF Several \/ to = Error \/ \E i \in DOMAIN job.sources : job.sources[i].kind = "special"
         THEN Fails
         ELSE /\ target' = to
              /\ IF job.slash THEN Directory(to, "next") ELSE phase' = "next" /\ UNCHANGED directory
              /\ UNCHANGED <<fixed, tree, source, left, open, leaf, fault>>

\* One name of directory(): an existing directory is entered, whoever made it.
Mkdir ==
  /\ phase = "directory" /\ made < Len(goal)
  /\ LET path == SubSeq(goal, 1, made + 1)
         node == Observe(path)
     IN  CASE node.kind = "dir" ->
                /\ made' = made + 1
                /\ UNCHANGED <<fixed, tree, walk, phase, goal, after, leaf, fault>>
           [] node.kind = "missing" ->
                /\ places' = places @@ (Location(path) :> [kind |-> "dir", mode |-> "made"])
                /\ phase' = "own"
                /\ UNCHANGED <<fixed, data, walk, directory, leaf, fault>>
           [] OTHER -> Fails

OwnAt(path) == places' = [places EXCEPT ![Location(path)].mode = "set"]
Own ==
  /\ phase = "own"
  /\ OwnAt(SubSeq(goal, 1, made + 1))
  /\ made' = made + 1 /\ phase' = "directory"
  /\ UNCHANGED <<fixed, data, walk, goal, after, leaf, fault>>

Made ==
  /\ phase = "directory" /\ made = Len(goal)
  /\ phase' = after
  /\ UNCHANGED <<fixed, tree, walk, directory, leaf, fault>>

\* A directory of the context sets the mode of the one it meets.
OwnNamed ==
  /\ phase = "mode" /\ OwnAt(goal) /\ phase' = "next"
  /\ UNCHANGED <<fixed, data, walk, directory, leaf, fault>>

NextSource ==
  /\ phase = "next" /\ left = {} /\ source < Len(job.sources)
  /\ source' = source + 1 /\ open' = <<>>
  /\ LET next == job.sources[source + 1]
     IN  IF next.kind = "dir"
         THEN /\ Directory(target, "next") /\ left' = DOMAIN next.inside /\ UNCHANGED leaf
         ELSE /\ Leaf(IF IsDirectory(target) THEN Append(target, next.name) ELSE target, next)
              /\ left' = {}
  /\ UNCHANGED <<fixed, tree, target, fault>>

Precedes(p, q) ==
  \/ IsStrictPrefix(p, q)
  \/ \E n \in 1..Len(p) : n <= Len(q) /\ p[n] < q[n] /\ SubSeq(p, 1, n - 1) = SubSeq(q, 1, n - 1)

\* A context is written in the order of its paths, a stage in the order its
\* directories are read: those inside the last one that was opened first.
Unread(path) == \E p \in left : IsStrictPrefix(path, p)
Within(path) == {p \in left : Front(p) = path}
Candidates ==
  IF job.origin = "context" THEN {p \in left : \A q \in left : p = q \/ Precedes(p, q)}
  ELSE LET deepest == CHOOSE d \in Prefixes(open) : Unread(d)
                        /\ \A e \in Prefixes(open) : Unread(e) => IsPrefix(e, d)
       IN  Within(deepest)

NextEntry ==
  /\ phase = "next" /\ left # {}
  /\ \E relative \in Candidates :
       LET entry == job.sources[source].inside[relative]
           path  == Resolve(target \o relative, FALSE)
       IN  /\ left' = left \ {relative}
           /\ open' = IF entry.kind = "dir" THEN relative ELSE Front(relative)
           /\ IF path = Error THEN phase' = "failed" /\ UNCHANGED <<directory, leaf>>
              ELSE IF entry.kind = "dir"
              THEN Directory(path, IF job.origin = "context" THEN "mode" ELSE "next") /\ UNCHANGED leaf
              ELSE Leaf(path, entry)
  /\ UNCHANGED <<fixed, tree, target, source, fault>>

Place == Location(leaf.path)
Unlink ==
  /\ phase = "unlink" /\ phase' = "create"
  /\ places' = [p \in DOMAIN places \ {Place} |-> places[p]]
  /\ UNCHANGED <<fixed, data, walk, directory, leaf, fault>>

NewInode == CHOOSE i \in 1..(Cardinality(DOMAIN data) + 1) : i \notin DOMAIN data
Create ==
  /\ phase = "create" /\ Place \notin DOMAIN places
  /\ IF leaf.entry.kind = "link"
     THEN places' = places @@ (Place :> leaf.entry) /\ UNCHANGED data
     ELSE /\ places' = places @@ (Place :> [kind |-> "file", inode |-> NewInode, mode |-> "made"])
          /\ data' = data @@ (NewInode :> "empty")
  /\ phase' = IF leaf.entry.kind = "link" THEN "next" ELSE "write"
  /\ UNCHANGED <<fixed, walk, directory, leaf, fault>>

Write ==
  /\ phase = "write" /\ phase' = "finish"
  /\ data' = [data EXCEPT ![places[Place].inode] = leaf.entry.data]
  /\ UNCHANGED <<fixed, places, walk, directory, leaf, fault>>

Finish ==
  /\ phase = "finish" /\ OwnAt(leaf.path) /\ phase' = "next"
  /\ UNCHANGED <<fixed, data, walk, directory, leaf, fault>>

Done ==
  /\ phase = "next" /\ left = {} /\ source = Len(job.sources) /\ phase' = "done"
  /\ UNCHANGED <<fixed, tree, walk, directory, leaf, fault>>

\* A call returns an error, the blob of a file does not verify, a file of a
\* stage changes its length, or the time for setting up is over.
Fault ==
  /\ phase \notin {"done", "failed"} /\ phase' = "failed" /\ fault' = TRUE
  /\ UNCHANGED <<fixed, tree, walk, directory, leaf>>

Works == \/ Start \/ Mkdir \/ Own \/ Made \/ OwnNamed \/ NextSource \/ NextEntry
         \/ Unlink \/ Create \/ Write \/ Finish \/ Done
Next == Works \/ Fault
Spec == Init /\ [][Next]_vars /\ WF_vars(Works)
--------------------------------------------------------------------------
(* The reference: the image as it is seen, what a path denotes in it, and the *)
(* image with the sources laid over it.                                       *)

Shown(image) ==
  LET seen == {l \in DOMAIN image.places : IF l[1] = "output" THEN job.bootstrap
                 ELSE ~(job.bootstrap /\ l[2] # <<>> /\ Head(l[2]) = Mnt)}
      PathOf(l) == IF l[1] = "output" THEN <<Mnt>> \o l[2] ELSE l[2]
      PlaceOf(path) == CHOOSE l \in seen : PathOf(l) = path
      Node(node) == IF node.kind = "file"
                    THEN [kind |-> "file", data |-> image.data[node.inode], mode |-> node.mode]
                    ELSE node
  IN  [path \in {PathOf(l) : l \in seen} |-> Node(image.places[PlaceOf(path)])]

Kind(view, path) == IF path \in DOMAIN view THEN view[path].kind ELSE "missing"

\* The places a path denotes, one or none: a link stands for what its target
\* denotes, ".." is the parent of what was reached, and what is not there is
\* where its name says.
Denotes(view, path) ==
  LET go[w \in [from : Paths, parts : Paths, busy : SUBSET Paths]] ==
        LET name == Head(w.parts)
            here == Append(w.from, name)
            reached ==
              CASE name = Top -> {<<>>}
                [] name = Here -> {w.from}
                [] name = Up -> {IF w.from = <<>> THEN <<>> ELSE Front(w.from)}
                [] name > 0 /\ Kind(view, here) = "link" ->
                     IF here \in w.busy THEN {}
                     ELSE {p \in go[[from |-> w.from, parts |-> view[here].target, busy |-> w.busy \cup {here}]] :
                             view[here].slash => Kind(view, p) # "file"}
                [] OTHER -> {here}
        IN  IF Len(w.parts) = 1 THEN reached
            ELSE UNION {go[[w EXCEPT !.from = p, !.parts = Tail(w.parts)]] :
                        p \in {q \in reached : Kind(view, q) # "file"}}
  IN  go[[from |-> <<>>, parts |-> path, busy |-> {}]]

Destination == Denotes(Shown(before), <<Top>> \o job.path)

\* Some entries laid over a directory that is made with its parents.
Overlaid(over, base, inside) ==
  LET view  == over.view
      At(r) == base \o r
      Kept(p) == IF p \in DOMAIN view THEN view[p] ELSE [kind |-> "dir", mode |-> "set"]
      Put(r) == CASE inside[r].kind = "file" -> [kind |-> "file", data |-> inside[r].data, mode |-> "set"]
                  [] inside[r].kind = "dir" ->
                       IF job.origin = "context" THEN [kind |-> "dir", mode |-> "set"] ELSE Kept(At(r))
                  [] OTHER -> inside[r]
  IN  [fits |-> /\ over.fits
                /\ \A p \in Prefixes(base) : Kind(view, p) \in {"dir", "missing"}
                /\ \A r \in DOMAIN inside :
                     IF inside[r].kind = "dir" THEN Kind(view, At(r)) \in {"dir", "missing"}
                     ELSE Kind(view, At(r)) # "dir" /\ inside[r].kind # "special",
       view |-> [p \in DOMAIN view \cup Prefixes(base) \cup {At(r) : r \in DOMAIN inside} |->
                   IF \E r \in DOMAIN inside : p = At(r)
                   THEN Put(SubSeq(p, Len(base) + 1, Len(p))) ELSE Kept(p)]]

Expected ==
  LET to     == CHOOSE d \in Destination : TRUE
      start  == [fits |-> TRUE, view |-> Shown(before)]
      Lay(over, next) ==
        IF next.kind = "dir" THEN Overlaid(over, to, next.inside)
        ELSE IF Kind(over.view, to) = "dir" THEN Overlaid(over, to, <<next.name>> :> next)
        ELSE Overlaid(over, Front(to), <<Last(to)>> :> next)
  IN  IF Destination = {} \/ (job.origin = "context" /\ Len(job.sources) > 1 /\ ~job.slash)
      THEN [start EXCEPT !.fits = FALSE]
      ELSE FoldLeft(Lay, IF job.slash THEN Overlaid(start, to, <<>>) ELSE start, job.sources)

\* Where the sources go.
Targets ==
  UNION {UNION {IF job.sources[i].kind = "dir" THEN {to \o r : r \in DOMAIN job.sources[i].inside}
                ELSE {to, Append(to, job.sources[i].name)} : i \in DOMAIN job.sources} : to \in Destination}

TypeOK ==
  /\ phase \in {"start", "directory", "own", "mode", "next", "unlink", "create", "write", "finish", "done", "failed"}
  /\ made \in 0..Len(goal) /\ source \in 0..Len(job.sources)
  /\ \A l \in DOMAIN places : l[2] = <<>> \/ (<<l[1], Front(l[2])>> \in DOMAIN places
                                                /\ places[<<l[1], Front(l[2])>>].kind = "dir")
  /\ \A l \in DOMAIN places : places[l].kind = "file" => places[l].inode \in DOMAIN data

\* A COPY that succeeds leaves the image with its sources laid over it, as a
\* program inside it would see it: every entry, its contents and its mode.
Landed == phase = "done" => Expected.fits /\ Shown([places |-> places, data |-> data]) = Expected.view

\* With no call failing, a COPY is refused only where the sources do not fit.
RefusesOnlyConflicts == phase = "failed" /\ ~fault => ~Expected.fits

\* Wherever a COPY stops, it changed nothing but where its sources go: no file
\* is written through another name or a link, what the output hides stays, no
\* directory is replaced, and what is new leads to a target.
OthersUntouched ==
  LET targets == {Location(p) : p \in Targets}
  IN  /\ \A i \in DOMAIN before.data : data[i] = before.data[i]
      /\ \A l \in DOMAIN before.places : l \notin targets => l \in DOMAIN places /\ places[l] = before.places[l]
      /\ \A l \in DOMAIN before.places : before.places[l].kind = "dir" => l \in DOMAIN places /\ places[l].kind = "dir"
      /\ \A l \in DOMAIN places \ DOMAIN before.places :
           \E p \in Targets \cup Destination : l \in {Location(q) : q \in Prefixes(p)}

\* A COPY writes its sources where they belong, and nothing else.
CopiesExactly == TypeOK /\ Landed /\ RefusesOnlyConflicts /\ OthersUntouched

\* Every COPY ends, links in cycles or not.
CopyEnds == <>(phase \in {"done", "failed"})
=============================================================================
