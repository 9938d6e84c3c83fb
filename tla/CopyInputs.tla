------------------------------ MODULE CopyInputs ------------------------------
(* Images with links into, out of and around the output, a file with two names *)
(* and entries in the way; COPYs of one or two sources from either origin.     *)
EXTENDS Integers, Sequences, TLC

Up == 0 - 1
Top == 0 - 2
MntName == 1      \* the name "mnt"

Dir == [kind |-> "dir", mode |-> "kept"]
File(i) == [kind |-> "file", inode |-> i, mode |-> "kept"]
Link(to, slash) == [kind |-> "link", target |-> to, slash |-> slash]

\* What is at one name: nothing, an entry, or a directory with an entry in it.
Empty == [p \in {} |-> Dir]
At(side, path, node) == <<side, path>> :> node
In(side, path, name, node) == At(side, path, Dir) @@ At(side, Append(path, name), node)

Roots == At("root", <<>>, Dir) @@ At("output", <<>>, Dir)
Hidden == {Empty, In("root", <<MntName>>, 2, File(3))}
Twos == {Empty, At("root", <<2>>, File(1)), At("root", <<2>>, Link(<<Top, MntName>>, FALSE)),
         At("root", <<2>>, Link(<<3>>, TRUE)), In("root", <<2>>, 3, Dir),
         In("root", <<2>>, 3, Link(<<Up, Up, 3>>, FALSE)), In("root", <<2>>, 2, File(1))}
Threes == {Empty, At("root", <<3>>, File(1)), At("root", <<3>>, Link(<<2>>, FALSE)), At("root", <<3>>, Dir)}
Outputs == {Empty, At("output", <<2>>, Link(<<Up, 3>>, FALSE)), At("output", <<2>>, Link(<<Top, 2>>, FALSE)),
            In("output", <<2>>, 3, File(2))}

ImagesOf(hidden, twos, threes, outputs) ==
  {[places |-> Roots @@ h @@ t @@ u @@ o, data |-> (1 :> "old1") @@ (2 :> "old2") @@ (3 :> "old3")] :
     h \in hidden, t \in twos, u \in threes, o \in outputs}

MCImages ==
  ImagesOf(Hidden, Twos, Threes, {Empty})
  \cup ImagesOf({Empty}, {Empty, At("root", <<2>>, Link(<<3>>, TRUE))}, Threes, Outputs)

Blob(d) == [kind |-> "file", data |-> d]
One == [kind |-> "file", data |-> "new", name |-> 3]
Flat == [kind |-> "dir", name |-> 2,
         inside |-> (<<2>> :> Blob("new2")) @@ (<<3>> :> Link(<<Top, 2>>, FALSE))]
Deep == [kind |-> "dir", name |-> 2,
         inside |-> (<<2>> :> [kind |-> "dir"]) @@ (<<2, 3>> :> Blob("new3")) @@ (<<3>> :> [kind |-> "dir"])]
Device == [kind |-> "special", name |-> 3]
Devices == [kind |-> "dir", name |-> 2, inside |-> (<<3>> :> Device)]

Copies(origin, list, slashes) ==
  [origin : {origin}, bootstrap : BOOLEAN, slash : slashes, sources : list,
   path : {<<2>>, <<2, Up, 3>>, <<MntName, 2>>, <<MntName, 3, 2>>, <<3, 2>>}]
MCJobs ==
  Copies("context", {<<One>>, <<Flat>>, <<Deep>>, <<Flat, One>>, <<Deep, Flat>>}, BOOLEAN)
  \cup Copies("image", {<<One>>, <<Flat>>, <<Deep>>, <<Device>>, <<Devices>>}, {FALSE})
=============================================================================
