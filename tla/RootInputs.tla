------------------------------ MODULE RootInputs ------------------------------
(* Images with /a, /a/x and /a/x/y where /dev, /proc, /sys and /bin are missing, *)
(* directories, files or links to each other, to the top or into /a; with a       *)
(* shell, without one, or with a directory or a link in its place.                *)
EXTENDS Naturals, Sequences, TLC

Dir(up, name, layer) == [up |-> up, name |-> name, kind |-> "dir", to |-> <<>>, layer |-> layer]
File(up, name, layer) == [Dir(up, name, layer) EXCEPT !.kind = "file"]
Link(up, name, to, layer) == [Dir(up, name, layer) EXCEPT !.kind = "link", !.to = to]

Base == <<Dir(0, "/", "root"), Dir(0, "/", "output"), Dir(1, "a", "root"), Dir(3, "x", "root"), Dir(4, "y", "root"), Dir(1, "mnt", "root")>>
To == {<<>>, <<"a">>, <<"a", "x">>, <<"bin">>, <<"sys">>, <<"nowhere">>}
Some(up, name, layer, tos) == {<<>>, <<Dir(up, name, layer)>>} \cup {<<Link(up, name, t, layer)>> : t \in tos}

\* /bin is the last node of the image: what is in it follows.
Bins(n) ==
  {<<>>, <<Dir(1, "bin", "root")>>, <<Link(1, "bin", <<"a">>, "root")>>, <<File(1, "bin", "root")>>,
   <<Dir(1, "bin", "root"), File(n, "sh", "root")>>, <<Dir(1, "bin", "root"), Dir(n, "sh", "root")>>,
   <<Dir(1, "bin", "root"), Link(n, "sh", <<"nowhere">>, "root")>>, <<Link(1, "bin", <<"a">>, "root"), File(3, "sh", "root")>>}

Given(d, o, b, libraries, extra) ==
  [disk |-> d, over |-> o, bootstrap |-> b, absent |-> {"irq"}, libraries |-> libraries, extra |-> extra]
OutputOver == <<"root", 6>> :> <<"output", 2>>
Libraries == << <<"lib", "ld">>, <<"bin", "sh">>, <<"lib", "n", "c">>, <<"lib", "ld">> >>

Systems == Some(1, "sys", "root", {<<"a", "x">>, <<"proc">>, <<"lib">>}) \cup {<<File(1, "sys", "root")>>}
SingleOf(dev, proc, sys) ==
  {Given(Base \o dev \o proc \o sys \o bin, <<>>, FALSE, Libraries, FALSE) :
     bin \in Bins(Len(Base \o dev \o proc \o sys) + 1)}
Single ==
  UNION {SingleOf(dev, proc, sys) : dev \in Some(1, "dev", "root", {<<"a">>, <<"a", "x", "y">>, <<"bin">>}),
                                    proc \in Some(1, "proc", "root", To), sys \in Systems}
Bootstrap ==
  {[Given(Base \o proc \o out, OutputOver, TRUE, SubSeq(Libraries, 1, 2), extra) EXCEPT !.absent = absent] :
     proc \in Some(1, "proc", "root", {<<"mnt">>, <<"a">>}),
     out \in Some(2, "dev", "output", {<<"proc">>, <<"dev">>}), extra \in BOOLEAN,
     absent \in {{}, {"sys", "bus"}, {"sysrq-trigger", "irq"}}}
\* A stage filesystem (its top is node 7) over /a or over /bin.
Staged ==
  {Given(Base \o <<Dir(0, "/", "stage"), Dir(1, "bin", "root"), Link(1, "proc", <<"a">>, "root")>>,
         <<"root", n>> :> <<"root", 7>>, FALSE, Libraries, FALSE) : n \in {3, 4, 8}}
\* Names that lead through a link inside a directory that is covered later.
Within(view, top, dir, name) ==
  <<Dir(top, dir, view), Link(7, "l", <<"x">>, view), Dir(top, "x", view), Link(top, name, <<dir, "l">>, view)>>
RuntimeDirs == {"dev", "proc", "sys"}
Inner ==
  {Given(Base \o Within("root", 1, p[1], p[2]), <<>>, FALSE, Libraries, FALSE) :
     p \in {q \in {"dev", "proc", "sys", "bin"} \X RuntimeDirs : q[1] # q[2]}}
  \cup {Given(Base \o Within("output", 2, p[1], p[2]), OutputOver, TRUE, Libraries, FALSE) :
          p \in {q \in RuntimeDirs \X RuntimeDirs : q[1] # q[2]}}
MCInputs == Single \cup Bootstrap \cup Staged \cup Inner
=============================================================================
