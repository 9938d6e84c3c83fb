---------------------------- MODULE ContextInputs ----------------------------
(* Commits with two entries at the top, two in each directory or module, links *)
(* up, across, down, to themselves and out of the context, and closed modules. *)
EXTENDS Integers, Sequences

Up == 0 - 1
Top == 0 - 2
Here == 0

Dir  == [kind |-> "dir"]
File == [kind |-> "file"]
Link(target, slash) == [kind |-> "link", target |-> target, slash |-> slash]
Sub(available) == [kind |-> "module", available |-> available]

Empty == [p \in {} |-> Dir]
Leaf(name, entry) == [p \in {<<name>>} |-> entry]
\* A directory or module with what is in it.
Holding(name, entry, inside) ==
  [p \in {<<name>>} \cup {<<name>> \o q : q \in DOMAIN inside} |->
     IF p = <<name>> THEN entry ELSE inside[Tail(p)]]
Join(f, g) == [p \in DOMAIN f \cup DOMAIN g |-> IF p \in DOMAIN f THEN f[p] ELSE g[p]]

Leaves(name) ==
  {Empty} \cup {Leaf(name, e) : e \in {File, Sub(TRUE), Link(<<Up, 2>>, FALSE),
                                      Link(<<2>>, TRUE), Link(<<1>>, FALSE)}}
Inner == {Join(f, g) : f \in Leaves(1), g \in Leaves(2) \ {Leaf(2, Link(<<1>>, FALSE))}}

Ones == {Empty, Leaf(1, Sub(FALSE))}
        \cup {Leaf(1, e) : e \in {File, Link(<<2>>, FALSE), Link(<<Top>>, FALSE), Link(<<2, 1>>, TRUE)}}
        \cup {Holding(1, Sub(TRUE), inside) : inside \in Inner}
        \cup {Holding(1, Dir, inside) : inside \in Leaves(1) \cup Leaves(2)}
Twos == {Empty, Leaf(2, Link(<<1>>, FALSE)), Leaf(2, Link(<<1, 2>>, TRUE)),
         Holding(2, Dir, Leaf(1, File)), Holding(2, Sub(TRUE), Leaf(1, Link(<<Up, 1>>, FALSE)))}

MCTrees == {Join(f, g) : f \in Ones, g \in Twos}

MCContexts == {<<>>, <<1>>, <<2, Up, 1>>}
MCFiles == {<<1>>, <<1, 2>>, <<2, 1, Here>>, <<2, Up, 1>>}

Name(n) == <<{n}, FALSE>>
Star == <<{1, 2}, TRUE>>
MCPatterns == {<<>>, <<Name(2)>>, <<Name(1), Name(2)>>, <<Star>>, <<Star, Name(2)>>, <<Name(2), Star>>,
               <<Name(2), Name(Up), Name(1)>>}
=============================================================================
