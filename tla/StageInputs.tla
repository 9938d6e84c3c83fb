------------------------------ MODULE StageInputs -----------------------------
(* An image with directories /a and /e and a link /c; the stage mounts something on a   *)
(* missing directory, below another mount or behind the link.  A bootstrap stage has an  *)
(* empty output of its own, and the image, that may have a link /mnt, is its tools.      *)
EXTENDS Naturals, FiniteSets, TLC

CONSTANT None

Names2 == {"a", "n"}
Top0 == [up |-> None, name |-> "", link |-> FALSE]
Tops(n) == [d \in {<<i, 0>> : i \in 0..(n + 1)} |-> Top0]
Entry(fs, i, name, link) == <<fs, i>> :> [up |-> <<fs, 0>>, name |-> name, link |-> link]
Image(fs, last, link) == Entry(fs, 1, "a", FALSE) @@ Entry(fs, 2, "c", TRUE) @@ Entry(fs, 3, last, link)

MCCases ==
  {[plan |-> p, bootstrap |-> FALSE, dirs |-> Tops(Cardinality(p)) @@ Image(0, "e", FALSE)] :
     p \in {{<<"a", "b">>}, {<<"a", "b">>, <<"a", "n">>, <<"a">>}, {<<"c", "b">>}}}
  \cup {[plan |-> p, bootstrap |-> TRUE, dirs |-> Tops(Cardinality(p)) @@ Image(Cardinality(p) + 1, x[1], x[2])] :
     p \in {{<<"a", "b">>, <<"a">>}, {<<"mnt">>}}, x \in {<<"e", FALSE>>, <<"mnt", TRUE>>}}
=============================================================================
