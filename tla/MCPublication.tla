---------------------------- MODULE MCPublication ----------------------------
(***************************************************************************)
(* Three outputs: an inherited image, one whose only layer is sealed, and  *)
(* one that seals a layer on top of an inherited layer.  Every sealed      *)
(* stream has the digest of the inherited layer.                           *)
(***************************************************************************)
EXTENDS Publication

CONSTANTS config, layer, pmi, s1, s2

MCBlobs == {config, layer, pmi}
MCScutes == {s1, s2}
MCBlobOf == [s \in MCScutes |-> layer]
MCSelections == {
    [items |-> <<config, layer, pmi>>, metadata |-> {config, pmi}],
    [items |-> <<config, s1>>, metadata |-> {config}],
    [items |-> <<config, layer, s1, s2, pmi>>, metadata |-> {config, pmi}]}
=============================================================================
