----------------------------- MODULE MCImageCache -----------------------------
(* Caches with one thing about them that is out of the ordinary: the tags, the  *)
(* index, the manifest, the files or the prepared scutes.                       *)
EXTENDS ImageCache

CONSTANTS b1, b2

I(n) == <<"index", n>>
M(n) == <<"manifest", n>>
B(n) == <<"blob", n>>
S(n) == <<"scute", n>>

Tag == [name |-> "t", digest |-> I(1)]
Platform == [os |-> "pichi", architecture |-> "amd64", variant |-> None]
Entry == [artifact |-> TRUE, platform |-> Platform, manifest |-> TRUE, digest |-> M(1), size |-> 2]
Entries ==
  {Entry, [Entry EXCEPT !.artifact = FALSE], [Entry EXCEPT !.manifest = FALSE], [Entry EXCEPT !.size = 1],
   [Entry EXCEPT !.platform.os = "linux"], [Entry EXCEPT !.platform.architecture = "arm64"],
   [Entry EXCEPT !.platform.variant = "v9"],
   [Entry EXCEPT !.platform.variant = "v8", !.digest = M(2)],
   [Entry EXCEPT !.platform.architecture = "arm64", !.platform.variant = "v8", !.digest = M(2)]}

Root1 == <<Zero, b1>>
Root2 == <<Root1, b2>>
Base == [kind |-> "scute", digest |-> S(1), size |-> 2, blocks |-> 2, salt |-> Zero]
Tip == [kind |-> "scute+zstd", digest |-> S(2), size |-> 2, blocks |-> 3, salt |-> Root1]
Pmi == [kind |-> "pmi", digest |-> B(1), size |-> 2]
Boot == [kind |-> "boot", digest |-> B(2), size |-> 2]
NoConfig == [kind |-> "empty", digest |-> B(2), size |-> 2]
Bare == [artifact |-> TRUE, config |-> NoConfig, envelope |-> TRUE, root |-> None, form |-> None, algo |-> None,
         overrides |-> TRUE, blockSize |-> 1, layers |-> <<>>]
Firmware == [Bare EXCEPT !.layers = <<Pmi, Boot>>]
Rooted == [Bare EXCEPT !.root = Root2, !.form = "qualified", !.layers = <<Base, Tip>>]
Full == [Rooted EXCEPT !.layers = <<Base, Pmi, Tip>>, !.config = [kind |-> "config", digest |-> B(2), size |-> 2]]

Manifests ==
  {Bare, Firmware, Full,
   [Bare EXCEPT !.artifact = FALSE], [Bare EXCEPT !.config.kind = "other"], [Bare EXCEPT !.envelope = FALSE],
   [Bare EXCEPT !.root = Root1, !.form = "qualified"], [Bare EXCEPT !.layers = <<Boot>>],
   [Bare EXCEPT !.layers = <<Pmi, Pmi>>], [Bare EXCEPT !.layers = <<Pmi, Boot, Boot>>],
   [Firmware EXCEPT !.layers[2].size = 3],
   [Rooted EXCEPT !.form = "bare", !.algo = "sha256"], [Rooted EXCEPT !.algo = "sha256"],
   [Rooted EXCEPT !.form = "bare"], [Rooted EXCEPT !.root = None], [Rooted EXCEPT !.root = Zero],
   [Rooted EXCEPT !.root = Malformed], [Rooted EXCEPT !.root = Root1], [Rooted EXCEPT !.overrides = FALSE],
   [Rooted EXCEPT !.blockSize = 0], [Rooted EXCEPT !.blockSize = 2], [Rooted EXCEPT !.layers[2].blocks = 9],
   [Rooted EXCEPT !.layers = <<Tip, Base>>], [Rooted EXCEPT !.layers = <<Tip>>],
   [Rooted EXCEPT !.layers = <<Base>>], [Rooted EXCEPT !.layers = <<Base, Tip, Tip>>],
   [Rooted EXCEPT !.layers[1].salt = Malformed]}

\* The base is one block of data; the tip has a tree over three.
One == [sha256 |-> TRUE, salt |-> Zero, extent |-> TRUE, size |-> 1, block |-> Malformed, single |-> TRUE]
Raw == [sha256 |-> TRUE, salt |-> Zero, extent |-> TRUE, size |-> 2, block |-> b1, single |-> FALSE]
Tree == [sha256 |-> TRUE, salt |-> Root1, extent |-> TRUE, size |-> 3, block |-> b2, single |-> FALSE]
Deflated == (3 :> <<b2, b2, b2>>) @@ (1 :> <<b1>>)
Of(variants) == [variants |-> variants, deflated |-> Deflated]
Bases == {<<Raw>>, <<One>>, <<Raw, One>>, <<[Raw EXCEPT !.salt = Malformed]>>, <<[Raw EXCEPT !.block = b2], One>>}
Tips ==
  {<<Tree>>, <<>>, <<Tree, Tree>>, <<[Tree EXCEPT !.sha256 = FALSE], Tree>>, <<[Tree EXCEPT !.block = b1], Tree>>,
   <<[Tree EXCEPT !.salt = Zero], Tree>>, <<Tree, [Tree EXCEPT !.salt = Malformed]>>,
   <<[Tree EXCEPT !.extent = FALSE]>>, <<[Tree EXCEPT !.size = 2]>>}

Files == [n \in {I(1), I(2), M(1), M(2), B(1), B(2), S(1), S(2)} |-> Whole(n)]
Usual ==
  [host |-> "amd64", reference |-> [digest |-> None, name |-> "t"], tags |-> <<Tag>>,
   indexes |-> (I(1) :> <<Entry>>) @@ (I(2) :> <<[Entry EXCEPT !.digest = M(2)]>>),
   manifests |-> (M(1) :> Full) @@ (M(2) :> Firmware),
   limit |-> 1, store |-> Files, prepared |-> (S(1) :> Of(<<Raw>>)) @@ (S(2) :> Of(<<Tree>>))]

OtherTags == {<<>>, <<Tag, Tag>>, <<Tag, [Tag EXCEPT !.name = "u"]>>, <<Tag, [Tag EXCEPT !.digest = I(2)]>>}
MCWorlds ==
  {[Usual EXCEPT !.tags = t, !.reference.digest = d] : t \in OtherTags, d \in {None, I(1)}}
  \cup {[Usual EXCEPT !.indexes[I(1)] = index, !.host = host, !.manifests[M(1)] = Bare] :
          index \in {<<>>} \cup {<<e>> : e \in Entries} \cup Entries \X Entries, host \in {"amd64", "arm64"}}
  \cup {[Usual EXCEPT !.manifests[M(1)] = m] : m \in Manifests}
  \cup {[Usual EXCEPT !.manifests[M(1)] = m, !.limit = 2] : m \in {Firmware, Rooted}}
  \cup {[Usual EXCEPT !.store[n] = c] : n \in {I(1), M(1), B(1)}, c \in {<<B(1)>>, <<B(2), B(1)>>}}
  \cup {[Usual EXCEPT !.manifests[M(1)] = Rooted, !.prepared = (S(1) :> Of(b)) @@ (S(2) :> Of(t))] :
          b \in Bases, t \in Tips}
  \cup {[Usual EXCEPT !.manifests[M(1)] = [Rooted EXCEPT !.root = <<<<Zero, S(1)>>, b2>>],
                      !.prepared[S(1)] = Of(<<[Raw EXCEPT !.single = TRUE]>>),
                      !.prepared[S(2)] = Of(<<[Tree EXCEPT !.salt = <<Zero, S(1)>>]>>)],
        [Usual EXCEPT !.manifests[M(1)] = Rooted, !.prepared = S(1) :> Of(<<Raw>>)],
        [Usual EXCEPT !.store = [n \in DOMAIN Files \ {S(2)} |-> Whole(n)]],
        [Usual EXCEPT !.manifests[M(1)] = [Rooted EXCEPT !.layers = <<Base>>],
                      !.prepared[S(1)] = Of(<<[Raw EXCEPT !.salt = Root1, !.block = b2]>>)]}
=============================================================================
