------------------------------ MODULE ImageCache ------------------------------
(***************************************************************************)
(* How a build reads an input image from the local cache (src/src/cache):  *)
(* a reference is pinned, the index and the manifest are captured, the     *)
(* small blobs are verified, the prepared scutes of the chain are found    *)
(* and, for the output, the blobs are copied.  Other programs own the      *)
(* cache: any file in it may change before, between and during reads.      *)
(*                                                                         *)
(* A blob is named by the digest of its bytes: the file named n is whole   *)
(* when it holds <<n, n>>, and the digest of any other bytes is not n.     *)
(* The root of a scute is the hash of its salt, which starts with the root *)
(* of its parent, and of one block: here the pair of the two.              *)
(***************************************************************************)
EXTENDS Naturals, Sequences, FiniteSets, TLC, SequencesExt

CONSTANTS
  Worlds,       \* caches and the meaning of their documents
  MaxMetadata,  \* MAX_METADATA_BYTES
  Blocks,       \* root blocks others write
  Overflow,     \* the first extent that does not fit a u64
  None, Malformed  \* model values: nothing, what does not parse

VARIABLES
  world,     \* [host, reference, tags, indexes, manifests, store, prepared, limit]
  store,     \* what each file holds
  prepared,  \* the prepared variants of each scute
  changes,   \* how often others changed the cache, at most world.limit (a bound)
  phase, file, got,     \* the read in progress: the open file, the bytes so far
  pin, selected, image, \* the index, the descriptor in it, the manifest
  queue, receipts,      \* blobs to read, and what successful reads delivered
  left, parent, todo, header, choice, found \* the chain, from the tip down

others == <<store, prepared, changes>>
reading == <<file, got>>
metadata == <<pin, selected, image>>
blobs == <<queue, receipts>>
chain == <<left, parent, todo, header, choice, found>>
vars == <<world, others, phase, reading, metadata, blobs, chain>>

Zero == <<>>
Whole(n) == <<n, n>>

\* A whole document is not too large, and a file has a twin (Twin).
SizesAssumption == MaxMetadata \in Nat /\ MaxMetadata >= 2 /\ \A w \in Worlds : w.limit \in Nat
ASSUME SizesAssumption

IsSequence(s) == s \in Seq(Range(s))

\* Documents, layers and prepared variants are lists, files hold bytes.
WorldsAssumption ==
  \A w \in Worlds :
    /\ IsSequence(w.tags) /\ \A n \in DOMAIN w.indexes : IsSequence(w.indexes[n])
    /\ \A n \in DOMAIN w.manifests : w.manifests[n] # None /\ IsSequence(w.manifests[n].layers)
    /\ \A n \in DOMAIN w.store : n[2] \in 1..2 /\ w.store[n] \in Seq(DOMAIN w.store)
    /\ \A s \in DOMAIN w.prepared : IsSequence(w.prepared[s].variants)
ASSUME WorldsAssumption

\* What a sequence has at some of its positions, in order.
Filtered(s, positions) ==
  LET upto[i \in 0..Len(s)] ==
        IF i = 0 THEN <<>> ELSE IF i \in positions THEN Append(upto[i - 1], s[i]) ELSE upto[i - 1]
  IN  upto[Len(s)]

Least(a, b) == IF a < b THEN a ELSE b

Init ==
  /\ world \in Worlds
  /\ store = world.store /\ prepared = world.prepared /\ changes = 0
  /\ phase = "reference" /\ file = None /\ got = <<>>
  /\ pin = None /\ selected = None /\ image = None
  /\ queue = <<>> /\ receipts = {}
  /\ left = <<>> /\ parent = Zero /\ todo = {} /\ header = None /\ choice = None /\ found = <<>>

Ended == phase \in {"done", "failed"}
Refuse == phase' = "failed" /\ UNCHANGED <<world, others, reading, metadata, blobs, chain>>

--------------------------------------------------------------------------
(* The rest of the host. *)

\* Files of one kind come in pairs: what is written in place of one is part of the other.
Twin(n) == <<n[1], 3 - n[2]>>
Contents(n) == {<<n>>, <<n, Twin(n)>>, Whole(Twin(n)), <<n, n, n>>, <<n, n, n, n>>, Whole(n)}

\* A file is written in place, which an open handle sees, or replaced, which it does not.
Change ==
  /\ ~Ended /\ changes < world.limit
  /\ \E n \in DOMAIN store, c \in UNION {Contents(n) : n \in DOMAIN store} :
       /\ c \in Contents(n) \ {store[n]}
       /\ store' = [store EXCEPT ![n] = c]
       /\ \/ file # None /\ file.name = n /\ file' = [file EXCEPT !.content = c]
          \/ UNCHANGED file
  /\ changes' = changes + 1
  /\ UNCHANGED <<world, prepared, phase, got, metadata, blobs, chain>>

Unlink ==
  /\ ~Ended /\ changes < world.limit
  /\ \E n \in DOMAIN store : store' = [m \in DOMAIN store \ {n} |-> store[m]]
  /\ changes' = changes + 1
  /\ UNCHANGED <<world, prepared, phase, reading, metadata, blobs, chain>>

\* Another build prepares a scute again while its variants are being read.
Prepare ==
  /\ phase = "discover" /\ changes < world.limit
  /\ \E s \in DOMAIN prepared : \E v \in DOMAIN prepared[s].variants :
       \E b \in Blocks : \E salt \in {Zero, <<Zero, b>>, prepared[s].variants[v].salt} :
         /\ prepared' = [prepared EXCEPT ![s].variants[v].salt = salt, ![s].variants[v].block = b]
         /\ prepared' # prepared
  /\ changes' = changes + 1
  /\ UNCHANGED <<world, store, phase, reading, metadata, blobs, chain>>

--------------------------------------------------------------------------
(* A reference is a digest, or a tag of the cache's own index. *)

Tagged == {i \in DOMAIN world.tags : world.tags[i].name = world.reference.name}

CachedIndex ==
  /\ phase = "reference"
  /\ IF world.reference.digest = None /\ Cardinality(Tagged) # 1
     THEN Refuse
     ELSE /\ IF world.reference.digest # None THEN pin' = world.reference.digest
             ELSE \E i \in Tagged : pin' = world.tags[i].digest
          /\ phase' = "index"
          /\ UNCHANGED <<world, others, reading, selected, image, blobs, chain>>

--------------------------------------------------------------------------
(* Captured metadata. *)

\* Cache::read_metadata_file up to the read: the size is checked first.
OpenMetadata(name, expected) ==
  /\ file = None
  /\ IF name \notin DOMAIN store \/ Len(store[name]) > MaxMetadata \/ Len(store[name]) \notin expected
     THEN Refuse
     ELSE /\ file' = [name |-> name, content |-> store[name], size |-> Len(store[name])]
          /\ got' = <<>>
          /\ UNCHANGED <<world, others, phase, metadata, blobs, chain>>

\* One byte more than the size that was checked shows that a file has grown.
Capture == SubSeq(file.content, 1, Least(file.size + 1, Len(file.content)))

Authentic(bytes) == Len(bytes) = file.size /\ bytes = Whole(file.name)

\* What bytes that were accepted say.
Names(documents) == {n \in DOMAIN documents : Whole(n) = got'}

\* HostArchitecture::matches
Matches(host, p) ==
  /\ p.os = "pichi" /\ p.architecture = host
  /\ p.variant \in {None, ""} \/ (p.variant = "v8" /\ host = "arm64")

Candidates(index) == {i \in DOMAIN index : index[i].artifact /\ Matches(world.host, index[i].platform)}

\* Two candidates are ambiguous, and the one there is has to be a manifest.
Selects(index, i) == Candidates(index) = {i} /\ index[i].manifest

OpenIndex == phase = "index" /\ OpenMetadata(pin, Nat)

\* Cache::resolve up to the selected descriptor.
ReadIndex ==
  /\ phase = "index" /\ file # None
  /\ got' = Capture
  /\ IF Authentic(got') /\ \E n \in Names(world.indexes) : \E i \in DOMAIN world.indexes[n] : Selects(world.indexes[n], i)
     THEN /\ \E n \in Names(world.indexes) : \E i \in DOMAIN world.indexes[n] :
               Selects(world.indexes[n], i) /\ selected' = world.indexes[n][i]
          /\ phase' = "manifest"
     ELSE phase' = "failed" /\ UNCHANGED selected
  /\ file' = None
  /\ UNCHANGED <<world, others, pin, image, blobs, chain>>

OpenManifest == phase = "manifest" /\ OpenMetadata(selected.digest, {selected.size})

IsScute(layer) == layer.kind \in {"scute", "scute+zstd"}
HasScutes(m) == \E i \in DOMAIN m.layers : IsScute(m.layers[i])

\* Manifest::carapace_root: a commitment goes with scutes, in one of two forms.
RootIsWellFormed(m) ==
  IF m.root = None THEN ~HasScutes(m)
  ELSE HasScutes(m) /\ <<m.form, m.algo>> \in {<<"qualified", None>>, <<"bare", "sha256">>} /\ m.root \notin {Malformed, Zero}

Count(m, kinds) == Cardinality({i \in DOMAIN m.layers : m.layers[i].kind \in kinds})
BlocksOf(layer, blockSize) == (layer.size + blockSize - 1) \div blockSize

\* The base, and only the base, has no parent.
ScuteIsWellFormed(m, i) ==
  LET layer == m.layers[i]
  IN  /\ m.blockSize # 0 /\ layer.blocks * m.blockSize < Overflow
      /\ layer.kind = "scute" => layer.blocks = BlocksOf(layer, m.blockSize)
      /\ layer.salt # Malformed
      /\ (layer.salt = Zero) <=> (\A j \in 1..(i - 1) : ~IsScute(m.layers[j]))

\* Manifest::validate, and the envelope that Cache::resolve checks after it.
Validate(m) ==
  /\ m.artifact /\ m.config.kind \in {"empty", "config"} /\ m.envelope
  /\ RootIsWellFormed(m) /\ (HasScutes(m) => m.overrides)
  /\ Count(m, {"pmi"}) <= 1 /\ Count(m, {"boot"}) <= Count(m, {"pmi"})
  /\ \A i \in DOMAIN m.layers : IsScute(m.layers[i]) => ScuteIsWellFormed(m, i)

\* Cache::verify_metadata leaves the scutes to the chain.
Small(m) ==
  (IF m.config.kind = "empty" THEN <<>> ELSE <<m.config>>) \o Filtered(m.layers, {i \in DOMAIN m.layers : ~IsScute(m.layers[i])})

ReadManifest ==
  /\ phase = "manifest" /\ file # None
  /\ got' = Capture
  /\ IF Authentic(got') /\ \E n \in Names(world.manifests) : Validate(world.manifests[n])
     THEN \E n \in Names(world.manifests) :
            image' = world.manifests[n] /\ queue' = Small(image') /\ phase' = "verify"
     ELSE phase' = "failed" /\ UNCHANGED <<image, queue>>
  /\ file' = None
  /\ UNCHANGED <<world, others, pin, selected, receipts, chain>>

--------------------------------------------------------------------------
(* Blobs: verified where they are, then copied for the output. *)

Copying == phase \in {"verify", "copy"}

OpenBlob ==
  /\ Copying /\ file = None /\ queue # <<>>
  /\ LET blob == Head(queue)
     IN  IF blob.digest \notin DOMAIN store \/ Len(store[blob.digest]) # blob.size
         THEN Refuse
         ELSE /\ file' = [name |-> blob.digest, content |-> store[blob.digest], size |-> blob.size]
              /\ got' = <<>>
              /\ UNCHANGED <<world, others, phase, metadata, blobs, chain>>

\* Mutant: an early end of the file is waited out.
WaitChunk ==
  /\ Copying /\ file # None /\ Len(got) < file.size
  /\ got' = IF Len(file.content) <= Len(got) THEN got ELSE Append(got, file.content[Len(got) + 1])
  /\ UNCHANGED <<world, others, phase, file, metadata, blobs, chain>>

\* The bytes of one read are written before anything is known about them.
CopyChunk ==
  /\ Copying /\ file # None /\ Len(got) < file.size
  /\ IF Len(file.content) <= Len(got)
     THEN Refuse
     ELSE /\ got' = Append(got, file.content[Len(got) + 1])
          /\ UNCHANGED <<world, others, phase, file, metadata, blobs, chain>>

SoundCopy == Len(file.content) <= file.size /\ got = Whole(file.name)

EndCopy ==
  /\ Copying /\ file # None /\ Len(got) = file.size
  /\ IF ~SoundCopy
     THEN Refuse
     ELSE /\ receipts' = receipts \cup {[name |-> file.name, bytes |-> got, for |-> phase]}
          /\ queue' = Tail(queue) /\ file' = None
          /\ UNCHANGED <<world, others, phase, got, metadata, chain>>

Scutes(m) == Filtered(m.layers, {i \in DOMAIN m.layers : IsScute(m.layers[i])})

\* Chain::from_index starts at the commitment of the manifest; an image without one has no chain.
Verified ==
  /\ phase = "verify" /\ file = None /\ queue = <<>>
  /\ IF image.root = None
     THEN phase' = "copy" /\ queue' = Small(image) /\ UNCHANGED chain
     ELSE /\ phase' = "discover" /\ left' = Reverse(Scutes(image)) /\ parent' = image.root
          /\ UNCHANGED <<queue, todo, header, choice, found>>
  /\ UNCHANGED <<world, others, reading, metadata, receipts>>

Copied ==
  /\ phase = "copy" /\ file = None /\ queue = <<>>
  /\ phase' = "done"
  /\ UNCHANGED <<world, others, reading, metadata, blobs, chain>>

--------------------------------------------------------------------------
(* The chain: each scute from the tip down has one prepared variant with the root its child names. *)

Layer == Head(left)
Reads == phase = "discover" /\ left # <<>> /\ choice # None

OpenPrepared ==
  /\ phase = "discover" /\ left # <<>> /\ choice = None
  /\ IF parent = Zero \/ Layer.digest \notin DOMAIN prepared
     THEN Refuse
     ELSE /\ todo' = DOMAIN prepared[Layer.digest].variants /\ choice' = <<>>
          /\ UNCHANGED <<world, others, phase, reading, metadata, blobs, left, parent, header, found>>

\* The decoded bytes of the scute: the blob itself, unless it is encoded or of another length.
Data(v) ==
  LET decoded == prepared[Layer.digest].deflated
      blob == Layer.kind = "scute" /\ Layer.size = v.size
  IN  IF blob THEN (IF Layer.digest \in DOMAIN store THEN store[Layer.digest] ELSE <<>>)
      ELSE IF v.size \in DOMAIN decoded THEN decoded[v.size] ELSE <<>>

Skip(v) == todo' = todo \ {v} /\ header' = None

Foreign(v) == Skip(v) /\ UNCHANGED phase

\* A header of another hash convention belongs to another image; one that cannot be read is an error.
ReadHeader ==
  /\ Reads /\ header = None
  /\ \E v \in todo :
       LET h == prepared[Layer.digest].variants[v]
       IN  /\ IF ~h.sha256 THEN Foreign(v)
              ELSE IF h.salt = Malformed \/ ~h.extent \/ Len(Data(h)) # h.size \/ h.size = 0
              THEN phase' = "failed" /\ UNCHANGED <<todo, header>>
              ELSE header' = [v |-> v, record |-> h] /\ UNCHANGED <<phase, todo>>
           /\ UNCHANGED <<world, others, reading, metadata, blobs, left, parent, choice, found>>

\* The tree's top block, or the data of a scute that has only one.
RootBlock ==
  IF header.record.single
  THEN (IF Data(header.record) = <<>> THEN Malformed ELSE Head(Data(header.record)))
  ELSE prepared[Layer.digest].variants[header.v].block

\* Mutant: the parent is read again with the block.
SaltNow == prepared[Layer.digest].variants[header.v].salt

Salt == header.record.salt

ReadRoot ==
  /\ Reads /\ header # None
  /\ IF <<header.record.salt, RootBlock>> # parent
     THEN Foreign(header.v) /\ UNCHANGED choice
     ELSE IF choice # <<>>
     THEN phase' = "failed" /\ UNCHANGED <<todo, header, choice>>
     ELSE choice' = <<[salt |-> Salt, block |-> RootBlock]>> /\ Skip(header.v) /\ UNCHANGED phase
  /\ UNCHANGED <<world, others, reading, metadata, blobs, left, parent, found>>

EndLayer ==
  /\ Reads /\ header = None /\ todo = {}
  /\ IF choice = <<>>
     THEN Refuse
     ELSE /\ found' = Append(found, choice[1]) /\ parent' = choice[1].salt
          /\ choice' = None /\ left' = Tail(left)
          /\ UNCHANGED <<world, others, phase, reading, metadata, blobs, todo, header>>

\* The chain is complete at a scute without a parent; then all of the image is copied.
EndChain ==
  /\ phase = "discover" /\ left = <<>>
  /\ IF parent # Zero
     THEN Refuse
     ELSE /\ phase' = "copy" /\ queue' = Small(image) \o Scutes(image)
          /\ UNCHANGED <<world, others, reading, metadata, receipts, chain>>

--------------------------------------------------------------------------
Read ==
  \/ CachedIndex \/ OpenIndex \/ ReadIndex \/ OpenManifest \/ ReadManifest
  \/ OpenBlob \/ CopyChunk \/ EndCopy \/ Verified \/ Copied
  \/ OpenPrepared \/ ReadHeader \/ ReadRoot \/ EndLayer \/ EndChain
Next == Change \/ Unlink \/ Prepare \/ Read

\* The build reads on; others need not do anything.
Spec == Init /\ [][Next]_vars /\ WF_vars(Read)

--------------------------------------------------------------------------
TypeOK ==
  /\ phase \in {"reference", "index", "manifest", "verify", "discover", "copy", "done", "failed"}
  /\ file = None \/ (file.name[2] \in 1..2 /\ file.size \in Nat)
  /\ changes \in 0..world.limit
  /\ header # None => header.v \in todo
  /\ choice \notin {None, <<>>} => choice[1].salt # Malformed

\* The one descriptor an index has for this host, as the index says it.
Offered(index) ==
  {i \in DOMAIN index : index[i].artifact /\ index[i].platform.os = "pichi"
                          /\ index[i].platform.architecture = world.host
                          /\ (index[i].platform.variant \notin {None, ""} =>
                                index[i].platform.variant = "v8" /\ world.host = "arm64")}

\* An image that was resolved is the one its pin names, whatever was written to
\* the cache meanwhile: the pinned index has one entry for this host, and the
\* manifest is that entry's and is valid.
ResolvedAsPinned ==
  image # None =>
    LET index == world.indexes[pin]
    IN  /\ Cardinality(Offered(index)) = 1
        /\ \A i \in Offered(index) : image = world.manifests[index[i].digest]

\* A read that succeeded delivered the bytes its digest names, even when the
\* file changed between its first byte and its last, or after an earlier check.
ReceiptsAreReal == \A r \in receipts : r.bytes = Whole(r.name)

\* An output holds a copy of every blob of its image that no scute chain vouches
\* for, and each was verified before the chain was used.
EverythingCopied ==
  phase = "done" =>
    LET layers == {image.layers[i].digest : i \in {j \in DOMAIN image.layers : image.layers[j].kind \in {"pmi", "boot"}}}
        config == IF image.config.kind = "config" THEN {image.config.digest} ELSE {}
    IN  \A n \in layers \cup config, use \in {"verify", "copy"} : \E r \in receipts : r.name = n /\ r.for = use

\* The chain that was found is the one the manifest commits to, scute by scute:
\* the hash of its tip is the commitment, that of each other scute is in the
\* salt of the one above, and there is one for every scute layer.
ChainCommitted ==
  phase \in {"copy", "done"} /\ image.root # None =>
    /\ Len(found) = Len(Scutes(image)) /\ found[Len(found)].salt = Zero
    /\ \A i \in DOMAIN found : <<found[i].salt, found[i].block>> = IF i = 1 THEN image.root ELSE found[i - 1].salt

\* A file that grows while it is captured takes no more memory than the largest one accepted.
CaptureBounded == image = None => Len(got) <= MaxMetadata + 1

\* What the layers at or below the i-th from the tip must hash to.
Committed(m) ==
  LET root[i \in 1..Len(m.layers) + 1] == IF i = 1 THEN m.root ELSE IF root[i - 1] = Zero THEN Zero ELSE root[i - 1][1]
  IN  root

\* A cache that holds the pinned image.
Holds(digest, size) == digest \in DOMAIN world.store /\ world.store[digest] = Whole(digest) /\ size = Len(Whole(digest))

\* A scute was prepared for this chain, perhaps for others too.
PreparedFor(layer, root) ==
  LET variants == world.prepared[layer.digest].variants
      decoded  == world.prepared[layer.digest].deflated
      bytes(v) == IF layer.kind = "scute" /\ layer.size = v.size THEN Whole(layer.digest) ELSE decoded[v.size]
      hash(v)  == <<v.salt, IF v.single THEN bytes(v)[1] ELSE v.block>>
      usable(v) == v.salt # Malformed /\ v.extent /\ v.size > 0
                     /\ ((layer.kind = "scute" /\ layer.size = v.size) \/ v.size \in DOMAIN decoded)
                     /\ Len(bytes(v)) = v.size
  IN  /\ layer.digest \in DOMAIN world.prepared
      /\ \A v \in DOMAIN variants : variants[v].sha256 => usable(variants[v])
      /\ Cardinality({v \in DOMAIN variants : variants[v].sha256 /\ hash(variants[v]) = root}) = 1

\* All of an image is there, and prepared down to a scute without a parent.
SoundImage(m) ==
  /\ Validate(m)
  /\ m.config.kind = "empty" \/ Holds(m.config.digest, m.config.size)
  /\ \A i \in DOMAIN m.layers : Holds(m.layers[i].digest, m.layers[i].size)
  /\ LET n == Len(Scutes(m))
     IN  /\ \A i \in 1..n : PreparedFor(Scutes(m)[n + 1 - i], Committed(m)[i])
         /\ m.root = None \/ Committed(m)[n + 1] = Zero

Sound ==
  LET named == {j \in DOMAIN world.tags : world.tags[j].name = world.reference.name}
      pins == IF world.reference.digest # None THEN {world.reference.digest} ELSE {world.tags[j].digest : j \in named}
  IN  /\ world.reference.digest = None => Cardinality(named) = 1
      /\ \E p \in pins :
           /\ p \in DOMAIN world.indexes /\ Holds(p, Len(world.store[p])) /\ Cardinality(Offered(world.indexes[p])) = 1
           /\ \A i \in Offered(world.indexes[p]) :
                LET d == world.indexes[p][i]
                IN  /\ d.manifest /\ d.digest \in DOMAIN world.manifests /\ Holds(d.digest, d.size)
                    /\ SoundImage(world.manifests[d.digest])

\* A cache nobody writes to, which holds the pinned image and a prepared scute
\* for each layer, serves it: entries for other hosts, other images and other
\* chains do not get in the way.
SoundCacheServes == changes = 0 /\ phase = "failed" => ~Sound

\* A resolution trusts nothing but digests: what it returns and copies is what
\* the pin leads to, and a cache that holds it serves it (cache/resolve.rs).
ResolvesSoundly ==
  /\ TypeOK /\ ResolvedAsPinned /\ ReceiptsAreReal /\ EverythingCopied
  /\ ChainCommitted /\ CaptureBounded /\ SoundCacheServes

\* Every resolution ends, also when a file shrinks while it is read.
ResolutionEnds == <>Ended
=============================================================================
