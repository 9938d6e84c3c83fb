---------------------------- MODULE SnapshotStore ----------------------------
(***************************************************************************)
(* Sealing a persistent snapshot store (src/src/storage/sealed.rs and      *)
(* compact.rs): the used extent of the store is measured and everything    *)
(* behind it cut off, the exceptions that differ from the origin are       *)
(* packed over the old metadata in the same file, and the final store is   *)
(* streamed out chunk by chunk, renumbered.                                *)
(*                                                                         *)
(* A store is a function from chunk numbers to chunks: the header, then    *)
(* areas of one metadata chunk (PerArea exception records) and the         *)
(* PerArea data chunks behind it.  The first record whose new chunk is 0   *)
(* ends the list.  256 records fill a chunk in the code.                   *)
(***************************************************************************)
EXTENDS Integers, Sequences, FiniteSets

CONSTANTS
  PerArea,      \* exceptions_per_chunk
  Capacities,   \* sizes of a scratch file, in chunks
  Limit,        \* chunks of the origin (carapace::ZERO_SIZE_BYTES / 4096)
  Values,       \* contents of a data chunk
  Origin        \* the origin's contents

\* What a store needs of its constants.
StoreAssumption ==
  /\ PerArea \in Nat \ {0} /\ Limit \in Nat
  /\ Capacities \subseteq Nat
  /\ Origin \in [0..(Limit - 1) -> Values]

VARIABLES
  phase,     \* open (in the kernel), header, extent, scan, stream, done, failed
  file,      \* the scratch file
  store,     \* history: the file as it was detached
  cursor,    \* records visited by the loop of this phase
  end,       \* chunks in use
  metadata,  \* the metadata chunk last read
  output,    \* the metadata chunk being packed
  kept,      \* exceptions packed
  sources,   \* source_chunks: where the data of the area being streamed are
  out,       \* the chunks streamed, in order
  fault      \* why sealing failed

vars == <<phase, file, store, cursor, end, metadata, output, kept, sources, out, fault>>

Stride == PerArea + 1
MultipleOf(n, k) == \E q \in 0..n : n = q * k
AreaChunk(area) == 1 + area * Stride
\* Where a record is: its area, and its place there.
AreaOf(i) == i \div PerArea
SlotOf(i) == i % PerArea
IsArea(chunk) == chunk > 0 /\ MultipleOf(chunk - 1, Stride)

Slots == 0..(PerArea - 1)
NoRecord == [old |-> 0, new |-> 0]
Blank == [slot \in Slots |-> NoRecord]

Larger(a, b) == IF a > b THEN a ELSE b
Smaller(a, b) == IF a < b THEN a ELSE b

Init ==
  /\ \E capacity \in Capacities, unwritten \in Values :
       file = [c \in 0..(capacity - 1) |->
                 IF c = 0 THEN "valid" ELSE IF IsArea(c) THEN Blank ELSE unwritten]
  /\ phase = "open" /\ store = <<>>
  /\ cursor = 0 /\ end = 0 /\ metadata = Blank /\ output = Blank /\ kept = 0
  /\ sources = [slot \in Slots |-> 0] /\ out = <<>> /\ fault = "none"

--------------------------------------------------------------------------
(* The snapshot target of the kernel, until the mapping is closed. *)

\* The record in the list of f with the given index.
Record(f, i) == f[AreaChunk(AreaOf(i))][SlotOf(i)]

\* The first write to a chunk of the origin takes the next free data chunk; the
\* area after the next is cleared before the last record of an area is written.
KernelCopies ==
  /\ phase = "open" /\ file[0] = "valid" /\ cursor < Limit
  /\ \E old \in 0..(Limit - 1), value \in Values :
       LET area == AreaOf(cursor)
           new  == 2 + cursor + area
           next == AreaChunk(area + 1)
       IN  /\ \A i \in 0..(cursor - 1) : Record(file, i).old # old
           /\ IF new \notin DOMAIN file \/ (SlotOf(cursor + 1) = 0 /\ next \notin DOMAIN file)
              THEN file' = [file EXCEPT ![0] = "invalid"] /\ UNCHANGED cursor
              ELSE /\ file' = [file EXCEPT ![new] = value,
                         ![AreaChunk(area)][SlotOf(cursor)] = [old |-> old, new |-> new]]
                   /\ cursor' = cursor + 1
  /\ UNCHANGED <<phase, store, end, metadata, output, kept, sources, out, fault>>

\* A file whose records are not the kernel's: one of them is damaged.
Damages ==
  /\ phase = "open" /\ Len(out) = 0 /\ fault = "none" /\ cursor > 0
  /\ \E i \in 0..(cursor - 1),
        record \in {[old |-> Limit, new |-> 2], [old |-> 0, new |-> 1],
                    [old |-> 0, new |-> AreaChunk(1)],
                    [old |-> 0, new |-> Cardinality(DOMAIN file)]} :
       /\ file' = [file EXCEPT ![AreaChunk(AreaOf(i))][SlotOf(i)] = record]
  /\ fault' = "damaged"
  /\ UNCHANGED <<phase, store, cursor, end, metadata, output, kept, sources, out>>

--------------------------------------------------------------------------
(* Scratch::seal_snapshot. *)

Fails(why) ==
  /\ phase' = "failed" /\ fault' = why
  /\ UNCHANGED <<file, store, cursor, end, metadata, output, kept, sources, out>>

\* Detached and opened for sealing: the kernel writes no more.
Detach ==
  /\ phase = "open"
  /\ phase' = "header" /\ store' = file
  /\ UNCHANGED <<file, cursor, end, metadata, output, kept, sources, out, fault>>

Chunks == Cardinality(DOMAIN file)

ReadHeader ==
  /\ phase = "header"
  /\ IF Chunks < 2 \/ file[0] # "valid" THEN Fails("store")
     ELSE /\ phase' = "extent" /\ cursor' = 0 /\ end' = 2
          /\ UNCHANGED <<file, store, metadata, output, kept, sources, out, fault>>

Area == AreaChunk(AreaOf(cursor))

\* The area under the cursor, read when the loop enters it.
Buffered == IF SlotOf(cursor) = 0 THEN file[Area] ELSE metadata
Current  == Buffered[SlotOf(cursor)]

Acceptable(record) ==
  record.old < Limit /\ record.new >= 2 /\ record.new < Chunks /\ ~IsArea(record.new)

ExtentRecord ==
  /\ phase = "extent"
  /\ IF Area >= Chunks THEN Fails("store")
     ELSE /\ Current.new # 0
          /\ IF ~Acceptable(Current) THEN Fails("store")
             ELSE /\ end' = Larger(Larger(end, Area + 1), Current.new + 1)
                  /\ cursor' = cursor + 1 /\ metadata' = Buffered
                  /\ UNCHANGED <<phase, file, store, output, kept, sources, out, fault>>

Truncated(f, size) == [c \in 0..(size - 1) |-> f[c]]

\* The end of the list: the file is cut to its used extent, and packing begins.
ExtentFound ==
  /\ phase = "extent" /\ Area < Chunks /\ Current.new = 0
  /\ end' = Larger(end, Area + 1)
  /\ file' = Truncated(file, end')
  /\ phase' = "scan" /\ cursor' = 0
  /\ UNCHANGED <<store, metadata, output, kept, sources, out, fault>>

EndOfFile == phase \in {"scan", "stream"} /\ Fails("eof")

Written(chunk, content) ==
  file' = [c \in DOMAIN file \cup {chunk} |-> IF c = chunk THEN content ELSE file[c]]

\* Mutant: a full chunk of records is written where the next one belongs.
ScanRecordNext ==
  /\ phase = "scan" /\ Area \in DOMAIN file
  /\ Current.new # 0 /\ Current.new \in DOMAIN file
  /\ LET packed == [output EXCEPT ![SlotOf(kept)] = Current]
     IN  IF file[Current.new] = Origin[Current.old]
         THEN UNCHANGED <<kept, output, file>>
         ELSE /\ kept' = kept + 1
              /\ IF SlotOf(kept + 1) = 0
                 THEN Written(AreaChunk(AreaOf(kept + 1)), packed) /\ output' = Blank
                 ELSE output' = packed /\ UNCHANGED file
  /\ cursor' = cursor + 1 /\ metadata' = Buffered
  /\ UNCHANGED <<phase, store, end, sources, out, fault>>

\* A block equal to the origin's is dropped; any other record is packed, and a
\* full chunk of them replaces an area that was read already.
ScanRecord ==
  /\ phase = "scan"
  /\ IF Area \notin DOMAIN file THEN EndOfFile
     ELSE /\ Current.new # 0
          /\ IF Current.new \notin DOMAIN file THEN EndOfFile
             ELSE LET packed == [output EXCEPT ![SlotOf(kept)] = Current]
                  IN  /\ IF file[Current.new] = Origin[Current.old]
                         THEN UNCHANGED <<kept, output, file>>
                         ELSE /\ kept' = kept + 1
                              /\ IF SlotOf(kept + 1) = 0
                                 THEN Written(AreaChunk(AreaOf(kept)), packed) /\ output' = Blank
                                 ELSE output' = packed /\ UNCHANGED file
                      /\ cursor' = cursor + 1 /\ metadata' = Buffered
                      /\ UNCHANGED <<phase, store, end, sources, out, fault>>

\* Mutant: an empty last chunk is not an end.
ScanEndsFilled ==
  /\ phase = "scan" /\ Area \in DOMAIN file /\ Current.new = 0 /\ output # Blank
  /\ Written(AreaChunk(AreaOf(kept)), output)
  /\ phase' = "stream"
  /\ UNCHANGED <<store, cursor, end, metadata, output, kept, sources, out, fault>>

\* The last metadata chunk, empty when the list fills its areas.
ScanEnds ==
  /\ phase = "scan" /\ Area \in DOMAIN file /\ Current.new = 0
  /\ Written(AreaChunk(AreaOf(kept)), output)
  /\ phase' = "stream"
  /\ UNCHANGED <<store, cursor, end, metadata, output, kept, sources, out, fault>>

OriginFails == phase \in {"scan", "header"} /\ Fails("io")

Size == 2 + kept + AreaOf(kept)
NextChunk == Len(out)

Streams(chunk) ==
  /\ out' = Append(out, chunk)
  /\ UNCHANGED <<phase, file, store, cursor, end, metadata, output, kept, fault>>

StreamHeader ==
  /\ phase = "stream" /\ NextChunk < Size /\ NextChunk = 0
  /\ Streams(file[0]) /\ UNCHANGED sources

\* The records of an area: where their data are is remembered, where they go written.
StreamArea ==
  /\ phase = "stream" /\ NextChunk < Size /\ IsArea(NextChunk)
  /\ IF NextChunk \notin DOMAIN file THEN EndOfFile
     ELSE LET buffer == file[NextChunk]
              first  == ((NextChunk - 1) \div Stride) * PerArea
              count  == Smaller(kept - first, PerArea)
          IN  /\ sources' = [slot \in Slots |->
                               IF slot < count THEN buffer[slot].new ELSE sources[slot]]
              /\ Streams([slot \in Slots |->
                   IF slot < count THEN [old |-> buffer[slot].old, new |-> NextChunk + 1 + slot]
                                   ELSE buffer[slot]])

StreamData ==
  /\ phase = "stream" /\ NextChunk < Size /\ NextChunk # 0 /\ ~IsArea(NextChunk)
  /\ LET source == sources[(NextChunk - 2) % Stride]
     IN  IF source \notin DOMAIN file THEN EndOfFile
         ELSE Streams(file[source]) /\ UNCHANGED sources

StreamEnds ==
  /\ phase = "stream" /\ NextChunk = Size
  /\ phase' = "done"
  /\ UNCHANGED <<file, store, cursor, end, metadata, output, kept, sources, out, fault>>

Seal ==
  \/ ReadHeader \/ ExtentRecord \/ ExtentFound \/ ScanRecord \/ ScanEnds
  \/ StreamHeader \/ StreamArea \/ StreamData \/ StreamEnds

Next == KernelCopies \/ Damages \/ Detach \/ OriginFails \/ Seal

Spec == Init /\ [][Next]_vars /\ WF_vars(Seal)

--------------------------------------------------------------------------
(* Properties. *)

\* The reference: what a store is, without the loops that read it.
Length(f) == CHOOSE n \in 0..Cardinality(DOMAIN f) :
               /\ Record(f, n).new = 0
               /\ \A i \in 0..(n - 1) : Record(f, i).new # 0

Terminated(f) == \E n \in 0..Cardinality(DOMAIN f) :
                   /\ \A i \in 0..n : AreaChunk(AreaOf(i)) \in DOMAIN f
                   /\ Record(f, n).new = 0

Usable(f) ==
  /\ Cardinality(DOMAIN f) >= 2 /\ f[0] = "valid" /\ Terminated(f)
  /\ \A i \in 0..(Length(f) - 1) : LET r == Record(f, i) IN
       r.old < Limit /\ r.new \in DOMAIN f /\ r.new >= 2 /\ ~IsArea(r.new)

\* What the device shows through a store.
View(f) ==
  [old \in 0..(Limit - 1) |->
     LET hits == {i \in 0..(Length(f) - 1) : Record(f, i).old = old}
     IN  IF hits = {} THEN Origin[old] ELSE f[Record(f, CHOOSE i \in hits : TRUE).new]]

Sealed == [c \in 0..(Len(out) - 1) |-> out[c + 1]]

TypeOK ==
  /\ phase \in {"open", "header", "extent", "scan", "stream", "done", "failed"}
  /\ DOMAIN file = 0..(Chunks - 1)
  /\ \A c \in DOMAIN file :
       file[c] \in IF c = 0 THEN {"valid", "invalid"}
                   ELSE IF IsArea(c) THEN [Slots -> [old : Nat, new : Nat]] ELSE Values
  /\ cursor \in Nat /\ end \in Nat /\ kept \in Nat
  /\ metadata \in [Slots -> [old : Nat, new : Nat]]
  /\ output \in [Slots -> [old : Nat, new : Nat]]
  /\ sources \in [Slots -> Nat]
  /\ fault \in {"none", "damaged", "store", "io", "eof"}

\* The sealed store shows, through the origin, exactly what the store the kernel
\* wrote showed, for every chunk of the device: packing in place loses no record
\* and streaming takes each datum from where it was.
ViewKept == phase = "done" => Usable(Sealed) /\ View(Sealed) = View(store)

\* The sealed store is the canonical one: no block of it equals the origin's,
\* its data lie in the order of its records without a gap, and what size_bytes
\* announced to the verity header before a byte was streamed ends with the last
\* of them, or with the metadata that end the list.
Canonical ==
  phase = "done" => Terminated(Sealed) /\
    LET n == Length(Sealed) IN
    /\ \A i \in 0..(n - 1) : LET r == Record(Sealed, i) IN
         /\ r.new = 2 + i + AreaOf(i)
         /\ Sealed[r.new] # Origin[r.old]
    /\ Len(out) - 1 \in {AreaChunk(AreaOf(n))} \cup {Record(Sealed, i).new : i \in 0..(n - 1)}
    /\ AreaChunk(AreaOf(n)) < Len(out)

\* The used extent is large enough: after the file is cut, no read of the
\* scan or of the stream meets its end, and no write makes it grow.
ExtentSuffices ==
  /\ fault # "eof"
  /\ phase \in {"scan", "stream", "done"} => DOMAIN file = 0..(end - 1) /\ end <= Cardinality(DOMAIN store)

\* Exactly the usable stores are accepted: a full store, an area at the very end
\* of the file and a damaged record included.
RefusesExactly ==
  /\ phase \in {"scan", "stream", "done"} => Usable(store)
  /\ phase = "failed" /\ fault = "store" => ~Usable(store)

\* Packing writes metadata only: until the stream has read it, every data chunk
\* and the header are what the kernel left.
DataUntouched ==
  phase \in {"scan", "stream", "done", "failed"} =>
    \A c \in DOMAIN file : ~IsArea(c) => file[c] = store[c]

\* Sealing keeps the store, in form and in what it shows, or says why it cannot
\* (Scratch::seal_snapshot).
StoreIsKept ==
  TypeOK /\ ViewKept /\ Canonical /\ ExtentSuffices /\ RefusesExactly /\ DataUntouched

\* The loops over areas, which have no bound in the code, end.
SealEnds == phase = "header" ~> phase \in {"done", "failed"}
=============================================================================
