------------------------------ MODULE DiskLayout ------------------------------
(***************************************************************************)
(* The GPT disk of a root (src/src/disk): its layout is computed from the  *)
(* sizes of the root and the ESP, written in five writes, any of which may *)
(* be the last, and discovered on a device that may have been changed.     *)
(*                                                                         *)
(* Disks are scaled, not simplified: blocks have 8 sectors, a table has 4  *)
(* blocks, and numbers wrap at Word.  A checksum is what it covers, except *)
(* that names collide; one that does not fit its header makes it invalid.  *)
(***************************************************************************)
EXTENDS Integers, Sequences, FiniteSets

CONSTANTS
  Sizes,       \* sizes asked for, in sectors
  Capacities,  \* sizes of the device, in blocks
  Alignment,   \* of partitions and disk, in sectors (2048)
  PerBlock,    \* entries of a table in a block (32)
  MaxSlots,    \* entries a header may declare (8192)
  MaxSectors,  \* ZERO_SIZE_SECTORS
  Word,        \* 2^64
  MbrMax,      \* u32::MAX
  MaxChanges   \* blocks that are changed before the disk is read

Slots == 4 * PerBlock

\* What the scale must keep of the real sizes, which are unsigned integers.
ScaleAssumption ==
  /\ Sizes \subseteq Nat /\ Capacities \subseteq Nat
  /\ {Word, MbrMax, MaxSlots, MaxChanges} \subseteq Nat
  /\ PerBlock \in Nat \ {0} /\ Alignment \in Nat /\ Alignment >= 48 /\ Alignment % 8 = 0
  /\ MaxSectors \in Nat /\ MaxSectors % 8 = 0 /\ MaxSectors < Word /\ MaxSlots >= Slots

VARIABLES
  plan,      \* the sizes of the root and the ESP, 0 for none
  capacity,  \* blocks of the device
  device,    \* its blocks that are not zero
  phase, written, \* the next step, and how many writes are done
  index,     \* the block of both tables that comes next
  seen, others,   \* the entries read from either table
  result,    \* what reading found
  changes    \* history: the copies that were changed, "primary", "backup" or "mbr"

vars == <<plan, capacity, device, phase, written, index, seen, others, result, changes>>

Nothing == [is |-> "none"]
Init ==
  /\ plan \in [root : Sizes, esp : Sizes] /\ capacity \in Capacities
  /\ device = [b \in {} |-> Nothing] /\ phase = "layout" /\ written = 0
  /\ index = 0 /\ seen = <<>> /\ others = <<>> /\ result = Nothing /\ changes = <<>>

\* Blocks, with others written over them.
One(b, content) == [c \in {b} |-> content]
Over(blocks, under) ==
  [b \in DOMAIN blocks \cup DOMAIN under |-> IF b \in DOMAIN blocks THEN blocks[b] ELSE under[b]]

--------------------------------------------------------------------------
(* The layout, in sectors, and its blocks. *)

NextMultiple(n, of) == ((n + of - 1) \div of) * of
AcceptedSize(sectors) == sectors > 0 /\ sectors % 8 = 0 /\ sectors <= MaxSectors

Esp == [start |-> Alignment, sectors |-> plan.esp]
Root == [start   |-> IF plan.esp = 0 THEN Alignment ELSE NextMultiple(Esp.start + Esp.sectors, Alignment),
         sectors |-> plan.root]
DiskSectors == NextMultiple(Root.start + Root.sectors + 40, Alignment)
End == DiskSectors \div 8 - 1

Unused == [kind |-> "none", start |-> 0, end |-> 0, auto |-> TRUE, name |-> "a"]
Record(type, partition) ==
  [kind |-> type, start |-> partition.start \div 8,
   end |-> (partition.start + partition.sectors) \div 8 - 1, auto |-> TRUE, name |-> "a"]
Table == [s \in 1..Slots |-> CASE s = 1 -> Record("root", Root)
                               [] s = 2 /\ plan.esp # 0 -> Record("esp", Esp)
                               [] OTHER -> Unused]

\* The entries a block of a table holds; crc32_parts, where names collide.
Chunk(table, b) == SubSeq(table, b * PerBlock + 1, (b + 1) * PerBlock)
Checksum(table) == [s \in DOMAIN table |-> [table[s] EXCEPT !.name = "a"]]
TableBlocks(table, at) == [b \in at..(at + 3) |-> [is |-> "table", records |-> Chunk(table, b - at)]]
Header(current, backup, start) ==
  [is |-> "header", valid |-> TRUE, id |-> "new", current |-> current, backup |-> backup,
   first |-> 6, last |-> End - 5, start |-> start, count |-> Slots, sum |-> Checksum(Table)]

Layout ==
  /\ phase = "layout"
  /\ IF /\ AcceptedSize(plan.root) /\ (plan.esp = 0 \/ AcceptedSize(plan.esp))
        /\ DiskSectors <= MaxSectors
        /\ capacity * 8 >= DiskSectors /\ capacity * 8 <= MaxSectors
     THEN phase' = "write" /\ UNCHANGED result
     ELSE phase' = "refused" /\ result' = [is |-> "layout"]
  /\ UNCHANGED <<plan, capacity, device, written, index, seen, others, changes>>

Writes == <<One(0, [is |-> "mbr", size |-> IF End <= MbrMax THEN End ELSE MbrMax, hybrid |-> FALSE]),
            TableBlocks(Table, 2), TableBlocks(Table, End - 4),
            One(1, Header(1, End, 2)), One(End, Header(End, 1, End - 4))>>

Write ==
  /\ phase = "write" /\ written < Len(Writes)
  /\ device' = Over(Writes[written + 1], device) /\ written' = written + 1
  /\ UNCHANGED <<plan, capacity, phase, index, seen, others, result, changes>>

\* The disk is written, or the build stopped before it was.
Stop ==
  /\ phase = "write" /\ phase' = "primary"
  /\ UNCHANGED <<plan, capacity, device, written, index, seen, others, result, changes>>

--------------------------------------------------------------------------
(* Changes to a complete disk, with the checksums made to fit or not. *)

Copies == {{"primary"}, {"backup"}, {"primary", "backup"}}
Headers(copies) == {IF c = "primary" THEN 1 ELSE End : c \in copies}
Near(n) == {n - 1, n + 1, 0, 1, Word - 1, Word - 4} \cap 0..(Word - 1)

Changeable == phase = "primary" /\ written = Len(Writes) /\ Len(changes) < MaxChanges
Changed(copies) ==
  /\ changes' = Append(changes, copies)
  /\ UNCHANGED <<plan, capacity, phase, written, index, seen, others, result>>

ChangeHeader ==
  /\ Changeable
  /\ \E copies \in Copies, field \in {"current", "backup", "first", "last", "start", "count"} :
       \E value \in Near(device[1][field]) :
         /\ \E b \in Headers(copies) : device[b][field] # value
         /\ device' = Over([b \in Headers(copies) |-> [device[b] EXCEPT ![field] = value]], device)
         /\ Changed(copies)

ChangeIdentity ==
  /\ Changeable
  /\ \E copies \in Copies, valid \in BOOLEAN :
       /\ valid => Cardinality(copies) = 1
       /\ device' = Over([b \in Headers(copies) |-> [device[b] EXCEPT !.valid = valid, !.id = "other"]], device)
       /\ Changed(copies)

\* Entries at the edges of what is usable, of the root and of their meaning.
At(type, start, end) == [kind |-> type, start |-> start, end |-> end, auto |-> TRUE, name |-> "a"]
Strange ==
  {At("other", 6, 6), At("other", 5, 5), At("other", 6, Root.start \div 8), At("other", 6, 5),
   At("other", End - 5, End - 4), At("root", 6, 6), [At("root", 6, 6) EXCEPT !.auto = FALSE],
   At("esp", 6, 6), [At("other", 6, 6) EXCEPT !.name = "b"], [Unused EXCEPT !.name = "b"]}

ChangeRecord ==
  /\ Changeable
  /\ \E copies \in Copies, slot \in {2, Slots}, record \in Strange, fit \in BOOLEAN :
       LET table == [Table EXCEPT ![slot] = record]
           block == (slot - 1) \div PerBlock
           Where(c) == (IF c = "primary" THEN 2 ELSE End - 4) + block
       IN  /\ table # Table
           /\ device' = Over([b \in {Where(c) : c \in copies} |-> [is |-> "table", records |-> Chunk(table, block)]],
                             Over([b \in Headers(copies) |->
                                     IF fit THEN [device[b] EXCEPT !.sum = Checksum(table)] ELSE device[b]],
                                  device))
           /\ Changed(copies)

ChangeMbr ==
  /\ Changeable
  /\ \E size \in Near(device[0].size), hybrid \in BOOLEAN :
       device' = Over(One(0, [is |-> "mbr", size |-> size, hybrid |-> hybrid]), device)
  /\ Changed({"mbr"})

--------------------------------------------------------------------------
(* Disk::read. *)

Zero == [is |-> "zero"]
Readable(b) == b < capacity
Block(b) == IF b \in DOMAIN device THEN device[b] ELSE Zero
Plus(a, b) == (a + b) % Word
Primary == Block(1)
Backup == Block(Primary.backup)

Refused(why) ==
  /\ phase' = "refused" /\ result' = [is |-> why]
  /\ UNCHANGED <<plan, capacity, device, written, index, seen, others, changes>>
Continue(to) ==
  /\ phase' = to
  /\ UNCHANGED <<plan, capacity, device, written, index, seen, others, result, changes>>

\* Header::read
IsHeader(b) ==
  Readable(b) /\ Block(b).is = "header" /\ Block(b).valid /\ Block(b).count \in Slots..MaxSlots

ReadPrimary ==
  /\ phase = "primary"
  /\ IF /\ capacity * 8 <= MaxSectors /\ capacity >= 12
        /\ IsHeader(1) /\ Primary.current = 1 /\ Primary.backup \in 11..(capacity - 1)
     THEN Continue("backup") ELSE Refused("primary")

\* The blocks of a table: div_ceil of its bytes.
Length == (Primary.count + PerBlock - 1) \div PerBlock
HeadersAgree ==
  /\ Backup.current = Primary.backup /\ Backup.backup = Primary.current
  /\ \A field \in {"id", "first", "last", "count", "sum"} : Backup[field] = Primary[field]
Overlaps ==
  \/ Primary.start < 2 \/ Primary.start > Backup.current
  \/ Plus(Primary.start, Length) > Primary.first
  \/ Primary.first > Primary.last \/ Primary.last >= Backup.start
  \/ Backup.start > Backup.current \/ Plus(Backup.start, Length) > Backup.current

ReadBackup ==
  /\ phase = "backup"
  /\ IF IsHeader(Primary.backup) /\ HeadersAgree /\ ~Overlaps
     THEN Continue("mbr") ELSE Refused("headers")

\* MbrEntry::protects
Protects(size, sectors) == size = IF sectors - 1 <= MbrMax THEN sectors - 1 ELSE MbrMax

\* Disk::protective_mbr
ReadMbr ==
  /\ phase = "mbr"
  /\ IF Block(0).is = "mbr" /\ ~Block(0).hybrid /\ Protects(Block(0).size, Plus(Primary.backup, 1))
     THEN Continue("tables") ELSE Refused("mbr")

\* A block that is no table decodes to entries no checksum fits.
Garbage == [kind |-> "other", start |-> 0, end |-> 0, auto |-> TRUE, name |-> "garbage"]
Entries(b) == CASE Block(b).is = "table" -> Block(b).records
                [] Block(b).is = "zero" -> [s \in 1..PerBlock |-> Unused]
                [] OTHER -> [s \in 1..PerBlock |-> Garbage]
Declared(entries) ==
  LET left == Primary.count - index * PerBlock
  IN  SubSeq(entries, 1, IF left < PerBlock THEN left ELSE PerBlock)
IsUsed(entry) == entry.kind # "none"

ReadTables ==
  /\ phase = "tables" /\ index < Length
  /\ LET at == Plus(Primary.start, index)
         to == Plus(Backup.start, index)
         block == Declared(Entries(at))
     IN  IF \/ ~Readable(at) \/ ~Readable(to)
            \/ \E s \in DOMAIN block :
                 /\ IsUsed(block[s])
                 /\ \/ block[s].start > block[s].end
                    \/ block[s].start < Primary.first \/ block[s].end > Primary.last
         THEN Refused("entry")
         ELSE /\ seen' = seen \o block /\ others' = others \o Declared(Entries(to))
              /\ index' = index + 1
              /\ UNCHANGED <<plan, capacity, device, phase, written, result, changes>>

Used == {s \in DOMAIN seen : IsUsed(seen[s])}
\* Mutant: two partitions may share a block.
OverlapInShared(used) ==
  \E s, t \in used : s # t /\ seen[s].start <= seen[t].start /\ seen[s].end > seen[t].start

OverlapIn(used) ==
  \E s, t \in used : s # t /\ seen[s].start <= seen[t].start /\ seen[s].end >= seen[t].start
Roots == {s \in Used : seen[s].kind = "root" /\ seen[s].auto}
Esps == {s \in Used : seen[s].kind = "esp"}

\* Partition::try_from
Partition(s) == [start |-> seen[s].start * 8, sectors |-> (seen[s].end - seen[s].start + 1) * 8]

Select ==
  /\ phase = "tables" /\ index = Length
  /\ IF \/ Checksum(seen) # Primary.sum \/ Checksum(others) # Backup.sum
        \/ seen # others \/ OverlapIn(Used)
        \/ Cardinality(Roots) # 1 \/ Cardinality(Esps) > 1
     THEN Refused("tables")
     ELSE /\ phase' = "read"
          /\ result' = [is |-> "disk", root |-> Partition(CHOOSE s \in Roots : TRUE),
                        esp |-> {Partition(s) : s \in Esps}]
          /\ UNCHANGED <<plan, capacity, device, written, index, seen, others, changes>>

Change == ChangeHeader \/ ChangeIdentity \/ ChangeRecord \/ ChangeMbr
Reads == ReadPrimary \/ ReadBackup \/ ReadMbr \/ ReadTables \/ Select
Next == Layout \/ Write \/ Stop \/ Change \/ Reads
Spec == Init /\ [][Next]_vars /\ WF_vars(Layout \/ Stop) /\ WF_vars(Reads)

--------------------------------------------------------------------------

TypeOK ==
  /\ phase \in {"layout", "write", "primary", "backup", "mbr", "tables", "read", "refused"}
  /\ written \in 0..5 /\ Len(seen) = Len(others)
  /\ DOMAIN device \subseteq 0..(capacity - 1)
  /\ phase \in {"tables", "read"} => index \in 0..Length

\* What was laid out is what is found: the root and the ESP, in the same
\* sectors, clear of each other and of both copies of the tables.
RoundTrip ==
  written = 5 /\ changes = <<>> =>
    /\ phase # "refused"
    /\ phase = "read" => /\ result.root = Root /\ result.esp = (IF plan.esp = 0 THEN {} ELSE {Esp})
                         /\ Root.start % Alignment = 0 /\ DiskSectors % Alignment = 0

\* A disk whose writing stopped is no disk: the last header completes it.
TornIsNoDisk == written < 5 => phase # "read"

\* Neither copy is preferred to the other, and none is repaired.
BothCopiesCount ==
  LET Wrote == Over(Writes[1], Over(Writes[2], Over(Writes[3], Over(Writes[4], Writes[5]))))
      Differs(blocks) == \E b \in blocks : device[b] # Wrote[b]
  IN  phase = "read" => (Differs(1..5) <=> Differs((End - 4)..End))

\* Whatever the numbers on the disk, wrapped or not: the partitions that are
\* found are inside the disk and the device, apart from each other, from every
\* other partition of the table and from the headers and tables themselves.
FoundIsSound ==
  LET Extent(p) == (p.start \div 8)..((p.start + p.sectors) \div 8 - 1)
      metadata  == {0, 1, Primary.backup} \cup (Primary.start..(Primary.start + Length - 1))
                   \cup (Backup.start..(Backup.start + Length - 1))
      found     == {result.root} \cup result.esp
  IN  phase = "read" =>
        /\ Primary.backup < capacity
        /\ \A p \in found : /\ Extent(p) # {} /\ Extent(p) \cap metadata = {}
                            /\ Extent(p) \subseteq 0..Primary.backup
        /\ \A s \in DOMAIN seen : IsUsed(seen[s]) =>
             \A p \in found : p = Partition(s) \/ Extent(p) \cap (seen[s].start..seen[s].end) = {}
        /\ Cardinality(found) = 1 + Cardinality(result.esp)

\* Only a disk that was laid out whole, and changed soundly if at all, is found
\* (Disk::read).
DiskIsFound == TypeOK /\ RoundTrip /\ TornIsNoDisk /\ BothCopiesCount /\ FoundIsSound

\* Every layout is written or refused, and every disk is read or refused.
ReadingEnds == <>(phase \in {"read", "refused"})
=============================================================================
