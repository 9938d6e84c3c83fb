------------------------------ MODULE MCFormats -------------------------------
(***************************************************************************)
(* Three formats that are written to be read again, in one run: the        *)
(* initial state chooses whether a snapshot store is sealed                *)
(* (SnapshotStore), a disk is laid out and found (DiskLayout), or a boot   *)
(* configuration is parsed, changed and written (BootSyntax).  The         *)
(* variables of the other two stay as they are; "phase" is the program     *)
(* counter of the chosen one.                                              *)
(***************************************************************************)
EXTENDS Integers

CONSTANTS PerArea, StoreSizes, Limit, Values, Origin,           \* see SnapshotStore
          Sizes, DeviceSizes, Alignment, PerBlock, MaxSlots,
          MaxSectors, Word, MbrMax, MaxChanges,                 \* see DiskLayout
          Chars, Starts, MaxText, MaxNodes, MaxDepth,
          Keys, Lists, MaxEdits,                                \* see BootSyntax
          zeros, ones                                           \* contents of a data chunk

VARIABLES machine, phase,
          file, store, cursor, end, metadata, output, kept, sources, out, fault,
          plan, capacity, device, written, index, seen, others, result, changes,
          text, p, values, edits

sealing == <<file, store, cursor, end, metadata, output, kept, sources, out, fault>>
layout  == <<plan, capacity, device, written, index, seen, others, result, changes>>
syntax  == <<text, p, values, edits>>

S == INSTANCE SnapshotStore WITH Capacities <- StoreSizes
D == INSTANCE DiskLayout WITH Capacities <- DeviceSizes
B == INSTANCE BootSyntax

ASSUME FormatAssumption == S!StoreAssumption /\ D!ScaleAssumption

--------------------------------------------------------------------------
(* Stores that end in a data chunk, in a metadata chunk, right behind the  *)
(* header, or with room to spare; sizes of partitions at and around the    *)
(* alignment, the end of the tables and the limit; short texts, and longer *)
(* ones that go on behind a replaced list, in a group and in an array; a   *)
(* plan's values with quotes, blanks and delimiters.                       *)

MCStoreSizes == {2, 7, 8, 9}
MCValues == {zeros, ones}
MCOrigin == [old \in 0..(Limit - 1) |-> IF old % 2 = 0 THEN zeros ELSE ones]

MCSizes == {0, 12, 24, 64}
MCDeviceSizes == {16, 32, 33}

MCChars == {"a", ".", "{", "}", "=", ":", "+", ";", "\n", "#", ",", "'", "\"", " ", "?"}
MCStarts ==
  {<<>>, <<"a">>, <<"a", "=">>, <<"a", "{">>, <<"a", ".">>, <<"a", "=", "'">>, <<"a", "=", "a">>, <<"a", "+", "=", ",">>,
   <<"a", "=", "a", ":">>, <<"a", "=", "a", ";", "a">>, <<"a", "{", "b", ";">>, <<"a", "=", ",", ";", "a">>,
   <<"a", "=", "a", "'", "\"">>, <<"a", ".", "b", "\n">>, <<"a", "=", "a", " ">>, <<"a", "{", "a", "{">>}
MCKeys == {<<"a">>, <<"a", ".", "b">>, <<"b">>}
MCLists ==
  {<<v>> : v \in {<<"a">>, <<"'", "\"">>, <<"a", "\"", "'", " ">>, <<"a", "\"", "'", ";">>, <<"a", "\"", "'">>}}
  \cup {<<>>, <<<<"?">>>>, <<<<"a", "'", "\"">>, <<",">>>>, <<<<>>, <<>>, <<"a">>>>}

--------------------------------------------------------------------------
\* The variables of a machine that was not chosen.
Unused == "unused"
NoSealing == /\ file = Unused /\ store = Unused /\ cursor = Unused /\ end = Unused
             /\ metadata = Unused /\ output = Unused /\ kept = Unused /\ sources = Unused
             /\ out = Unused /\ fault = Unused
NoLayout  == /\ plan = Unused /\ capacity = Unused /\ device = Unused /\ written = Unused
             /\ index = Unused /\ seen = Unused /\ others = Unused /\ result = Unused
             /\ changes = Unused
NoSyntax  == text = Unused /\ p = Unused /\ values = Unused /\ edits = Unused

FormatsInit == \/ machine = "store" /\ S!Init /\ NoLayout /\ NoSyntax
               \/ machine = "disk" /\ D!Init /\ NoSealing /\ NoSyntax
               \/ machine = "syntax" /\ B!Init /\ NoSealing /\ NoLayout

Sealing == machine = "store" /\ UNCHANGED <<machine, layout, syntax>>
Disk    == machine = "disk" /\ UNCHANGED <<machine, sealing, syntax>>
Syntax  == machine = "syntax" /\ UNCHANGED <<machine, sealing, layout>>

FormatsNext == (Sealing /\ S!Next) \/ (Disk /\ D!Next) \/ (Syntax /\ B!Next)

all == <<machine, phase, sealing, layout, syntax>>
FormatsSpec == /\ FormatsInit /\ [][FormatsNext]_all
               /\ WF_all((Sealing /\ S!Seal) \/ (Disk /\ D!Reads))
               /\ WF_all(Disk /\ (D!Layout \/ D!Stop))

--------------------------------------------------------------------------
\* A sealed store shows what the kernel's store showed, packed as announced,
\* and is refused exactly when it is not usable (Scratch::seal_snapshot).
StoreIsKept == machine = "store" => S!StoreIsKept

\* A disk that is found is the one that was laid out, whole in both copies, its
\* partitions apart from each other and from the tables (Disk::read).
DiskIsFound == machine = "disk" => D!DiskIsFound

\* What Linux's arena holds is accepted, and what is accepted or planned is
\* written so that it reads the same again (BootConfig::decode, encode).
SyntaxIsSound == machine = "syntax" => B!SyntaxIsSound

\* A store is sealed or refused, and a disk is read or refused.
FormatsEnd ==
  /\ machine = "store" => S!SealEnds
  /\ machine = "disk" => D!ReadingEnds
=============================================================================
