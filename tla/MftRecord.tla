------------------------------ MODULE MftRecord ------------------------------
(***************************************************************************)
(* One record of the $MFT: apply_fixups (ntfs/fixup.rs) and                *)
(* parse_attributes (ntfs/mft_record.rs), as functions of what the record  *)
(* holds.  Lengths and offsets are the real ones, in bytes; what an        *)
(* attribute contains is a value.                                          *)
(*                                                                         *)
(* An indexing or slicing out of bounds is the outcome "panic": the        *)
(* release profile aborts on it.                                           *)
(***************************************************************************)
EXTENDS Integers, SequencesExt

CONSTANTS SectorBytes,     \* bytes_per_sector
          RecordSectors,   \* sectors of a record
          FirstAttribute,  \* first_attribute_offset
          Attributes,      \* bound: the attributes a record may hold
          MaxAttributes,   \* bound: how many
          UsaCounts        \* bound: the lengths of the update sequence array

None == "none"

ASSUME RecordAssumption ==
    /\ SectorBytes \in Nat /\ SectorBytes > 8 /\ RecordSectors \in Nat \ {0}
    /\ FirstAttribute \in Nat
    /\ MaxAttributes \in Nat /\ UsaCounts \subseteq Nat
    /\ \A a \in Attributes :
          /\ a.type \in {"name", "data", "other", "end"} /\ a.nonResident \in BOOLEAN
          /\ a.len \in Nat /\ a.at \in Nat /\ a.size \in Nat
          /\ a.type = "name" => a.holds \notin {None, "panic"}
          /\ a.type = "data" /\ a.nonResident => a.holds \in {"runs", "empty", "broken"}

RecordBytes == RecordSectors * SectorBytes

\* attributes are what lies at the places where the loop looks, one after the
\* other, before an end marker; garbled is what it takes one for that lies over
\* the last word of a sector where the update sequence number still stands.
Records == [attributes : UNION {[1 .. n -> Attributes] : n \in 0 .. MaxAttributes},
            garbled : Attributes,
            usaCount : UsaCounts,
            usaFits : BOOLEAN]

-----------------------------------------------------------------------------
(* apply_fixups                                                            *)

FixupFails(r) == r.usaCount # 0 /\ ~r.usaFits

\* Slip: the array is read from its first entry, the number itself, on.
RestoredOneEarly(r) == {i \in 1 .. RecordSectors : r.usaCount = 0}

\* The sectors whose last word is the record's own once the fixups are
\* applied.  A sector whose word was not the update sequence number, a sign of
\* a torn write, is restored all the same; entries past the record are left.
Restored(r) == {i \in 1 .. RecordSectors : r.usaCount = 0 \/ i < r.usaCount}

-----------------------------------------------------------------------------
(* parse_attributes                                                        *)

\* What parse_file_name_attribute returns.
FileName(a) ==
    IF a.len < 24 THEN None
    ELSE IF a.at > a.len THEN "panic"
    ELSE IF a.len - a.at < 66 + a.size THEN None
    ELSE a.holds

\* What parse_data_attribute returns: for a non-resident attribute the runs
\* its list decodes to, none of them for an empty one.
Data(a) ==
    IF a.nonResident
    THEN IF a.len < 34 \/ a.at > a.len THEN "panic" ELSE a.holds
    ELSE IF a.len < 22 \/ a.at + a.size > a.len THEN "panic" ELSE "resident"

\* The attribute at pos as the loop finds it.
Seen(r, pos, a) ==
    IF \E i \in (1 .. RecordSectors) \ Restored(r) :
            pos < i * SectorBytes /\ pos + a.len > i * SectorBytes - 2
    THEN r.garbled
    ELSE a

\* The loop goes no further: the end marker, no room, a length that lies.
Stops(pos, a) ==
    \/ pos + 4 > RecordBytes
    \/ a.type = "end"
    \/ pos + 8 > RecordBytes
    \/ a.len = 0 \/ pos + a.len > RecordBytes

\* What the loop has found when it has passed the attribute.
Passed(s, a) ==
    LET name == IF a.type = "name" /\ ~a.nonResident THEN FileName(a) ELSE None
        data == IF a.type = "data" /\ s.data = None THEN Data(a) ELSE None
    IN  IF s.pos + 8 >= RecordBytes \/ name = "panic" \/ data = "panic"
        THEN [s EXCEPT !.ended = "panic"]
        ELSE IF data = "broken"
        THEN [s EXCEPT !.ended = "error"]
        ELSE [pos |-> s.pos + a.len,
              name |-> IF s.name = None THEN name ELSE s.name,
              data |-> IF data # None THEN data ELSE s.data,
              ended |-> "no"]

Unparsed(ended) == [pos |-> FirstAttribute, name |-> None, data |-> None, ended |-> ended]

\* The loop at the attribute a.
Step(r, s, a) ==
    LET seen == Seen(r, s.pos, a)
    IN  IF s.ended # "no" THEN s
        ELSE IF Stops(s.pos, seen) THEN [s EXCEPT !.ended = "ok"]
        ELSE Passed(s, seen)

\* What apply_fixups and the loop make of the record: "ok" or, when the loop
\* ran into the record's end, "no" are Ok.
Parsed(r) ==
    LET after[i \in 0 .. Len(r.attributes)] ==
            IF i = 0 THEN Unparsed("no") ELSE Step(r, after[i - 1], r.attributes[i])
    IN  IF FixupFails(r) THEN Unparsed("error") ELSE after[Len(r.attributes)]

-----------------------------------------------------------------------------
(* What a record means, independently of how it is parsed.                 *)

\* An attribute that NTFS may have written.
Sound(a) ==
    CASE a.type = "end" -> FALSE
      [] a.type = "name" -> ~a.nonResident /\ a.at \in 24 .. a.len - 66 - a.size
      [] a.type = "data" -> IF a.nonResident
                            THEN a.at \in 64 .. a.len - 1 /\ a.holds # "broken"
                            ELSE a.at \in 24 .. a.len - a.size
      [] OTHER -> a.len >= 24

\* Where each attribute ends when they follow each other.
EndOf(r) ==
    LET end[i \in 0 .. Len(r.attributes)] ==
            IF i = 0 THEN FirstAttribute ELSE end[i - 1] + r.attributes[i].len
    IN  end

\* A whole record: its array has an entry for every sector, its attributes are
\* sound and leave room for the end marker.
Whole(r) ==
    /\ r.usaFits /\ r.usaCount > RecordSectors
    /\ \A i \in DOMAIN r.attributes : Sound(r.attributes[i])
    /\ EndOf(r)[Len(r.attributes)] + 8 <= RecordBytes

\* What its first attribute of a type holds.
First(r, type) ==
    LET ofType == {i \in DOMAIN r.attributes : r.attributes[i].type = type}
        first == r.attributes[CHOOSE i \in ofType : \A j \in ofType : i <= j]
    IN  IF ofType = {} THEN None
        ELSE IF type = "data" /\ ~first.nonResident THEN "resident"
        ELSE first.holds
=============================================================================
