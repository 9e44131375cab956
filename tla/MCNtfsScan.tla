----------------------------- MODULE MCNtfsScan -----------------------------
(***************************************************************************)
(* Lists of up to three runs, on a disk of four clusters of two sectors:   *)
(* as a file's, with every read of up to five sectors, and as the $MFT's,  *)
(* with up to three records of four sectors.  A record holds up to three   *)
(* of the attributes below, some of which cannot be parsed.                *)
(***************************************************************************)
EXTENDS NtfsScan

SmallDeltas == {-2, -1, 1, 3}

Attribute(type, nonResident, length, at, size, holds) ==
    [type |-> type, nonResident |-> nonResident, len |-> length,
     at |-> at, size |-> size, holds |-> holds]

\* A name, another, and one whose content lies past it; runs, none, runs that
\* do not decode, a header cut off, content that is resident, and past the
\* end; another attribute, over a sector's end, up to the record's, with a
\* length of 0 and one past the end.
SomeAttributes ==
    {Attribute("name", FALSE, 104, 24, 12, "long"),
     Attribute("name", FALSE, 96, 24, 2, "short"),
     Attribute("name", FALSE, 80, 96, 2, "short"),
     Attribute("name", FALSE, 80, 24, 2, "short"),
     Attribute("data", TRUE, 72, 64, 0, "runs"),
     Attribute("data", TRUE, 72, 64, 0, "empty"),
     Attribute("data", TRUE, 72, 64, 0, "broken"),
     Attribute("data", TRUE, 24, 16, 0, "runs"),
     Attribute("data", FALSE, 48, 24, 20, "bytes"),
     Attribute("data", FALSE, 48, 24, 40, "bytes"),
     Attribute("other", FALSE, 432, 24, 0, "else"),
     Attribute("other", FALSE, 1984, 24, 0, "else"),
     Attribute("other", FALSE, 0, 24, 0, "else"),
     Attribute("other", FALSE, 4096, 24, 0, "else")}
=============================================================================
