------------------------------ MODULE CarveSpec ------------------------------
(***************************************************************************)
(* What carving promises its caller, without chunks, overlap or            *)
(* de-duplication: the report grows with a prefix of the range, and at     *)
(* every moment it holds exactly the files whose header lies in the prefix *)
(* covered so far.  A scan that is not stopped covers the whole range.     *)
(* A carver that may miss headers promises less: to report only files      *)
(* whose header is there, and to keep what it has reported.                *)
(***************************************************************************)
EXTENDS Signatures

VARIABLES whole,     \* is no header to be missed?
          image,     \* the source, which a scan only reads
          lo, hi,    \* the range to carve, hi exclusive
          covered,   \* the end of the prefix covered so far
          report,    \* the files reported for it
          outcome    \* "running", "complete", "stopped" or "error"

vars == <<whole, image, lo, hi, covered, report, outcome>>

Init == /\ whole \in BOOLEAN
        /\ image \in Images
        /\ lo \in 0 .. Size
        /\ hi \in lo .. Size
        /\ covered = lo
        /\ report = {}
        /\ outcome = "running"

\* Cover more of the range, and complete, be stopped, or go on.
Cover == /\ outcome = "running"
         /\ covered' \in (covered + 1) .. hi
         /\ report \subseteq report' /\ report' \subseteq CarvedWithin(image, lo, covered')
         /\ whole => report' = CarvedWithin(image, lo, covered')
         /\ outcome' \in IF covered' = hi THEN {"complete", "stopped"}
                                          ELSE {"running", "stopped"}
         /\ UNCHANGED <<whole, image, lo, hi>>

\* An empty range is complete at once; a carver that may miss headers may
\* read nothing at all.
CoverNothing == /\ outcome = "running"
                /\ lo = hi \/ (~whole /\ covered = lo)
                /\ outcome' = "complete"
                /\ UNCHANGED <<whole, image, lo, hi, covered, report>>

\* A read fails: the caller gets the error and no files.
Fail == /\ outcome = "running"
        /\ outcome' = "error"
        /\ report' = {}
        /\ UNCHANGED <<whole, image, lo, hi, covered>>

Next == Cover \/ CoverNothing \/ Fail

Spec == Init /\ [][Next]_vars
=============================================================================
