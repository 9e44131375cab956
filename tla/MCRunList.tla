------------------------------ MODULE MCRunList ------------------------------
(***************************************************************************)
(* Lists of up to three runs of one or two clusters of two bytes, forwards *)
(* and backwards on a disk of four, and every read of up to five bytes.    *)
(***************************************************************************)
EXTENDS RunList

SmallDeltas == {-2, -1, 1, 3}
=============================================================================
