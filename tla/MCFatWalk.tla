------------------------------ MODULE MCFatWalk ------------------------------
(***************************************************************************)
(* Every volume of three clusters, one slot in each: directories of        *)
(* several slots are chains of several clusters.                           *)
(***************************************************************************)
EXTENDS FatWalk
=============================================================================
