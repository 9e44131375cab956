---------------------------- MODULE MCSharedImage ----------------------------
(***************************************************************************)
(* Two wipes of three clusters, in chunks that cross them, and a third     *)
(* program that takes one.                                                 *)
(***************************************************************************)
EXTENDS SharedImage

TwoPasses == <<"Random", "Zero">>
=============================================================================
