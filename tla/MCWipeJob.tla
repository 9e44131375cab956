------------------------------ MODULE MCWipeJob ------------------------------
(***************************************************************************)
(* Small volumes for WipeJob: chunks that do not divide the clusters, an   *)
(* image as long as its volume and one cut short, and patterns of one,     *)
(* two and three passes.                                                   *)
(***************************************************************************)
EXTENDS WipeJob

ZeroPattern == <<"Zero">>
DodPattern == <<"Zero", "One", "Random">>
TwoPasses == <<"Random", "Zero">>
=============================================================================
