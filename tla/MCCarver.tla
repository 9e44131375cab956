------------------------------ MODULE MCCarver ------------------------------
(***************************************************************************)
(* A small instance of Carver: every source of 7 bytes over 3 values, with *)
(* a signature whose header overlaps itself and shares a byte with its     *)
(* footer (as JPEG's FF D8 FF and FF D9 do) and one with a shorter header. *)
(***************************************************************************)
EXTENDS Carver

MCBytes == 0 .. 2
MCSigs == {"jpg", "zip"}
MCHeader == [s \in MCSigs |-> IF s = "jpg" THEN <<1, 2, 1>> ELSE <<2, 2>>]
MCFooter == [s \in MCSigs |-> IF s = "jpg" THEN <<1, 0>> ELSE <<2, 0>>]
MCMaxSize == [s \in MCSigs |-> IF s = "jpg" THEN 6 ELSE 4]
=============================================================================
