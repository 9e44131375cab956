------------------------------ MODULE MCDesktop ------------------------------
(***************************************************************************)
(* A window with two images and two databases, each alike.                 *)
(***************************************************************************)
EXTENDS Desktop

Symmetric == Permutations(Images) \union Permutations(Dbs)
=============================================================================
