---------------------------- MODULE MCScanSession ----------------------------
(***************************************************************************)
(* Small scans: up to two entries, up to three chunks, at most one file in *)
(* each, with every moment to cancel, to fail or to hang up.               *)
(***************************************************************************)
EXTENDS ScanSession
=============================================================================
