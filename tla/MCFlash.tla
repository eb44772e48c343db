------------------------------- MODULE MCFlash ------------------------------
(***************************************************************************)
(* Instances of AbFlashKv for TLC: two tune values, one history, sequence  *)
(* numbers modulo 4, so that up to three rewrites and any number of        *)
(* interrupted ones follow each other.                                     *)
(***************************************************************************)
EXTENDS AbFlashKv

=============================================================================
