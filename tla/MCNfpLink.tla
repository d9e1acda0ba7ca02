------------------------------ MODULE MCNfpLink ------------------------------
(***************************************************************************)
(* Instances of NfpLink for TLC.                                           *)
(***************************************************************************)
EXTENDS NfpLink
=============================================================================
