--------------------------- MODULE MCNfpRendezvous ---------------------------
(***************************************************************************)
(* Instances of NfpRendezvous for TLC.                                     *)
(***************************************************************************)
EXTENDS NfpRendezvous
=============================================================================
