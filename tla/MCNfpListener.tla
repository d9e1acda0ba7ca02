---------------------------- MODULE MCNfpListener ----------------------------
(***************************************************************************)
(* The instance of NfpListener for TLC.                                    *)
(***************************************************************************)
EXTENDS NfpListener
=============================================================================
