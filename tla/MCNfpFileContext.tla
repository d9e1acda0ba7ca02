-------------------------- MODULE MCNfpFileContext --------------------------
(***************************************************************************)
(* Instances of NfpFileContext for TLC.                                    *)
(***************************************************************************)
EXTENDS NfpFileContext, TLC

RequestSymmetry == Permutations(Requests)
=============================================================================
