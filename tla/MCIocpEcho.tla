----------------------------- MODULE MCIocpEcho -----------------------------
(***************************************************************************)
(* Instances of IocpEcho for TLC.                                          *)
(***************************************************************************)
EXTENDS IocpEcho
=============================================================================
