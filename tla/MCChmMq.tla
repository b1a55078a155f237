------------------------------ MODULE MCChmMq ------------------------------
(***************************************************************************)
(* Instances of ChmMq for TLC.                                             *)
(***************************************************************************)
EXTENDS ChmMq
=============================================================================
