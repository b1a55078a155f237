----------------------------- MODULE MCChmAttach -----------------------------
(* Instances of ChmAttach for TLC.                                           *)
EXTENDS ChmAttach
=============================================================================
