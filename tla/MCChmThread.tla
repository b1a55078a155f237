---------------------------- MODULE MCChmThread ----------------------------
(***************************************************************************)
(* Instances of ChmThread for TLC.                                         *)
(***************************************************************************)
EXTENDS ChmThread

NoKeep   == {FALSE}
BothKeep == {FALSE, TRUE}
=============================================================================
