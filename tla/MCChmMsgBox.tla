----------------------------- MODULE MCChmMsgBox -----------------------------
(* Instances of ChmMsgBox for TLC.                                           *)
EXTENDS ChmMsgBox
=============================================================================
