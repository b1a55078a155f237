----------------------------- MODULE MCChmJoin -----------------------------
(***************************************************************************)
(* Instances of ChmJoin for TLC.  They differ in which servers run at      *)
(* first, in whether starts overlap with each other and with packets on    *)
(* their way, and in how many servers die.                                 *)
(***************************************************************************)
EXTENDS ChmJoin

\* The servers in service, and those that run, at first.
AllIn  == {Server}
OneIn  == {{1}}
AllUp  == Server
FirstUp == {1}
NoneUp == {}

OnlySuspend == {"SUSPEND", "NOSUSPEND"}
SuspendJoin == {"SUSPEND", "JOIN"}
=============================================================================
