---------------------------- MODULE MCChmConnect ----------------------------
(***************************************************************************)
(* Instances of ChmConnect for TLC.  They differ in who connects to whom,  *)
(* in whom the servers allow, and in what fails.                           *)
(***************************************************************************)
EXTENDS ChmConnect

CONSTANTS p1, p2, p3

\* Everybody connects to everybody else, or the processes form a chain.
AllWants   == {w \in Procs \X Procs : w[1] # w[2]}
ChainWants == {<<p1, p2>>, <<p2, p3>>, <<p1, p3>>}
CycleWants == {<<p1, p2>>, <<p2, p1>>}
TwoToOne   == {<<p1, p3>>, <<p2, p3>>}

AllNamed  == Procs \X Procs
HalfNamed == {<<p1, p2>>}
=============================================================================
