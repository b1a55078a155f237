------------------------------ MODULE ChmMsgPool ------------------------------
(***************************************************************************)
(* The pool of free msgids in shared memory (lib/chmimdata.cc): a list     *)
(* that gives out its first msgid.                                         *)
(***************************************************************************)
EXTENDS Integers, FiniteSets

\* FreeMsg puts a msgid in front of the pool.  The msgids of a map are freed in the
\* order of its keys, so the greatest is the first one afterwards.
Descending(S) ==
  [k \in 1 .. Cardinality(S) |-> CHOOSE i \in S : Cardinality({j \in S : j > i}) = k - 1]
=============================================================================
