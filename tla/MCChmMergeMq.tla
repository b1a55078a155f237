--------------------------- MODULE MCChmMergeMq ---------------------------
(* Instances of ChmMergeMq for TLC: the servers of the RING, in its order.  *)
EXTENDS ChmMergeMq

CONSTANTS m1, m2, t1, t2, t3

RingTwo   == <<m1, t1, m2>>
RingFail  == <<m1, t1, t2>>
=============================================================================
