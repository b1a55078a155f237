----------------------------- MODULE ChmStatus -----------------------------
(***************************************************************************)
(* The status word of a chmpx process (chmpxsts_t, lib/chmstructure.h).    *)
(*                                                                         *)
(* The code packs five fields into the bits of one word and manipulates it *)
(* with macros; here a status is a record with one field per bit group:    *)
(* clearing and setting a masked group is an EXCEPT of that field.  A word *)
(* with bits outside CHMPXSTS_MASK_ALL has no counterpart: every status    *)
(* the library stores passed IS_SAFE_CHMPXSTS, which refuses those bits.   *)
(***************************************************************************)

\* The bit groups (CHMPXSTS_MASK_ and CHMPXSTS_VAL_ constants).
Live    == {"UP", "DOWN"}
Ring    == {"SLAVE", "SRVOUT", "SRVIN"}
Act     == {"NOACT", "ADD", "DELETE"}
Operate == {"NOTHING", "PENDING", "DOING", "DONE"}
Suspend == {"NOSUP", "SUSPEND"}

Status == [live : Live, ring : Ring, act : Act, op : Operate, sup : Suspend]

-----------------------------------------------------------------------------
(* The named combinations; none of them has the suspend bit.               *)

Sts(live, ring, act, op) ==
  [live |-> live, ring |-> ring, act |-> act, op |-> op, sup |-> "NOSUP"]

SLAVE_UP_NORMAL       == Sts("UP",   "SLAVE",  "NOACT",  "NOTHING")
SLAVE_DOWN_NORMAL     == Sts("DOWN", "SLAVE",  "NOACT",  "NOTHING")
SRVOUT_UP_NORMAL      == Sts("UP",   "SRVOUT", "NOACT",  "NOTHING")
SRVOUT_DOWN_NORMAL    == Sts("DOWN", "SRVOUT", "NOACT",  "NOTHING")
SRVIN_UP_NORMAL       == Sts("UP",   "SRVIN",  "NOACT",  "NOTHING")
SRVIN_UP_PENDING      == Sts("UP",   "SRVIN",  "NOACT",  "PENDING")
SRVIN_UP_ADDPENDING   == Sts("UP",   "SRVIN",  "ADD",    "PENDING")
SRVIN_UP_DELPENDING   == Sts("UP",   "SRVIN",  "DELETE", "PENDING")
SRVIN_UP_DELETED      == Sts("UP",   "SRVIN",  "DELETE", "DONE")
SRVIN_DOWN_NORMAL     == Sts("DOWN", "SRVIN",  "NOACT",  "NOTHING")
SRVIN_DOWN_DELPENDING == Sts("DOWN", "SRVIN",  "DELETE", "PENDING")
SRVIN_DOWN_DELETED    == Sts("DOWN", "SRVIN",  "DELETE", "DONE")

-----------------------------------------------------------------------------
(* The IS_CHMPXSTS_ predicates.                                            *)

IsUp(st)        == st.live = "UP"
IsSrvIn(st)     == st.ring = "SRVIN"
IsSrvOut(st)    == st.ring = "SRVOUT"
IsOperatingSt(st) == st.op \in {"DOING", "DONE"}

\* IS_SAFE_CHMPXSTS: the seventeen combinations a stored status may have,
\* with or without the suspend bit.
IsSafe(st) ==
  CASE st.ring \in {"SLAVE", "SRVOUT"} -> st.act = "NOACT" /\ st.op = "NOTHING"
    [] st.ring = "SRVIN" /\ st.live = "UP" ->
         st.act = "NOACT" \/ st.op # "NOTHING"
    [] OTHER -> \/ st.act = "NOACT"  /\ st.op = "NOTHING"
                \/ st.act = "DELETE" /\ st.op \in {"PENDING", "DONE"}

SafeStatus == {st \in Status : IsSafe(st)}

\* IS_CHMPXSTS_BASEHASH: the servers that hold a slot of the current hash
\* ring; every service-in server but those still being added.
IsBaseHash(st) == IsSafe(st) /\ IsSrvIn(st) /\ st.act # "ADD"

\* IS_CHMPXSTS_PENDINGHASH: the servers that hold a slot of the hash ring
\* after the next merge; every service-in server but those being deleted.
IsPendingHash(st) == IsSafe(st) /\ IsSrvIn(st) /\ st.act # "DELETE"

-----------------------------------------------------------------------------
(* The CHANGE_CHMPXSTS_ macros.                                            *)

\* CHANGE_CHMPXSTS_SUSPEND_FLAG: a server that is down, and a slave, is
\* never suspended.
SuspendFlag(st, suspend) ==
  [st EXCEPT !.sup = IF suspend /\ IsUp(st) /\ st.ring # "SLAVE"
                     THEN "SUSPEND" ELSE "NOSUP"]

\* Faulty variant: only the live bit is changed.
MutChangeToDown(st) == [st EXCEPT !.live = "DOWN"]

\* CHANGE_CHMPXSTS_TO_DOWN
ChangeToDown(st) ==
  CASE IsSrvIn(st) /\ st.act = "DELETE" ->
         IF IsUp(st) /\ IsOperatingSt(st) THEN SRVIN_DOWN_DELETED
                                          ELSE SRVIN_DOWN_DELPENDING
    [] IsSrvIn(st) /\ st.act = "ADD" /\ IsUp(st) -> SRVOUT_DOWN_NORMAL
    [] IsSrvIn(st) /\ ~(st.act = "DELETE" \/ (st.act = "ADD" /\ IsUp(st))) ->
         SRVIN_DOWN_NORMAL
    [] IsSrvOut(st) -> SRVOUT_DOWN_NORMAL
    [] OTHER -> st

\* CHANGE_CHMPXSTS_TO_SRVOUT; the macro tests the suspend bit after it has
\* overwritten the word, so the result is never suspended.
ChangeToSrvOut(st) ==
  CASE IsSrvIn(st) /\ IsUp(st) /\ st.act = "NOACT" /\ ~IsOperatingSt(st) ->
         SRVIN_UP_DELPENDING
    [] IsSrvIn(st) /\ IsUp(st) /\ st.act = "ADD" /\ ~IsOperatingSt(st) ->
         SRVOUT_UP_NORMAL
    [] IsSrvIn(st) /\ ~IsUp(st) /\ st.act = "NOACT" -> SRVIN_DOWN_DELPENDING
    [] OTHER -> st

\* CHANGE_CHMPXSTS_TO_SRVIN
ChangeToSrvIn(st) ==
  CASE IsSrvIn(st) /\ IsUp(st) /\ st.act = "DELETE" /\ st.op = "PENDING" ->
         IF st.sup = "NOSUP" THEN SRVIN_UP_PENDING
                             ELSE SuspendFlag(SRVIN_UP_NORMAL, TRUE)
    [] IsSrvOut(st) /\ IsUp(st) /\ st.act = "NOACT" /\ st.sup = "NOSUP" ->
         SRVIN_UP_ADDPENDING
    [] OTHER -> st
=============================================================================
