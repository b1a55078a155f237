---------------------------- MODULE ChmDelivery ----------------------------
(***************************************************************************)
(* What sending messages to the chmpx process with MQACK promises, told    *)
(* without queues, keys, serial numbers and retries: a message is handled  *)
(* at most once, and the caller of Send is told that it succeeded only     *)
(* when the chmpx process has handled this very message, as long as no     *)
(* earlier Send of the caller was given up whose message was handled       *)
(* nevertheless.                                                           *)
(***************************************************************************)
CONSTANTS
  Msg,
  Earlier(_)   \* the messages the sender of a message has sent before

VARIABLES
  fate,   \* what has become of a message
  told    \* what Send has returned for it

Init ==
  /\ fate = [m \in Msg |-> "new"]
  /\ told = [m \in Msg |-> "nothing"]

Submit(m) ==
  /\ fate[m] = "new" /\ told[m] = "nothing"
  /\ fate' = [fate EXCEPT ![m] = "sent"]
  /\ UNCHANGED told

\* The chmpx process takes the message and succeeds or fails with it.
Handle(m) ==
  /\ fate[m] = "sent"
  /\ \E r \in {"handled", "refused"} : fate' = [fate EXCEPT ![m] = r]
  /\ UNCHANGED told

\* The ACK of an earlier message may still be on its way.
Unsure(m) == \E e \in Earlier(m) : told[e] = "failure" /\ fate[e] = "handled"

Confirm(m) ==
  /\ told[m] = "nothing"
  /\ fate[m] = "handled" \/ (fate[m] # "new" /\ Unsure(m))
  /\ told' = [told EXCEPT ![m] = "success"]
  /\ UNCHANGED fate

\* Failure may be reported whatever happened; a message that was not yet sent
\* is then never handled.
Fail(m) ==
  /\ told[m] = "nothing"
  /\ told' = [told EXCEPT ![m] = "failure"]
  /\ UNCHANGED fate

Next == \E m \in Msg : Submit(m) \/ Handle(m) \/ Confirm(m) \/ Fail(m)

Spec == Init /\ [][Next]_<<fate, told>>
=============================================================================
