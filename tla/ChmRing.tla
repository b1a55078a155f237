------------------------------ MODULE ChmRing ------------------------------
(***************************************************************************)
(* The RING of chmpx server processes (lib/chmeventsock.cc).               *)
(*                                                                         *)
(* Every server sends its RING packets to the next server that is up in    *)
(* its own table; a packet travels around the ring, is applied and         *)
(* forwarded by every server and stops at its departure server.  The       *)
(* packets keep the status tables alike (STATUS_CHANGE, SERVER_DOWN) and   *)
(* drive a merge, the data movement after servers join or leave the hash   *)
(* ring: STATUS_CONFIRM, MERGE_START, the merge worker thread of every     *)
(* server, MERGE_COMPLETE or MERGE_ABORT.                                  *)
(*                                                                         *)
(* An operator that models a method takes the process record w and returns *)
(* it changed; w.ok is the method's result.  Besides the table described   *)
(* in ChmImData the record holds                                           *)
(*   asup  is_auto_merge_suspend       sin   startup_servicein             *)
(*   mdp   is_merge_done_processing    run   is_run_merge                  *)
(*   wk    works queued for the merge thread, wst what the thread does     *)
(*   cls   is_close_notify             jn    a client's JOIN_NOTIFY queued *)
(*   link  servers it holds an outgoing socket to                          *)
(*   out   per server, what it wrote to that server's socket and that      *)
(*         server has not read yet (TCP: FIFO)                             *)
(***************************************************************************)
EXTENDS ChmImData, Sequences

CONSTANTS
  AutoMerge,   \* MERGE=AUTO in the configuration
  DoMerge,     \* DOMERGE=ON in the configuration
  Replica,     \* REPLICA count
  InitIn,      \* the sets of servers that may be in service initially
  InitJoin,    \* the sets of servers that may have a client initially
  Cmds,        \* the commands and client changes that occur
  Patient,     \* they wait until no packet is in flight
  MaxTime,     \* bound: the clock stops at this second
  MaxOps,      \* bound: operator commands and client joins/leaves
  MaxCrash,    \* bound: servers that may crash
  MaxQueue     \* bound: unread packets on one socket

ASSUME ConfAssumption ==
  AutoMerge \in BOOLEAN /\ DoMerge \in BOOLEAN /\ Replica \in Nat

ASSUME InitAssumption ==
  InitIn \subseteq SUBSET (1 .. N) /\ InitJoin \subseteq SUBSET (1 .. N)

AllCmds == {"SERVICEIN", "SERVICEOUT", "MERGE", "ABORT", "COMPLETE",
            "SUSPEND", "NOSUSPEND", "UPDATE", "JOIN", "LEAVE"}

ASSUME CmdsAssumption == Cmds \subseteq AllCmds /\ Patient \in BOOLEAN

ASSUME BoundAssumption ==
  MaxTime \in Nat /\ MaxOps \in Nat /\ MaxCrash \in Nat /\ MaxQueue \in Nat

VARIABLES
  node,   \* the server processes
  up,     \* which of them run
  ops     \* commands and client changes so far

vars == <<node, up, ops, now>>

-----------------------------------------------------------------------------
(* Packets.                                                                *)

Result  == {"SUCCESS", "ERROR"}
Chm     == [id : Server, st : Status, ts : Nat]
Slot    == [st : Status, bh : Hash, ph : Hash]
Signals == {"MERGE_START", "MERGE_ABORT", "MERGE_COMPLETE",
            "MERGE_SUSPEND", "MERGE_NOSUSPEND"}

Packet ==
       [type : {"STATUS_CHANGE"}, dept : Server, res : Result, chm : Chm]
  \cup [type : {"STATUS_CONFIRM"}, dept : Server, res : Result,
        list : [Server -> Slot]]
  \cup [type : {"SERVER_DOWN"}, dept : Server, res : Result, down : Server]
  \cup [type : Signals, dept : Server, res : Result]

ChmOf(w, t) == [id |-> t, st |-> w.sv[t].st, ts |-> w.sv[t].ts]

StatusChange(w, t) ==
  [type |-> "STATUS_CHANGE", dept |-> w.id, res |-> "SUCCESS", chm |-> ChmOf(w, t)]

StatusConfirm(w) ==
  [type |-> "STATUS_CONFIRM", dept |-> w.id, res |-> "SUCCESS", list |-> ListOf(w)]

ServerDown(w, t) ==
  [type |-> "SERVER_DOWN", dept |-> w.id, res |-> "SUCCESS", down |-> t]

Signal(w, type) == [type |-> type, dept |-> w.id, res |-> "SUCCESS"]

-----------------------------------------------------------------------------
(* Sockets.                                                                *)

\* A connect succeeds to a process that runs; a socket that is already open
\* is used as it is.
Connectable(w, d) == up[d] \/ d \in w.link

\* A sender uses its own socket to d or else one it has accepted from d; only
\* without either it opens a socket.
Linked(w, d) == IF w.id \in node[d].link THEN w.link ELSE w.link \cup {d}

\* ChmEventSock::Send / GetLockedSendSock: an idle socket of the pool or a new
\* connection.  A write to a socket whose peer has died succeeds and is lost.
Send(w, d, p) ==
  IF d = NoServer THEN Fail(w)
  ELSE IF up[d] THEN Good([w EXCEPT !.out[d] = Append(@, p), !.link = Linked(w, d)])
  ELSE IF d \in w.link THEN Good(w) ELSE Fail(w)

SendNext(w, p) == Send(w, NextRing(w), p)

\* "send status change": to the next server, or, alone on the RING, only to
\* the slaves (which this module leaves out).
Notify(w, t) == IF NextRing(w) = NoServer THEN Good(w) ELSE SendNext(w, StatusChange(w, t))
NotifySelf(w) == Notify(w, w.id)

\* The own status is stamped and sent; a signal, or the whole list, may follow.
Renew(w) ==
  LET w1 == UpdateSelfLastStatusTime(w) IN SendNext(w1, StatusChange(w1, w.id))

ThenSignal(w, type) == IF w.ok THEN SendNext(w, Signal(w, type)) ELSE w
SendConfirm(w)      == SendNext(w, StatusConfirm(w))

\* The own status has been set, if w.ok: the pending hash values follow, and the
\* notice.
PublishSelf(w) == IF w.ok THEN NotifySelf(UpdatePendingHash(w)) ELSE w

\* The same for several servers, in the order of the sequence q.
NotifyAll(w, q) ==
  LET d == NextRing(w)
      s == [i \in DOMAIN q |-> StatusChange(w, q[i])]
  IN  IF q = << >> \/ d = NoServer THEN Good(w)
      ELSE IF up[d] THEN Good([w EXCEPT !.out[d] = @ \o s, !.link = Linked(w, d)])
      ELSE IF d \in w.link THEN Good(w) ELSE Fail(w)

\* RechainRing: connect to d, then close every socket to another server.
RechainRing(w, d) == IF Connectable(w, d) THEN [w EXCEPT !.link = {d}] ELSE w

\* Faulty variant: the chain is left as it is.
MutCheckRechainRing(w, new) == w

\* CheckRechainRing: the first of the present next server and the server whose
\* status has just been received becomes the one this server is chained to.
CheckRechainRing(w, new) ==
  LET cur  == NextRing(w)
      seen == ({cur} \cup {new}) \ {NoServer, w.id}
      d    == CHOOSE t \in seen : \A u \in seen : Dist(w.id, t) <= Dist(w.id, u)
  IN  IF seen = {} \/ (d = cur /\ cur \in w.link) THEN w ELSE RechainRing(w, d)

\* Faulty variant: every packet is passed on.
MutIsSafeDept(w, dept) == TRUE

\* IsSafeDeptAndNextChmpxId: sending to the next server does not step over
\* the departure server.
IsSafeDept(w, dept) ==
  LET d == NextRing(w)
  IN  d = dept \/ Dist(w.id, d) < Dist(w.id, dept)

\* A received packet is passed on unchanged but for its result.
Forward(w, p) ==
  IF IsSafeDept(w, p.dept) THEN SendNext(w, p) ELSE Good(w)

Transfer(w, p) == IF NextRing(w) = NoServer THEN Fail(w) ELSE Forward(w, p)

-----------------------------------------------------------------------------
(* Checks over the whole table.                                            *)

IsAutoMerge(w) == AutoMerge /\ ~w.asup

\* CheckAllStatusForMergeStart
CheckAllForMergeStart(w) ==
  /\ ~w.oper
  /\ \A t \in Server :
       LET st == w.sv[t].st
       IN  IsSrvIn(st) => IF IsUp(st) THEN st.sup = "NOSUP" ELSE st.act # "NOACT"

\* Faulty variant: only the servers that are down are looked at.
MutCheckAllForMergeComplete(w) ==
  \A t \in Server :
    LET st == w.sv[t].st
    IN  IsSrvIn(st) /\ ~IsUp(st) /\ st.act = "DELETE" => st.op \in {"PENDING", "DONE"}

\* CheckAllStatusForMergeComplete
CheckAllForMergeComplete(w) ==
  \A t \in Server :
    LET st == w.sv[t].st
    IN  IsSrvIn(st) => IF IsUp(st) THEN st.op # "DOING"
                       ELSE st.act = "DELETE" => st.op \in {"PENDING", "DONE"}

WithStatus(w, st) == {t \in Server : w.sv[t].st = st}

\* The loops "while(downchmpxid = GetChmpxIdByStatus(old))" that set a new
\* status for every down server found and send it on that server's behalf.
ReplaceDown(w, old, new) ==
  LET S  == WithStatus(w, old)
      sv == [t \in Server |-> IF t \in S THEN [w.sv[t] EXCEPT !.st = new, !.ts = now]
                                         ELSE w.sv[t]]
  IN  IF S = {} THEN Good(w) ELSE NotifyAll(Recount([w EXCEPT !.sv = sv]), InOrder(S))

\* ChangeDownSvrStatusByMerge; a failed send is only logged.
ChangeDownSvr(w, type) ==
  LET S  == {t \in Server : /\ IsSrvIn(w.sv[t].st)
                            /\ ~IsUp(w.sv[t].st)
                            /\ w.sv[t].st.act = "DELETE"
                            /\ type = "START" => w.sv[t].st.op # "DONE"}
      new == IF type = "START" THEN SRVIN_DOWN_DELETED ELSE SRVOUT_DOWN_NORMAL
      sv == [t \in Server |->
               IF t \notin S THEN w.sv[t]
               ELSE [w.sv[t] EXCEPT !.st = new, !.ts = now,
                                    !.bh = IF type = "COMPLETE" THEN NoHash ELSE @]]
  IN  IF S = {} THEN Good(w)
      ELSE Good(NotifyAll(UpdatePendingHash(Recount([w EXCEPT !.sv = sv])), InOrder(S)))

-----------------------------------------------------------------------------
(* The steps of a merge on one server.  The pure operators compute the new *)
(* status of the server itself.                                            *)

\* MergeComplete refuses: this server's part of the merge is not done.
NotComplete(st) ==
  /\ IsSrvIn(st)
  /\ IF IsUp(st)
     THEN st.op \in {"PENDING", "DOING"} \/ (st.sup = "SUSPEND" /\ st.act # "DELETE")
     ELSE st.act = "DELETE" /\ st.op # "DONE"

CompletedStatus(st) ==
  CASE IsSrvIn(st) /\ IsUp(st) /\ st.act # "DELETE" -> SRVIN_UP_NORMAL
    [] IsSrvIn(st) /\ IsUp(st) /\ st.act = "DELETE" ->
         SuspendFlag(SRVOUT_UP_NORMAL, st.sup = "SUSPEND")
    [] IsSrvIn(st) /\ ~IsUp(st) /\ st.act = "DELETE" -> SRVOUT_DOWN_NORMAL
    [] OTHER -> st

\* MergeComplete: down servers leave first, the pending hash becomes the base
\* hash, the new status is sent.
Completed(w) == IF w.ok THEN NotifySelf(UpdateSelfLastStatusTime(w)) ELSE w

CompleteSelf(w) ==
  IF NotComplete(Self(w)) THEN Fail(w)
  ELSE Completed(SetSelfStatus(SetBaseHash(w, w.id, w.sv[w.id].ph),
                               CompletedStatus(Self(w))))

MergeComplete(w) == CompleteSelf(ChangeDownSvr(w, "COMPLETE"))

\* RequestMergeComplete
SendMergeComplete(w) == ThenSignal(Renew(w), "MERGE_COMPLETE")

RequestMergeComplete(w) ==
  IF ~CheckAllForMergeComplete(w) THEN Fail(w)
  ELSE IF NextRing(w) = NoServer THEN MergeComplete([w EXCEPT !.mdp = FALSE])
  ELSE SendMergeComplete(w)

\* Faulty variant: the wish to complete is not remembered.
MutAwaitComplete(w) == w

\* MergeDone leaves the request for the completion to the return of its notice.
AwaitComplete(w) == [w EXCEPT !.mdp = IF IsAutoMerge(w) THEN TRUE ELSE @]

\* MergeDone; alone on the RING, in the auto mode, it asks for the completion
\* once after the notice to the slaves and, if that succeeds, once more.
CompleteAgain(w) == IF w.ok THEN Good(RequestMergeComplete(w)) ELSE w

AnnounceDone(w) ==
  IF ~w.ok THEN w
  ELSE IF NextRing(w) # NoServer THEN AwaitComplete(Good(NotifySelf(w)))
  ELSE IF IsAutoMerge(w) THEN CompleteAgain(RequestMergeComplete(w))
  ELSE Good(w)

MergeDone(w) ==
  LET st == Self(w)
  IN  IF ~IsSrvIn(st) THEN Fail(w)
      ELSE IF st.op # "DOING" THEN (IF st.op = "DONE" THEN Good(w) ELSE Fail(w))
      ELSE IF IsUp(st) /\ st.sup = "SUSPEND" THEN Fail(w)
      ELSE AnnounceDone(SetSelfStatus(w, [st EXCEPT !.op = "DONE"]))

\* ChangeStatusBeforeMergeStart: the guard, and the status it sets.
MayStartMerge(w) ==
  LET st == Self(w)
  IN  /\ ~w.oper
      /\ ~IsOperatingSt(st)
      /\ IsSrvIn(st)
      /\ IF IsUp(st)
         THEN /\ st.op = "PENDING"
              /\ st.sup = "NOSUP"
              /\ st.act # "NOACT" => IsPendingExchange(w)
         ELSE st.act = "DELETE" /\ st.op = "PENDING"

StartedStatus(st) == [st EXCEPT !.op = IF IsUp(st) THEN "DOING" ELSE "DONE"]

\* GetServerChmpxIdByBaseHash: the slots of this server's own data and the
\* slots of the data it keeps a replica of.
RelatedSlots(w) ==
  LET own == w.sv[w.id].bh
  IN  {(own + k) % w.bcnt : k \in (0 - Replica) .. Replica}

\* The servers asked for data: all base-hash servers when slots move, else
\* (a server back from suspend or down) those that share a slot with it.
MergeTargets(w) ==
  {t \in Server \ {w.id} :
     /\ IsUp(w.sv[t].st) /\ w.sv[t].st.sup = "NOSUP"
     /\ IF IsPendingExchange(w) THEN IsBaseHash(w.sv[t].st)
        ELSE w.sv[t].bh \in RelatedSlots(w)}

\* MergeStart: with the status DOING published, the merge thread is woken up,
\* unless there is nothing to fetch.
RunMerge(w) ==
  IF DoMerge /\ w.run THEN Fail(w)
  ELSE IF ~DoMerge \/ MergeTargets(w) = {} THEN MergeDone(w)
  ELSE Good([w EXCEPT !.run = TRUE, !.wk = @ + 1])

Started(w) == IF w.ok THEN RunMerge(ChangeDownSvr(NotifySelf(w), "START")) ELSE Good(w)

MergeStart(w) ==
  IF MayStartMerge(w) THEN Started(SetSelfStatus(w, StartedStatus(Self(w)))) ELSE Good(w)

\* RequestMergeStart: STATUS_CONFIRM first; MERGE_START follows when it is back.
RequestMergeStart(w) ==
  IF ~CheckAllForMergeStart(w) THEN Fail(w)
  ELSE IF NextRing(w) = NoServer THEN MergeStart(w)
  ELSE SendConfirm(UpdateSelfLastStatusTime(w))

\* Faulty variant: a merge under way is not reset.
MutAbortedStatus(st) ==
  IF IsSrvIn(st) /\ IsUp(st) /\ st.act = "DELETE"
  THEN [st EXCEPT !.act = "NOACT", !.op = "PENDING"] ELSE st

AbortedStatus(st) ==
  CASE IsSrvIn(st) /\ IsUp(st) /\ st.act = "NOACT" /\ IsOperatingSt(st) ->
         [st EXCEPT !.op = IF st.sup = "NOSUP" THEN "PENDING" ELSE "NOTHING"]
    [] IsSrvIn(st) /\ IsUp(st) /\ st.act = "ADD" /\ IsOperatingSt(st) ->
         [st EXCEPT !.op = "PENDING"]
    [] IsSrvIn(st) /\ IsUp(st) /\ st.act = "DELETE" ->
         [st EXCEPT !.act = "NOACT",
                    !.op = IF st.sup = "NOSUP" THEN "PENDING" ELSE "NOTHING"]
    [] IsSrvIn(st) /\ ~IsUp(st) /\ st.act = "DELETE" -> SRVIN_DOWN_NORMAL
    [] OTHER -> st

\* MergeAbort: the worker is told to stop, the own status is reset and sent, then
\* down servers that were being deleted leave.
AbortDown(w) == IF w.ok THEN ChangeDownSvr(w, "ABORT") ELSE w

MergeAbort(w) ==
  LET w1 == [w EXCEPT !.run = IF DoMerge THEN FALSE ELSE @]
  IN  AbortDown(PublishSelf(SetSelfStatus(w1, AbortedStatus(Self(w1)))))

\* RequestMergeAbort
RequestMergeAbort(w) ==
  IF NextRing(w) = NoServer THEN Good(MergeAbort(w))
  ELSE SendNext(w, Signal(w, "MERGE_ABORT"))

-----------------------------------------------------------------------------
(* Requests: from an operator, from a client process, or after an event.   *)

\* RequestServiceIn
RequestServiceIn(w) ==
  LET st == ChangeToSrvIn(Self(w))
  IN  IF w.oper \/ st = Self(w) THEN Fail(w) ELSE PublishSelf(SetSelfStatus(w, st))

\* RequestServiceOut.  For the server itself the notice to the slaves is not
\* an alternative to the notice to the RING: alone, the call ends in a failed
\* send to no server.
SendServiceOut(w, t) ==
  IF t # w.id /\ NextRing(w) = NoServer THEN Good(w)
  ELSE SendNext(w, StatusChange(w, t))

AutoComplete(w) == IF w.ok /\ IsAutoMerge(w) THEN RequestMergeComplete(w) ELSE w

PublishOut(w, t) ==
  IF w.ok THEN AutoComplete(SendServiceOut(UpdatePendingHash(w), t)) ELSE w

RequestServiceOut(w, t) ==
  LET st == ChangeToSrvOut(w.sv[t].st)
  IN  IF w.oper THEN Fail(w)
      ELSE IF st = w.sv[t].st THEN (IF t = w.id THEN Fail(w) ELSE Good(w))
      ELSE PublishOut(IF t = w.id THEN SetSelfStatus(w, st) ELSE SetServerStatus(w, t, st), t)

\* RequestMergeSuspend and RequestMergeNoSuspend
RequestMergeSuspend(w) ==
  LET w1 == [w EXCEPT !.asup = TRUE, !.sin = FALSE]
  IN  IF NextRing(w) = NoServer THEN Good(w1)
      ELSE SendNext(w1, Signal(w1, "MERGE_SUSPEND"))

RequestMergeNoSuspend(w) ==
  LET w1 == [w EXCEPT !.asup = FALSE]
  IN  IF NextRing(w) = NoServer THEN Good(w1)
      ELSE SendNext(w1, Signal(w1, "MERGE_NOSUSPEND"))

\* ContinuousAutoMerge: a server that has waited for its start-up service-in asks
\* for it first, unless it has no client yet.
StartupDone(w) == IF w.ok THEN RequestMergeStart([w EXCEPT !.sin = FALSE]) ELSE Good(w)

ContinuousAutoMerge(w) ==
  LET startup == w.sin /\ IsSrvOut(Self(w)) /\ IsUp(Self(w))
  IN  IF (~IsAutoMerge(w) /\ ~w.sin) \/ w.oper THEN Good(w)
      ELSE IF startup /\ Self(w).sup = "SUSPEND" THEN Good(w)
      ELSE StartupDone(IF startup THEN RequestServiceIn(w) ELSE Good(w))

\* DoSuspend: the last client process of this server is gone.
SuspendedStatus(st) ==
  IF ~IsUp(st) THEN [st EXCEPT !.sup = "NOSUP"]
  ELSE IF st.ring = "SLAVE" THEN st
  ELSE [st EXCEPT !.sup = "SUSPEND",
                  !.op = CASE IsSrvOut(st) -> @
                           [] IsSrvIn(st) /\ st.act = "NOACT" -> "NOTHING"
                           [] OTHER -> "PENDING"]

AbortIf(w, merging) == IF w.ok /\ merging THEN RequestMergeAbort(w) ELSE w

DoSuspend(w) ==
  LET st == SuspendedStatus(Self(w))
  IN  IF st = Self(w) THEN Good(w)
      ELSE AbortIf(PublishSelf(SetSelfStatus(w, st)), w.oper)

\* PxCltReceiveJoinNotify: a client process has attached.  A server that was
\* in service without a client has missed updates, so it needs a merge.
ThenContinue(w) == IF w.ok THEN ContinuousAutoMerge(w) ELSE w

JoinNotify(w) ==
  LET st == IF Self(w) = SuspendFlag(SRVIN_UP_NORMAL, TRUE)
            THEN SRVIN_UP_PENDING ELSE [Self(w) EXCEPT !.sup = "NOSUP"]
  IN  IF ~w.join THEN Fail(w)
      ELSE IF Self(w).sup = "NOSUP" THEN Good(w)
      ELSE ThenContinue(PublishSelf(SetSelfStatus(w, st)))

\* ServerDownNotifyHup: the socket to server s was closed by its death.  The
\* death, and the abort of a merge, go around the RING; the last server left
\* does by itself what they would lead to.
AbortSignal(w, merging) == IF merging THEN SendNext(w, Signal(w, "MERGE_ABORT")) ELSE w
AutoServiceOut(w, s)    == IF w.ok /\ IsAutoMerge(w) THEN RequestServiceOut(w, s) ELSE w

PublishDown(w, s, merging) ==
  IF NextRing(w) # NoServer
  THEN SendNext(AbortSignal(CheckRechainRing(w, NextRing(w)), merging), ServerDown(w, s))
  ELSE AutoServiceOut(IF merging THEN MergeAbort(w) ELSE Good(w), s)

ServerDownNotifyHup(w, s) ==
  LET w1 == [w EXCEPT !.link = @ \ {s}]
      st == ChangeToDown(w.sv[s].st)
  IN  IF st = w.sv[s].st THEN Good(w1)
      ELSE PublishDown(SetServerStatus(w1, s, st), s, w.oper)

-----------------------------------------------------------------------------
(* Receiving a packet (PxComReceive... and what Processing does after it). *)

IsDept(w, p) == p.dept = w.id

\* Faulty variant: a confirmation that failed is not tried again.
MutRetryConfirm(w) == Good(w)

\* PxComReceiveStatusConfirm: on a difference the departure server sends its own
\* status around and asks again; that is what repairs the tables when an older
\* status of the same second has been stored over a newer one.
ConfirmAgain(w) == IF w.ok THEN SendConfirm(w) ELSE w
RetryConfirm(w) == ConfirmAgain(Renew(w))

ReceiveStatusConfirm(w, p) ==
  LET same == p.res = "SUCCESS" /\ CompareChmpxSvrs(w, p.list)
  IN  IF NextRing(w) = NoServer THEN Fail(w)
      ELSE IF ~IsDept(w, p)
           THEN Forward(w, [p EXCEPT !.res = IF same THEN "SUCCESS" ELSE "ERROR"])
      ELSE IF p.res # "SUCCESS" THEN RetryConfirm(w)
      ELSE IF CheckAllForMergeStart(w) THEN SendNext(w, Signal(w, "MERGE_START"))
      ELSE Good(w)

\* Faulty variant: the status is sent around again whatever came back.
MutNeedsRetry(w, p) == TRUE

\* PxComReceiveStatusChange at the departure server: in the auto mode the
\* DONE notice that came back asks for the completion; a failure is retried
\* by sending the own status around once more.
NeedsRetry(w, p) == p.res # "SUCCESS" \/ (~w.ok /\ w.mdp)

RetryNotice(w, p) ==
  IF NeedsRetry(w, p) THEN NotifySelf(UpdateSelfLastStatusTime(w)) ELSE w

StatusChangeBack(w, p) ==
  LET done == /\ p.chm.id = w.id
              /\ p.chm.st \in {SRVIN_UP_DELETED, [SRVIN_UP_PENDING EXCEPT !.op = "DONE"],
                               [SRVIN_UP_ADDPENDING EXCEPT !.op = "DONE"]}
              /\ IsAutoMerge(w)
              /\ w.mdp
  IN  RetryNotice(IF p.res = "SUCCESS" /\ done THEN RequestMergeComplete(w) ELSE Good(w), p)

\* ... and at every other server: apply, rechain, pass on.
StatusChangePass(w, p) ==
  LET st == IF p.chm.id = w.id THEN CorrectSelf(w, p.chm.st) ELSE p.chm.st
  IN  Transfer(CheckRechainRing(MergeChmpxSvrs(w, p.chm), p.chm.id),
               [p EXCEPT !.chm.st = st])

ReceiveStatusChange(w, p) ==
  IF IsDept(w, p) THEN StatusChangeBack(w, p) ELSE StatusChangePass(w, p)

\* MERGE_START: passed on first, then this server starts its own merge.
ThenMergeStart(w) == IF w.ok THEN MergeStart(w) ELSE w

ReceiveMergeStart(w, p) ==
  ThenMergeStart(IF ~IsDept(w, p) THEN Transfer(w, p)
                 ELSE IF p.res = "SUCCESS"
                      THEN ReplaceDown(w, SRVIN_DOWN_DELPENDING, SRVIN_DOWN_DELETED)
                 ELSE Good(w))

\* MERGE_ABORT: passed on, then this server aborts.
Aborted(w, p) ==
  IF ~w.ok THEN w
  ELSE ContinuousAutoMerge(
         IF IsDept(w, p) THEN ReplaceDown(w, SRVIN_DOWN_DELETED, SRVIN_DOWN_DELPENDING)
                         ELSE w)

ThenMergeAbort(w, p) == IF w.ok THEN Aborted(MergeAbort(w), p) ELSE w

ReceiveMergeAbort(w, p) ==
  ThenMergeAbort(IF IsDept(w, p) THEN Good(w) ELSE Transfer(w, p), p)

\* PxComReceiveMergeComplete: this server vetoes the completion.
VetoComplete(st) ==
  /\ IsSrvIn(st) /\ IsUp(st)
  /\ \/ st.op = "DOING"
     \/ /\ st.sup = "SUSPEND"
        /\ CASE st.act = "NOACT"  -> TRUE
             [] st.act = "ADD"    -> st.op # "PENDING"
             [] st.act = "DELETE" -> st.op # "DONE"

\* "Not finish merging by all servers in RING, then retry to complete."
RetryComplete(w) == IF NextRing(w) = NoServer THEN Good(w) ELSE SendMergeComplete(w)

\* The departure server takes down servers out of the hash ring on their behalf.
ServiceOutDown(w) ==
  LET S   == WithStatus(w, SRVIN_DOWN_DELETED)
      T   == WithStatus(w, SRVIN_DOWN_DELPENDING)
      sv  == [t \in Server |-> IF t \notin S \cup T THEN w.sv[t]
                ELSE [w.sv[t] EXCEPT !.st = SRVOUT_DOWN_NORMAL, !.bh = NoHash, !.ts = now]]
  IN  IF S \cup T = {} THEN Good(w)
      ELSE NotifyAll(Recount([w EXCEPT !.sv = sv]), InOrder(S) \o InOrder(T))

\* MERGE_COMPLETE: passed on, with this server's veto, then this server completes
\* unless the packet says ERROR.
DownOut(w, p) == IF w.ok /\ IsDept(w, p) THEN ServiceOutDown(w) ELSE w

ThenMergeComplete(w, p, all) ==
  IF ~w.ok THEN w
  ELSE IF all THEN ContinuousAutoMerge(DownOut(MergeComplete(w), p))
  ELSE RetryComplete(w)

ReceiveMergeComplete(w, p) ==
  LET all == p.res = "SUCCESS" /\ (IsDept(w, p) \/ ~VetoComplete(Self(w)))
      res == IF all THEN "SUCCESS" ELSE "ERROR"
  IN  ThenMergeComplete(
        IF ~IsDept(w, p) THEN Transfer(w, [p EXCEPT !.res = res])
        ELSE IF all THEN ReplaceDown(w, SRVIN_DOWN_DELETED, SRVOUT_DOWN_NORMAL)
        ELSE Good(w),
        p, all /\ (IsDept(w, p) \/ IsSafeDept(w, p.dept)))

\* PxComReceiveMergeSuspend and PxComReceiveMergeNoSuspend: the flag is set
\* where the packet is passed on, not where it came from.
ReceiveMergeSuspend(w, p) ==
  IF IsDept(w, p) THEN Good(w)
  ELSE IF IsSafeDept(w, p.dept) /\ p.res = "SUCCESS" /\ NextRing(w) # NoServer
       THEN Forward([w EXCEPT !.asup = TRUE, !.sin = FALSE], p)
  ELSE Transfer(w, p)

ReceiveMergeNoSuspend(w, p) ==
  IF IsDept(w, p) THEN Good(w)
  ELSE IF IsSafeDept(w, p.dept) /\ p.res = "SUCCESS" /\ NextRing(w) # NoServer
       THEN Forward([w EXCEPT !.asup = FALSE], p)
  ELSE Transfer(w, p)

\* PxComReceiveServerDown
ReceiveServerDown(w, p) ==
  LET w1  == [w EXCEPT !.link = @ \ {p.down}]
      st  == ChangeToDown(w1.sv[p.down].st)
      w2  == IF st = w1.sv[p.down].st THEN Good(w1) ELSE SetServerStatus(w1, p.down, st)
      res == IF w2.ok /\ p.res = "SUCCESS" THEN "SUCCESS" ELSE "ERROR"
  IN  IF IsDept(w, p)
      THEN IF p.res # "SUCCESS" THEN Fail(w)
           ELSE IF IsAutoMerge(w) THEN RequestServiceOut(w, p.down) ELSE Good(w)
      ELSE IF NextRing(w2) = NoServer THEN Good(w2)
      ELSE Forward(w2, [p EXCEPT !.res = res])

-----------------------------------------------------------------------------
(* Control commands (the control port's dispatcher).                       *)

AutoStart(w) == IF w.ok /\ IsAutoMerge(w) THEN RequestMergeStart(w) ELSE w

CtlComServiceIn(w) == AutoStart(RequestServiceIn(w))

\* A command for a server that is up is handed to that server's control port.
CtlComServiceOut(w, t) ==
  IF t = w.id \/ ~IsUp(w.sv[t].st) THEN RequestServiceOut(w, t) ELSE Good(w)

CtlComUpdateStatus(w) == IF NextRing(w) = NoServer THEN Fail(w) ELSE Renew(w)

-----------------------------------------------------------------------------
(* The merge worker thread (MergeWorkerFunc).                              *)

\* It asks the ring for the data of its targets; without a next server, or
\* when that cannot be sent, it gives up and leaves the status DOING.
WorkerBegin(w) ==
  IF NextRing(w) = NoServer \/ ~Connectable(w, NextRing(w))
  THEN [w EXCEPT !.wk = @ - 1, !.run = FALSE]
  ELSE [w EXCEPT !.wk = @ - 1, !.wst = "wait"]

\* All targets have answered: the status becomes DONE ...
Reported(w) == IF w.ok THEN [w EXCEPT !.wst = "done"]
                       ELSE [w EXCEPT !.wst = "idle", !.run = FALSE]

WorkerFinish(w) == Reported(MergeDone(w))

\* ... and, later, the run flag is cleared.
WorkerClear(w) == [w EXCEPT !.wst = "idle", !.run = FALSE]

\* The abort has cleared the run flag while the thread was waiting.
WorkerStop(w) == [w EXCEPT !.wst = "idle"]

-----------------------------------------------------------------------------
(* Initial states: a RING at rest.  Every server is up and either in or    *)
(* out of service, with or without a client process; in the auto mode a    *)
(* server that waits for its first client still has its startup service-in *)
(* request pending.                                                        *)

InitEntry(in, joined) ==
  [t \in Server |->
    [st |-> SuspendFlag(IF t \in in THEN SRVIN_UP_NORMAL ELSE SRVOUT_UP_NORMAL,
                        t \notin joined),
     bh |-> IF t \in in THEN Cardinality(in \cap (1 .. (t - 1))) ELSE NoHash,
     ph |-> IF t \in in THEN Cardinality(in \cap (1 .. (t - 1))) ELSE NoHash,
     ts |-> 0]]

InitNode(s, in, joined) ==
  [id |-> s, sv |-> InitEntry(in, joined), bcnt |-> Cardinality(in), oper |-> FALSE,
   join |-> s \in joined, ok |-> TRUE,
   asup |-> FALSE, sin |-> AutoMerge /\ s \notin in \cup joined, mdp |-> FALSE,
   run |-> FALSE, wk |-> 0, wst |-> "idle", cls |-> FALSE, jn |-> FALSE,
   link |-> {After(s, 1)} \ {s}, out |-> [t \in Server |-> << >>]]

Init ==
  /\ \E in \in InitIn, joined \in InitJoin :
       node = [s \in Server |-> InitNode(s, in, joined)]
  /\ up  = [s \in Server |-> TRUE]
  /\ ops = 0
  /\ now = 0

-----------------------------------------------------------------------------
(* Actions.                                                                *)

\* The bound on the sockets: a handler that would exceed it does not run.
Fits(w) == \A t \in Server : Len(w.out[t]) <= MaxQueue

\* Server s ends a handler with the record w.
Becomes(s, w) == Fits(w) /\ node' = [node EXCEPT ![s] = Good(w)]

\* Server t has read the first packet of server s and its handler has ended
\* with the record w.
Unread(s, t) == Head(node[s].out[t])

Recv(s, t, type, w) ==
  /\ up[t]
  /\ node[s].out[t] # << >>
  /\ Unread(s, t).type = type
  /\ Fits(w)
  /\ node' = [node EXCEPT ![s].out[t] = Tail(@), ![t] = Good(w)]
  /\ UNCHANGED <<up, ops, now>>

RecvStatusConfirm(s, t) ==
  Recv(s, t, "STATUS_CONFIRM", ReceiveStatusConfirm(node[t], Unread(s, t)))
RecvStatusChange(s, t) ==
  Recv(s, t, "STATUS_CHANGE", ReceiveStatusChange(node[t], Unread(s, t)))
RecvMergeStart(s, t) ==
  Recv(s, t, "MERGE_START", ReceiveMergeStart(node[t], Unread(s, t)))
RecvMergeAbort(s, t) ==
  Recv(s, t, "MERGE_ABORT", ReceiveMergeAbort(node[t], Unread(s, t)))
RecvMergeComplete(s, t) ==
  Recv(s, t, "MERGE_COMPLETE", ReceiveMergeComplete(node[t], Unread(s, t)))
RecvMergeSuspend(s, t) ==
  Recv(s, t, "MERGE_SUSPEND", ReceiveMergeSuspend(node[t], Unread(s, t)))
RecvMergeNoSuspend(s, t) ==
  Recv(s, t, "MERGE_NOSUSPEND", ReceiveMergeNoSuspend(node[t], Unread(s, t)))
RecvServerDown(s, t) ==
  Recv(s, t, "SERVER_DOWN", ReceiveServerDown(node[t], Unread(s, t)))

\* The accepted socket of a dead server is closed before all of it was read.
DropStream(s, t) ==
  /\ ~up[s] /\ up[t]
  /\ node[s].out[t] # << >>
  /\ node' = [node EXCEPT ![s].out[t] = << >>]
  /\ UNCHANGED <<up, ops, now>>

\* The socket of t to the dead server s reports its close.
NotifyHup(s, t) ==
  /\ up[t] /\ ~up[s] /\ s \in node[t].link
  /\ Becomes(t, ServerDownNotifyHup(node[t], s))
  /\ UNCHANGED <<up, ops, now>>

Running == {s \in Server : up[s]}

\* Nothing is left to read or to notice and no worker is about to end; workers
\* may be busy copying data.
Settled ==
  \A s \in Running :
    /\ ~node[s].jn /\ ~node[s].cls /\ node[s].wst # "done"
    /\ node[s].link \subseteq Running
    /\ \A t \in Server : node[t].out[s] = << >>

\* The RING is at rest.
Quiet == Settled /\ \A s \in Running : node[s].wk = 0 /\ node[s].wst = "idle"

\* A control command to server s; one that is refused changes nothing.
Command(s, cmd, w) ==
  /\ up[s]
  /\ ops < MaxOps
  /\ cmd \in Cmds
  /\ Patient => Settled
  /\ Good(w) # node[s]
  /\ Becomes(s, w)
  /\ ops' = ops + 1
  /\ UNCHANGED <<up, now>>

CmdServiceIn(s)     == Command(s, "SERVICEIN", CtlComServiceIn(node[s]))
CmdServiceOut(s, t) == Command(s, "SERVICEOUT", CtlComServiceOut(node[s], t))
CmdMergeStart(s)    == Command(s, "MERGE", RequestMergeStart(node[s]))
CmdMergeAbort(s)    == Command(s, "ABORT", RequestMergeAbort(node[s]))
CmdMergeComplete(s) == Command(s, "COMPLETE", RequestMergeComplete(node[s]))
CmdSuspend(s)       == Command(s, "SUSPEND", RequestMergeSuspend(node[s]))
CmdNoSuspend(s)     == Command(s, "NOSUSPEND", RequestMergeNoSuspend(node[s]))
CmdUpdateStatus(s)  == Command(s, "UPDATE", CtlComUpdateStatus(node[s]))

\* The first client process of server s attaches and queues its notice; the
\* last one exits, which the watcher of the shared memory file finds out.
ClientJoin(s) ==
  ~node[s].join /\ Command(s, "JOIN", [node[s] EXCEPT !.join = TRUE, !.jn = TRUE])

ClientLeave(s) ==
  node[s].join /\ Command(s, "LEAVE", [node[s] EXCEPT !.join = FALSE, !.cls = TRUE])

RecvJoinNotify(s) ==
  /\ up[s] /\ node[s].jn
  /\ Becomes(s, JoinNotify([node[s] EXCEPT !.jn = FALSE]))
  /\ UNCHANGED <<up, ops, now>>

CloseNotify(s) ==
  /\ up[s] /\ node[s].cls
  /\ Becomes(s, DoSuspend([node[s] EXCEPT !.cls = FALSE]))
  /\ UNCHANGED <<up, ops, now>>

\* The steps of the merge worker thread of server s.
MergeWorker(s) ==
  /\ up[s]
  /\ LET w == node[s]
     IN  \/ w.wst = "idle" /\ w.wk > 0 /\ Becomes(s, WorkerBegin(w))
         \/ w.wst = "wait" /\ w.run    /\ Becomes(s, WorkerFinish(w))
         \/ w.wst = "wait" /\ ~w.run   /\ Becomes(s, WorkerStop(w))
         \/ w.wst = "done"             /\ Becomes(s, WorkerClear(w))
  /\ UNCHANGED <<up, ops, now>>

\* Server s dies; what was sent to it and not read is lost.
Crash(s) ==
  /\ up[s]
  /\ Cardinality({t \in Server : ~up[t]}) < MaxCrash
  /\ up' = [up EXCEPT ![s] = FALSE]
  /\ node' = [t \in Server |-> [node[t] EXCEPT !.out[s] = << >>]]
  /\ UNCHANGED <<ops, now>>

Tick ==
  /\ now < MaxTime
  /\ now' = now + 1
  /\ UNCHANGED <<node, up, ops>>

RecvAny(s, t) ==
  \/ RecvStatusConfirm(s, t) \/ RecvStatusChange(s, t)
  \/ RecvMergeStart(s, t)    \/ RecvMergeAbort(s, t) \/ RecvMergeComplete(s, t)
  \/ RecvMergeSuspend(s, t)  \/ RecvMergeNoSuspend(s, t)
  \/ RecvServerDown(s, t)

CmdAny(s) ==
  \/ CmdServiceIn(s)  \/ \E t \in Server : CmdServiceOut(s, t)
  \/ CmdMergeStart(s) \/ CmdMergeAbort(s) \/ CmdMergeComplete(s)
  \/ CmdSuspend(s)    \/ CmdNoSuspend(s)  \/ CmdUpdateStatus(s)
  \/ ClientJoin(s)    \/ ClientLeave(s)

Next ==
  \/ \E s, t \in Server : RecvAny(s, t) \/ DropStream(s, t) \/ NotifyHup(s, t)
  \/ \E s \in Server :
       CmdAny(s) \/ RecvJoinNotify(s) \/ CloseNotify(s) \/ MergeWorker(s) \/ Crash(s)
  \/ Tick

Spec == Init /\ [][Next]_vars

\* Weak fairness of the event loop of every running server: as long as there is
\* a packet to read, a queued notice or a closed socket, the loop handles one of
\* them.  It is written out as []<>~enabled \/ []<><<step>>, since a step of the
\* loop is recognised by what it consumes.
LoopEnabled(t) ==
  /\ up[t]
  /\ \/ node[t].jn \/ node[t].cls
     \/ \E s \in Server : node[s].out[t] # << >> \/ (~up[s] /\ s \in node[t].link)

LoopStep(t) ==
  \/ node[t].jn /\ ~node'[t].jn
  \/ node[t].cls /\ ~node'[t].cls
  \/ \E s \in Server : \/ Len(node'[s].out[t]) < Len(node[s].out[t])
                       \/ ~up[s] /\ s \in node[t].link /\ s \notin node'[t].link

Fairness ==
  \A s \in Server :
    /\ []<>(~LoopEnabled(s)) \/ []<><<LoopStep(s)>>_vars
    /\ WF_vars(MergeWorker(s))

FairSpec == Spec /\ Fairness

-----------------------------------------------------------------------------
(* What a process record holds.                                            *)

Node ==
  [id : Server, sv : [Server -> Entry], bcnt : Nat, oper : BOOLEAN,
   join : BOOLEAN, ok : BOOLEAN, asup : BOOLEAN, sin : BOOLEAN, mdp : BOOLEAN,
   run : BOOLEAN, wk : Nat, wst : {"idle", "wait", "done"},
   cls : BOOLEAN, jn : BOOLEAN,
   link : SUBSET Server, out : [Server -> Seq(Packet)]]

\* The type invariant: the process records, hash values below the number of
\* servers (chmpxlist_lap::UpdateHash counts from 0) and the named bounds.
TypeOK ==
  /\ node \in [Server -> Node]
  /\ up \in [Server -> BOOLEAN]
  /\ ops \in 0 .. MaxOps
  /\ now \in 0 .. MaxTime

-----------------------------------------------------------------------------
(* Safety in every reachable state.                                        *)

\* The two values every handler reads instead of the table - is_operating, which
\* decides whether a merge may start, and chmpx_bhash_count, the size of the hash
\* ring - are what the table says, whichever of the many methods stored into it.
CacheOK ==
  \A s \in Server : /\ node[s].oper = AnyOperating(node[s].sv)
                    /\ node[s].bcnt = BaseHashCount(node[s].sv)

\* No sequence of handlers, aborts and deaths leaves a combination in a table
\* that IS_SAFE_CHMPXSTS refuses, a server that is down and suspended ("Any DOWN
\* status server does not have SUSPEND status", PxComReceiveMergeAbort), or a
\* running server that believes itself down.
GoodSt(st) == IsSafe(st) /\ (~IsUp(st) => st.sup = "NOSUP")

StatusOK ==
  \A s \in Server : /\ IsUp(node[s].sv[s].st)
                    /\ \A t \in Server : GoodSt(node[s].sv[t].st)

\* A server's own suspend bit says whether a client process is attached, except
\* while the notice of a client's arrival or departure is still queued: every
\* handler that rewrites the own status in between keeps it right.
SuspendAccurate ==
  \A s \in Running :
    ~node[s].jn /\ ~node[s].cls =>
      ((Self(node[s]).sup = "SUSPEND") <=> ~node[s].join)

-----------------------------------------------------------------------------
(* Safety of the RING at rest.                                             *)

\* Once all packets have travelled around, every running server has the status
\* of every running server that this one has itself (STATUS_CHANGE).
StatusAgreement ==
  Quiet => \A s, t \in Running : node[s].sv[t].st = node[t].sv[t].st

\* ... and the same table altogether, hash values included, which is what
\* STATUS_CONFIRM compares before a merge may start.
TablesAgree ==
  Quiet => \A s, t \in Running : ListOf(node[s]) = ListOf(node[t])

\* The base hash values in use are exactly 0 .. count - 1: no two servers own
\* the same slot of the hash ring and no slot is without an owner.
SlotsPartitioned ==
  Quiet =>
    \A s \in Running :
      {node[s].sv[t].bh : t \in {u \in Server : IsBaseHash(node[s].sv[u].st)}}
        = 0 .. (node[s].bcnt - 1)

\* No server is left DOING with nobody working on its merge: either the worker
\* reports DONE or the abort that stopped it resets the status ("changing status
\* is done by main thread which calls abort merging", MergeWorkerFunc).
NoOrphanMerge == Quiet => \A s \in Running : Self(node[s]).op # "DOING"

\* At rest every running server knows which servers are dead.
DeadKnown ==
  Quiet => \A s \in Running, t \in Server \ Running : ~IsUp(node[s].sv[t].st)

-----------------------------------------------------------------------------
(* What a step may never do.                                               *)

\* A server's merge is completed - DONE becomes in service or out of service -
\* only when no running server is still DOING ("Found ... DOING server, then
\* could not complete merging", CheckAllStatusForMergeComplete).
NoCompleteWhileMerging ==
  [][\A s \in Server :
       /\ Self(node[s]).op = "DONE"
       /\ Self(node[s])' \in {SRVIN_UP_NORMAL, SRVOUT_UP_NORMAL}
       => \A t \in Running : Self(node[t]).op # "DOING"]_vars

\* A server that was in service without a client process has missed updates: it
\* leaves the suspended state only as PENDING, "so we need to start merging"
\* (PxCltReceiveJoinNotify).
ResumeNeedsMerge ==
  [][\A s \in Server :
       /\ Self(node[s]) = SuspendFlag(SRVIN_UP_NORMAL, TRUE)
       /\ Self(node[s])'.sup = "NOSUP"
       => Self(node[s])' = SRVIN_UP_PENDING]_vars

-----------------------------------------------------------------------------
(* Liveness.                                                               *)

\* The packets a command sets off die out: no status is confirmed, no completion
\* retried for ever.
EventuallyQuiet == <>[]Quiet

\* With MERGE=AUTO a server that is asked into or out of service gets there by
\* itself: confirm, merge, worker and completion follow one another.
ServiceChangeCompletes ==
  \A s \in Server :
    Self(node[s]).act # "NOACT"
      ~> Self(node[s]) \in {SRVIN_UP_NORMAL, SRVOUT_UP_NORMAL}

\* Packets whose departure server has died, so that nobody takes them off the
\* RING, are stopped by the survivors (IsSafeDeptAndNextChmpxId).
DeadDeparturesStop ==
  \A s \in Server :
    ~up[s] ~> \A t, u \in Running :
                \A i \in DOMAIN node[t].out[u] : node[t].out[u][i].dept # s
=============================================================================
