----------------------------- MODULE ChmMergeMq -----------------------------
(***************************************************************************)
(* The data exchange of a merge: chmpx process, its client and the RING    *)
(* (lib/chmeventmq.cc, lib/chmeventsock.cc, lib/chmthread.cc).             *)
(*                                                                         *)
(* The merge worker of a merging server asks its own client for the time   *)
(* of the last update, sends REQ_UPDATEDATA around the RING and waits for  *)
(* the result of every target.  The chmpx process of a target hands the    *)
(* request to its client; a one-shot thread of the client calls the merge  *)
(* callback and sends the data back: RES over MQ, RES over the socket, SET *)
(* over MQ.  A RESULT follows the data.  MERGE_ABORT goes around the RING  *)
(* and every chmpx process passes it to its clients.                       *)
(*                                                                         *)
(* The statuses of the servers are ChmRing's subject: Valid are the        *)
(* targets whose data may be used.  A round is one MergeStart; the worker  *)
(* works the rounds off one by one, and messages carry the number of the   *)
(* one they belong to only so that properties can speak of it.             *)
(***************************************************************************)
EXTENDS Integers, Sequences, FiniteSets, Functions

CONSTANTS
  Ring,        \* the servers, in the order of the RING
  Merger,      \* the servers that merge
  Valid,       \* targets in NOACT or DELETE and not SUSPEND
  Clientless,  \* servers without a client process
  NoCallback,  \* targets whose client has no chm_merge_get_cb
  Box,         \* the msgids of a chmpx process
  MaxDatum,    \* bound: updates each target has to hand over
  MaxRound,    \* bound: merges each merging server starts
  MaxAbort,    \* bound: MERGE_ABORTs
  MaxFault     \* bound: Sends of a client that fail, merges that run into their time-out

Server == Range(Ring)
Target == Server \ Merger
Datum  == 1 .. MaxDatum
Round  == 1 .. MaxRound

ASSUME MergeAssumption ==
  /\ Ring \in Seq(Server) /\ IsInjective(Ring) /\ Len(Ring) > 1
  /\ Merger \subseteq Server /\ Merger # {} /\ Target # {}
  /\ Valid \subseteq Target /\ NoCallback \subseteq Target /\ Clientless \subseteq Server
  /\ Box # {} /\ MaxDatum \in Nat /\ MaxRound \in Nat /\ MaxAbort \in Nat
  /\ MaxFault \in Nat

\* GetNextRingChmpxId with every server up.
NextOf(s) == LET i == CHOOSE j \in DOMAIN Ring : Ring[j] = s
             IN  Ring[(i % Len(Ring)) + 1]

\* reqidmapflag_t
Inival == "INIVAL"
Do     == "DO"
Result == {"NOACT", "SUCCESS", "FAIL"}
Flag   == {Inival, Do} \cup Result

VARIABLES
  wire,    \* sockets: the packets from one server to another
  down,    \* MQ: chmpx process to client
  up,      \* MQ: client to chmpx process, one queue per msgid
  wk,      \* the merge worker of each merging server and what it waits for
  idmap,   \* mergeidmap
  cl,      \* merge_param_list, notify_merge_update, the receiving thread
  th,      \* the merge thread of a target's client
  copied,  \* data handed to the merging server's client in the current round
  aborts,  \* MERGE_ABORTs so far
  faults   \* failed Sends and time-outs so far

counts == <<aborts, faults>>
vars == <<wire, down, up, wk, idmap, cl, th, copied, counts>>

Param  == Merger \X Round
NoParam == <<"none", 0>>
IdleThread == [pc |-> "none", cur |-> NoParam, next |-> 1, ok |-> TRUE, heard |-> FALSE]

Init ==
  /\ wire = [p \in Server \X Server |-> << >>]
  /\ down = [s \in Server |-> << >>]
  /\ up = [s \in Server |-> [b \in Box |-> << >>]]
  /\ wk = [m \in Merger |-> [pc |-> "sleep", run |-> FALSE, calls |-> 0, round |-> 0,
                             of |-> 0, notify |-> TRUE, pres |-> FALSE, answered |-> FALSE]]
  /\ idmap = [m \in Merger |-> [t \in Target |-> Inival]]
  /\ cl = [t \in Target |-> [list |-> << >>, notify |-> FALSE, check |-> FALSE]]
  /\ th = [t \in Target |-> IdleThread]
  /\ copied = [m \in Merger |-> {}]
  /\ aborts = 0 /\ faults = 0

\* One more failure.
Fault == faults < MaxFault /\ faults' = faults + 1

\* The queues after one message has been added or taken.
Sent(s, d, p)   == [wire EXCEPT ![<<s, d>>] = Append(@, p)]
Passed(s, d, p) == [wire EXCEPT ![<<s, d>>] = Tail(@), ![<<d, NextOf(d)>>] = Append(@, p)]
Taken(s, d)     == [wire EXCEPT ![<<s, d>>] = Tail(@)]
ToClient(s, p)  == [down EXCEPT ![s] = Append(@, p)]
ToChmpx(s, b, p) == [up EXCEPT ![s][b] = Append(@, p)]
Read(s)         == [down EXCEPT ![s] = Tail(@)]

\* The messages of the chmpx process to a client (PX2C) ...
GetLastTs     == [type |-> "GETLASTTS"]
ReqMsg(par)   == [type |-> "REQ", param |-> par]
SetMsg(k)     == [type |-> "SET", datum |-> k]
AbortMsg      == [type |-> "ABORT"]

\* ... of a client to its chmpx process (C2PX) ...
ResLastTs      == [type |-> "RESLASTTS"]
Resp(par, k)   == [type |-> "RES", to |-> par[1], round |-> par[2], datum |-> k]
Res(par, good) == [type |-> "RESULT", to |-> par[1], round |-> par[2],
                   result |-> IF good THEN "SUCCESS" ELSE "FAIL"]

\* ... and the packets between chmpx processes.
RunOf(m)        == wk[m].round - wk[m].calls + 1
ReqPacket(m)    == [type |-> "REQ", dept |-> m, round |-> RunOf(m), map |-> idmap[m]]
ResPacket(p)    == [type |-> "RES", round |-> p.round, datum |-> p.datum]
ResultPacket(p) == [type |-> "RESULT", round |-> p.round, result |-> p.result]
AbortPacket(s)  == [type |-> "ABORT", dept |-> s]

\* What ChmCntrl hands from the sockets to MQ and from MQ to the sockets.
MergeRequestUpdateData(s, par) == ToClient(s, ReqMsg(par))
MergeSetUpdateData(s, k)       == ToClient(s, SetMsg(k))
MergeAbortUpdateData(s)        == IF s \in Clientless THEN down ELSE ToClient(s, AbortMsg)
MergeResponseUpdateData(s, p)  == Sent(s, p.to, ResPacket(p))
MergeResultUpdateData(s, p)    == Sent(s, p.to, ResultPacket(p))

-----------------------------------------------------------------------------
(* The merging server: MergeStart and its worker thread.                   *)

\* MergeStart: a new map, is_run_merge, and the worker is woken.
MergeStart(m) ==
  /\ ~wk[m].run /\ wk[m].round < MaxRound
  /\ idmap' = [idmap EXCEPT ![m] = [t \in Target |-> Inival]]
  /\ wk' = [wk EXCEPT ![m].run = TRUE, ![m].calls = @ + 1, ![m].round = @ + 1]
  /\ copied' = [copied EXCEPT ![m] = {}]
  /\ UNCHANGED <<wire, down, up, cl, th, counts>>

\* The worker returns to its thread, which works off its wake-ups.
Returned(m, run) == [wk EXCEPT ![m].pc = "sleep", ![m].run = run, ![m].calls = @ - 1,
                               ![m].pres = FALSE, ![m].notify = TRUE]

\* PxCltSendMergeGetLastTime up to its Send, which needs a client.
AskLastTime(m) ==
  /\ wk[m].pc = "sleep" /\ wk[m].calls > 0
  /\ IF m \in Clientless
     THEN /\ wk' = Returned(m, FALSE)
          /\ down' = down
     ELSE /\ wk' = [wk EXCEPT ![m].pc = "asked", ![m].of = wk[m].round,
                              ![m].answered = FALSE]
          /\ down' = ToClient(m, GetLastTs)
  /\ UNCHANGED <<wire, up, idmap, cl, th, copied, counts>>

\* notify_merge_get = false; // force
ResetNotify(m) ==
  /\ wk[m].pc = "asked"
  /\ wk' = [wk EXCEPT ![m].pc = "lasttime", ![m].notify = FALSE, ![m].pres = TRUE]
  /\ UNCHANGED <<wire, down, up, idmap, cl, th, copied, counts>>

\* One second without a response.
LastTimeTimeout(m) ==
  /\ wk[m].pc = "lasttime" /\ ~wk[m].notify
  /\ wk' = Returned(m, FALSE)
  /\ UNCHANGED <<wire, down, up, idmap, cl, th, copied, counts>>

\* The response is there: PxComSendReqUpdateData.
SendReqUpdateData(m) ==
  /\ wk[m].pc = "lasttime" /\ wk[m].notify
  /\ wk' = [wk EXCEPT ![m].pc = "wait", ![m].pres = FALSE]
  /\ wire' = Sent(m, NextOf(m), ReqPacket(m))
  /\ UNCHANGED <<down, up, idmap, cl, th, copied, counts>>

AllFinished(m) == \A t \in Target : idmap[m][t] \in Result

\* The loop of the worker ends: all targets have a result, MergeDone.
WorkerDone(m) ==
  /\ wk[m].pc = "wait" /\ wk[m].run /\ AllFinished(m)
  /\ wk' = Returned(m, FALSE)
  /\ UNCHANGED <<wire, down, up, idmap, cl, th, copied, counts>>

\* The loop ends because is_run_merge has been cleared.
WorkerStopped(m) ==
  /\ wk[m].pc = "wait" /\ ~wk[m].run
  /\ wk' = Returned(m, FALSE)
  /\ UNCHANGED <<wire, down, up, idmap, cl, th, copied, counts>>

-----------------------------------------------------------------------------
(* Packets between the chmpx processes.                                    *)

\* Faulty variant: the map of the returning request replaces the own one.
MutMergedMap(m, map) == map

\* A result that is already there is kept.
MergedMap(m, map) ==
  [t \in Target |-> IF idmap[m][t] \in Result THEN idmap[m][t] ELSE map[t]]

\* PxComReceiveReqUpdateData: the request is back at its departure server.
ReceiveReqBack(s, m) ==
  /\ wire[<<s, m>>] # << >>
  /\ LET p == Head(wire[<<s, m>>])
     IN  /\ p.type = "REQ" /\ p.dept = m
         /\ idmap' = [idmap EXCEPT ![m] = MergedMap(m, p.map)]
  /\ wire' = Taken(s, m)
  /\ UNCHANGED <<down, up, wk, cl, th, copied, counts>>

\* The answer of server s to a request that passes.
OwnFlag(s) == IF s \notin Valid THEN "NOACT" ELSE IF s \in Clientless THEN "FAIL" ELSE Do

\* PxComReceiveReqUpdateData of the other servers: a target hands the request to
\* its client (MergeRequestUpdateData) and enters its flag.
ReceiveReqPass(s, d) ==
  /\ wire[<<s, d>>] # << >>
  /\ LET p == Head(wire[<<s, d>>])
     IN  /\ p.type = "REQ" /\ p.dept # d
         /\ IF d \in Target
            THEN /\ wire' = Passed(s, d, [p EXCEPT !.map[d] = OwnFlag(d)])
                 /\ down' = IF OwnFlag(d) = Do
                            THEN MergeRequestUpdateData(d, <<p.dept, p.round>>)
                            ELSE down
            ELSE /\ wire' = Passed(s, d, p)
                 /\ down' = down
  /\ UNCHANGED <<up, wk, idmap, cl, th, copied, counts>>

\* PxComReceiveResUpdateData: MergeSetUpdateData for the client.
ReceiveResUpdateData(t, m) ==
  /\ wire[<<t, m>>] # << >>
  /\ LET p == Head(wire[<<t, m>>])
     IN  /\ p.type = "RES"
         /\ down' = MergeSetUpdateData(m, p.datum)
         /\ copied' = [copied EXCEPT ![m] =
                        IF p.round = wk[m].round THEN @ \cup {<<t, p.datum>>} ELSE @]
  /\ wire' = Taken(t, m)
  /\ UNCHANGED <<up, wk, idmap, cl, th, counts>>

\* PxComReceiveResultUpdateData.
ReceiveResultUpdateData(t, m) ==
  /\ wire[<<t, m>>] # << >>
  /\ LET p == Head(wire[<<t, m>>])
     IN  /\ p.type = "RESULT"
         /\ idmap' = [idmap EXCEPT ![m][t] = p.result]
  /\ wire' = Taken(t, m)
  /\ UNCHANGED <<down, up, wk, cl, th, copied, counts>>

\* MERGE_ABORT is sent around the RING.
RequestMergeAbort(s) ==
  /\ aborts < MaxAbort
  /\ aborts' = aborts + 1
  /\ wire' = Sent(s, NextOf(s), AbortPacket(s))
  /\ UNCHANGED <<down, up, wk, idmap, cl, th, copied, faults>>

\* MergeAbort of every server the packet reaches, its departure server last.
MergeAbort(s, d) ==
  /\ wire[<<s, d>>] # << >>
  /\ LET p == Head(wire[<<s, d>>])
     IN  /\ p.type = "ABORT"
         /\ wire' = IF p.dept = d THEN Taken(s, d) ELSE Passed(s, d, p)
  /\ wk' = IF d \in Merger THEN [wk EXCEPT ![d].run = FALSE] ELSE wk
  /\ down' = MergeAbortUpdateData(d)
  /\ UNCHANGED <<up, idmap, cl, th, copied, counts>>

-----------------------------------------------------------------------------
(* Messages from the clients, in the chmpx process.                        *)

\* PxCltReceiveMergeResponseLastTime ends the wait of the worker.
ChmpxLastTime(s, b) ==
  /\ up[s][b] # << >> /\ Head(up[s][b]).type = "RESLASTTS"
  /\ up' = [up EXCEPT ![s][b] = Tail(@)]
  /\ wk' = [wk EXCEPT ![s].notify = TRUE, ![s].answered = TRUE]
  /\ UNCHANGED <<wire, down, idmap, cl, th, copied, counts>>

\* PxCltReceiveResponseUpdateData.
ChmpxResponse(s, b) ==
  /\ up[s][b] # << >> /\ Head(up[s][b]).type = "RES"
  /\ up' = [up EXCEPT ![s][b] = Tail(@)]
  /\ wire' = MergeResponseUpdateData(s, Head(up[s][b]))
  /\ UNCHANGED <<down, wk, idmap, cl, th, copied, counts>>

\* PxCltReceiveResultUpdateData.
ChmpxResult(s, b) ==
  /\ up[s][b] # << >> /\ Head(up[s][b]).type = "RESULT"
  /\ up' = [up EXCEPT ![s][b] = Tail(@)]
  /\ wire' = MergeResultUpdateData(s, Head(up[s][b]))
  /\ UNCHANGED <<down, wk, idmap, cl, th, copied, counts>>

-----------------------------------------------------------------------------
(* The client process of a server.                                         *)

\* PxCltReceiveMergeGetLastTime answers at once.
ClientLastTime(m, b) ==
  /\ down[m] # << >> /\ Head(down[m]).type = "GETLASTTS"
  /\ down' = Read(m)
  /\ up' = ToChmpx(m, b, ResLastTs)
  /\ UNCHANGED <<wire, wk, idmap, cl, th, copied, counts>>

\* PxCltReceiveSetUpdateData: chm_merge_set_cb stores the datum.
ClientSet(m) ==
  /\ down[m] # << >> /\ Head(down[m]).type = "SET"
  /\ down' = Read(m)
  /\ UNCHANGED <<wire, up, wk, idmap, cl, th, copied, counts>>

\* PxCltReceiveRequestUpdateData: the parameter is stacked; without a callback the
\* result is sent at once.
ClientRequest(t, b) ==
  /\ ~cl[t].check
  /\ down[t] # << >> /\ Head(down[t]).type = "REQ"
  /\ LET par == Head(down[t]).param
     IN  IF t \in NoCallback
         THEN /\ up' = ToChmpx(t, b, Res(par, TRUE))
              /\ cl' = cl
         ELSE /\ cl' = [cl EXCEPT ![t].list = Append(@, par), ![t].notify = TRUE,
                                  ![t].check = TRUE]
              /\ up' = up
  /\ down' = Read(t)
  /\ UNCHANGED <<wire, wk, idmap, th, copied, counts>>

\* IsThreadRun joins a thread that has ended; if none runs, CreateThreads.
ClientRunThread(t) ==
  /\ cl[t].check
  /\ cl' = [cl EXCEPT ![t].check = FALSE]
  /\ th' = IF th[t].pc \in {"none", "exit"}
           THEN [th EXCEPT ![t] = [IdleThread EXCEPT !.pc = "loop"]] ELSE th
  /\ UNCHANGED <<wire, down, up, wk, idmap, copied, counts>>

\* PxCltReceiveAbortUpdateData; the client of a merging server has nothing stacked.
ClientAbort(s) ==
  /\ down[s] # << >> /\ Head(down[s]).type = "ABORT"
  /\ down' = Read(s)
  /\ \/ s \in Merger /\ UNCHANGED <<cl, th>>
     \/ /\ s \in Target /\ ~cl[s].check
        /\ cl' = [cl EXCEPT ![s].list = << >>, ![s].notify = FALSE]
        /\ th' = [th EXCEPT ![s].heard = @ \/ th[s].pc \in {"get", "result"}]
  /\ UNCHANGED <<wire, up, wk, idmap, copied, counts>>

\* Faulty variant: the parameter stays in the list.
MutRest(t) == cl[t].list

Rest(t) == Tail(cl[t].list)

\* MergeWorkerFunc: the head of the loop takes a parameter or leaves.
ThreadTake(t) ==
  /\ th[t].pc = "loop"
  /\ IF cl[t].notify /\ cl[t].list # << >>
     THEN /\ th' = [th EXCEPT ![t] = [pc |-> "get", cur |-> Head(cl[t].list), next |-> 1,
                                      ok |-> TRUE, heard |-> FALSE]]
          /\ cl' = [cl EXCEPT ![t].list = Rest(t)]
     ELSE /\ th' = [th EXCEPT ![t] = [IdleThread EXCEPT !.pc = "left"]]
          /\ cl' = cl
  /\ UNCHANGED <<wire, down, up, wk, idmap, copied, counts>>

\* chm_merge_get_cb returns data.
MoreData(t) == th[t].next <= MaxDatum

\* The inner loop: get data, send RES.
ThreadGet(t, b) ==
  /\ th[t].pc = "get" /\ cl[t].notify /\ MoreData(t)
  /\ \/ /\ up' = ToChmpx(t, b, Resp(th[t].cur, th[t].next))
        /\ th' = [th EXCEPT ![t].next = @ + 1]
        /\ UNCHANGED faults
     \/ /\ Fault
        /\ up' = up
        /\ th' = [th EXCEPT ![t].next = @ + 1, ![t].ok = FALSE]
  /\ UNCHANGED <<wire, down, wk, idmap, cl, copied, aborts>>

\* The inner loop ends: no more data, an abort, or the time-out.
ThreadEnough(t) ==
  /\ th[t].pc = "get"
  /\ \/ /\ ~(cl[t].notify /\ MoreData(t))
        /\ th' = [th EXCEPT ![t].pc = "result"]
        /\ UNCHANGED faults
     \/ /\ Fault
        /\ th' = [th EXCEPT ![t].pc = "result", ![t].ok = FALSE]
  /\ UNCHANGED <<wire, down, up, wk, idmap, cl, copied, aborts>>

\* Faulty variant: a failed Send of a datum is forgotten.
MutOutcome(t) == cl[t].notify

Outcome(t) == cl[t].notify /\ th[t].ok

\* PxCltSendResultUpdateData.
ThreadResult(t, b) ==
  /\ th[t].pc = "result"
  /\ \/ up' = ToChmpx(t, b, Res(th[t].cur, Outcome(t))) /\ UNCHANGED faults
     \/ Fault /\ up' = up
  /\ th' = [th EXCEPT ![t] = [IdleThread EXCEPT !.pc = "loop"]]
  /\ UNCHANGED <<wire, down, wk, idmap, cl, copied, aborts>>

\* WorkerProc with is_once: the status becomes EXIT.
ThreadExit(t) ==
  /\ th[t].pc = "left"
  /\ th' = [th EXCEPT ![t].pc = "exit"]
  /\ UNCHANGED <<wire, down, up, wk, idmap, cl, copied, counts>>

-----------------------------------------------------------------------------

WorkerStep(m) ==
  \/ AskLastTime(m) \/ ResetNotify(m) \/ LastTimeTimeout(m)
  \/ SendReqUpdateData(m) \/ WorkerDone(m) \/ WorkerStopped(m)

SocketStep(s, d) ==
  \/ d \in Merger /\ ReceiveReqBack(s, d)
  \/ ReceiveReqPass(s, d)
  \/ d \in Merger /\ s \in Target /\ ReceiveResUpdateData(s, d)
  \/ d \in Merger /\ s \in Target /\ ReceiveResultUpdateData(s, d)
  \/ MergeAbort(s, d)

ChmpxStep(s, b) == ChmpxLastTime(s, b) \/ ChmpxResponse(s, b) \/ ChmpxResult(s, b)

ClientStep(s) ==
  \/ s \in Merger /\ \E b \in Box : ClientLastTime(s, b)
  \/ s \in Merger /\ ClientSet(s)
  \/ s \in Target /\ \E b \in Box : ClientRequest(s, b)
  \/ s \in Target /\ ClientRunThread(s)
  \/ ClientAbort(s)

ThreadStep(t) ==
  \/ ThreadTake(t)
  \/ \E b \in Box : ThreadGet(t, b)
  \/ ThreadEnough(t)
  \/ \E b \in Box : ThreadResult(t, b)
  \/ ThreadExit(t)

Next ==
  \/ \E m \in Merger : MergeStart(m) \/ WorkerStep(m) \/ RequestMergeAbort(m)
  \/ \E s \in Server, d \in Server : SocketStep(s, d)
  \/ \E s \in Server, b \in Box : ChmpxStep(s, b)
  \/ \E s \in Server : ClientStep(s)
  \/ \E t \in Target : ThreadStep(t)

Spec == Init /\ [][Next]_vars

\* Every thread and every event loop that has something to do goes on.
FairSpec ==
  /\ Spec
  /\ \A m \in Merger : WF_vars(WorkerStep(m))
  /\ \A s \in Server, d \in Server : WF_vars(SocketStep(s, d))
  /\ \A s \in Server, b \in Box : WF_vars(ChmpxStep(s, b))
  /\ \A s \in Server : WF_vars(ClientStep(s))
  /\ \A t \in Target : WF_vars(ThreadStep(t))

-----------------------------------------------------------------------------

\* Type invariant of the worker, the maps and the clients' threads.
TypeOK ==
  /\ \A m \in Merger :
       /\ wk[m].pc \in {"sleep", "asked", "lasttime", "wait"}
       /\ wk[m].run \in BOOLEAN /\ wk[m].notify \in BOOLEAN /\ wk[m].pres \in BOOLEAN
       /\ wk[m].calls \in 0 .. MaxRound /\ wk[m].of \in 0 .. wk[m].round
       /\ wk[m].pc # "sleep" => wk[m].calls > 0
       /\ idmap[m] \in [Target -> Flag]
       /\ copied[m] \subseteq Target \X Datum
  /\ \A t \in Target :
       /\ cl[t].list \in Seq(Param) /\ cl[t].notify \in BOOLEAN /\ cl[t].check \in BOOLEAN
       /\ th[t].pc \in {"none", "loop", "get", "result", "left", "exit"}
       /\ th[t].cur \in Param \cup {NoParam} /\ th[t].next \in 1 .. MaxDatum + 1
       /\ (th[t].pc \in {"get", "result"}) = (th[t].cur # NoParam)

\* Until the first abort, a target that is entered as SUCCESS has handed over all its
\* updates before, failed Sends notwithstanding: they are on their way to the client
\* of the merging server.
DataBeforeResult ==
  aborts = 0 => \A m \in Merger, t \in Target \ NoCallback :
    idmap[m][t] = "SUCCESS" => \A k \in Datum : <<t, k>> \in copied[m]

\* The client answers a request at most once, whatever merges are aborted and started
\* again: the RESULT on its way from it is the only one of its request, which is not
\* stacked any more and not the one the merge thread works on.
IsResult(p)  == p.type = "RESULT"
Answers(p)   == <<p.to, p.round>>
AnsweredOnce ==
  \A t \in Target, b \in Box : \A i \in DOMAIN up[t][b] :
    LET p == up[t][b][i]
    IN  IsResult(p) =>
          /\ \A c \in Box : \A j \in DOMAIN up[t][c] :
               IsResult(up[t][c][j]) /\ Answers(up[t][c][j]) = Answers(p) => c = b /\ j = i
          /\ Answers(p) \notin Range(cl[t].list)
          /\ th[t].cur # Answers(p)

\* IsThreadRun has found the merge thread running although it had left its loop: a
\* parameter is stacked and no thread is going to take it.
Stranded(t) == cl[t].list # << >> /\ ~cl[t].check /\ th[t].pc \in {"left", "exit"}

\* Every merge that is started ends: the worker comes to an end, whether the targets
\* have data, have none, have no client or no callback.  Nothing makes the worker give
\* up after a Send that failed, a MERGE_ABORT or a parameter left behind.
MergeEnds ==
  \A m \in Merger :
    wk[m].run ~> \/ ~wk[m].run \/ faults > 0 \/ aborts > 0
                 \/ \E t \in Target : Stranded(t)

\* A parameter that has been stacked is served by the merge thread.
AllServed == \A t \in Target : (cl[t].list # << >>) ~> (cl[t].list = << >>)

\* The wait for the last update time is given up only if no response has come.
NoFalseTimeout ==
  [][\A m \in Merger :
       wk[m].pc = "lasttime" /\ wk'[m].pc = "sleep" => ~wk[m].answered]_vars

\* A worker that waits while is_run_merge is set waits for the current merge.
WorkerIsCurrent == \A m \in Merger : wk[m].pc = "wait" /\ wk[m].run => wk[m].of = wk[m].round

\* An abort breaks the loop of the merge thread: after it no further datum of the
\* parameter it was working on is sent.
AbortBreaks ==
  [][\A t \in Target : th[t].heard => ~(th'[t].cur = th[t].cur /\ th'[t].next > th[t].next)]_vars
=============================================================================
