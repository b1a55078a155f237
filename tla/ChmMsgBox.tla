------------------------------ MODULE ChmMsgBox ------------------------------
(***************************************************************************)
(* Msgids and message queues of clients on a slave chmpx, and the chmpx    *)
(* process' cache of the queues it has opened (lib/chmeventmq.cc,          *)
(* lib/chmimdata.cc, lib/chmlockmap.tcc).                                  *)
(*                                                                         *)
(* A process takes msgids out of a pool in shared memory and makes a queue *)
(* for each.  A thread opens a msgid, sends requests with it, waits for    *)
(* the answers in its queue and closes it.  The process then tells the     *)
(* chmpx process which msgids are closed.  A queue lives on without a path *)
(* while somebody has it open, so a msgid can have had several queues:     *)
(* they are numbered.  The chmpx process reads its own msgids (Box) in     *)
(* threads and knows the client's queues by file descriptors.              *)
(***************************************************************************)
EXTENDS ChmMsgPool, Sequences, FiniteSetsExt, SequencesExt

CONSTANTS
  MaxId,      \* msgids in the pool
  Proc,       \* client processes
  ThreadsPer, \* threads of a process
  PerAttach,  \* MQPERATTACH
  Box,        \* msgids of the chmpx process, numbers
  MaxFd,      \* bound: file descriptors of the chmpx process
  MaxGen,     \* bound: queues made for one msgid
  MaxSend     \* bound: requests of a thread

Id     == 1 .. MaxId
Thread == Proc \X (1 .. ThreadsPer)
NoId   == 0

ASSUME MsgBoxAssumption ==
  /\ MaxId \in Nat \ {0} /\ ThreadsPer \in Nat \ {0} /\ PerAttach \in Nat \ {0}
  /\ Box \subseteq Nat /\ Box # {} /\ IsFiniteSet(Box)
  /\ MaxFd \in Nat /\ MaxFd >= MaxId /\ MaxGen \in Nat /\ MaxSend \in Nat

VARIABLES
  free,   \* free_msgs: msgids to assign, the next one first
  st,     \* CHMSTAT of each msgid: "no", "assigned", "activated"
  own,    \* the process a msgid is assigned to
  gen,    \* how many queues have been made for each msgid
  path,   \* the queue a msgid's path names, 0 for none
  cl,     \* of each process: its maps and whether it is attached
  th,     \* threads of the client processes
  box,    \* the messages in the queues of the chmpx process
  cache,  \* dest_idfd_map of the chmpx process, 0 for none
  fdt,    \* its open files: the queue behind each descriptor
  rep     \* the answer each receiving thread of the chmpx process is sending
shm  == <<free, st, own, gen, path>>
px   == <<cache, fdt, rep>>
vars == <<free, st, own, gen, path, cl, th, box, cache, fdt, rep>>

\* Messages to the chmpx process: a request (or the notice of a join, which is
\* not answered) of a msgid, or the notice that msgids are closed.  The number of
\* the queue is there for the properties.
Request(i)     == [kind |-> "req", ids |-> {i}, gen |-> path[i]]
JoinNotice(i)  == [kind |-> "join", ids |-> {i}, gen |-> 0]
CloseNotice(S) == [kind |-> "close", ids |-> S, gen |-> 0]

NoQueue == [id |-> NoId, gen |-> 0]
NoReply == [id |-> NoId, fd |-> 0, gen |-> 0]
Idle    == [pc |-> "idle", id |-> NoId, note |-> {}, sent |-> 0]

\* recv: recv_idfd_map; resv: reserve_idfd_map; real: the reserved msgids that
\* are there with the descriptor of their queue; dest: the opened queues of the
\* chmpx process.
Detached == [on |-> "off", recv |-> {}, resv |-> {}, real |-> {}, dest |-> {}]

Init ==
  /\ free = [i \in Id |-> i]
  /\ st = [i \in Id |-> "no"] /\ own = [i \in Id |-> "nobody"]
  /\ gen = [i \in Id |-> 0] /\ path = [i \in Id |-> 0]
  /\ cl = [p \in Proc |-> Detached]
  /\ th = [t \in Thread |-> Idle]
  /\ box = [b \in Box |-> << >>]
  /\ cache = [i \in Id |-> 0] /\ fdt = [f \in 1 .. MaxFd |-> NoQueue]
  /\ rep = [b \in Box |-> NoReply]

-----------------------------------------------------------------------------
(* The pool.                                                               *)

\* The k msgids AssignMsg hands out next.
NextIds(k) == {free[j] : j \in 1 .. k}

\* AssignMsg, k times, and mq_open with O_CREAT: a path that is still there is
\* unlinked and made anew.
AssignMsg(p, k) ==
  /\ k <= Len(free) /\ \A i \in NextIds(k) : gen[i] < MaxGen
  /\ free' = SubSeq(free, k + 1, Len(free))
  /\ st'   = [i \in Id |-> IF i \in NextIds(k) THEN "assigned" ELSE st[i]]
  /\ own'  = [i \in Id |-> IF i \in NextIds(k) THEN p ELSE own[i]]
  /\ gen'  = [i \in Id |-> IF i \in NextIds(k) THEN gen[i] + 1 ELSE gen[i]]
  /\ path' = [i \in Id |-> IF i \in NextIds(k) THEN gen[i] + 1 ELSE path[i]]

\* FreeMsg: the msgids of S go back (ChmMsgPool).
FreeMsg(S) ==
  /\ free' = Descending(S) \o free
  /\ st'   = [i \in Id |-> IF i \in S THEN "no" ELSE st[i]]
  /\ own'  = [i \in Id |-> IF i \in S THEN "nobody" ELSE own[i]]

\* FreeMsgIds: the queue is closed and unlinked, the msgid goes back.
FreeMsgIds(S) ==
  /\ FreeMsg(S)
  /\ path' = [i \in Id |-> IF i \in S THEN 0 ELSE path[i]]
  /\ UNCHANGED gen

\* SetEventQueue: msgids for one attach.  It fails in the middle when the pool
\* runs out and keeps those it has.
Assigned == Min({PerAttach, Len(free)})
Attached(c, S) == [c EXCEPT !.recv = @ \cup S, !.resv = @ \cup S, !.real = @ \cup S]
SetEventQueueOK == Assigned = PerAttach

-----------------------------------------------------------------------------
(* Closing: which reserved msgids go.                                      *)

\* FreeReserveMsgIds: how many of the reserved msgids are closed.
Rest(active) == ((active \div PerAttach) * PerAttach)
                + (IF active % PerAttach = 0 THEN 0 ELSE 1)
ToClose(c) ==
  LET reserved == Cardinality(c.resv)
      all      == Cardinality(c.recv)
  IN  Min({all - Rest(all - reserved), reserved})

\* The n reserved msgids closed: the map is walked in the order of its keys.
Closed(c) == LET n == ToClose(c)
             IN  {i \in c.resv : Cardinality({j \in c.resv : j < i}) < n}

\* DisactivatedMsgId puts msgid i back into the reserve with the descriptor
\* recv_idfd_map.find(msgid) returns: find returns whether there is one, so the
\* descriptor is 1 and not that of the queue.
FoundFd(c, i) == c.real \ {i}
Reserve(c, i) == [c EXCEPT !.resv = @ \cup {i}, !.real = FoundFd(c, i)]

\* recv_fdid_map.erase(fd) and its callback FreeMsgIds act on the descriptors of
\* queues only; the reserve forgets all closed msgids.
Freed(c) == Closed(c) \cap c.real
MutFreeReserveMsgIds(c) == [c EXCEPT !.resv = @ \ Closed(c), !.real = @ \ Closed(c)]
FreeReserveMsgIds(c) ==
  [c EXCEPT !.recv = @ \ Freed(c), !.resv = @ \ Closed(c), !.real = @ \ Closed(c)]

-----------------------------------------------------------------------------
(* Client processes.                                                       *)

ProcOf(t) == t[1]
Of(p) == {t \in Thread : ProcOf(t) = p}

\* ChmCntrl::Initialize: the msgids, then PxCltSendJoinNotify in the first thread
\* before any other thread can use the object.  On failure Clean gives the
\* msgids back; nobody has to be told yet.
Initialize(p) ==
  /\ cl[p].on = "off" /\ SetEventQueueOK
  /\ AssignMsg(p, PerAttach)
  /\ cl' = [cl EXCEPT ![p] = [Attached(@, NextIds(PerAttach)) EXCEPT !.on = "join"]]
  /\ UNCHANGED <<th, box, px>>

MayRun(t) == cl[ProcOf(t)].on = "on" \/ (cl[ProcOf(t)].on = "join" /\ t[2] = 1)

\* actmq_lockval, and the object's lock that DisactivatedMsgId holds until the
\* notice is sent.
ActLockFree(p) == \A t \in Of(p) : th[t].pc \notin {"activate", "erase"}
ObjLockFree(p) == \A t \in Of(p) : th[t].pc # "notify"

Go(t, pc, i) == th' = [th EXCEPT ![t].pc = pc, ![t].id = i]

\* ActivatedMsgId, up to the choice of a msgid: when nothing is in reserve,
\* SetEventQueue first.
PickReserved(t) ==
  LET p == ProcOf(t)
  IN  /\ MayRun(t) /\ th[t].pc = "idle" /\ ActLockFree(p)
      /\ cl[p].resv # {}
      /\ Go(t, "activate", Min(cl[p].resv))
      /\ UNCHANGED <<shm, cl, box, px>>

PickNew(t) ==
  LET p == ProcOf(t)
  IN  /\ MayRun(t) /\ th[t].pc = "idle" /\ ActLockFree(p) /\ ObjLockFree(p)
      /\ cl[p].resv = {}
      /\ AssignMsg(p, Assigned)
      /\ cl' = [cl EXCEPT ![p] = Attached(@, NextIds(Assigned))]
      /\ IF SetEventQueueOK THEN Go(t, "activate", Min(NextIds(Assigned)))
                            ELSE Go(t, IF cl[p].on = "join" THEN "joined" ELSE "idle", NoId)
      /\ UNCHANGED <<box, px>>

\* ... ActivateMsg, which fails for a msgid that is not assigned to anybody ...
MutActivateMsg(t) ==
  LET i == th[t].id
  IN  /\ th[t].pc = "activate"
      /\ Go(t, "erase", i)
      /\ UNCHANGED <<shm, cl, box, px>>
ActivateMsg(t) ==
  LET i == th[t].id
  IN  /\ th[t].pc = "activate"
      /\ IF st[i] # "no"
         THEN st' = [st EXCEPT ![i] = "activated"] /\ Go(t, "erase", i)
         ELSE UNCHANGED st /\ Go(t, IF cl[ProcOf(t)].on = "join" THEN "joined" ELSE "idle", NoId)
      /\ UNCHANGED <<free, own, gen, path, cl, box, px>>

\* ... and the msgid leaves the reserve.  Open returns it.
EraseReserve(t) ==
  /\ th[t].pc = "erase"
  /\ cl' = [cl EXCEPT ![ProcOf(t)].resv = @ \ {th[t].id}, ![ProcOf(t)].real = @ \ {th[t].id}]
  /\ Go(t, "open", th[t].id)
  /\ UNCHANGED <<shm, box, px>>

\* Send to a random msgid of the chmpx process: the notice of the join, or a
\* request whose answer the thread then waits for.
SendTo(t, b, msg) ==
  /\ ObjLockFree(ProcOf(t))
  /\ box' = [box EXCEPT ![b] = Append(@, msg)]
  /\ cl' = [cl EXCEPT ![ProcOf(t)].dest = @ \cup {b}]

PxCltSendJoinNotify(t, b) ==
  /\ th[t].pc = "open" /\ cl[ProcOf(t)].on = "join"
  /\ SendTo(t, b, JoinNotice(th[t].id))
  /\ Go(t, "close", th[t].id)
  /\ UNCHANGED <<shm, px>>

Send(t, b) ==
  /\ th[t].pc = "open" /\ cl[ProcOf(t)].on = "on" /\ th[t].sent < MaxSend
  /\ SendTo(t, b, Request(th[t].id))
  /\ th' = [th EXCEPT ![t].pc = "wait", ![t].sent = @ + 1]
  /\ UNCHANGED <<shm, px>>

\* Receive runs into its time-out.
ReceiveTimeout(t) ==
  /\ th[t].pc = "wait"
  /\ Go(t, "open", th[t].id)
  /\ UNCHANGED <<shm, cl, box, px>>

\* Close: DisactivatedMsgId and FreeReserveMsgIds under the object's lock; the
\* notice follows, still under the lock but after other processes can have the
\* msgids.  It never finds out that a msgid is not the process' own.
AfterClose(p) == IF cl[p].on = "join" THEN "joined" ELSE "idle"

Close(t) ==
  LET p == ProcOf(t)
      c == Reserve(cl[p], th[t].id)
  IN  /\ th[t].pc = "close" \/ (th[t].pc = "open" /\ cl[p].on = "on")
      /\ ObjLockFree(p)
      /\ IF st[th[t].id] = "no"
         THEN Go(t, AfterClose(p), NoId) /\ UNCHANGED <<shm, cl>>
         ELSE /\ cl' = [cl EXCEPT ![p] = FreeReserveMsgIds(c)]
              /\ free' = Descending(Freed(c)) \o free
              /\ st'   = [i \in Id |-> IF i \in Freed(c) THEN "no"
                                       ELSE IF i = th[t].id THEN "assigned" ELSE st[i]]
              /\ own'  = [i \in Id |-> IF i \in Freed(c) THEN "nobody" ELSE own[i]]
              /\ path' = [i \in Id |-> IF i \in Freed(c) THEN 0 ELSE path[i]]
              /\ th' = [th EXCEPT ![t].pc = "notify", ![t].note = Closed(c)]
              /\ UNCHANGED gen
      /\ UNCHANGED <<box, px>>

\* PxCltSendCloseNotify: to the first queue of the chmpx process that this
\* process has opened.
Notified(c, S) == IF c.dest = {} \/ S = {} THEN box
                  ELSE [box EXCEPT ![Min(c.dest)] = Append(@, CloseNotice(S))]

PxCltSendCloseNotify(t) ==
  /\ th[t].pc = "notify"
  /\ box' = Notified(cl[ProcOf(t)], th[t].note)
  /\ th' = [th EXCEPT ![t].pc = AfterClose(ProcOf(t)), ![t].id = NoId, ![t].note = {}]
  /\ UNCHANGED <<shm, cl, px>>

\* Initialize has returned.
JoinDone(p) ==
  /\ cl[p].on = "join" /\ th[<<p, 1>>].pc = "joined"
  /\ cl' = [cl EXCEPT ![p].on = "on"]
  /\ th' = [th EXCEPT ![<<p, 1>>] = Idle]
  /\ UNCHANGED <<shm, box, px>>

\* Clean: every queue is closed and unlinked and every msgid freed; then the
\* notice.  The user calls it when no thread is in a call.
Clean(p) ==
  /\ cl[p].on = "on" /\ \A t \in Of(p) : th[t].pc \in {"idle", "open"}
  /\ FreeMsgIds(cl[p].recv)
  /\ cl' = [cl EXCEPT ![p] = [Detached EXCEPT !.on = "notify", !.recv = cl[p].recv, !.dest = cl[p].dest]]
  /\ th' = [t \in Thread |-> IF ProcOf(t) = p THEN Idle ELSE th[t]]
  /\ UNCHANGED <<box, px>>

CleanNotify(p) ==
  /\ cl[p].on = "notify"
  /\ box' = Notified(cl[p], cl[p].recv)
  /\ cl' = [cl EXCEPT ![p] = Detached]
  /\ UNCHANGED <<shm, th, px>>

-----------------------------------------------------------------------------
(* The chmpx process.                                                      *)

\* CloseDestMQ
MutCloseDestMQ(S) ==
  /\ fdt' = [f \in DOMAIN fdt |->
               IF \E i \in S : cache[i] = f THEN NoQueue ELSE fdt[f]]
  /\ UNCHANGED cache
CloseDestMQ(S) ==
  /\ fdt' = [f \in DOMAIN fdt |->
               IF \E i \in S : cache[i] = f THEN NoQueue ELSE fdt[f]]
  /\ cache' = [i \in Id |-> IF i \in S THEN 0 ELSE cache[i]]

\* OpenDestMQ: the descriptor in the cache is used as it is; otherwise the queue
\* its path names now is opened, under the lowest descriptor.
LowestFd == Min({f \in DOMAIN fdt : fdt[f] = NoQueue})
OpenDestMQ(i, f) ==
  IF cache[i] # 0 THEN f = cache[i] /\ UNCHANGED <<cache, fdt>>
  ELSE /\ f = IF path[i] = 0 THEN 0 ELSE LowestFd
       /\ IF f = 0 THEN UNCHANGED <<cache, fdt>>
          ELSE /\ cache' = [cache EXCEPT ![i] = f]
               /\ fdt' = [fdt EXCEPT ![f] = [id |-> i, gen |-> path[i]]]

\* A receiving thread takes the next message: PxCltReceiveCloseNotify ...
Ready(b, kind) == rep[b] = NoReply /\ box[b] # << >> /\ Head(box[b]).kind = kind
Taken(b) == box' = [box EXCEPT ![b] = Tail(@)]

PxCltReceiveCloseNotify(b) ==
  /\ Ready(b, "close")
  /\ CloseDestMQ(Head(box[b]).ids)
  /\ Taken(b)
  /\ UNCHANGED <<shm, cl, th, rep>>

\* ... PxCltReceiveJoinNotify, which uses no queue of the client ...
PxCltReceiveJoinNotify(b) ==
  /\ Ready(b, "join")
  /\ Taken(b)
  /\ UNCHANGED <<shm, cl, th, px>>

\* ... or a request, whose answer is sent to the msgid it came from.
ReplyOpen(b) ==
  /\ Ready(b, "req")
  /\ Taken(b)
  /\ LET i == CHOOSE j \in Head(box[b]).ids : TRUE
     IN  \E f \in 0 .. MaxFd :
           /\ OpenDestMQ(i, f)
           /\ rep' = [rep EXCEPT ![b] = IF f = 0 THEN NoReply
                                        ELSE [id |-> i, fd |-> f, gen |-> Head(box[b]).gen]]
  /\ UNCHANGED <<shm, cl, th>>

\* mq_send to the descriptor, after the lock of OpenDestMQ has been released.  A
\* thread that waits on the queue behind it gets the answer.
Gets(t, q) == th[t].pc = "wait" /\ q.id = th[t].id /\ q.gen = path[q.id]
ReplySend(b) ==
  /\ rep[b] # NoReply
  /\ th' = [t \in Thread |->
              IF Gets(t, fdt[rep[b].fd]) THEN [th[t] EXCEPT !.pc = "open"] ELSE th[t]]
  /\ rep' = [rep EXCEPT ![b] = NoReply]
  /\ UNCHANGED <<shm, cl, box, cache, fdt>>

-----------------------------------------------------------------------------

ThreadStep(t) ==
  \/ PickReserved(t) \/ PickNew(t) \/ ActivateMsg(t) \/ EraseReserve(t)
  \/ \E b \in Box : PxCltSendJoinNotify(t, b) \/ Send(t, b)
  \/ ReceiveTimeout(t) \/ Close(t) \/ PxCltSendCloseNotify(t)

Next ==
  \/ \E p \in Proc : Initialize(p) \/ JoinDone(p) \/ Clean(p) \/ CleanNotify(p)
  \/ \E t \in Thread : ThreadStep(t)
  \/ \E b \in Box : \/ PxCltReceiveCloseNotify(b) \/ PxCltReceiveJoinNotify(b)
                    \/ ReplyOpen(b) \/ ReplySend(b)

Spec == Init /\ [][Next]_vars

-----------------------------------------------------------------------------

\* Types: the pool, the maps of the processes and the cache hold msgids and
\* descriptors only (chmeventmq.h, CHMINFO).
TypeOK ==
  /\ free \in Seq(Id) /\ st \in [Id -> {"no", "assigned", "activated"}]
  /\ own \in [Id -> Proc \cup {"nobody"}]
  /\ gen \in [Id -> 0 .. MaxGen] /\ path \in [Id -> 0 .. MaxGen]
  /\ \A p \in Proc : /\ cl[p].on \in {"off", "join", "on", "notify"}
                     /\ cl[p].recv \subseteq Id /\ cl[p].resv \subseteq cl[p].recv
                     /\ cl[p].real \subseteq cl[p].resv /\ cl[p].dest \subseteq Box
  /\ \A t \in Thread : th[t].id \in Id \cup {NoId} /\ th[t].note \subseteq Id
  /\ cache \in [Id -> 0 .. MaxFd]

\* No msgid is lost or doubled: a msgid is either once in the pool or in the maps
\* of the one process it is assigned to, whatever way that process gets and gives
\* back its msgids (AssignMsg, FreeMsg, SetEventQueue, FreeReserveMsgIds, Clean).
PoolExact ==
  /\ IsInjective(free)
  /\ \A i \in Id :
       IF st[i] = "no" THEN i \in ToSet(free) /\ own[i] = "nobody"
       ELSE /\ i \notin ToSet(free)
            /\ {p \in Proc : cl[p].on # "notify" /\ i \in cl[p].recv} = {own[i]}

\* A msgid that Open has returned belongs to the caller alone until it is closed:
\* it is activated, in the maps of the process, not in its reserve and not in the
\* hands of another thread (ActivatedMsgId, DisactivatedMsgId).
Held(t) == th[t].pc \in {"open", "wait", "close"}
OpenIsOwned ==
  \A t \in Thread :
    Held(t) =>
      /\ own[th[t].id] = ProcOf(t) /\ st[th[t].id] = "activated"
      /\ th[t].id \in cl[ProcOf(t)].recv \ cl[ProcOf(t)].resv
      /\ \A u \in Thread \ {t} : Held(u) => th[u].id # th[t].id

\* The notice that the queue of msgid i was closed may not have been read yet.
CloseUnderWay(i) ==
  \/ \E p \in Proc : cl[p].on = "notify"
  \/ \E t \in Thread : i \in th[t].note
  \/ \E b \in Box : \E m \in ToSet(box[b]) : m.kind = "close" /\ i \in m.ids

\* An answer that somebody waits for goes into the queue that is waited on, not
\* into one that was left under a descriptor (OpenDestMQ, CloseDestMQ).  A process
\* that gets a msgid before the notice of its last owner is read has no such luck:
\* see the README.
Sending(b, i) == rep[b].id = i /\ rep'[b] = NoReply
ReplyReaches ==
  [][\A b \in Box, t \in Thread :
       /\ th[t].pc = "wait" /\ Sending(b, th[t].id)
       /\ rep[b].gen = path[th[t].id] /\ ~CloseUnderWay(th[t].id)
       => Gets(t, fdt[rep[b].fd])]_vars

\* An answer never goes into the queue of another msgid.
NoMisroute ==
  [][\A b \in Box, i \in Id :
       Sending(b, i) => fdt[rep[b].fd].id \in {i, NoId}]_vars

\* "After receiving, close and remove own MQ" (chmeventmq.h): a process whose
\* threads have closed everything has its msgids in the reserve or has freed them.
ClosedIsReusable ==
  \A p \in Proc :
    cl[p].on = "on" /\ (\A t \in Of(p) : th[t].pc = "idle") => cl[p].recv = cl[p].resv

=============================================================================
