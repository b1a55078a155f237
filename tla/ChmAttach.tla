------------------------------ MODULE ChmAttach ------------------------------
(***************************************************************************)
(* The life of a chmpx process and of its client processes                 *)
(* (lib/chmcntrl.cc, lib/chmimdata.cc, lib/chmeventshm.cc,                 *)
(* lib/chmeventmq.cc).                                                     *)
(*                                                                         *)
(* A chmpx process that starts makes a new shared memory file with a pool  *)
(* of msgids, holds a lock on it as long as it lives, joins the RING and   *)
(* makes a queue for itself.  A client attaches the file, takes a msgid,   *)
(* makes a queue, enters its pid and sends a notice.  The chmpx process    *)
(* watches the file for processes that close it and gives back what dead   *)
(* ones have left; it is SUSPEND while it has no client.  A client finds   *)
(* out that the lock is gone, detaches and, with auto_rejoin, attaches     *)
(* again.  The numbers of the msgids, and so the names of the queues, are  *)
(* the same for every start of the chmpx process (MakeBaseMsgId).          *)
(***************************************************************************)
EXTENDS ChmMsgPool, Sequences

CONSTANTS
  Proc,        \* client processes, each with its pid
  MaxId,       \* msgids of the pool
  MaxStart,    \* bound: starts of the chmpx process
  EarlyAttach, \* clients may attach before the chmpx process has its queue
  EarlyDeath,  \* clients may die before their pid is entered
  Linger       \* /proc/PID may outlive the looks of the thread (300 ms)

Id    == 1 .. MaxId
Start == 1 .. MaxStart
Px    == "chmpx"
None  == "none"

ASSUME AttachAssumption ==
  /\ IsFiniteSet(Proc) /\ Px \notin Proc /\ None \notin Proc
  /\ MaxId \in Nat /\ MaxId > Cardinality(Proc) /\ MaxStart \in Nat \ {0}
  /\ EarlyAttach \in BOOLEAN /\ EarlyDeath \in BOOLEAN /\ Linger \in BOOLEAN

VARIABLES
  k,      \* how often the chmpx process has been started
  pxs,    \* the chmpx process: "down", "shm", "sock", "run"
  file,   \* the start whose file the path of the shared memory names, 0: none
  shm,    \* of each start: free msgids, owners, client_pids
  path,   \* the queue each name stands for: of which start, made by whom
  cl,     \* client processes
  note,   \* the notices of joins in the queue of the chmpx process
  sup,    \* SUSPEND bit of the chmpx process' own status
  gone,   \* is_close_notify
  ev,     \* an IN_CLOSE event waits
  chk     \* the thread of CheckProcessRunning
pxvars == <<k, pxs, file>>
chvars == <<sup, gone, ev, chk>>
vars   == <<k, pxs, file, shm, path, cl, note, sup, gone, ev, chk>>

NoQueue   == [start |-> 0, who |-> None]
Queue(s, w) == [start |-> s, who |-> w]
FreshShm  == [free |-> [i \in Id |-> i], own |-> [i \in Id |-> None], pids |-> {}]
Unattached == [pc |-> "off", start |-> 0, k2h |-> 0, id |-> 0, cb |-> TRUE]
IdleCheck == [pc |-> "idle", list |-> {}]

Init ==
  /\ k = 0 /\ pxs = "down" /\ file = 0
  /\ shm = [s \in Start |-> FreshShm]
  /\ path = [i \in Id |-> NoQueue]
  /\ cl = [p \in Proc |-> Unattached]
  /\ note = {} /\ sup = TRUE /\ gone = FALSE /\ ev = FALSE
  /\ chk = IdleCheck

-----------------------------------------------------------------------------
(* The shared memory.                                                      *)

\* AssignMsg, FreeMsg (also FreeMsgs, for all msgids of a set of owners).
AssignMsg(m, w) == [m EXCEPT !.free = Tail(@), !.own[Head(m.free)] = w]

IdsOf(m, W) == {i \in Id : m.own[i] \in W}
FreeMsgs(m, W) ==
  [m EXCEPT !.free = Descending(IdsOf(m, W)) \o @,
            !.own = [i \in Id |-> IF @[i] \in W THEN None ELSE @[i]]]

AddClientPid(m, p)      == [m EXCEPT !.pids = @ \cup {p}]
RetrieveClientPid(m, D) == [m EXCEPT !.pids = @ \ D]
IsClientPids(m)         == m.pids # {}

\* mq_open(O_CREAT | O_EXCL): a queue that is there under the name is unlinked.
MutMakeQueue(i, s, w) == IF path[i] = NoQueue THEN [path EXCEPT ![i] = Queue(s, w)] ELSE path
MakeQueue(i, s, w) == [path EXCEPT ![i] = Queue(s, w)]
\* mq_unlink takes the name away, whatever queue has it now.
Unlink(S) == [i \in Id |-> IF i \in S THEN NoQueue ELSE path[i]]

\* LockChmpxPid, IsChmpxProcessRunning: the lock on the file of start s is held.
MutIsChmpxProcessRunning(s) == pxs # "down"
IsChmpxProcessRunning(s) == s = k /\ pxs # "down"
IsNeedDetach(s) == ~IsChmpxProcessRunning(s)

\* chmpxman_lap::SetSelfStatus: the SUSPEND bit does not come from the new
\* status but from the list of pids.
MutSetSelfStatus(m, bit) == bit
SetSelfStatus(m, bit) == ~IsClientPids(m)

-----------------------------------------------------------------------------
(* The chmpx process.                                                      *)

\* InitializeShm moves an old file away, makes a new one and fills it;
\* InitializeK2hash does the same for the k2hash file; LockChmpxPid.
NewFiles     == k' = k + 1 /\ file' = k + 1
LockChmpxPid == pxs' = "shm"
InitializeShm ==
  /\ pxs = "down" /\ k < MaxStart
  /\ NewFiles /\ LockChmpxPid
  /\ note' = {} /\ sup' = TRUE /\ gone' = FALSE /\ ev' = FALSE /\ chk' = IdleCheck
  /\ UNCHANGED <<shm, path, cl>>

\* ChmEventSock::SetEventQueue: "no client joins this new chmpx, then force set
\* SUSPEND status".
SockSetEventQueue ==
  /\ pxs = "shm"
  /\ sup' = SetSelfStatus(shm[k], TRUE)
  /\ pxs' = "sock"
  /\ UNCHANGED <<k, file, shm, path, cl, note, gone, ev, chk>>

\* ChmEventMq::SetEventQueue and ChmEventShm::SetEventQueue.
MqSetEventQueue ==
  /\ pxs = "sock"
  /\ shm' = [shm EXCEPT ![k] = AssignMsg(@, Px)]
  /\ path' = MakeQueue(Head(shm[k].free), k, Px)
  /\ pxs' = "run"
  /\ UNCHANGED <<k, file, cl, note, chvars>>

\* ChmCntrl::Clean: the queue goes, the files are unlinked, the lock released.
CloseFiles     == file' = 0
UnlockChmpxPid == pxs' = "down"
PxClean ==
  /\ pxs = "run" /\ k < MaxStart
  /\ path' = Unlink(IdsOf(shm[k], {Px}))
  /\ shm' = [shm EXCEPT ![k] = FreeMsgs(@, {Px})]
  /\ CloseFiles /\ UnlockChmpxPid /\ note' = {}
  /\ UNCHANGED <<k, cl, chvars>>

PxCrash ==
  /\ pxs # "down" /\ k < MaxStart
  /\ pxs' = "down" /\ note' = {}
  /\ UNCHANGED <<k, file, shm, path, cl, chvars>>

\* PxCltReceiveJoinNotify
PxCltReceiveJoinNotify(p) ==
  /\ pxs = "run" /\ p \in note
  /\ note' = note \ {p}
  /\ sup' = IF IsClientPids(shm[k]) /\ sup THEN SetSelfStatus(shm[k], FALSE) ELSE sup
  /\ UNCHANGED <<pxvars, shm, path, cl, gone, ev, chk>>

\* EventLoop: DoSuspend when is_close_notify is set.
DoSuspend ==
  /\ pxs = "run" /\ gone
  /\ gone' = FALSE
  /\ sup' = IF sup THEN sup ELSE SetSelfStatus(shm[k], TRUE)
  /\ UNCHANGED <<pxvars, shm, path, cl, note, ev, chk>>

-----------------------------------------------------------------------------
(* ChmEventShm: who is still there.                                        *)

\* Receive: an IN_CLOSE event wakes the thread, which reads the list of pids.
CheckNotifyEvent ==
  /\ pxs = "run" /\ ev /\ chk.pc = "idle"
  /\ ev' = FALSE
  /\ chk' = IF IsClientPids(shm[k]) THEN [pc |-> "look", list |-> shm[k].pids]
                                    ELSE IdleCheck
  /\ UNCHANGED <<pxvars, shm, path, cl, note, sup, gone>>

\* IsProcessRunning for each pid, until one is gone or three looks found none.
Down(list)   == {p \in list : cl[p].pc = "gone"}
Ending(list) == {p \in list : cl[p].pc \in {"dead", "left"}}
Looking      == chk.pc = "look" /\ pxs = "run"

GiveUpLooking ==
  /\ Looking /\ Down(chk.list) = {}
  /\ Linger \/ Ending(chk.list) = {}
  /\ chk' = IdleCheck
  /\ UNCHANGED <<pxvars, shm, path, cl, note, sup, gone, ev>>

FreeDown ==
  /\ Looking /\ Down(chk.list) # {}
  /\ shm' = [shm EXCEPT ![k] = FreeMsgs(@, Down(chk.list))]
  /\ chk' = [pc |-> "pids", list |-> Down(chk.list)]
  /\ UNCHANGED <<pxvars, path, cl, note, sup, gone, ev>>

RemovePids ==
  /\ chk.pc = "pids" /\ pxs = "run"
  /\ shm' = [shm EXCEPT ![k] = RetrieveClientPid(@, chk.list)]
  /\ chk' = [chk EXCEPT !.pc = "clients"]
  /\ UNCHANGED <<pxvars, path, cl, note, sup, gone, ev>>

CheckClients ==
  /\ chk.pc = "clients" /\ pxs = "run"
  /\ gone' = (gone \/ ~IsClientPids(shm[k]))
  /\ chk' = IdleCheck
  /\ UNCHANGED <<pxvars, shm, path, cl, note, sup, ev>>

-----------------------------------------------------------------------------
(* Client processes.                                                       *)

To(p, pc) == cl' = [cl EXCEPT ![p].pc = pc]
Attaching(p) == cl[p].pc \in {"shm", "k2h", "mq", "pid"}

\* AttachShm and IsChmpxProcessRunning.  ReInitialize calls Initialize without
\* the merge callbacks.
AttachShm(p) ==
  /\ cl[p].pc \in {"off", "rejoin"}
  /\ file # 0 /\ IsChmpxProcessRunning(file)
  /\ EarlyAttach \/ pxs = "run"
  /\ cl' = [cl EXCEPT ![p].pc = "shm", ![p].start = file, ![p].cb = (cl[p].pc = "off")]
  /\ UNCHANGED <<pxvars, shm, path, note, chvars>>

\* A step of Initialize fails: Clean, and ReInitialize tries again.
GiveUpAttach(p) == To(p, "rejoin")

\* AttachK2hash: the file its path names now.
AttachK2hash(p) ==
  /\ cl[p].pc = "shm"
  /\ IF file = 0 THEN GiveUpAttach(p)
     ELSE cl' = [cl EXCEPT ![p].pc = "k2h", ![p].k2h = file]
  /\ UNCHANGED <<pxvars, shm, path, note, chvars>>

\* ChmEventMq::SetEventQueue
SetEventQueue(p) ==
  LET s == cl[p].start
  IN  /\ cl[p].pc = "k2h"
      /\ IF shm[s].free = << >> THEN GiveUpAttach(p) /\ UNCHANGED <<shm, path>>
         ELSE /\ shm' = [shm EXCEPT ![s] = AssignMsg(@, p)]
              /\ path' = MakeQueue(Head(shm[s].free), s, p)
              /\ cl' = [cl EXCEPT ![p].pc = "mq", ![p].id = Head(shm[s].free)]
      /\ UNCHANGED <<pxvars, note, chvars>>

EnterPid(p) ==
  /\ cl[p].pc = "mq"
  /\ shm' = [shm EXCEPT ![cl[p].start] = AddClientPid(@, p)]
  /\ To(p, "pid")
  /\ UNCHANGED <<pxvars, path, note, chvars>>

\* PxCltSendJoinNotify: to a msgid of the chmpx process, if there is one.  A
\* failure is only logged.
PxQueues(s) == {path[i] : i \in IdsOf(shm[s], {Px})}
PxCltSendJoinNotify(p) ==
  /\ cl[p].pc = "pid"
  /\ note' = IF Queue(k, Px) \in PxQueues(cl[p].start) /\ cl[p].k2h = k
             THEN note \cup {p} ELSE note
  /\ To(p, "up")
  /\ UNCHANGED <<pxvars, shm, path, chvars>>

\* Clean of a client: its queue is closed and unlinked, its msgid freed.  Closing
\* the file is an event for the chmpx process that watches it.
MutCloseEvent(p) == ev
CloseEvent(p) == ev \/ (pxs = "run" /\ cl[p].start = k)
Released(p) ==
  /\ path' = Unlink({cl[p].id})
  /\ shm' = [shm EXCEPT ![cl[p].start] = FreeMsgs(@, {p})]

\* Receive, Send and Open find that the lock is gone.
IsChmpxExit(p) == cl[p].pc = "up" /\ IsNeedDetach(cl[p].start)
Detach(p) ==
  /\ IsChmpxExit(p)
  /\ Released(p)
  /\ cl' = [cl EXCEPT ![p].pc = "rejoin", ![p].start = 0, ![p].k2h = 0, ![p].id = 0]
  /\ UNCHANGED <<pxvars, note, chvars>>

\* The user closes the object and the process goes on.
Leave(p) ==
  /\ cl[p].pc = "up" /\ IsChmpxProcessRunning(cl[p].start)
  /\ Released(p)
  /\ To(p, "left")
  /\ ev' = CloseEvent(p)
  /\ UNCHANGED <<pxvars, note, sup, gone, chk>>

\* The process dies; a little later its /proc entry is gone.
Die(p) ==
  /\ cl[p].pc \in {"pid", "up"} \cup (IF EarlyDeath THEN {"mq"} ELSE {})
  /\ To(p, "dead")
  /\ ev' = CloseEvent(p)
  /\ UNCHANGED <<pxvars, shm, path, note, sup, gone, chk>>

Exit(p) ==
  /\ cl[p].pc \in {"dead", "left"}
  /\ To(p, "gone")
  /\ UNCHANGED <<pxvars, shm, path, note, chvars>>

-----------------------------------------------------------------------------

PxStep == \/ InitializeShm \/ SockSetEventQueue \/ MqSetEventQueue \/ DoSuspend
          \/ \E p \in Proc : PxCltReceiveJoinNotify(p)
ChkStep == CheckNotifyEvent \/ GiveUpLooking \/ FreeDown \/ RemovePids \/ CheckClients
Attach(p) == \/ AttachShm(p) \/ AttachK2hash(p) \/ SetEventQueue(p) \/ EnterPid(p)
             \/ PxCltSendJoinNotify(p) \/ Detach(p)

Next ==
  \/ PxStep \/ ChkStep \/ PxClean \/ PxCrash
  \/ \E p \in Proc : Attach(p) \/ Leave(p) \/ Die(p) \/ Exit(p)

Spec == Init /\ [][Next]_vars

\* The chmpx process is started again, its threads run, clients poll for it
\* (ReInitialize without giving up), and dead processes are reaped.
FairSpec ==
  /\ Spec
  /\ WF_vars(PxStep) /\ WF_vars(ChkStep)
  /\ \A p \in Proc : SF_vars(Attach(p)) /\ WF_vars(Exit(p))

-----------------------------------------------------------------------------

\* Types of the control state (CHMINFO, ChmCntrl, ChmEventShm).
TypeOK ==
  /\ k \in 0 .. MaxStart /\ file \in 0 .. MaxStart /\ pxs \in {"down", "shm", "sock", "run"}
  /\ \A s \in Start : /\ shm[s].free \in Seq(Id) /\ Len(shm[s].free) <= MaxId
                      /\ shm[s].own \in [Id -> Proc \cup {Px, None}]
                      /\ shm[s].pids \subseteq Proc
  /\ \A p \in Proc : cl[p].start \in 0 .. MaxStart /\ cl[p].id \in 0 .. MaxId
  /\ note \subseteq Proc /\ chk.list \subseteq Proc
  /\ sup \in BOOLEAN /\ gone \in BOOLEAN /\ ev \in BOOLEAN

\* Of two processes that end together the thread finds one and stops looking
\* (see the README): the promises are made for the first that ends.
Ended == {p \in Proc : cl[p].pc \in {"dead", "left", "gone"}}

\* When nothing is under way a server is SUSPEND exactly when it has no client,
\* although the notice of a join and the flag of the last close may cross
\* (PxCltReceiveJoinNotify, DoSuspend, SetSelfStatus).  Said of the first start of
\* the chmpx process only: a client that still holds the shared memory of the start
\* before can take the name of the queue for notices.
AtRest ==
  /\ pxs = "run" /\ k = 1 /\ note = {} /\ ~gone /\ ~ev /\ chk.pc = "idle"
  /\ \A p \in Proc : ~Attaching(p) /\ cl[p].pc \notin {"dead", "left"}
  /\ Cardinality(Ended) <= 1
SuspendSettled ==
  AtRest => (sup <=> ~\E p \in Proc : cl[p].pc = "up" /\ cl[p].start = k)

\* The name of a msgid leads to the queue its present owner reads, for every
\* attached client and for the chmpx process (MakeMqPath, FreeMsgIds, FreeMsgs), as
\* long as the chmpx process has not been started again: the names of the next start
\* are the same, and a late Clean of a client unlinks them (see the README).
QueueReachable ==
  pxs = "run" /\ k = 1 =>
    /\ \A i \in IdsOf(shm[k], {Px}) : path[i] = Queue(k, Px)
    /\ \A p \in Proc : cl[p].pc = "up" /\ cl[p].start = k => path[cl[p].id] = Queue(k, p)

\* "catch client process down realtime for cleaning MQ management data in CHMSHM"
\* (chmeventshm.h): the msgids and the pid of a process that is gone are freed, when
\* it had entered its pid, unless the chmpx process goes away itself or another
\* process ends too.
Reaped ==
  \A p \in Proc :
    cl[p].pc = "gone" /\ p \in shm[k].pids ~>
      \/ pxs = "down" \/ Cardinality(Ended) > 1
      \/ IdsOf(shm[k], {p}) = {} /\ p \notin shm[k].pids

\* "retry to join if chmpx process is down" (chmcntrl.h): a client that lives on
\* gets attached to the running chmpx process.
Rejoined ==
  \A p \in Proc :
    cl[p].pc \in {"up", "rejoin"} /\ pxs = "run" ~>
      \/ cl[p].pc = "up" /\ cl[p].start = k
      \/ pxs = "down" \/ cl[p].pc \in {"dead", "left", "gone"}

\* A client has the merge callbacks it was created with, however often it has
\* joined again (ReInitialize).
CallbacksKept == \A p \in Proc : cl[p].pc = "up" => cl[p].cb

=============================================================================
