------------------------------ MODULE ChmJoin ------------------------------
(***************************************************************************)
(* How a server process gets onto the RING, and back onto it after it has  *)
(* died (lib/chmeventsock.cc, SetEventQueue).                              *)
(*                                                                         *)
(* A starting process first asks one running server for the status of all  *)
(* servers and for the merge-suspend mode (InitialAllServerStatus), over a *)
(* connection of its own.  It then listens, takes the UP status that fits  *)
(* what it has heard of itself, connects to the first server after it in   *)
(* list order that answers and sends JOIN_RING (ConnectRing).  JOIN_RING   *)
(* goes around the RING; back at the joining server it is followed by      *)
(* STATUS_REQ to the next server, that server's STATUS_RES and the joining *)
(* server's STATUS_CHANGE.                                                 *)
(*                                                                         *)
(* The module extends ChmRing: the processes, the sockets, the packets     *)
(* between running servers and their handlers are those of ChmRing, and    *)
(* up[s] says that the event loop of server s runs.  A process that        *)
(* listens and does not run its event loop yet answers no CONINIT_REQ, so  *)
(* a connect to it fails as it does to a dead one.                         *)
(*                                                                         *)
(* Two sockets may join one pair of servers (one opened by each end).  As  *)
(* in ChmRing they are one FIFO queue per direction.                       *)
(***************************************************************************)
EXTENDS ChmRing

CONSTANTS
  Up0,        \* the servers that run at first; the others are down
  Overlap,    \* a server may start while packets travel or another one starts
  Sudden,     \* a server may die while packets travel or another one starts
  MaxStart,   \* bound: starts of a server process
  MaxDeath    \* bound: deaths of running servers

ASSUME JoinAssumption ==
  /\ Up0 \subseteq 1 .. N
  /\ Overlap \in BOOLEAN /\ Sudden \in BOOLEAN
  /\ MaxStart \in Nat /\ MaxDeath \in Nat

VARIABLES
  pc,       \* where the start of a process stands
  peer,     \* the server a starting process asks, or tries to
  starts,   \* starts so far
  deaths    \* deaths so far

jvars == <<pc, peer, starts, deaths>>
allvars == <<vars, jvars>>

\* "down", then "connect" / "status" / "suspend" in InitialAllServerStatus, "ring"
\* in the rest of SetEventQueue, and "run" in the event loop
Phase == {"down", "connect", "status", "suspend", "ring", "run"}

-----------------------------------------------------------------------------
(* The packets of a join.                                                  *)

\* PxComSendJoinRing, PxComSendStatusReq and the answer PxComReceiveStatusReq makes.
\* The result of JOIN_RING stays SUCCESS: neither storing the status nor looking
\* for the next server fails for a server of the list.
JoinRing(w) ==
  [type |-> "JOIN_RING", dept |-> w.id, res |-> "SUCCESS", chm |-> ChmOf(w, w.id)]

StatusReq(w) == [type |-> "STATUS_REQ", dept |-> w.id, res |-> "SUCCESS"]

StatusRes(w) ==
  [type |-> "STATUS_RES", dept |-> w.id, res |-> "SUCCESS",
   list |-> [t \in Server |-> ChmOf(w, t)]]

-----------------------------------------------------------------------------
(* The start of a process, before it runs its event loop.                  *)

\* The table made from the configuration: every server out of service and down,
\* never updated.  The start-up service-in request is kept in the auto mode only.
FreshNode(s) ==
  [InitNode(s, {}, {}) EXCEPT
     !.sv = [t \in Server |-> [st |-> SRVOUT_DOWN_NORMAL, bh |-> NoHash, ph |-> NoHash, ts |-> 0]],
     !.link = {}]

\* MergeChmpxSvrs of a whole list.  At the start, too, an entry that says DOWN of
\* the process itself becomes the matching UP status.
MergeList(w, list) ==
  LET st(t) == IF t = w.id THEN CorrectSelf(w, list[t].st) ELSE list[t].st
  IN  Good(Recount(UpdatePendingHash(UpdateBaseHash(
        [w EXCEPT !.sv = [t \in Server |->
           IF IsLatest(w, list[t]) THEN [@[t] EXCEPT !.st = st(t), !.ts = list[t].ts]
                                   ELSE @[t]]]))))

\* PxComReceiveStatusReq: the asked server stamps its own entry and answers with
\* its whole list.
ReceiveStatusReq(w) == UpdateSelfLastStatusTime(w)

\* Faulty variant: the answer resets the mode.
MutReceiveMergeSuspendRes(w, asup) == [w EXCEPT !.asup = FALSE]

\* PxComReceiveMergeSuspendGet / PxComReceiveMergeSuspendRes
ReceiveMergeSuspendRes(w, asup) == [w EXCEPT !.asup = asup]

\* Faulty variant: a server always comes back out of service.
MutStartStatus(st) == SRVOUT_UP_NORMAL

\* SetEventQueue, "re-check self status": the own status at the start.  Nobody is
\* attached yet, so SetSelfStatus adds SUSPEND.
StartStatus(st) ==
  CASE IsSrvIn(st) /\ st.act = "NOACT"                -> SRVIN_UP_NORMAL
    [] IsSrvIn(st) /\ IsUp(st) /\ st.act = "ADD"      -> SRVIN_UP_ADDPENDING
    [] IsSrvIn(st) /\ IsUp(st) /\ st.act = "DELETE"   -> st
    [] IsSrvIn(st) /\ ~IsUp(st) /\ st.act = "DELETE"  ->
         IF st.op = "PENDING" THEN SRVIN_UP_DELPENDING ELSE SRVIN_UP_DELETED
    [] OTHER                                          -> SRVOUT_UP_NORMAL

\* ConnectRing: the first server after this one that is up in its table and answers.
ChainTo(w) ==
  LET S == {t \in UpOthers(w) : up[t]}
  IN  IF S = {} THEN NoServer
      ELSE CHOOSE t \in S : \A u \in S : Dist(w.id, t) <= Dist(w.id, u)

SendJoinRing(w, d) ==
  LET w1 == UpdateSelfLastStatusTime(w) IN Send(w1, d, JoinRing(w1))

\* "There is no server UP on RING": then the process goes on alone.
ConnectRing(w) == IF ChainTo(w) = NoServer THEN Good(w) ELSE SendJoinRing(w, ChainTo(w))

-----------------------------------------------------------------------------
(* The packets of a join at the running servers.                           *)

\* Does CheckRechainRing close one socket and open another (is_rechain)?
IsRechain(w, new) ==
  LET cur == NextRing(w)
      d   == IF cur = NoServer \/ Dist(w.id, new) < Dist(w.id, cur) THEN new ELSE cur
  IN  ~(d = cur /\ cur \in w.link) /\ Connectable(w, d)

\* PxComReceiveJoinRing: apply, rechain, pass on; after rechaining the packet goes
\* to the joining server whichever server the chain now leads to.
JoinRingPass(w, p) ==
  LET w1 == MergeChmpxSvrs(w, p.chm)
      d  == IF IsRechain(w1, p.chm.id) THEN p.chm.id ELSE NextRing(w1)
      w2 == CheckRechainRing(w1, p.chm.id)
  IN  IF d = NoServer THEN Fail(w2)
      ELSE IF d = p.dept \/ Dist(w.id, d) < Dist(w.id, p.dept) THEN Send(w2, d, p)
      ELSE Good(w2)

\* ... and back at the joining server: ask the next server for its list.
JoinRingBack(w) == IF NextRing(w) = NoServer THEN Good(w) ELSE SendNext(w, StatusReq(w))

\* Faulty variant: the first server does not pass the packet on.
MutReceiveJoinRing(w, p) ==
  IF IsDept(w, p) THEN JoinRingBack(w)
  ELSE CheckRechainRing(MergeChmpxSvrs(w, p.chm), p.chm.id)

ReceiveJoinRing(w, p) == IF IsDept(w, p) THEN JoinRingBack(w) ELSE JoinRingPass(w, p)

AnswerStatusReq(w, p) ==
  LET w1 == ReceiveStatusReq(w) IN Send(w1, p.dept, StatusRes(w1))

\* Processing of STATUS_RES: the list is merged, the own status goes around, and in
\* the auto mode a status that is not at rest asks for a merge.
AnnounceJoin(w) == Good(NotifySelf(UpdateSelfLastStatusTime(w)))

ReceiveStatusRes(w, p) ==
  LET w1 == AnnounceJoin(MergeList(w, p.list))
  IN  IF IsAutoMerge(w1) /\ Self(w1).op # "NOTHING" THEN RequestMergeStart(w1) ELSE w1

-----------------------------------------------------------------------------
(* Initial states: the servers of Up0 form a RING at rest, each with a     *)
(* client process, the others are down, in or out of service.              *)

Init0Entry(in) ==
  [t \in Server |->
     [InitEntry(in, Up0)[t] EXCEPT
        !.st = IF t \in Up0 THEN @
               ELSE IF t \in in THEN SRVIN_DOWN_NORMAL ELSE SRVOUT_DOWN_NORMAL]]

Init0Node(s, in) ==
  [InitNode(s, in, Up0) EXCEPT
     !.sv = Init0Entry(in),
     !.link = IF Up0 \subseteq {s} THEN {}
              ELSE {CHOOSE t \in Up0 \ {s} : \A u \in Up0 \ {s} : Dist(s, t) <= Dist(s, u)}]

JoinInit ==
  /\ \E in \in InitIn :
       node = [s \in Server |-> IF s \in Up0 THEN Init0Node(s, in) ELSE FreshNode(s)]
  /\ up = [s \in Server |-> s \in Up0]
  /\ ops = 0 /\ now = 0
  /\ pc = [s \in Server |-> IF s \in Up0 THEN "run" ELSE "down"]
  /\ peer = [s \in Server |-> 1]
  /\ starts = 0 /\ deaths = 0

-----------------------------------------------------------------------------
(* Actions.                                                                *)

\* Nothing travels and nobody starts.
JoinQuiet == Quiet /\ \A s \in Server : pc[s] \in {"down", "run"}

\* A process is started again after the sockets of its predecessor have been closed
\* and noticed at both ends; what is already on its way around the RING may still
\* travel if starts overlap.
Start(s) ==
  /\ pc[s] = "down" /\ starts < MaxStart
  /\ Overlap \/ JoinQuiet
  /\ \A t \in Server : node[s].out[t] = << >> /\ s \notin node[t].link
  /\ node' = [node EXCEPT ![s] = FreshNode(s)]
  /\ pc' = [pc EXCEPT ![s] = "connect"]
  /\ peer' = [peer EXCEPT ![s] = 1]
  /\ starts' = starts + 1
  /\ UNCHANGED <<up, ops, now, deaths>>

\* InitialAllServerStatus, the search for a server that answers: in list order,
\* without the process itself.  None: "any server ready up".
InitialConnect(s) ==
  /\ pc[s] = "connect"
  /\ LET answers == peer[s] # s /\ up[peer[s]]
     IN  /\ pc' = [pc EXCEPT ![s] = IF answers THEN "status"
                                    ELSE IF peer[s] = N THEN "ring" ELSE @]
         /\ peer' = [peer EXCEPT ![s] = IF answers \/ peer[s] = N THEN @ ELSE @ + 1]
  /\ UNCHANGED <<vars, starts, deaths>>

\* ... STATUS_REQ and STATUS_RES.  The asked server may have died: the process exits.
InitialStatus(s) ==
  /\ pc[s] = "status"
  /\ LET d == peer[s]
         w == ReceiveStatusReq(node[d])
     IN  IF up[d]
         THEN /\ node' = [node EXCEPT ![d] = w, ![s] = MergeList(@, StatusRes(w).list)]
              /\ pc' = [pc EXCEPT ![s] = "suspend"]
         ELSE /\ pc' = [pc EXCEPT ![s] = "down"]
              /\ UNCHANGED node
  /\ UNCHANGED <<up, ops, now, peer, starts, deaths>>

\* ... MERGE_SUSPEND_GET and MERGE_SUSPEND_RES, where a failure is ignored.
InitialSuspend(s) ==
  /\ pc[s] = "suspend"
  /\ node' = IF up[peer[s]]
             THEN [node EXCEPT ![s] = ReceiveMergeSuspendRes(@, node[peer[s]].asup)]
             ELSE node
  /\ pc' = [pc EXCEPT ![s] = "ring"]
  /\ UNCHANGED <<up, ops, now, peer, starts, deaths>>

\* The rest of SetEventQueue: listen, own status, ConnectRing; then the event loop.
EnterRing(s) ==
  /\ pc[s] = "ring"
  /\ Becomes(s, ConnectRing(SetSelfStatus(node[s], StartStatus(Self(node[s])))))
  /\ up' = [up EXCEPT ![s] = TRUE]
  /\ pc' = [pc EXCEPT ![s] = "run"]
  /\ UNCHANGED <<ops, now, peer, starts, deaths>>

RecvJoinRing(s, t) ==
  Recv(s, t, "JOIN_RING", ReceiveJoinRing(node[t], Unread(s, t))) /\ UNCHANGED jvars
RecvStatusReq(s, t) ==
  Recv(s, t, "STATUS_REQ", AnswerStatusReq(node[t], Unread(s, t))) /\ UNCHANGED jvars
RecvStatusRes(s, t) ==
  Recv(s, t, "STATUS_RES", ReceiveStatusRes(node[t], Unread(s, t))) /\ UNCHANGED jvars

\* A running server dies.
Death(s) ==
  /\ up[s] /\ deaths < MaxDeath
  /\ Sudden \/ JoinQuiet
  /\ up' = [up EXCEPT ![s] = FALSE]
  /\ pc' = [pc EXCEPT ![s] = "down"]
  /\ node' = [t \in Server |-> [node[t] EXCEPT !.out[s] = << >>]]
  /\ deaths' = deaths + 1
  /\ UNCHANGED <<ops, now, peer, starts>>

\* What the running servers do besides; a patient operator waits for joins to end.
RingStep ==
  /\ \/ \E s, t \in Server : RecvAny(s, t) \/ DropStream(s, t) \/ NotifyHup(s, t)
     \/ \E s \in Server : (Patient => JoinQuiet) /\ CmdAny(s)
     \/ \E s \in Server : RecvJoinNotify(s) \/ CloseNotify(s) \/ MergeWorker(s)
     \/ Tick
  /\ UNCHANGED jvars

Boot(s) == InitialConnect(s) \/ InitialStatus(s) \/ InitialSuspend(s) \/ EnterRing(s)

JoinNext ==
  \/ \E s \in Server : Start(s) \/ Boot(s) \/ Death(s)
  \/ \E s, t \in Server : RecvJoinRing(s, t) \/ RecvStatusReq(s, t) \/ RecvStatusRes(s, t)
  \/ RingStep

JoinSpec == JoinInit /\ [][JoinNext]_allvars

\* A starting process goes on, the event loop of a running one handles what there is
\* (as in ChmRing) and so does its merge thread.
JoinFairness ==
  \A s \in Server :
    /\ WF_allvars(Boot(s))
    /\ []<>(~LoopEnabled(s)) \/ []<><<LoopStep(s)>>_allvars
    /\ WF_allvars(MergeWorker(s) /\ UNCHANGED jvars)

JoinFairSpec == JoinSpec /\ JoinFairness
-----------------------------------------------------------------------------
(* Properties.                                                             *)

\* When nothing travels any more, the running servers form one RING: each has
\* exactly the running servers up in its table, with the status they have
\* themselves, whoever joined, died or came back before.
OneRing ==
  JoinQuiet =>
    \A s \in Running, t \in Server :
      IF up[t] THEN node[s].sv[t].st = Self(node[t]) ELSE ~IsUp(node[s].sv[t].st)

\* ... and every one of them is watched: some other server holds a socket to it, so
\* that its death will be noticed (ServerSockNotifyHup; nothing else notices one).
Watched ==
  JoinQuiet =>
    \A s \in Running : Running = {s} \/ \E t \in Running \ {s} : s \in node[t].link

\* A server that has joined is in the merge-suspend mode the RING is in ("this node
\* must is set same status at initializing", InitialAllServerStatus).
SuspendKept == JoinQuiet => \A s, t \in Running : node[s].asup = node[t].asup

\* Dying, starting and joining move nobody into or out of service: without a command
\* of the operator a running server's view of who is in service stays as it is.
MembershipKept ==
  [][\A s \in Server, t \in Server :
       up[s] /\ up'[s] => (IsSrvIn(node[s].sv[t].st) <=> IsSrvIn(node'[s].sv[t].st))]_allvars

\* A server that ConnectRing could not connect to is down in the table of the server
\* that has tried ("Could not connect to ..., set status to DOWN.").
TriedIsDown ==
  [][\A s \in Server :
       pc[s] = "ring" /\ pc'[s] = "run" =>
         \A t \in Server \ {s} :
           ChainTo(node[s]) = NoServer \/ Dist(s, t) < Dist(s, ChainTo(node[s]))
             => ~IsUp(node'[s].sv[t].st)]_allvars

\* As long as the whole RING is in the merge-suspend mode no server goes into service
\* by itself.
SuspendHolds ==
  [][\A s \in Running :
       (\A t \in Running : node[t].asup) /\ IsSrvOut(Self(node[s]))
         => IsSrvOut(Self(node'[s]))]_allvars
=============================================================================
