----------------------------- MODULE ChmConnect -----------------------------
(***************************************************************************)
(* Connections between chmpx processes (lib/chmeventsock.cc).              *)
(*                                                                         *)
(* A process connects to a server from inside a handler of its event loop  *)
(* and waits there, with a time limit, for VERSION_RES and CONINIT_RES.    *)
(* The server accepts, keeps the socket in acceptingmap while it reads     *)
(* VERSION_REQ and CONINIT_REQ, checks the sender twice and moves the      *)
(* socket to slavesockmap.  Each side learns that the other has closed by  *)
(* reading, and reads only sockets it has put into epoll.                  *)
(*                                                                         *)
(* A connection is one record with both ends: cli is the end of the        *)
(* process that connects, srv that of the process it connects to.  Host    *)
(* names are the processes' names; TLS and the control port are left out.  *)
(***************************************************************************)
EXTENDS Integers, Sequences, FiniteSets, TLC

CONSTANTS
  Procs,      \* chmpx processes
  Conns,      \* bound: connections that exist at one time
  Wants,      \* <<p, q>>: p has reasons to connect to q
  Named,      \* <<q, p>>: q's configuration or server list names p at first
  Forced,     \* processes with CHMPX_COM_PROTO_VER=1 in their environment
  ThreadCnt,  \* threads that run handlers; 1: the event loop itself
  MaxSock,    \* CHMSOCKLIST entries of a process
  Patient,    \* TRUE: the time limit is longer than a free server takes to answer
  MaxFault,   \* bound: deaths, starts, failed joins and edits of the configuration
  MaxData     \* bound: packets on their way on a connection

ASSUME ConnectAssumption ==
  /\ Wants \subseteq Procs \X Procs /\ Named \subseteq Procs \X Procs
  /\ Forced \subseteq Procs /\ Patient \in BOOLEAN /\ IsFiniteSet(Conns)
  /\ ThreadCnt \in Nat \ {0} /\ MaxSock \in Nat
  /\ MaxFault \in Nat /\ MaxData \in Nat
  /\ "nobody" \notin Procs

VARIABLES
  run,      \* of each process: "up", "left" (its listening socket is closed), "down"
  comproto, \* comproto_ver of each process
  allow,    \* of each process: the hosts its configuration and server list name
  conn,     \* the connections
  socks,    \* of each process: the sockets in its slave list
  slaves,   \* of each process: the processes in its slave list
  faults    \* how many faults there have been
vars == <<run, comproto, allow, conn, socks, slaves, faults>>

Uninit == 0   \* COM_VERSION_UNINIT
V1     == 1   \* COM_VERSION_1
V2     == 2   \* COM_VERSION_2

Msg(t, n)        == [t |-> t, n |-> n]
VersionReq       == Msg("VERSION_REQ", V2)
VersionRes(cur)  == Msg("VERSION_RES", cur)
ConinitReq(ver)  == Msg("CONINIT_REQ", ver)
ConinitRes(ok)   == Msg("CONINIT_RES", ok)   \* 1: CHMPX_COM_RES_SUCCESS
Data             == Msg("DATA", 0)

\* watch: the server's end is in epoll, is being read once without that, or neither.
NoConn == [from |-> "nobody", to |-> "nobody", cli |-> "closed", srv |-> "closed",
           watch |-> "no", c2s |-> << >>, s2c |-> << >>]

Init ==
  /\ run = [p \in Procs |-> "up"]
  /\ comproto = [p \in Procs |-> Uninit]
  /\ allow = [q \in Procs |-> {p \in Procs : <<q, p>> \in Named}]
  /\ conn = [c \in Conns |-> NoConn]
  /\ socks = [q \in Procs |-> {}] /\ slaves = [q \in Procs |-> {}]
  /\ faults = 0

-----------------------------------------------------------------------------
(* Sockets.                                                                *)

\* IS_COM_CURRENT_VERSION
IsCurrentVersion(ver) == ver \in {V2, Uninit}

Waiting(k) == k.cli \in {"version", "coninit"}

\* What a thread of p is busy with: connects that wait for an answer, and
\* sockets read without epoll.
Busy(p) ==
  Cardinality({c \in Conns : conn[c].from = p /\ Waiting(conn[c])})
    + Cardinality({c \in Conns : conn[c].to = p /\ conn[c].watch = "once"})

Free(p) == run[p] # "down" /\ Busy(p) < ThreadCnt

CloseCli(k) == [k EXCEPT !.cli = "closed", !.s2c = << >>]
CloseSrv(k) == [k EXCEPT !.srv = "closed", !.watch = "no", !.c2s = << >>]

\* A connection that neither end has open is gone.
Norm(k) == IF k.cli = "closed" /\ k.srv = "closed" THEN NoConn ELSE k

\* RawSend, LockedSend: a write to a socket the peer has closed is lost or fails.
ToServer(k, m) ==
  IF k.srv # "closed" THEN {[k EXCEPT !.c2s = Append(@, m)]} ELSE {k, CloseCli(k)}
ToClient(k, m) ==
  IF k.cli # "closed" THEN {[k EXCEPT !.s2c = Append(@, m)]} ELSE {k, CloseSrv(k)}

\* CHMSOCKLIST entries in use: the sockets to servers and those of slaves.
SocksUsed(p) ==
  Cardinality({c \in Conns : conn[c].from = p /\ conn[c].cli = "server"})
    + Cardinality(socks[p])

\* RemoveSlaveSock: the slave leaves the list with its last socket.
RemoveSlaveSock(q, c) ==
  /\ socks' = [socks EXCEPT ![q] = @ \ {c}]
  /\ slaves' = [slaves EXCEPT ![q] =
       @ \ (IF \E d \in socks[q] \ {c} : conn[d].from = conn[c].from
            THEN {} ELSE {conn[c].from})]

\* What the socket maps do when they drop a socket.
ServerSockMapCallback(p, c) ==
  /\ conn' = [conn EXCEPT ![c] = Norm(CloseCli(@))]
  /\ UNCHANGED <<socks, slaves>>
SlaveSockMapCallback(q, c) ==
  /\ conn' = [conn EXCEPT ![c] = Norm(CloseSrv(@))]
  /\ RemoveSlaveSock(q, c)
AcceptMapCallback(q, c) ==
  /\ conn' = [conn EXCEPT ![c] = Norm(CloseSrv(@))]
  /\ UNCHANGED <<socks, slaves>>

-----------------------------------------------------------------------------
(* Connecting.                                                             *)

\* InitialComVersion asks for the version unless the environment sets it.
MutAsksVersion(p) == p \notin Forced
AsksVersion(p) == comproto[p] = Uninit /\ p \notin Forced
ConnectVersion(p) == IF comproto[p] = Uninit /\ p \in Forced THEN V1 ELSE comproto[p]

\* The version of CONINIT_REQ is that of the packet it is built as.
SendConinitReq(k, ver) == ToServer(k, ConinitReq(IF IsCurrentVersion(ver) THEN V2 ELSE V1))

\* Connect: TCP connects while the server listens, whatever its threads do.
TcpConnect(q) == run[q] = "up"

\* RawConnectServer up to the first packet it waits for
RawConnectServer(p, q, c) ==
  /\ conn[c] = NoConn /\ TcpConnect(q)
  /\ LET k == [NoConn EXCEPT !.from = p, !.to = q, !.srv = "backlog",
                             !.cli = IF AsksVersion(p) THEN "version" ELSE "coninit"]
     IN \E n \in IF AsksVersion(p) THEN ToServer(k, VersionReq)
                                   ELSE SendConinitReq(k, ConnectVersion(p)) :
          conn' = [conn EXCEPT ![c] = n]
  /\ comproto' = [comproto EXCEPT ![p] = ConnectVersion(p)]
  /\ UNCHANGED <<run, allow, socks, slaves, faults>>

\* ConnectServer: p may already be connected.
ConnectServer(p, q) ==
  /\ <<p, q>> \in Wants /\ run[p] = "up" /\ Free(p)
  /\ ~ \E c \in Conns : conn[c].from = p /\ conn[c].to = q /\ conn[c].cli = "server"
  /\ \E c \in Conns : RawConnectServer(p, q, c)

\* The lower of the peer's own and the peer's current version.
AgreedVersion(cur) == IF cur < V2 THEN cur ELSE V2

\* InitialComVersion, PxComReceiveVersionRes, PxComSendConinitReq
ReceiveVersionRes(p, c) ==
  LET k == conn[c] IN
  /\ run[p] # "down" /\ k.from = p /\ k.cli = "version" /\ k.s2c # << >>
  /\ LET ver == AgreedVersion(Head(k.s2c).n) IN
     /\ comproto' = [comproto EXCEPT ![p] = ver]
     /\ \E n \in SendConinitReq([k EXCEPT !.s2c = Tail(@), !.cli = "coninit"], ver) :
          conn' = [conn EXCEPT ![c] = Norm(n)]
  /\ UNCHANGED <<run, allow, socks, slaves, faults>>

\* PxComReceiveConinitRes
ConinitResult(m) == m.n = 1

\* The end of RawConnectServer: the socket becomes one to a server if the server
\* agrees and there is a CHMSOCKLIST entry for it.
ReceiveConinitRes(p, c) ==
  LET k == conn[c] IN
  /\ run[p] # "down" /\ k.from = p /\ k.cli = "coninit" /\ k.s2c # << >>
  /\ LET won == ConinitResult(Head(k.s2c)) /\ SocksUsed(p) < MaxSock
     IN conn' = [conn EXCEPT ![c] =
                   IF won THEN [k EXCEPT !.cli = "server", !.s2c = Tail(@)]
                          ELSE Norm(CloseCli(k))]
  /\ UNCHANGED <<run, comproto, allow, socks, slaves, faults>>

\* The server closed instead of answering.
AnswerClosed(p, c) ==
  LET k == conn[c] IN
  /\ run[p] # "down" /\ k.from = p /\ Waiting(k) /\ k.s2c = << >> /\ k.srv = "closed"
  /\ conn' = [conn EXCEPT ![c] = NoConn]
  /\ UNCHANGED <<run, comproto, allow, socks, slaves, faults>>

\* A free thread of the server would answer next.
Answerable(k) ==
  /\ k.to \in Procs /\ Free(k.to)
  /\ k.srv = "backlog" \/ (k.srv = "accepting" /\ k.watch = "epoll" /\ k.c2s # << >>)

MutTimedOut(p, c) == FALSE /\ UNCHANGED vars

\* WaitForReady returns ETIMEDOUT: the connect is given up.
TimedOut(p, c) ==
  LET k == conn[c] IN
  /\ run[p] # "down" /\ k.from = p /\ Waiting(k) /\ k.s2c = << >> /\ k.srv # "closed"
  /\ Patient => ~Answerable(k) /\ k.watch # "once"
  /\ conn' = [conn EXCEPT ![c] = CloseCli(k)]
  /\ UNCHANGED <<run, comproto, allow, socks, slaves, faults>>

-----------------------------------------------------------------------------
(* Accepting.                                                              *)

\* The two checks of the sender: by name, and with its control port and CUK.
IsAllowHost(q, p)         == p \in allow[q]
IsAllowHostStrictly(q, p) == p \in allow[q]

\* Accept: the socket of a host that is not allowed is handed to NotifyHup, which
\* is a Receive, and does not get into epoll.
Accept(q, c) ==
  LET k == conn[c] IN
  /\ Free(q) /\ k.to = q /\ k.srv = "backlog"
  /\ conn' = [conn EXCEPT ![c].srv = "accepting",
                          ![c].watch = IF IsAllowHost(q, k.from) THEN "epoll" ELSE "once"]
  /\ UNCHANGED <<run, comproto, allow, socks, slaves, faults>>

\* A thread of q reads the socket: on an event, or because it was told to.
Reads(q, c) ==
  /\ run[q] # "down" /\ conn[c].to = q
  /\ conn[c].watch = "once" \/ (conn[c].watch = "epoll" /\ Free(q))

\* Receive: nothing more comes within the time limit, and the socket stays open.
ReceiveEnds(q, c) ==
  LET k == conn[c] IN
  /\ run[q] # "down" /\ k.to = q /\ k.watch = "once" /\ k.c2s = << >> /\ k.cli # "closed"
  /\ conn' = [conn EXCEPT ![c].watch = "no"]
  /\ UNCHANGED <<run, comproto, allow, socks, slaves, faults>>

\* PxComReceiveVersionReq
ReceiveVersionReq(q, c) ==
  LET k == conn[c] IN
  /\ Reads(q, c) /\ k.srv = "accepting" /\ k.c2s # << >> /\ Head(k.c2s).t = "VERSION_REQ"
  /\ \E n \in ToClient([k EXCEPT !.c2s = Tail(@)],
                       VersionRes(IF IsCurrentVersion(comproto[q]) THEN V2 ELSE V1)) :
       conn' = [conn EXCEPT ![c] = Norm(n)]
  /\ UNCHANGED <<run, comproto, allow, socks, slaves, faults>>

IsConinitReq(q, c) ==
  /\ Reads(q, c) /\ conn[c].srv = "accepting"
  /\ conn[c].c2s # << >> /\ Head(conn[c].c2s).t = "CONINIT_REQ"

\* The request is answered with an error and the socket is closed.
Refuse(q, c) ==
  \E n \in ToClient(conn[c], ConinitRes(0)) : conn' = [conn EXCEPT ![c] = Norm(CloseSrv(n))]

DenyConinitReq(q, c) ==
  /\ IsConinitReq(q, c) /\ ~IsAllowHostStrictly(q, conn[c].from)
  /\ Refuse(q, c)
  /\ UNCHANGED <<run, comproto, allow, socks, slaves, faults>>

\* SetSlaveAll has put the slave into the list when it finds no CHMSOCKLIST entry
\* for its socket.
FailConinitReq(q, c) ==
  /\ IsConinitReq(q, c) /\ IsAllowHostStrictly(q, conn[c].from) /\ SocksUsed(q) >= MaxSock
  /\ slaves' = [slaves EXCEPT ![q] = @ \cup {conn[c].from}]
  /\ Refuse(q, c)
  /\ UNCHANGED <<run, comproto, allow, socks, faults>>

\* The slave list in shared memory gets the slave and its socket.
SetSlaveAll(q, c) ==
  /\ socks' = [socks EXCEPT ![q] = @ \cup {c}]
  /\ slaves' = [slaves EXCEPT ![q] = @ \cup {conn[c].from}]

MutReceiveConinitReq(q, c) ==
  LET k == conn[c] IN
  /\ IsConinitReq(q, c) /\ IsAllowHostStrictly(q, k.from) /\ SocksUsed(q) < MaxSock
  /\ \E n \in ToClient([k EXCEPT !.c2s = Tail(@)], ConinitRes(1)) :
       conn' = [conn EXCEPT ![c] = Norm(n)]
  /\ UNCHANGED <<run, comproto, allow, socks, slaves, faults>>

\* The socket goes from acceptingmap to slavesockmap.  Receive stops when it sees
\* that; a processing thread goes on reading.
ReceiveConinitReq(q, c) ==
  LET k == conn[c]
      s == [k EXCEPT !.srv = "slave", !.c2s = Tail(@),
                     !.watch = IF @ = "once" /\ ThreadCnt = 1 THEN "no" ELSE @]
  IN
  /\ IsConinitReq(q, c) /\ IsAllowHostStrictly(q, k.from) /\ SocksUsed(q) < MaxSock
  /\ \/ /\ \E n \in ToClient(s, ConinitRes(1)) :
             n.srv = "slave" /\ conn' = [conn EXCEPT ![c] = n]
        /\ SetSlaveAll(q, c)
     \/ k.cli = "closed" /\ SlaveSockMapCallback(q, c)   \* the answer cannot be sent
  /\ UNCHANGED <<run, comproto, allow, faults>>

-----------------------------------------------------------------------------
(* Packets and closed sockets.                                             *)

SendData(p, c) ==
  LET k == conn[c] IN
  /\ run[p] # "down" /\ k.from = p /\ k.cli = "server"
  /\ k.srv # "closed" => Len(k.c2s) < MaxData
  /\ \E n \in ToServer(k, Data) : conn' = [conn EXCEPT ![c] = Norm(n)]
  /\ UNCHANGED <<run, comproto, allow, socks, slaves, faults>>

ReceiveData(q, c) ==
  LET k == conn[c] IN
  /\ Reads(q, c) /\ k.srv = "slave" /\ k.c2s # << >>
  /\ conn' = [conn EXCEPT ![c].c2s = Tail(@)]
  /\ UNCHANGED <<run, comproto, allow, socks, slaves, faults>>

\* Faulty variant: the end of a connection is looked for among the slaves only.
MutPeerClosed(q, c) ==
  Reads(q, c) /\ conn[c].c2s = << >> /\ conn[c].cli = "closed" /\ conn[c].srv = "slave"

\* RawReceive finds the end of the connection and calls RawNotifyHup.
PeerClosed(q, c) == Reads(q, c) /\ conn[c].c2s = << >> /\ conn[c].cli = "closed"

MutSlaveSockNotifyHup(q, c) ==
  /\ PeerClosed(q, c) /\ conn[c].srv = "slave" /\ AcceptMapCallback(q, c)
  /\ UNCHANGED <<run, comproto, allow, faults>>

SlaveSockNotifyHup(q, c) ==
  /\ PeerClosed(q, c) /\ conn[c].srv = "slave" /\ SlaveSockMapCallback(q, c)
  /\ UNCHANGED <<run, comproto, allow, faults>>

AcceptingSockNotifyHup(q, c) ==
  /\ PeerClosed(q, c) /\ conn[c].srv = "accepting" /\ AcceptMapCallback(q, c)
  /\ UNCHANGED <<run, comproto, allow, faults>>

\* The same for a socket to a server.
ServerSockNotifyHup(p, c) ==
  LET k == conn[c] IN
  /\ Free(p) /\ k.from = p /\ k.cli = "server" /\ k.s2c = << >> /\ k.srv = "closed"
  /\ ServerSockMapCallback(p, c)
  /\ UNCHANGED <<run, comproto, allow, faults>>

-----------------------------------------------------------------------------
(* Closing everything, and the outside.                                    *)

CloseToServersSocks(p, k) == IF k.from = p /\ k.cli = "server" THEN CloseCli(k) ELSE k

\* ConnectRing gives up a server it has connected to.
CloseToServers(p) ==
  /\ Free(p) /\ faults < MaxFault
  /\ \E c \in Conns : conn[c].from = p /\ conn[c].cli = "server"
  /\ conn' = [c \in Conns |-> Norm(CloseToServersSocks(p, conn[c]))]
  /\ faults' = faults + 1
  /\ UNCHANGED <<run, comproto, allow, socks, slaves>>

\* CloseSelfSocks closes the listening socket and what waits on it.
CloseSelfSocks(p, k) == IF k.to = p /\ k.srv = "backlog" THEN CloseSrv(k) ELSE k
CloseFromSlavesSocks(p, k) == IF k.to = p /\ k.srv = "slave" THEN CloseSrv(k) ELSE k

\* A join failed: the server closes its sockets, all but those in acceptingmap.
LeaveRing(p) ==
  /\ run[p] = "up" /\ Free(p) /\ faults < MaxFault
  /\ run' = [run EXCEPT ![p] = "left"]
  /\ conn' = [c \in Conns |->
       Norm(CloseToServersSocks(p, CloseFromSlavesSocks(p, CloseSelfSocks(p, conn[c]))))]
  /\ socks' = [socks EXCEPT ![p] = {}] /\ slaves' = [slaves EXCEPT ![p] = {}]
  /\ faults' = faults + 1
  /\ UNCHANGED <<comproto, allow>>

\* Clean, or the death of the process: all its ends close.
CloseAll(p, k) ==
  LET s == IF k.to = p THEN CloseSrv(k) ELSE k
  IN IF k.from = p THEN CloseCli(s) ELSE s

Clean(p) ==
  /\ run[p] # "down" /\ faults < MaxFault
  /\ run' = [run EXCEPT ![p] = "down"]
  /\ comproto' = [comproto EXCEPT ![p] = Uninit]
  /\ conn' = [c \in Conns |-> Norm(CloseAll(p, conn[c]))]
  /\ socks' = [socks EXCEPT ![p] = {}] /\ slaves' = [slaves EXCEPT ![p] = {}]
  /\ faults' = faults + 1
  /\ UNCHANGED allow

\* The process starts and listens (Listen, RawListen).
Listen(p) ==
  /\ run[p] = "down" /\ run' = [run EXCEPT ![p] = "up"]
  /\ UNCHANGED <<comproto, allow, conn, socks, slaves, faults>>

\* The configuration of q is edited; the next check reads it.
EditConfiguration(q, p) ==
  /\ faults < MaxFault /\ faults' = faults + 1 /\ <<q, p>> \notin Named
  /\ allow' = [allow EXCEPT ![q] = (@ \ {p}) \cup ({p} \ @)]
  /\ UNCHANGED <<run, comproto, conn, socks, slaves>>

-----------------------------------------------------------------------------

Respond(c) ==
  \E p \in Procs :
    \/ ReceiveVersionRes(p, c) \/ ReceiveConinitRes(p, c) \/ AnswerClosed(p, c)
    \/ TimedOut(p, c)

Serve(c) ==
  \E q \in Procs :
    \/ Accept(q, c) \/ ReceiveEnds(q, c) \/ ReceiveVersionReq(q, c)
    \/ DenyConinitReq(q, c) \/ FailConinitReq(q, c) \/ ReceiveConinitReq(q, c)
    \/ ReceiveData(q, c) \/ SlaveSockNotifyHup(q, c) \/ AcceptingSockNotifyHup(q, c)

HupServer(c) == \E p \in Procs : ServerSockNotifyHup(p, c)

Connects == \E p \in Procs, q \in Procs : ConnectServer(p, q)
Sends    == \E p \in Procs, c \in Conns : SendData(p, c)
Faults   ==
  \E p \in Procs :
    \/ CloseToServers(p) \/ LeaveRing(p) \/ Clean(p) \/ Listen(p)
    \/ \E q \in Procs : EditConfiguration(p, q)

Next ==
  \/ \E c \in Conns : Respond(c) \/ Serve(c) \/ HupServer(c)
  \/ Connects \/ Sends \/ Faults

Spec == Init /\ [][Next]_vars

\* A waiting thread wakes up at its time limit at the latest.  A thread that is
\* free goes back to epoll, which reports every socket that is readable in turn:
\* a socket that is ready again and again gets its turn, also when its process
\* keeps connecting in between.
Fairness ==
  /\ \A c \in Conns : WF_vars(Respond(c)) /\ SF_vars(Serve(c)) /\ SF_vars(HupServer(c))
  /\ \A w \in Wants : SF_vars(ConnectServer(w[1], w[2]))

FairSpec == Spec /\ Fairness

-----------------------------------------------------------------------------
(* Properties.                                                             *)

MsgType == [t : {"VERSION_REQ", "VERSION_RES", "CONINIT_REQ", "CONINIT_RES", "DATA"},
            n : 0 .. 2]
ConnType ==
  [from : Procs \cup {"nobody"}, to : Procs \cup {"nobody"},
   cli : {"closed", "version", "coninit", "server"},
   srv : {"closed", "backlog", "accepting", "slave"},
   watch : {"no", "once", "epoll"}, c2s : Seq(MsgType), s2c : Seq(MsgType)]

\* The types of the variables.
TypeOK ==
  /\ run \in [Procs -> {"up", "left", "down"}]
  /\ comproto \in [Procs -> {Uninit, V1, V2}]
  /\ allow \in [Procs -> SUBSET Procs]
  /\ conn \in [Conns -> ConnType]
  /\ socks \in [Procs -> SUBSET Conns]
  /\ slaves \in [Procs -> SUBSET Procs]
  /\ faults \in 0 .. MaxFault

\* A process that has a server in seversockmap (the end of RawConnectServer) is in
\* that server's slavesockmap, unless the server has closed the socket since: an
\* answer never belongs to a connection the server still has in acceptingmap.
Agreed ==
  \A c \in Conns : conn[c].cli = "server" => conn[c].srv \in {"slave", "closed"}

\* The slave list in shared memory (SetSlaveAll, RemoveSlaveSock) holds the sockets
\* in slavesockmap and no others, whichever way they were closed, and every
\* process that has one of them.
SlavesExact ==
  \A q \in Procs :
    /\ socks[q] = {c \in Conns : conn[c].to = q /\ conn[c].srv = "slave"}
    /\ \A c \in socks[q] : conn[c].from \in slaves[q]

\* A process in the slave list has a socket there: the entry goes with its last
\* socket (chminfo_lap::RemoveSlaveSock).
SlaveHasSock ==
  \A q \in Procs : \A p \in slaves[q] : \E c \in socks[q] : conn[c].from = p

\* Every socket a process has accepted is in epoll or being read: nothing else
\* would notice packets on it or its end.
AllWatched ==
  \A c \in Conns : conn[c].srv \in {"accepting", "slave"} => conn[c].watch # "no"

\* comproto_ver is set once: packets on all sockets of a process have one version.
VersionStable ==
  [][\A p \in Procs : comproto[p] # Uninit /\ run'[p] # "down" => comproto'[p] = comproto[p]]_vars

\* comproto_ver is the "communication protocol version available for RING": a
\* process connected to one that uses the old protocol uses it as well.
VersionAvailable ==
  \A c \in Conns :
    conn[c].cli = "server" /\ conn[c].srv = "slave" /\ comproto[conn[c].to] = V1
      => comproto[conn[c].from] = V1

\* A server that has closed its sockets after a failed join (Processing, JOIN_RING)
\* has none left that others could reach it by.
LeftIsClosed ==
  \A c \in Conns : \A p \in Procs :
    run[p] = "left" /\ conn[c].to = p => conn[c].srv = "closed"

\* RawConnectServer returns, also when processes wait for each other in a cycle.
CallsEnd == \A c \in Conns : Waiting(conn[c]) ~> ~Waiting(conn[c])

\* A server gets rid of every socket whose other end is closed, whether the
\* process died, closed it or gave up waiting before the server looked at it.  Only
\* a socket that nothing watches any more may stay, that of a refused process.
Stale(k) == k.srv # "closed" /\ k.cli = "closed" /\ (k.srv = "backlog" \/ k.watch # "no")
StaleClosed == \A c \in Conns : Stale(conn[c]) ~> ~Stale(conn[c])

=============================================================================
