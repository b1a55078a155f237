-------------------------- MODULE ChmConnectProofs --------------------------
(***************************************************************************)
(* Proofs about ChmConnect, for any processes, numbers of connections and  *)
(* faults: the two ends of a connection agree, the slave list holds the    *)
(* slaves' sockets and no others, and the version of a process that has    *)
(* one thread never changes.                                               *)
(*                                                                         *)
(* The handshake is half-duplex: what is unread on a connection tells how  *)
(* far each end is.                                                        *)
(***************************************************************************)
EXTENDS ChmConnect, TLAPS, FiniteSetTheorems, SequenceTheorems

-----------------------------------------------------------------------------
(* The inductive invariant, one connection at a time.                      *)

Requests  == {VersionReq, ConinitReq(V1), ConinitReq(V2)}
Versions  == {VersionRes(V1), VersionRes(V2)}
Results   == {ConinitRes(0), ConinitRes(1)}
One(S)    == {<<m>> : m \in S}

\* What the end of the process that connects knows of the other end.
AsksForVersion(k) ==
  /\ k.srv # "slave"
  /\ \/ k.s2c = << >> /\ (k.srv = "closed" \/ k.c2s = <<VersionReq>>)
     \/ k.s2c \in One(Versions) /\ k.c2s = << >>

AsksForConnection(k) ==
  \/ k.s2c = << >> /\ k.srv = "closed"
  \/ k.s2c = << >> /\ k.srv \in {"backlog", "accepting"} /\ k.c2s \in One({ConinitReq(V1), ConinitReq(V2)})
  \/ k.s2c \in One(Results) /\ k.c2s = << >> /\ k.srv \in {"slave", "closed"}

Connected(k) == k.s2c = << >> /\ k.srv \in {"slave", "closed"}

Shape(k) ==
  /\ k.cli = "closed" => k.s2c = << >>
  /\ k.srv = "closed" => k.c2s = << >>
  /\ k.cli = "version" => AsksForVersion(k)
  /\ k.cli = "coninit" => AsksForConnection(k)
  /\ k.cli = "server" => Connected(k)

\* Connections that exist are between processes.
Ends(k) == k # NoConn => k.from \in Procs /\ k.to \in Procs

Sound(k) == k \in ConnType /\ Shape(k) /\ Ends(k)

ConnInv == conn \in [Conns -> ConnType] /\ \A c \in Conns : Sound(conn[c])

\* A step from k to n that leaves the slave's socket alone and starts no connect.
Quiet(k, n) ==
  /\ n.srv = "slave" <=> k.srv = "slave"
  /\ n.srv = "slave" => n.from = k.from /\ n.to = k.to
  /\ Waiting(n) => Waiting(k) /\ n.from = k.from
  /\ n.cli = "version" => k.cli = "version"

\* Sequences of one packet.
LEMMA OnePacket ==
  /\ \A m : Append(<< >>, m) = <<m>> /\ Tail(<<m>>) = << >> /\ Head(<<m>>) = m /\ <<m>> # << >>
  /\ \A m \in MsgType : <<m>> \in Seq(MsgType)
  /\ << >> \in Seq(MsgType)
OBVIOUS

LEMMA PacketTypes ==
  /\ Requests \cup Versions \cup Results \cup {Data} \subseteq MsgType
  /\ \A m \in Requests \cup Versions \cup Results \cup {Data} : m.t = "VERSION_REQ" <=> m = VersionReq
  /\ \A m \in Requests \cup Versions \cup Results \cup {Data} :
       m.t = "CONINIT_REQ" <=> m \in {ConinitReq(V1), ConinitReq(V2)}
  /\ \A m \in Versions : m.n \in {V1, V2}
BY DEF Requests, Versions, Results, Data, VersionReq, VersionRes, ConinitReq, ConinitRes, Msg,
       MsgType, V1, V2

LEMMA NoConnSound == Sound(NoConn)
BY OnePacket DEF Sound, NoConn, ConnType, Shape, Ends

\* The ends closed.
LEMMA CloseCliSound ==
  ASSUME NEW k, Sound(k)
  PROVE  /\ Quiet(k, CloseCli(k)) /\ CloseCli(k).cli = "closed" /\ CloseCli(k).srv = k.srv
         /\ CloseCli(k) \in ConnType /\ Shape(CloseCli(k))
         /\ CloseCli(k).from = k.from /\ CloseCli(k).to = k.to
<1>1. k \in ConnType /\ Shape(k)
  BY DEF Sound
<1>2. PICK n : n = CloseCli(k)
  OBVIOUS
<1>3. /\ n \in ConnType /\ n.cli = "closed" /\ n.s2c = << >> /\ n.srv = k.srv /\ n.c2s = k.c2s
      /\ n.from = k.from /\ n.to = k.to
  BY <1>1, <1>2, OnePacket DEF CloseCli, ConnType
<1>4. Shape(n) /\ Quiet(k, n)
  BY <1>1, <1>3 DEF Shape, Quiet, Waiting
<1> QED BY <1>2, <1>3, <1>4

LEMMA CloseSrvSound ==
  ASSUME NEW k, k \in ConnType, Shape(k)
  PROVE  /\ CloseSrv(k).srv = "closed" /\ CloseSrv(k).cli = k.cli
         /\ CloseSrv(k) \in ConnType /\ Shape(CloseSrv(k))
         /\ CloseSrv(k).from = k.from /\ CloseSrv(k).to = k.to
         /\ k.srv # "slave" => Quiet(k, CloseSrv(k))
<1>1. PICK n : n = CloseSrv(k)
  OBVIOUS
<1>2. /\ n \in ConnType /\ n.srv = "closed" /\ n.c2s = << >> /\ n.cli = k.cli /\ n.s2c = k.s2c
      /\ n.from = k.from /\ n.to = k.to
  BY <1>1, OnePacket DEF CloseSrv, ConnType
<1>3. Shape(n)
  BY <1>2 DEF Shape, AsksForVersion, AsksForConnection, Connected
<1>4. k.srv # "slave" => Quiet(k, n)
  BY <1>2 DEF Quiet, Waiting
<1> QED BY <1>1, <1>2, <1>3, <1>4

\* A connection without ends is gone.
LEMMA NormSound ==
  ASSUME NEW n, n \in ConnType, Shape(n), n.from \in Procs, n.to \in Procs
  PROVE  /\ Sound(Norm(n))
         /\ Norm(n).srv = n.srv /\ Norm(n).cli = n.cli
         /\ Norm(n).srv = "slave" \/ Waiting(n) => Norm(n) = n
         /\ \A k : Quiet(k, n) => Quiet(k, Norm(n))
<1>1. CASE n.cli = "closed" /\ n.srv = "closed"
  <2>1. Norm(n) = NoConn /\ NoConn.cli = "closed" /\ NoConn.srv = "closed"
    BY <1>1 DEF Norm, NoConn
  <2> QED BY <1>1, <2>1, NoConnSound DEF Quiet, Waiting
<1>2. CASE ~(n.cli = "closed" /\ n.srv = "closed")
  BY <1>2 DEF Norm, Sound, Ends
<1> QED BY <1>1, <1>2

\* Only NoConn is closed at both ends when somebody normalises it; what is not closed
\* has ends.
LEMMA EndsOf == ASSUME NEW k, Sound(k), k.cli # "closed" \/ k.srv # "closed"
                PROVE  k.from \in Procs /\ k.to \in Procs
BY DEF Sound, Ends, NoConn

-----------------------------------------------------------------------------
(* One step changes a connection soundly.                                  *)

\* A write gets to the other end, or is lost.
LEMMA ToServerIs ==
  ASSUME NEW k \in ConnType, NEW m \in MsgType, NEW n \in ToServer(k, m)
  PROVE  \/ /\ k.srv # "closed" /\ n = [k EXCEPT !.c2s = Append(k.c2s, m)]
            /\ n \in ConnType /\ n.c2s = Append(k.c2s, m) /\ n.s2c = k.s2c /\ n.cli = k.cli
            /\ n.srv = k.srv /\ n.from = k.from /\ n.to = k.to
         \/ k.srv = "closed" /\ n \in {k, CloseCli(k)}
<1>1. CASE k.srv # "closed"
  <2>1. n = [k EXCEPT !.c2s = Append(k.c2s, m)]
    BY <1>1 DEF ToServer
  <2>2. Append(k.c2s, m) \in Seq(MsgType)
    BY DEF ConnType
  <2> QED BY <1>1, <2>1, <2>2 DEF ConnType
<1> QED BY <1>1 DEF ToServer

LEMMA ToClientIs ==
  ASSUME NEW k \in ConnType, NEW m \in MsgType, NEW n \in ToClient(k, m)
  PROVE  \/ /\ k.cli # "closed" /\ n = [k EXCEPT !.s2c = Append(k.s2c, m)]
            /\ n \in ConnType /\ n.s2c = Append(k.s2c, m) /\ n.c2s = k.c2s /\ n.cli = k.cli
            /\ n.srv = k.srv /\ n.from = k.from /\ n.to = k.to
         \/ k.cli = "closed" /\ n \in {k, CloseSrv(k)}
<1>1. CASE k.cli # "closed"
  <2>1. n = [k EXCEPT !.s2c = Append(k.s2c, m)]
    BY <1>1 DEF ToClient
  <2>2. Append(k.s2c, m) \in Seq(MsgType)
    BY DEF ConnType
  <2> QED BY <1>1, <2>1, <2>2 DEF ConnType
<1> QED BY <1>1 DEF ToClient

\* Connection c, and no other, changes soundly and quietly.
OneConn(c) == \E n : Sound(n) /\ Quiet(conn[c], n) /\ conn' = [conn EXCEPT ![c] = n]

LEMMA OneConnStep ==
  ASSUME ConnInv, NEW c \in Conns, OneConn(c)
  PROVE  ConnInv' /\ \A d \in Conns : Quiet(conn[d], conn'[d])
<1>1. PICK n : Sound(n) /\ Quiet(conn[c], n) /\ conn' = [conn EXCEPT ![c] = n]
  BY DEF OneConn
<1>2. \A d \in Conns : conn'[d] = IF d = c THEN n ELSE conn[d]
  BY <1>1 DEF ConnInv
<1>3. \A d \in Conns : Quiet(conn[d], conn[d])
  BY DEF Quiet
<1>4. n \in ConnType
  BY <1>1 DEF Sound
<1>5. conn' \in [Conns -> ConnType]
  BY <1>1, <1>4 DEF ConnInv
<1>6. \A d \in Conns : Sound(conn'[d])
  BY <1>1, <1>2 DEF ConnInv
<1> QED BY <1>1, <1>2, <1>3, <1>5, <1>6 DEF ConnInv

\* A changed connection, normalised.
LEMMA NormStep ==
  ASSUME ConnInv, NEW c \in Conns, NEW n, n \in ConnType, Shape(n), Quiet(conn[c], n),
         n.from \in Procs, n.to \in Procs, conn' = [conn EXCEPT ![c] = Norm(n)]
  PROVE  OneConn(c)
<1>1. Sound(Norm(n)) /\ Quiet(conn[c], Norm(n))
  BY NormSound
<1> QED BY <1>1 DEF OneConn

\* A changed connection that has an open end.
LEMMA OpenStep ==
  ASSUME ConnInv, NEW c \in Conns, NEW n, n \in ConnType, Shape(n), Quiet(conn[c], n),
         n.from \in Procs, n.to \in Procs, conn' = [conn EXCEPT ![c] = n]
  PROVE  OneConn(c)
<1>1. Sound(n)
  BY DEF Sound, Ends
<1> QED BY <1>1 DEF OneConn

-----------------------------------------------------------------------------
(* The actions of the process that connects.                               *)

LEMMA ConinitReqs == \A ver : ConinitReq(IF IsCurrentVersion(ver) THEN V2 ELSE V1) \in {ConinitReq(V1), ConinitReq(V2)}
OBVIOUS

LEMMA VersionRequested ==
  ASSUME ConnInv, NEW p \in Procs, NEW c \in Conns, ReceiveVersionRes(p, c)
  PROVE  /\ OneConn(c) /\ conn[c].cli = "version" /\ conn[c].from = p
         /\ comproto' = [comproto EXCEPT ![p] = AgreedVersion(Head(conn[c].s2c).n)]
         /\ AgreedVersion(Head(conn[c].s2c).n) \in {V1, V2}
<1>1. PICK k : k = conn[c]
  OBVIOUS
<1>2. PICK ver : ver = AgreedVersion(Head(k.s2c).n)
  OBVIOUS
<1>3. PICK k2 : k2 = [k EXCEPT !.s2c = Tail(k.s2c), !.cli = "coninit"]
  OBVIOUS
<1>4. PICK n \in SendConinitReq(k2, ver) : conn' = [conn EXCEPT ![c] = Norm(n)]
  BY <1>1, <1>2, <1>3 DEF ReceiveVersionRes
<1>5. k.cli = "version" /\ k.from = p /\ k.s2c # << >> /\ comproto' = [comproto EXCEPT ![p] = ver]
  BY <1>1, <1>2 DEF ReceiveVersionRes
<1>6. k \in ConnType /\ Shape(k) /\ k.from \in Procs /\ k.to \in Procs
  BY <1>1, <1>5, EndsOf DEF ConnInv, Sound
<1>7. k.s2c \in One(Versions) /\ k.c2s = << >> /\ k.srv # "slave"
  BY <1>5, <1>6 DEF Shape, AsksForVersion
<1>8. PICK v \in Versions : k.s2c = <<v>>
  BY <1>7 DEF One
<1>9. Tail(k.s2c) = << >> /\ Head(k.s2c) = v /\ v.n \in {V1, V2}
  BY <1>8, OnePacket, PacketTypes
<1>10. ver \in {V1, V2}
  BY <1>2, <1>9 DEF AgreedVersion, V1, V2
<1>11. /\ k2 \in ConnType /\ k2.s2c = << >> /\ k2.cli = "coninit" /\ k2.srv = k.srv /\ k2.c2s = << >>
       /\ k2.from = k.from /\ k2.to = k.to
  BY <1>3, <1>6, <1>7, <1>9, OnePacket DEF ConnType
<1>12. PICK m \in {ConinitReq(V1), ConinitReq(V2)} : n \in ToServer(k2, m)
  BY <1>4, ConinitReqs DEF SendConinitReq
<1>13. m \in MsgType
  BY <1>12, PacketTypes DEF Requests
<1>14. CASE k2.srv # "closed"
  <2>1. /\ n \in ConnType /\ n.c2s = Append(k2.c2s, m) /\ n.s2c = k2.s2c /\ n.cli = k2.cli
        /\ n.srv = k2.srv /\ n.from = k2.from /\ n.to = k2.to
    BY <1>11, <1>12, <1>13, <1>14, ToServerIs
  <2>2. n.c2s = <<m>> /\ n.srv \in {"backlog", "accepting"}
    BY <2>1, <1>7, <1>11, <1>14, OnePacket DEF ConnType
  <2>3. Shape(n)
    BY <2>1, <2>2, <1>11, <1>12, <1>14 DEF Shape, AsksForConnection, One
  <2>4. Quiet(k, n)
    BY <2>1, <2>2, <1>5, <1>7, <1>11 DEF Quiet, Waiting
  <2>5. OneConn(c)
    BY <2>1, <2>3, <2>4, <1>1, <1>4, <1>6, <1>11, NormStep
  <2> QED BY <2>5, <1>1, <1>2, <1>5, <1>10
<1>15. CASE k2.srv = "closed"
  <2>1. Shape(k2)
    BY <1>11, <1>15 DEF Shape, AsksForConnection
  <2>2. Quiet(k, k2)
    BY <1>5, <1>7, <1>11 DEF Quiet, Waiting
  <2>3. Sound(k2)
    BY <2>1, <1>6, <1>11 DEF Sound, Ends
  <2>4. n = k2 \/ n = CloseCli(k2)
    BY <1>11, <1>12, <1>13, <1>15, ToServerIs
  <2>5. CASE n = k2
    <3>1. OneConn(c)
      BY <2>1, <2>2, <2>5, <1>1, <1>4, <1>6, <1>11, NormStep
    <3> QED BY <3>1, <1>1, <1>2, <1>5, <1>10
  <2>6. CASE n = CloseCli(k2)
    <3>1. n \in ConnType /\ Shape(n) /\ n.from = k2.from /\ n.to = k2.to /\ Quiet(k2, n)
      BY <2>3, <2>6, CloseCliSound
    <3>2. Quiet(k, n)
      BY <3>1, <2>2 DEF Quiet
    <3>3. OneConn(c)
      BY <3>1, <3>2, <1>1, <1>4, <1>6, <1>11, NormStep
    <3> QED BY <3>3, <1>1, <1>2, <1>5, <1>10
  <2> QED BY <2>4, <2>5, <2>6
<1> QED BY <1>14, <1>15

LEMMA ConnectionAnswered ==
  ASSUME ConnInv, NEW p \in Procs, NEW c \in Conns, ReceiveConinitRes(p, c)
  PROVE  OneConn(c)
<1>1. PICK k : k = conn[c]
  OBVIOUS
<1>2. k.cli = "coninit" /\ k.s2c # << >> /\ k.from = p
  BY <1>1 DEF ReceiveConinitRes
<1>3. k \in ConnType /\ Shape(k) /\ Sound(k) /\ k.from \in Procs /\ k.to \in Procs
  BY <1>1, <1>2, EndsOf DEF ConnInv, Sound
<1>4. k.s2c \in One(Results) /\ k.c2s = << >> /\ k.srv \in {"slave", "closed"}
  BY <1>2, <1>3 DEF Shape, AsksForConnection
<1>5. Tail(k.s2c) = << >>
  BY <1>4, OnePacket DEF One
<1>6. \/ conn' = [conn EXCEPT ![c] = [k EXCEPT !.cli = "server", !.s2c = Tail(k.s2c)]]
      \/ conn' = [conn EXCEPT ![c] = Norm(CloseCli(k))]
  BY <1>1 DEF ReceiveConinitRes
<1>7. CASE conn' = [conn EXCEPT ![c] = [k EXCEPT !.cli = "server", !.s2c = Tail(k.s2c)]]
  <2>1. PICK n : n = [k EXCEPT !.cli = "server", !.s2c = Tail(k.s2c)]
    OBVIOUS
  <2>2. /\ n \in ConnType /\ n.cli = "server" /\ n.s2c = << >> /\ n.srv = k.srv /\ n.c2s = k.c2s
        /\ n.from = k.from /\ n.to = k.to
    BY <2>1, <1>3, <1>5, OnePacket DEF ConnType
  <2>3. Shape(n) /\ Quiet(k, n)
    BY <2>2, <1>3, <1>4 DEF Shape, Connected, Quiet, Waiting
  <2> QED BY <2>1, <2>2, <2>3, <1>1, <1>3, <1>7, OpenStep
<1>8. CASE conn' = [conn EXCEPT ![c] = Norm(CloseCli(k))]
  <2>1. PICK n : n = CloseCli(k)
    OBVIOUS
  <2>2. n \in ConnType /\ Shape(n) /\ n.from = k.from /\ n.to = k.to /\ Quiet(k, n)
    BY <2>1, <1>3, CloseCliSound
  <2> QED BY <2>1, <2>2, <1>1, <1>3, <1>8, NormStep
<1> QED BY <1>6, <1>7, <1>8

LEMMA ConnectEnds ==
  ASSUME ConnInv, NEW p \in Procs, NEW c \in Conns, AnswerClosed(p, c) \/ TimedOut(p, c)
  PROVE  OneConn(c)
<1>1. PICK k : k = conn[c]
  OBVIOUS
<1>2. Waiting(k)
  BY <1>1 DEF AnswerClosed, TimedOut
<1>3. k \in ConnType /\ Shape(k) /\ Sound(k) /\ k.from \in Procs /\ k.to \in Procs
  BY <1>1, <1>2, EndsOf DEF ConnInv, Sound, Waiting
<1>4. CASE AnswerClosed(p, c)
  <2>1. k.srv = "closed" /\ conn' = [conn EXCEPT ![c] = NoConn]
    BY <1>1, <1>4 DEF AnswerClosed
  <2>2. Quiet(k, NoConn)
    BY <2>1 DEF Quiet, NoConn, Waiting
  <2> QED BY <2>1, <2>2, <1>1, NoConnSound DEF OneConn
<1>5. CASE TimedOut(p, c)
  <2>1. PICK n : n = CloseCli(k)
    OBVIOUS
  <2>2. n \in ConnType /\ Shape(n) /\ n.from = k.from /\ n.to = k.to /\ Quiet(k, n)
    BY <2>1, <1>3, CloseCliSound
  <2>3. conn' = [conn EXCEPT ![c] = n]
    BY <1>1, <1>5, <2>1 DEF TimedOut
  <2> QED BY <2>2, <2>3, <1>1, <1>3, OpenStep
<1> QED BY <1>4, <1>5

LEMMA DataSent ==
  ASSUME ConnInv, NEW p \in Procs, NEW c \in Conns, SendData(p, c)
  PROVE  OneConn(c)
<1>1. PICK k : k = conn[c]
  OBVIOUS
<1>2. k.cli = "server"
  BY <1>1 DEF SendData
<1>3. k \in ConnType /\ Shape(k) /\ Sound(k) /\ k.from \in Procs /\ k.to \in Procs
  BY <1>1, <1>2, EndsOf DEF ConnInv, Sound
<1>4. PICK n \in ToServer(k, Data) : conn' = [conn EXCEPT ![c] = Norm(n)]
  BY <1>1 DEF SendData
<1>5. Data \in MsgType
  BY PacketTypes
<1>6. CASE k.srv # "closed"
  <2>1. /\ n \in ConnType /\ n.s2c = k.s2c /\ n.cli = k.cli
        /\ n.srv = k.srv /\ n.from = k.from /\ n.to = k.to
    BY <1>3, <1>4, <1>5, <1>6, ToServerIs
  <2>2. Shape(n) /\ Quiet(k, n)
    BY <2>1, <1>2, <1>3, <1>6 DEF Shape, Connected, Quiet, Waiting
  <2> QED BY <2>1, <2>2, <1>1, <1>3, <1>4, NormStep
<1>7. CASE k.srv = "closed"
  <2>1. n = k \/ n = CloseCli(k)
    BY <1>3, <1>4, <1>5, <1>7, ToServerIs
  <2>2. Quiet(k, k)
    BY DEF Quiet
  <2>3. n \in ConnType /\ Shape(n) /\ n.from = k.from /\ n.to = k.to /\ Quiet(k, n)
    BY <2>1, <2>2, <1>3, CloseCliSound
  <2> QED BY <2>3, <1>1, <1>3, <1>4, NormStep
<1> QED BY <1>6, <1>7

LEMMA ServerHup ==
  ASSUME ConnInv, NEW p \in Procs, NEW c \in Conns, ServerSockNotifyHup(p, c)
  PROVE  OneConn(c) /\ UNCHANGED <<socks, slaves>>
<1>1. PICK k : k = conn[c]
  OBVIOUS
<1>2. k.cli = "server"
  BY <1>1 DEF ServerSockNotifyHup
<1>3. k \in ConnType /\ Shape(k) /\ Sound(k) /\ k.from \in Procs /\ k.to \in Procs
  BY <1>1, <1>2, EndsOf DEF ConnInv, Sound
<1>4. PICK n : n = CloseCli(k)
  OBVIOUS
<1>5. n \in ConnType /\ Shape(n) /\ n.from = k.from /\ n.to = k.to /\ Quiet(k, n)
  BY <1>4, <1>3, CloseCliSound
<1>6. conn' = [conn EXCEPT ![c] = Norm(n)] /\ UNCHANGED <<socks, slaves>>
  BY <1>1, <1>4 DEF ServerSockNotifyHup, ServerSockMapCallback
<1>7. OneConn(c)
  BY <1>5, <1>6, <1>1, <1>3, NormStep
<1> QED BY <1>6, <1>7

LEMMA ConnectStarts ==
  ASSUME ConnInv, NEW p \in Procs, NEW q \in Procs, NEW c \in Conns, RawConnectServer(p, q, c)
  PROVE  \E n : /\ Sound(n) /\ n.srv # "slave" /\ n.from = p
                /\ n.cli = "version" => AsksVersion(p)
                /\ conn[c].srv # "slave" /\ conn' = [conn EXCEPT ![c] = n]
<1>1. PICK k : k = [NoConn EXCEPT !.from = p, !.to = q, !.srv = "backlog",
                                  !.cli = IF AsksVersion(p) THEN "version" ELSE "coninit"]
  OBVIOUS
<1>2. /\ k.from = p /\ k.to = q /\ k.srv = "backlog" /\ k.c2s = << >> /\ k.s2c = << >>
      /\ k.cli = IF AsksVersion(p) THEN "version" ELSE "coninit"
      /\ k \in ConnType
  BY <1>1, OnePacket DEF NoConn, ConnType
<1>3. PICK n \in (IF AsksVersion(p) THEN ToServer(k, VersionReq) ELSE SendConinitReq(k, ConnectVersion(p))) :
        conn' = [conn EXCEPT ![c] = n]
  BY <1>1 DEF RawConnectServer
<1>4. conn[c].srv # "slave"
  BY DEF RawConnectServer, NoConn
<1>5. CASE AsksVersion(p)
  <2>1. VersionReq \in MsgType
    BY PacketTypes DEF Requests
  <2>2. /\ n \in ConnType /\ n.c2s = Append(k.c2s, VersionReq) /\ n.s2c = k.s2c /\ n.cli = k.cli
        /\ n.srv = k.srv /\ n.from = k.from /\ n.to = k.to
    BY <2>1, <1>2, <1>3, <1>5, ToServerIs
  <2>3. n.c2s = <<VersionReq>> /\ n.cli = "version"
    BY <2>2, <1>2, <1>5, OnePacket
  <2>4. Sound(n)
    BY <2>2, <2>3, <1>2 DEF Sound, Shape, AsksForVersion, Ends
  <2> QED BY <2>2, <2>4, <1>2, <1>3, <1>4, <1>5
<1>6. CASE ~AsksVersion(p)
  <2>1. PICK m \in {ConinitReq(V1), ConinitReq(V2)} : n \in ToServer(k, m)
    BY <1>3, <1>6, ConinitReqs DEF SendConinitReq
  <2>2. m \in MsgType
    BY PacketTypes DEF Requests
  <2>3. /\ n \in ConnType /\ n.c2s = Append(k.c2s, m) /\ n.s2c = k.s2c /\ n.cli = k.cli
        /\ n.srv = k.srv /\ n.from = k.from /\ n.to = k.to
    BY <2>1, <2>2, <1>2, ToServerIs
  <2>4. n.c2s = <<m>> /\ n.cli = "coninit"
    BY <2>3, <1>2, <1>6, OnePacket
  <2>5. Sound(n)
    BY <2>1, <2>3, <2>4, <1>2 DEF Sound, Shape, AsksForConnection, Ends, One
  <2> QED BY <2>3, <2>4, <2>5, <1>2, <1>3, <1>4
<1> QED BY <1>5, <1>6

-----------------------------------------------------------------------------
(* The actions of the server.                                              *)

LEMMA Accepted ==
  ASSUME ConnInv, NEW q \in Procs, NEW c \in Conns, Accept(q, c) \/ ReceiveEnds(q, c)
  PROVE  OneConn(c)
<1>1. PICK k : k = conn[c]
  OBVIOUS
<1>2. k \in ConnType /\ Shape(k) /\ Sound(k)
  BY <1>1 DEF ConnInv, Sound
<1>3. k.to = q
  BY <1>1 DEF Accept, ReceiveEnds
<1>4. k.from \in Procs /\ k.to \in Procs
  BY <1>2, <1>3, ConnectAssumption DEF Sound, Ends, NoConn
<1>5. CASE Accept(q, c)
  <2>1. PICK w \in {"no", "once", "epoll"} : w = IF IsAllowHost(q, k.from) THEN "epoll" ELSE "once"
    OBVIOUS
  <2>2. PICK n : n = [k EXCEPT !.srv = "accepting", !.watch = w]
    OBVIOUS
  <2>3. k.srv = "backlog" /\ conn' = [conn EXCEPT ![c].srv = "accepting", ![c].watch = w]
    BY <1>1, <1>5, <2>1 DEF Accept
  <2>4. conn' = [conn EXCEPT ![c] = n]
    BY <2>2, <2>3, <1>1 DEF ConnInv
  <2>5. /\ n \in ConnType /\ n.srv = "accepting" /\ n.cli = k.cli /\ n.c2s = k.c2s /\ n.s2c = k.s2c
        /\ n.from = k.from /\ n.to = k.to
    BY <2>2, <1>2 DEF ConnType
  <2>6. Shape(n) /\ Quiet(k, n)
    BY <2>3, <2>5, <1>2 DEF Shape, AsksForVersion, AsksForConnection, Connected, Quiet, Waiting
  <2> QED BY <2>4, <2>5, <2>6, <1>1, <1>4, OpenStep
<1>6. CASE ReceiveEnds(q, c)
  <2>1. PICK n : n = [k EXCEPT !.watch = "no"]
    OBVIOUS
  <2>2. conn' = [conn EXCEPT ![c] = n]
    BY <2>1, <1>1, <1>6 DEF ReceiveEnds, ConnInv
  <2>3. /\ n \in ConnType /\ n.srv = k.srv /\ n.cli = k.cli /\ n.c2s = k.c2s /\ n.s2c = k.s2c
        /\ n.from = k.from /\ n.to = k.to
    BY <2>1, <1>2 DEF ConnType
  <2>4. Shape(n) /\ Quiet(k, n)
    BY <2>3, <1>2 DEF Shape, AsksForVersion, AsksForConnection, Connected, Quiet, Waiting
  <2> QED BY <2>2, <2>3, <2>4, <1>1, <1>4, OpenStep
<1> QED BY <1>5, <1>6

LEMMA VersionAnswered ==
  ASSUME ConnInv, NEW q \in Procs, NEW c \in Conns, ReceiveVersionReq(q, c)
  PROVE  OneConn(c)
<1>1. PICK k : k = conn[c]
  OBVIOUS
<1>2. k.srv = "accepting" /\ k.c2s # << >> /\ Head(k.c2s).t = "VERSION_REQ"
  BY <1>1 DEF ReceiveVersionReq
<1>3. k \in ConnType /\ Shape(k) /\ Sound(k) /\ k.from \in Procs /\ k.to \in Procs
  BY <1>1, <1>2, EndsOf DEF ConnInv, Sound
<1>4. PICK m \in Versions : m = VersionRes(IF IsCurrentVersion(comproto[q]) THEN V2 ELSE V1)
  BY DEF Versions
<1>5. PICK k2 : k2 = [k EXCEPT !.c2s = Tail(k.c2s)]
  OBVIOUS
<1>6. PICK n \in ToClient(k2, m) : conn' = [conn EXCEPT ![c] = Norm(n)]
  BY <1>1, <1>4, <1>5 DEF ReceiveVersionReq
<1>7. m \in MsgType
  BY PacketTypes
<1>8. Tail(k.c2s) \in Seq(MsgType)
  BY <1>2, <1>3 DEF ConnType
<1>9. /\ k2 \in ConnType /\ k2.srv = k.srv /\ k2.cli = k.cli /\ k2.c2s = Tail(k.c2s)
      /\ k2.s2c = k.s2c /\ k2.from = k.from /\ k2.to = k.to
  BY <1>3, <1>5, <1>8 DEF ConnType
<1>10. k.cli \in {"closed", "version"}
  <2>1. k.cli # "server"
    BY <1>2, <1>3 DEF Shape, Connected
  <2>2. ASSUME k.cli = "coninit"
        PROVE  FALSE
    <3>1. k.c2s \in One({ConinitReq(V1), ConinitReq(V2)})
      BY <2>2, <1>2, <1>3 DEF Shape, AsksForConnection
    <3>2. Head(k.c2s) \in {ConinitReq(V1), ConinitReq(V2)}
      BY <3>1, OnePacket DEF One
    <3> QED BY <3>2, <1>2 DEF ConinitReq, Msg
  <2> QED BY <2>1, <2>2, <1>3 DEF ConnType
<1>11. CASE k.cli = "version"
  <2>1. k.s2c = << >> /\ k.c2s = <<VersionReq>>
    BY <1>2, <1>3, <1>11 DEF Shape, AsksForVersion
  <2>2. k2.c2s = << >> /\ k2.s2c = << >>
    BY <2>1, <1>9, OnePacket
  <2>3. /\ n \in ConnType /\ n.s2c = Append(k2.s2c, m) /\ n.c2s = k2.c2s /\ n.cli = k2.cli
        /\ n.srv = k2.srv /\ n.from = k2.from /\ n.to = k2.to
    BY <1>6, <1>7, <1>9, <1>11, ToClientIs
  <2>4. n.s2c = <<m>>
    BY <2>2, <2>3, OnePacket
  <2>5. Shape(n) /\ Quiet(k, n)
    BY <2>2, <2>3, <2>4, <1>2, <1>4, <1>9, <1>11
    DEF Shape, AsksForVersion, One, Quiet, Waiting
  <2> QED BY <2>3, <2>5, <1>1, <1>3, <1>6, <1>9, NormStep
<1>12. CASE k.cli = "closed"
  <2>1. n = k2 \/ n = CloseSrv(k2)
    BY <1>6, <1>7, <1>9, <1>12, ToClientIs
  <2>2. Shape(k2) /\ Quiet(k, k2)
    BY <1>2, <1>3, <1>9, <1>12 DEF Shape, Quiet, Waiting
  <2>3. CASE n = k2
    BY <2>2, <2>3, <1>1, <1>3, <1>6, <1>9, NormStep
  <2>4. CASE n = CloseSrv(k2)
    <3>1. /\ n \in ConnType /\ Shape(n) /\ n.from = k2.from /\ n.to = k2.to /\ Quiet(k2, n)
      BY <2>2, <2>4, <1>2, <1>9, CloseSrvSound
    <3>2. Quiet(k, n)
      BY <3>1, <2>2 DEF Quiet
    <3> QED BY <3>1, <3>2, <1>1, <1>3, <1>6, <1>9, NormStep
  <2> QED BY <2>1, <2>3, <2>4
<1> QED BY <1>10, <1>11, <1>12

\* What CONINIT_REQ in acceptingmap says of the connection.
LEMMA ConinitRequested ==
  ASSUME ConnInv, NEW q \in Procs, NEW c \in Conns, IsConinitReq(q, c)
  PROVE  /\ Sound(conn[c]) /\ conn[c] \in ConnType /\ Shape(conn[c])
         /\ conn[c].from \in Procs /\ conn[c].to = q /\ conn[c].srv = "accepting"
         /\ conn[c].cli \in {"closed", "coninit"}
         /\ conn[c].c2s # << >> /\ Tail(conn[c].c2s) \in Seq(MsgType)
         /\ conn[c].cli = "coninit" => conn[c].s2c = << >> /\ Tail(conn[c].c2s) = << >>
<1>1. PICK k : k = conn[c]
  OBVIOUS
<1>2. k.srv = "accepting" /\ k.c2s # << >> /\ Head(k.c2s).t = "CONINIT_REQ" /\ k.to = q
  BY <1>1 DEF IsConinitReq, Reads
<1>3. k \in ConnType /\ Shape(k) /\ Sound(k) /\ k.from \in Procs /\ k.to \in Procs
  BY <1>1, <1>2, EndsOf DEF ConnInv, Sound
<1>4. k.cli # "server"
  BY <1>2, <1>3 DEF Shape, Connected
<1>5. ASSUME k.cli = "version"
      PROVE  FALSE
  <2>1. k.c2s = <<VersionReq>>
    BY <1>2, <1>3, <1>5 DEF Shape, AsksForVersion
  <2> QED BY <2>1, <1>2, OnePacket DEF VersionReq, Msg
<1>6. k.cli \in {"closed", "coninit"}
  BY <1>3, <1>4, <1>5 DEF ConnType
<1>7. k.cli = "coninit" => k.s2c = << >> /\ k.c2s \in One({ConinitReq(V1), ConinitReq(V2)})
  BY <1>2, <1>3 DEF Shape, AsksForConnection
<1>8. k.cli = "coninit" => Tail(k.c2s) = << >>
  BY <1>7, OnePacket DEF One
<1>9. Tail(k.c2s) \in Seq(MsgType)
  BY <1>2, <1>3 DEF ConnType
<1> QED BY <1>1, <1>2, <1>3, <1>6, <1>7, <1>8, <1>9

LEMMA Refused ==
  ASSUME ConnInv, NEW q \in Procs, NEW c \in Conns, IsConinitReq(q, c), Refuse(q, c)
  PROVE  OneConn(c)
<1>1. PICK k : k = conn[c]
  OBVIOUS
<1>2. /\ Sound(k) /\ k \in ConnType /\ Shape(k) /\ k.from \in Procs /\ k.to \in Procs
      /\ k.srv = "accepting" /\ k.cli \in {"closed", "coninit"}
      /\ k.cli = "coninit" => k.s2c = << >>
  BY <1>1, ConinitRequested
<1>3. PICK n \in ToClient(k, ConinitRes(0)) : conn' = [conn EXCEPT ![c] = Norm(CloseSrv(n))]
  BY <1>1 DEF Refuse
<1>4. ConinitRes(0) \in MsgType /\ ConinitRes(0) \in Results
  BY PacketTypes DEF Results
<1>5. PICK x : x = CloseSrv(n)
  OBVIOUS
<1>6. CASE k.cli = "closed"
  <2>1. n = k \/ n = CloseSrv(k)
    BY <1>2, <1>3, <1>4, <1>6, ToClientIs
  <2>2. /\ n \in ConnType /\ Shape(n) /\ n.from = k.from /\ n.to = k.to /\ n.cli = k.cli
        /\ n.srv # "slave"
    BY <2>1, <1>2, CloseSrvSound
  <2>3. /\ x \in ConnType /\ Shape(x) /\ x.from = k.from /\ x.to = k.to /\ x.cli = k.cli
        /\ x.srv = "closed"
    BY <2>2, <1>5, CloseSrvSound
  <2>4. Quiet(k, x)
    BY <2>3, <1>2, <1>6 DEF Quiet, Waiting
  <2> QED BY <2>3, <2>4, <1>1, <1>2, <1>3, <1>5, NormStep
<1>7. CASE k.cli = "coninit"
  <2>1. /\ n \in ConnType /\ n.s2c = Append(k.s2c, ConinitRes(0)) /\ n.cli = "coninit"
        /\ n.from = k.from /\ n.to = k.to
    BY <1>2, <1>3, <1>4, <1>7, ToClientIs
  <2>2. n.s2c = <<ConinitRes(0)>>
    BY <2>1, <1>2, <1>7, OnePacket
  <2>3. /\ x \in ConnType /\ x.srv = "closed" /\ x.c2s = << >> /\ x.s2c = <<ConinitRes(0)>>
        /\ x.cli = "coninit" /\ x.from = k.from /\ x.to = k.to
    BY <2>1, <2>2, <1>5, OnePacket DEF CloseSrv, ConnType
  <2>4. Shape(x) /\ Quiet(k, x)
    BY <2>3, <1>2, <1>4, <1>7 DEF Shape, AsksForConnection, One, Quiet, Waiting
  <2> QED BY <2>3, <2>4, <1>1, <1>2, <1>3, <1>5, NormStep
<1> QED BY <1>2, <1>6, <1>7

LEMMA DataReceived ==
  ASSUME ConnInv, NEW q \in Procs, NEW c \in Conns, ReceiveData(q, c)
  PROVE  OneConn(c)
<1>1. PICK k : k = conn[c]
  OBVIOUS
<1>2. k.srv = "slave" /\ k.c2s # << >>
  BY <1>1 DEF ReceiveData
<1>3. k \in ConnType /\ Shape(k) /\ k.from \in Procs /\ k.to \in Procs
  BY <1>1, <1>2, EndsOf DEF ConnInv, Sound
<1>4. PICK n : n = [k EXCEPT !.c2s = Tail(k.c2s)]
  OBVIOUS
<1>5. conn' = [conn EXCEPT ![c] = n]
  BY <1>1, <1>4 DEF ReceiveData, ConnInv
<1>6. Tail(k.c2s) \in Seq(MsgType)
  BY <1>2, <1>3 DEF ConnType
<1>7. /\ n \in ConnType /\ n.srv = k.srv /\ n.cli = k.cli /\ n.s2c = k.s2c
      /\ n.from = k.from /\ n.to = k.to
  BY <1>3, <1>4, <1>6 DEF ConnType
<1>8. k.cli # "version" /\ (k.cli = "coninit" => k.c2s = << >>)
  BY <1>2, <1>3 DEF Shape, AsksForVersion, AsksForConnection
<1>9. Shape(n) /\ Quiet(k, n)
  BY <1>2, <1>3, <1>7, <1>8 DEF Shape, Connected, Quiet, Waiting
<1> QED BY <1>5, <1>7, <1>9, <1>1, <1>3, OpenStep

LEMMA AcceptedHup ==
  ASSUME ConnInv, NEW q \in Procs, NEW c \in Conns, AcceptingSockNotifyHup(q, c)
  PROVE  OneConn(c) /\ UNCHANGED <<socks, slaves>>
<1>1. PICK k : k = conn[c]
  OBVIOUS
<1>2. k.srv = "accepting"
  BY <1>1 DEF AcceptingSockNotifyHup
<1>3. k \in ConnType /\ Shape(k) /\ k.from \in Procs /\ k.to \in Procs
  BY <1>1, <1>2, EndsOf DEF ConnInv, Sound
<1>4. PICK n : n = CloseSrv(k)
  OBVIOUS
<1>5. n \in ConnType /\ Shape(n) /\ n.from = k.from /\ n.to = k.to /\ Quiet(k, n)
  BY <1>2, <1>3, <1>4, CloseSrvSound
<1>6. conn' = [conn EXCEPT ![c] = Norm(n)] /\ UNCHANGED <<socks, slaves>>
  BY <1>1, <1>4 DEF AcceptingSockNotifyHup, AcceptMapCallback
<1>7. OneConn(c)
  BY <1>5, <1>6, <1>1, <1>3, NormStep
<1> QED BY <1>6, <1>7

\* A step from k to n of which the waiting connects know nothing.
Calm(k, n) ==
  /\ Waiting(n) => Waiting(k) /\ n.from = k.from
  /\ n.cli = "version" => k.cli = "version"

LEMMA SlaveAccepted ==
  ASSUME ConnInv, NEW q \in Procs, NEW c \in Conns, ReceiveConinitReq(q, c)
  PROVE  \E n : /\ Sound(n) /\ Calm(conn[c], n) /\ conn' = [conn EXCEPT ![c] = n]
                /\ conn[c].srv = "accepting" /\ conn[c].to = q /\ conn[c].from \in Procs
                /\ \/ n.srv = "slave" /\ n.to = q /\ n.from = conn[c].from /\ SetSlaveAll(q, c)
                   \/ n.srv # "slave" /\ RemoveSlaveSock(q, c)
<1>1. PICK k : k = conn[c]
  OBVIOUS
<1>2. IsConinitReq(q, c)
  BY DEF ReceiveConinitReq
<1>3. /\ Sound(k) /\ k \in ConnType /\ Shape(k) /\ k.from \in Procs /\ k.to = q
      /\ k.srv = "accepting" /\ k.cli \in {"closed", "coninit"}
      /\ k.c2s # << >> /\ Tail(k.c2s) \in Seq(MsgType)
      /\ k.cli = "coninit" => k.s2c = << >> /\ Tail(k.c2s) = << >>
  BY <1>1, <1>2, ConinitRequested
<1>4. PICK w \in {"no", "once", "epoll"} :
        w = IF k.watch = "once" /\ ThreadCnt = 1 THEN "no" ELSE k.watch
  BY <1>3 DEF ConnType
<1>5. PICK s : s = [k EXCEPT !.srv = "slave", !.c2s = Tail(k.c2s), !.watch = w]
  OBVIOUS
<1>6. \/ /\ \E n \in ToClient(s, ConinitRes(1)) : n.srv = "slave" /\ conn' = [conn EXCEPT ![c] = n]
         /\ SetSlaveAll(q, c)
      \/ k.cli = "closed" /\ SlaveSockMapCallback(q, c)
  BY <1>1, <1>4, <1>5 DEF ReceiveConinitReq
<1>7. CASE /\ \E n \in ToClient(s, ConinitRes(1)) : n.srv = "slave" /\ conn' = [conn EXCEPT ![c] = n]
           /\ SetSlaveAll(q, c)
  <2>1. PICK n \in ToClient(s, ConinitRes(1)) : n.srv = "slave" /\ conn' = [conn EXCEPT ![c] = n]
    BY <1>7
  <2>2. /\ s \in ConnType /\ s.srv = "slave" /\ s.c2s = Tail(k.c2s) /\ s.s2c = k.s2c
        /\ s.cli = k.cli /\ s.from = k.from /\ s.to = k.to
    BY <1>3, <1>5 DEF ConnType
  <2>3. ConinitRes(1) \in MsgType /\ ConinitRes(1) \in Results
    BY PacketTypes DEF Results
  <2>4. CASE k.cli = "closed"
    <3>1. n = s \/ n = CloseSrv(s)
      BY <2>1, <2>2, <2>3, <2>4, ToClientIs
    <3>2. CloseSrv(s).srv = "closed"
      BY <2>2 DEF CloseSrv, ConnType
    <3>3. n = s
      BY <3>1, <3>2, <2>1
    <3>4. Shape(s)
      BY <2>2, <2>4, <1>3 DEF Shape
    <3>5. Sound(n) /\ Calm(k, n)
      BY <3>3, <3>4, <2>2, <2>4, <1>3 DEF Sound, Ends, Calm, Waiting
    <3>6. n.srv = "slave" /\ n.to = q /\ n.from = k.from
      BY <3>3, <2>2, <1>3
    <3> QED BY <3>5, <3>6, <2>1, <1>1, <1>3, <1>7
  <2>5. CASE k.cli = "coninit"
    <3>1. /\ n \in ConnType /\ n.s2c = Append(s.s2c, ConinitRes(1)) /\ n.c2s = s.c2s /\ n.cli = s.cli
          /\ n.srv = s.srv /\ n.from = s.from /\ n.to = s.to
      BY <2>1, <2>2, <2>3, <2>5, ToClientIs
    <3>2. n.s2c = <<ConinitRes(1)>> /\ n.c2s = << >>
      BY <3>1, <2>2, <2>5, <1>3, OnePacket
    <3>3. Shape(n)
      BY <3>1, <3>2, <2>2, <2>3, <2>5 DEF Shape, AsksForConnection, One
    <3>4. Sound(n) /\ Calm(k, n)
      BY <3>1, <3>3, <2>2, <2>5, <1>3 DEF Sound, Ends, Calm, Waiting
    <3>5. n.srv = "slave" /\ n.to = q /\ n.from = k.from
      BY <3>1, <2>1, <2>2, <1>3
    <3> QED BY <3>4, <3>5, <2>1, <1>1, <1>3, <1>7
  <2> QED BY <2>4, <2>5, <1>3
<1>8. CASE k.cli = "closed" /\ SlaveSockMapCallback(q, c)
  <2>1. PICK x : x = CloseSrv(k)
    OBVIOUS
  <2>2. /\ x \in ConnType /\ Shape(x) /\ x.from = k.from /\ x.to = k.to /\ Quiet(k, x)
        /\ x.srv = "closed"
    BY <2>1, <1>3, CloseSrvSound
  <2>3. Sound(Norm(x)) /\ Norm(x).srv = "closed" /\ Quiet(k, Norm(x))
    BY <2>2, <1>3, NormSound
  <2>4. conn' = [conn EXCEPT ![c] = Norm(x)] /\ RemoveSlaveSock(q, c)
    BY <2>1, <1>1, <1>8 DEF SlaveSockMapCallback
  <2>5. Calm(k, Norm(x))
    BY <2>3 DEF Quiet, Calm
  <2> QED BY <2>3, <2>4, <2>5, <1>1, <1>3
<1> QED BY <1>6, <1>7, <1>8

LEMMA SlaveHup ==
  ASSUME ConnInv, NEW q \in Procs, NEW c \in Conns, SlaveSockNotifyHup(q, c)
  PROVE  /\ \E n : /\ Sound(n) /\ Calm(conn[c], n) /\ conn' = [conn EXCEPT ![c] = n]
                   /\ conn[c].to = q /\ n.srv # "slave"
         /\ RemoveSlaveSock(q, c)
<1>1. PICK k : k = conn[c]
  OBVIOUS
<1>2. k.srv = "slave" /\ k.cli = "closed" /\ k.to = q
  BY <1>1 DEF SlaveSockNotifyHup, PeerClosed, Reads
<1>3. k \in ConnType /\ Shape(k) /\ k.from \in Procs /\ k.to \in Procs
  BY <1>1, <1>2, EndsOf DEF ConnInv, Sound
<1>4. PICK x : x = CloseSrv(k)
  OBVIOUS
<1>5. /\ x \in ConnType /\ Shape(x) /\ x.from = k.from /\ x.to = k.to
      /\ x.srv = "closed" /\ x.cli = "closed"
  BY <1>2, <1>3, <1>4, CloseSrvSound
<1>6. Sound(Norm(x)) /\ Norm(x).srv = "closed" /\ Norm(x).cli = "closed"
  BY <1>5, <1>3, NormSound
<1>7. conn' = [conn EXCEPT ![c] = Norm(x)] /\ RemoveSlaveSock(q, c)
  BY <1>1, <1>4 DEF SlaveSockNotifyHup, SlaveSockMapCallback
<1>8. Calm(k, Norm(x))
  BY <1>6 DEF Calm, Waiting
<1> QED BY <1>1, <1>2, <1>6, <1>7, <1>8

-----------------------------------------------------------------------------
(* Steps that close many connections.                                      *)

\* The changes to one connection when p closes everything, or all but what it accepts.
LEMMA ServersClosed ==
  ASSUME NEW p \in Procs, NEW k, Sound(k)
  PROVE  LET n == Norm(CloseToServersSocks(p, k))
         IN  Sound(n) /\ Quiet(k, n)
<1>1. PICK x : x = CloseToServersSocks(p, k)
  OBVIOUS
<1>2. CASE k = NoConn
  <2>1. x = NoConn /\ Norm(NoConn) = NoConn /\ Quiet(NoConn, NoConn)
    BY <1>1, <1>2 DEF CloseToServersSocks, NoConn, Norm, Quiet
  <2> QED BY <2>1, <1>1, <1>2, NoConnSound
<1>3. CASE k # NoConn
  <2>1. k.from \in Procs /\ k.to \in Procs /\ k \in ConnType /\ Shape(k) /\ Quiet(k, k)
    BY <1>3 DEF Sound, Ends, Quiet
  <2>2. /\ x \in ConnType /\ Shape(x) /\ x.from = k.from /\ x.to = k.to /\ Quiet(k, x)
    BY <2>1, <1>1, CloseCliSound DEF CloseToServersSocks
  <2>3. Sound(Norm(x)) /\ Quiet(k, Norm(x))
    BY <2>1, <2>2, NormSound
  <2> QED BY <2>3, <1>1
<1> QED BY <1>2, <1>3

\* A step from k to n in which p closes its sockets of slaves.
Dismissed(p, k, n) ==
  /\ n.srv = "slave" <=> k.srv = "slave" /\ k.to # p
  /\ n.srv = "slave" => n.from = k.from /\ n.to = k.to

\* CloseSrv of some ends of p, then CloseCli of some.
LEMMA EndsClosed ==
  ASSUME NEW p \in Procs, NEW k \in ConnType, Shape(k), k.from \in Procs, k.to \in Procs,
         NEW s \in {k, CloseSrv(k)}, NEW x \in {s, CloseCli(s)},
         k.srv = "slave" => (k.to = p <=> s = CloseSrv(k))
  PROVE  Sound(Norm(x)) /\ Calm(k, Norm(x)) /\ Dismissed(p, k, Norm(x)) /\ (x = CloseCli(s) => ~Waiting(Norm(x)))
<1>1. /\ s \in ConnType /\ Shape(s) /\ s.from = k.from /\ s.to = k.to /\ s.cli = k.cli
      /\ s = k \/ s.srv = "closed"
  BY CloseSrvSound
<1>2. s.srv = "slave" <=> k.srv = "slave" /\ k.to # p
  <2>1. CloseSrv(k).srv = "closed"
    BY CloseSrvSound
  <2> QED BY <2>1, <1>1
<1>3. Sound(s)
  BY <1>1 DEF Sound, Ends
<1>4. /\ x \in ConnType /\ Shape(x) /\ x.from = k.from /\ x.to = k.to /\ x.srv = s.srv
      /\ x.cli \in {k.cli, "closed"} /\ (x = CloseCli(s) => x.cli = "closed")
  BY <1>1, <1>3, CloseCliSound
<1>5. /\ Sound(Norm(x)) /\ Norm(x).srv = x.srv /\ Norm(x).cli = x.cli
      /\ Norm(x).srv = "slave" \/ Waiting(x) => Norm(x) = x
  BY <1>4, NormSound
<1>6. Dismissed(p, k, Norm(x))
  BY <1>2, <1>4, <1>5 DEF Dismissed
<1>7. Calm(k, Norm(x))
  BY <1>4, <1>5 DEF Calm, Waiting
<1> QED BY <1>4, <1>5, <1>6, <1>7 DEF Waiting

LEMMA NobodyClosed ==
  ASSUME NEW p \in Procs
  PROVE  /\ Sound(NoConn) /\ Calm(NoConn, NoConn) /\ Dismissed(p, NoConn, NoConn)
         /\ Norm(NoConn) = NoConn /\ ~Waiting(NoConn)
         /\ NoConn.from # p /\ NoConn.to # p /\ NoConn.srv = "closed"
BY NoConnSound, ConnectAssumption DEF Calm, Dismissed, NoConn, Waiting, Norm

LEMMA RingLeft ==
  ASSUME NEW p \in Procs, NEW k, Sound(k)
  PROVE  LET n == Norm(CloseToServersSocks(p, CloseFromSlavesSocks(p, CloseSelfSocks(p, k))))
         IN  Sound(n) /\ Calm(k, n) /\ Dismissed(p, k, n)
<1>1. PICK t : t = CloseSelfSocks(p, k)
  OBVIOUS
<1>2. PICK s : s = CloseFromSlavesSocks(p, t)
  OBVIOUS
<1>3. PICK x : x = CloseToServersSocks(p, s)
  OBVIOUS
<1>4. CASE k = NoConn
  <2>1. t = NoConn
    BY <1>1, <1>4, NobodyClosed DEF CloseSelfSocks
  <2>2. s = NoConn
    BY <1>2, <2>1, NobodyClosed DEF CloseFromSlavesSocks
  <2>3. x = NoConn
    BY <1>3, <2>2, NobodyClosed DEF CloseToServersSocks
  <2> QED BY <2>3, <1>1, <1>2, <1>3, <1>4, NobodyClosed
<1>5. CASE k # NoConn
  <2>1. k.from \in Procs /\ k.to \in Procs /\ k \in ConnType /\ Shape(k)
    BY <1>5 DEF Sound, Ends
  <2>2. t = IF k.to = p /\ k.srv = "backlog" THEN CloseSrv(k) ELSE k
    BY <1>1 DEF CloseSelfSocks
  <2>3. /\ CloseSrv(k).srv = "closed" /\ CloseSrv(k).to = k.to
    BY <2>1, CloseSrvSound
  <2>4. s = IF k.to = p /\ k.srv \in {"backlog", "slave"} THEN CloseSrv(k) ELSE k
    BY <2>2, <2>3, <1>2 DEF CloseFromSlavesSocks
  <2>5. s \in {k, CloseSrv(k)} /\ (k.srv = "slave" => (k.to = p <=> s = CloseSrv(k)))
    BY <2>3, <2>4
  <2>6. x \in {s, CloseCli(s)}
    BY <1>3 DEF CloseToServersSocks
  <2>7. Sound(Norm(x)) /\ Calm(k, Norm(x)) /\ Dismissed(p, k, Norm(x))
    BY <2>1, <2>5, <2>6, EndsClosed
  <2> QED BY <2>7, <1>1, <1>2, <1>3
<1> QED BY <1>4, <1>5

LEMMA ProcessCleaned ==
  ASSUME NEW p \in Procs, NEW k, Sound(k)
  PROVE  LET n == Norm(CloseAll(p, k))
         IN  Sound(n) /\ Calm(k, n) /\ Dismissed(p, k, n) /\ (Waiting(n) => k.from # p)
<1>1. PICK s : s = IF k.to = p THEN CloseSrv(k) ELSE k
  OBVIOUS
<1>2. PICK x : x = IF k.from = p THEN CloseCli(s) ELSE s
  OBVIOUS
<1>3. x = CloseAll(p, k)
  BY <1>1, <1>2 DEF CloseAll
<1>4. CASE k = NoConn
  <2>1. s = NoConn
    BY <1>1, <1>4, NobodyClosed
  <2>2. x = NoConn
    BY <1>2, <1>4, <2>1, NobodyClosed
  <2> QED BY <2>2, <1>3, <1>4, NobodyClosed
<1>5. CASE k # NoConn
  <2>1. k.from \in Procs /\ k.to \in Procs /\ k \in ConnType /\ Shape(k)
    BY <1>5 DEF Sound, Ends
  <2>2. CloseSrv(k).srv = "closed"
    BY <2>1, CloseSrvSound
  <2>3. s \in {k, CloseSrv(k)} /\ (k.srv = "slave" => (k.to = p <=> s = CloseSrv(k)))
    BY <1>1, <2>2
  <2>4. x \in {s, CloseCli(s)} /\ (k.from = p => x = CloseCli(s))
    BY <1>2
  <2>5. /\ Sound(Norm(x)) /\ Calm(k, Norm(x)) /\ Dismissed(p, k, Norm(x))
        /\ x = CloseCli(s) => ~Waiting(Norm(x))
    BY <2>1, <2>3, <2>4, EndsClosed
  <2> QED BY <2>4, <2>5, <1>3
<1> QED BY <1>4, <1>5

-----------------------------------------------------------------------------
(* The kinds of steps.                                                     *)

ListTypes == socks \in [Procs -> SUBSET Conns] /\ slaves \in [Procs -> SUBSET Procs]

\* A step that leaves the sockets of slaves alone and starts no connect.
Kept ==
  /\ \A d \in Conns : Quiet(conn[d], conn'[d])
  /\ socks' = socks /\ slaves' \in [Procs -> SUBSET Procs]
  /\ \A q \in Procs : slaves[q] \subseteq slaves'[q]
  /\ \/ comproto' = comproto
     \/ \E p \in Procs, c \in Conns : ReceiveVersionRes(p, c)

LEMMA StepKinds ==
  ASSUME ConnInv, ListTypes, [Next]_vars
  PROVE  /\ ConnInv'
         /\ \/ Kept
            \/ \E p, q \in Procs, c \in Conns : Free(p) /\ RawConnectServer(p, q, c)
            \/ \E q \in Procs, c \in Conns : ReceiveConinitReq(q, c)
            \/ \E q \in Procs, c \in Conns : SlaveSockNotifyHup(q, c)
            \/ \E p \in Procs : LeaveRing(p)
            \/ \E p \in Procs : Clean(p)
<1> DEFINE K == /\ socks' = socks /\ slaves' \in [Procs -> SUBSET Procs]
                /\ \A q \in Procs : slaves[q] \subseteq slaves'[q]
<1>1. UNCHANGED <<socks, slaves>> => K
  BY DEF ListTypes
<1>2. ASSUME NEW c \in Conns, OneConn(c), K,
             comproto' = comproto \/ \E p \in Procs, d \in Conns : ReceiveVersionRes(p, d)
      PROVE  ConnInv' /\ Kept
  BY <1>2, OneConnStep DEF Kept
<1>3. ASSUME UNCHANGED <<conn, socks, slaves, comproto>>
      PROVE  ConnInv' /\ Kept
  <2>1. \A d \in Conns : Quiet(conn[d], conn[d])
    BY DEF Quiet
  <2>2. ConnInv'
    BY <1>3 DEF ConnInv
  <2> QED BY <2>1, <2>2, <1>1, <1>3 DEF Kept
<1>4. ASSUME NEW p \in Procs, NEW c \in Conns, ReceiveVersionRes(p, c)
      PROVE  ConnInv' /\ Kept
  <2>1. OneConn(c)
    BY <1>4, VersionRequested
  <2>2. UNCHANGED <<socks, slaves>>
    BY <1>4 DEF ReceiveVersionRes
  <2> QED BY <2>1, <2>2, <1>1, <1>2, <1>4
<1>5. ASSUME NEW p \in Procs, NEW c \in Conns,
             \/ ReceiveConinitRes(p, c) \/ AnswerClosed(p, c) \/ TimedOut(p, c) \/ SendData(p, c)
             \/ ServerSockNotifyHup(p, c)
      PROVE  ConnInv' /\ Kept
  <2>1. OneConn(c)
    BY <1>5, ConnectionAnswered, ConnectEnds, DataSent, ServerHup
  <2>2. UNCHANGED <<socks, slaves>> /\ comproto' = comproto
    BY <1>5, ServerHup
    DEF ReceiveConinitRes, AnswerClosed, TimedOut, SendData, ServerSockNotifyHup
  <2> QED BY <2>1, <2>2, <1>1, <1>2
<1>6. ASSUME NEW q \in Procs, NEW c \in Conns,
             \/ Accept(q, c) \/ ReceiveEnds(q, c) \/ ReceiveVersionReq(q, c) \/ DenyConinitReq(q, c)
             \/ ReceiveData(q, c) \/ AcceptingSockNotifyHup(q, c)
      PROVE  ConnInv' /\ Kept
  <2>1. DenyConinitReq(q, c) => OneConn(c)
    BY Refused DEF DenyConinitReq
  <2>2. OneConn(c)
    BY <2>1, <1>6, Accepted, VersionAnswered, DataReceived, AcceptedHup
  <2>3. UNCHANGED <<socks, slaves>> /\ comproto' = comproto
    BY <1>6, AcceptedHup
    DEF Accept, ReceiveEnds, ReceiveVersionReq, DenyConinitReq, ReceiveData, AcceptingSockNotifyHup
  <2> QED BY <2>2, <2>3, <1>1, <1>2
<1>7. ASSUME NEW q \in Procs, NEW c \in Conns, FailConinitReq(q, c)
      PROVE  ConnInv' /\ Kept
  <2>1. OneConn(c)
    BY <1>7, Refused DEF FailConinitReq
  <2>2. conn[c].from \in Procs
    BY <1>7, ConinitRequested DEF FailConinitReq
  <2>3. /\ slaves' = [slaves EXCEPT ![q] = slaves[q] \cup {conn[c].from}]
        /\ socks' = socks /\ comproto' = comproto
    BY <1>7 DEF FailConinitReq
  <2>4. K
    BY <2>2, <2>3 DEF ListTypes
  <2> QED BY <2>1, <2>3, <2>4, <1>2
<1>8. ASSUME NEW p \in Procs, CloseToServers(p)
      PROVE  ConnInv' /\ Kept
  <2>1. /\ conn' = [c \in Conns |-> Norm(CloseToServersSocks(p, conn[c]))]
        /\ UNCHANGED <<socks, slaves>> /\ comproto' = comproto
    BY <1>8 DEF CloseToServers
  <2>2. \A c \in Conns : Sound(conn'[c]) /\ Quiet(conn[c], conn'[c])
    BY <2>1, ServersClosed DEF ConnInv
  <2>3. conn' \in [Conns -> ConnType]
    BY <2>1, <2>2 DEF Sound
  <2> QED BY <2>1, <2>2, <2>3, <1>1 DEF ConnInv, Kept
<1>9. ASSUME NEW c \in Conns, NEW n, Sound(n), conn' = [conn EXCEPT ![c] = n]
      PROVE  ConnInv'
  BY <1>9 DEF ConnInv, Sound
<1>10. ASSUME NEW p \in Procs, NEW q \in Procs, ConnectServer(p, q)
       PROVE  ConnInv' /\ \E c \in Conns : Free(p) /\ RawConnectServer(p, q, c)
  <2>1. PICK c \in Conns : RawConnectServer(p, q, c)
    BY <1>10 DEF ConnectServer
  <2>2. PICK n : Sound(n) /\ conn' = [conn EXCEPT ![c] = n]
    BY <2>1, ConnectStarts
  <2>3. Free(p)
    BY <1>10 DEF ConnectServer
  <2> QED BY <2>1, <2>2, <2>3, <1>9
<1>11. ASSUME NEW q \in Procs, NEW c \in Conns, ReceiveConinitReq(q, c) \/ SlaveSockNotifyHup(q, c)
       PROVE  ConnInv'
  <2>1. PICK n : Sound(n) /\ conn' = [conn EXCEPT ![c] = n]
    BY <1>11, SlaveAccepted, SlaveHup
  <2> QED BY <2>1, <1>9
<1>12. ASSUME NEW p \in Procs, LeaveRing(p) \/ Clean(p)
       PROVE  ConnInv'
  <2>1. CASE LeaveRing(p)
    <3>1. conn' = [c \in Conns |->
            Norm(CloseToServersSocks(p, CloseFromSlavesSocks(p, CloseSelfSocks(p, conn[c]))))]
      BY <2>1 DEF LeaveRing
    <3>2. \A c \in Conns : Sound(conn'[c])
      BY <3>1, RingLeft DEF ConnInv
    <3> QED BY <3>1, <3>2 DEF ConnInv, Sound
  <2>2. CASE Clean(p)
    <3>1. conn' = [c \in Conns |-> Norm(CloseAll(p, conn[c]))]
      BY <2>2 DEF Clean
    <3>2. \A c \in Conns : Sound(conn'[c])
      BY <3>1, ProcessCleaned DEF ConnInv
    <3> QED BY <3>1, <3>2 DEF ConnInv, Sound
  <2> QED BY <2>1, <2>2, <1>12
<1>13. CASE UNCHANGED vars
  BY <1>3, <1>13 DEF vars
<1>14. CASE \E c \in Conns : Respond(c)
  BY <1>4, <1>5, <1>14 DEF Respond
<1>15. CASE \E c \in Conns : Serve(c)
  <2>1. PICK c \in Conns, q \in Procs :
          \/ Accept(q, c) \/ ReceiveEnds(q, c) \/ ReceiveVersionReq(q, c)
          \/ DenyConinitReq(q, c) \/ FailConinitReq(q, c) \/ ReceiveConinitReq(q, c)
          \/ ReceiveData(q, c) \/ SlaveSockNotifyHup(q, c) \/ AcceptingSockNotifyHup(q, c)
    BY <1>15 DEF Serve
  <2> QED BY <2>1, <1>6, <1>7, <1>11
<1>16. CASE \E c \in Conns : HupServer(c)
  BY <1>5, <1>16 DEF HupServer
<1>17. CASE Connects
  BY <1>10, <1>17 DEF Connects
<1>18. CASE Sends
  BY <1>5, <1>18 DEF Sends
<1>19. CASE Faults
  <2>1. PICK p \in Procs : \/ CloseToServers(p) \/ LeaveRing(p) \/ Clean(p) \/ Listen(p)
                           \/ \E q \in Procs : EditConfiguration(p, q)
    BY <1>19 DEF Faults
  <2>2. Listen(p) \/ (\E q \in Procs : EditConfiguration(p, q)) => ConnInv' /\ Kept
    BY <1>3 DEF Listen, EditConfiguration
  <2> QED BY <2>1, <2>2, <1>8, <1>12
<1> QED BY <1>13, <1>14, <1>15, <1>16, <1>17, <1>18, <1>19 DEF Next

-----------------------------------------------------------------------------
(* Both ends agree.                                                        *)

LEMMA ConnAtFirst == ASSUME Init PROVE ConnInv
BY NoConnSound DEF Init, ConnInv, Sound

LEMMA AgreedFromShape == ASSUME ConnInv PROVE Agreed
BY DEF ConnInv, Sound, Shape, Connected, Agreed

\* The slave list holds the sockets of slaves.
ListInv == ListTypes /\ SlavesExact

LEMMA ListAtFirst == ASSUME Init PROVE ListInv
BY DEF Init, ListInv, ListTypes, SlavesExact, NoConn

LEMMA KeptListed ==
  ASSUME ConnInv, ListInv, Kept
  PROVE  ListInv'
<1>1. \A q \in Procs, c \in Conns :
        conn'[c].to = q /\ conn'[c].srv = "slave" <=> conn[c].to = q /\ conn[c].srv = "slave"
  BY DEF Kept, Quiet
<1>2. \A q \in Procs : \A c \in socks[q] : conn'[c].from = conn[c].from /\ c \in Conns
  BY DEF Kept, Quiet, ListInv, SlavesExact
<1>3. ListTypes'
  BY DEF Kept, ListInv, ListTypes
<1>4. \A q \in Procs : socks'[q] = {c \in Conns : conn'[c].to = q /\ conn'[c].srv = "slave"}
  BY <1>1 DEF Kept, ListInv, SlavesExact
<1>5. \A q \in Procs : \A c \in socks'[q] : conn'[c].from \in slaves'[q]
  BY <1>2 DEF Kept, ListInv, SlavesExact
<1> QED BY <1>3, <1>4, <1>5 DEF ListInv, SlavesExact

LEMMA SlaveListed ==
  ASSUME ConnInv, ListInv, NEW q \in Procs, NEW c \in Conns, NEW n,
         conn' = [conn EXCEPT ![c] = n], n.srv = "slave", n.to = q, n.from = conn[c].from,
         conn[c].to = q, conn[c].from \in Procs, SetSlaveAll(q, c)
  PROVE  ListInv'
<1>1. \A d \in Conns : conn'[d] = IF d = c THEN n ELSE conn[d]
  BY DEF ConnInv
<1>2. /\ socks' = [socks EXCEPT ![q] = socks[q] \cup {c}]
      /\ slaves' = [slaves EXCEPT ![q] = slaves[q] \cup {conn[c].from}]
  BY DEF SetSlaveAll
<1>3. ListTypes'
  BY <1>2 DEF ListInv, ListTypes
<1>4. ASSUME NEW r \in Procs
      PROVE  socks'[r] = {d \in Conns : conn'[d].to = r /\ conn'[d].srv = "slave"}
  BY <1>1, <1>2 DEF ListInv, ListTypes, SlavesExact
<1>5. ASSUME NEW r \in Procs, NEW d \in socks'[r]
      PROVE  conn'[d].from \in slaves'[r]
  <2>1. d \in socks[r] \/ (r = q /\ d = c)
    BY <1>2, <1>5 DEF ListInv, ListTypes
  <2>2. slaves[r] \subseteq slaves'[r] /\ conn[c].from \in slaves'[q]
    BY <1>2 DEF ListInv, ListTypes
  <2>3. d \in Conns /\ conn'[d].from = conn[d].from
    BY <2>1, <1>1 DEF ListInv, SlavesExact
  <2>4. d \in socks[r] => conn[d].from \in slaves[r]
    BY DEF ListInv, SlavesExact
  <2> QED BY <2>1, <2>2, <2>3, <2>4
<1> QED BY <1>3, <1>4, <1>5 DEF ListInv, SlavesExact

LEMMA SlaveRemoved ==
  ASSUME ConnInv, ListInv, NEW q \in Procs, NEW c \in Conns, NEW n,
         conn' = [conn EXCEPT ![c] = n], n.srv # "slave", conn[c].to = q, RemoveSlaveSock(q, c)
  PROVE  ListInv'
<1>1. \A d \in Conns : conn'[d] = IF d = c THEN n ELSE conn[d]
  BY DEF ConnInv
<1>2. PICK G : G = IF \E d \in socks[q] \ {c} : conn[d].from = conn[c].from
                   THEN {} ELSE {conn[c].from}
  OBVIOUS
<1>3. /\ socks' = [socks EXCEPT ![q] = socks[q] \ {c}]
      /\ slaves' = [slaves EXCEPT ![q] = slaves[q] \ G]
  BY <1>2 DEF RemoveSlaveSock
<1>4. ListTypes'
  BY <1>3 DEF ListInv, ListTypes
<1>5. ASSUME NEW r \in Procs
      PROVE  socks'[r] = {d \in Conns : conn'[d].to = r /\ conn'[d].srv = "slave"}
  BY <1>1, <1>3 DEF ListInv, ListTypes, SlavesExact
<1>6. ASSUME NEW r \in Procs, NEW d \in socks'[r]
      PROVE  conn'[d].from \in slaves'[r]
  <2>1. d \in socks[r] /\ (r = q => d # c) /\ d \in Conns /\ conn[d].to = r
    BY <1>3, <1>6 DEF ListInv, ListTypes, SlavesExact
  <2>2. d # c /\ conn'[d] = conn[d]
    BY <2>1, <1>1
  <2>3. conn[d].from \in slaves[r]
    BY <2>1 DEF ListInv, SlavesExact
  <2>4. r = q => conn[d].from \notin G
    BY <2>1, <2>2, <1>2
  <2>5. slaves'[r] = IF r = q THEN slaves[r] \ G ELSE slaves[r]
    BY <1>3 DEF ListInv, ListTypes
  <2> QED BY <2>2, <2>3, <2>4, <2>5
<1> QED BY <1>4, <1>5, <1>6 DEF ListInv, SlavesExact

LEMMA SlavesDismissed ==
  ASSUME ConnInv, ConnInv', ListInv, NEW p \in Procs,
         \A c \in Conns : Dismissed(p, conn[c], conn'[c]),
         socks' = [socks EXCEPT ![p] = {}], slaves' = [slaves EXCEPT ![p] = {}]
  PROVE  ListInv'
<1>1. ListTypes'
  BY DEF ListInv, ListTypes
<1>2. ASSUME NEW r \in Procs
      PROVE  /\ socks'[r] = IF r = p THEN {} ELSE socks[r]
             /\ slaves'[r] = IF r = p THEN {} ELSE slaves[r]
  BY DEF ListInv, ListTypes
<1>3. ASSUME NEW r \in Procs, NEW c \in Conns
      PROVE  conn'[c].to = r /\ conn'[c].srv = "slave" <=> r # p /\ conn[c].to = r /\ conn[c].srv = "slave"
  BY DEF Dismissed
<1>4. ASSUME NEW r \in Procs
      PROVE  socks'[r] = {d \in Conns : conn'[d].to = r /\ conn'[d].srv = "slave"}
  BY <1>2, <1>3 DEF ListInv, SlavesExact
<1>5. ASSUME NEW r \in Procs, NEW d \in socks'[r]
      PROVE  conn'[d].from \in slaves'[r]
  <2>1. r # p /\ d \in socks[r] /\ d \in Conns
    BY <1>2, <1>4, <1>5
  <2>2. conn'[d].srv = "slave"
    BY <1>4, <1>5
  <2> QED BY <2>1, <2>2, <1>2 DEF Dismissed, ListInv, SlavesExact
<1> QED BY <1>1, <1>4, <1>5 DEF ListInv, SlavesExact

LEMMA ListStep ==
  ASSUME ConnInv, ListInv, [Next]_vars
  PROVE  ListInv'
<1>1. /\ ConnInv'
      /\ \/ Kept
         \/ \E p, q \in Procs, c \in Conns : Free(p) /\ RawConnectServer(p, q, c)
         \/ \E q \in Procs, c \in Conns : ReceiveConinitReq(q, c)
         \/ \E q \in Procs, c \in Conns : SlaveSockNotifyHup(q, c)
         \/ \E p \in Procs : LeaveRing(p)
         \/ \E p \in Procs : Clean(p)
  BY StepKinds DEF ListInv
<1>2. CASE Kept
  BY <1>2, KeptListed
<1>3. ASSUME NEW p \in Procs, NEW q \in Procs, NEW c \in Conns, RawConnectServer(p, q, c)
      PROVE  ListInv'
  <2>1. PICK n : n.srv # "slave" /\ conn[c].srv # "slave" /\ conn' = [conn EXCEPT ![c] = n]
    BY <1>3, ConnectStarts
  <2>2. UNCHANGED <<socks, slaves>>
    BY <1>3 DEF RawConnectServer
  <2>3. \A d \in Conns : conn'[d] = IF d = c THEN n ELSE conn[d]
    BY <2>1 DEF ConnInv
  <2>4. \A r \in Procs : socks'[r] = {d \in Conns : conn'[d].to = r /\ conn'[d].srv = "slave"}
    BY <2>1, <2>2, <2>3 DEF ListInv, SlavesExact
  <2>5. \A r \in Procs : \A d \in socks'[r] : d # c /\ d \in Conns
    BY <2>1, <2>2 DEF ListInv, SlavesExact
  <2>6. \A r \in Procs : \A d \in socks'[r] : conn'[d].from \in slaves'[r]
    BY <2>2, <2>3, <2>5 DEF ListInv, SlavesExact
  <2>7. ListTypes'
    BY <2>2 DEF ListInv, ListTypes
  <2> QED BY <2>4, <2>6, <2>7 DEF ListInv, SlavesExact
<1>4. ASSUME NEW q \in Procs, NEW c \in Conns, ReceiveConinitReq(q, c)
      PROVE  ListInv'
  BY <1>4, SlaveAccepted, SlaveListed, SlaveRemoved
<1>5. ASSUME NEW q \in Procs, NEW c \in Conns, SlaveSockNotifyHup(q, c)
      PROVE  ListInv'
  BY <1>5, SlaveHup, SlaveRemoved
<1>6. ASSUME NEW p \in Procs, LeaveRing(p)
      PROVE  ListInv'
  <2>1. /\ conn' = [c \in Conns |->
             Norm(CloseToServersSocks(p, CloseFromSlavesSocks(p, CloseSelfSocks(p, conn[c]))))]
        /\ socks' = [socks EXCEPT ![p] = {}] /\ slaves' = [slaves EXCEPT ![p] = {}]
    BY <1>6 DEF LeaveRing
  <2>2. \A c \in Conns : Dismissed(p, conn[c], conn'[c])
    BY <2>1, RingLeft DEF ConnInv
  <2> QED BY <2>1, <2>2, <1>1, SlavesDismissed
<1>7. ASSUME NEW p \in Procs, Clean(p)
      PROVE  ListInv'
  <2>1. /\ conn' = [c \in Conns |-> Norm(CloseAll(p, conn[c]))]
        /\ socks' = [socks EXCEPT ![p] = {}] /\ slaves' = [slaves EXCEPT ![p] = {}]
    BY <1>7 DEF Clean
  <2>2. \A c \in Conns : Dismissed(p, conn[c], conn'[c])
    BY <2>1, ProcessCleaned DEF ConnInv
  <2> QED BY <2>1, <2>2, <1>1, SlavesDismissed
<1> QED BY <1>1, <1>2, <1>3, <1>4, <1>5, <1>6, <1>7

\* A process that has a server in seversockmap is in that server's slavesockmap,
\* unless the server has closed the socket since (the end of RawConnectServer).
THEOREM EndsAgree == Spec => []Agreed
<1>1. Init => ConnInv /\ ListInv
  BY ConnAtFirst, ListAtFirst
<1>2. ConnInv /\ ListInv /\ [Next]_vars => (ConnInv /\ ListInv)'
  BY StepKinds, ListStep DEF ListInv
<1>3. ConnInv => Agreed
  BY AgreedFromShape
<1> QED BY <1>1, <1>2, <1>3, PTL DEF Spec

\* The slave list in shared memory holds the sockets in slavesockmap and no others,
\* and every process that has one of them (SetSlaveAll, RemoveSlaveSock).
THEOREM SlaveListExact == Spec => []SlavesExact
<1>1. Init => ConnInv /\ ListInv
  BY ConnAtFirst, ListAtFirst
<1>2. ConnInv /\ ListInv /\ [Next]_vars => (ConnInv /\ ListInv)'
  BY StepKinds, ListStep DEF ListInv
<1>3. ListInv => SlavesExact
  BY DEF ListInv
<1> QED BY <1>1, <1>2, <1>3, PTL DEF Spec

-----------------------------------------------------------------------------
(* The version is set once.  A process with one thread has one connect     *)
(* that waits; with more, two connects that both ask set it twice.         *)

PartTypes ==
  run \in [Procs -> {"up", "left", "down"}] /\ comproto \in [Procs -> {Uninit, V1, V2}]

\* At most one connect of a process waits, and for a version only while it has none.
AskedOnce ==
  /\ \A c, d \in Conns :
       Waiting(conn[c]) /\ Waiting(conn[d]) /\ conn[c].from = conn[d].from => c = d
  /\ \A c \in Conns : conn[c].cli = "version" => comproto[conn[c].from] = Uninit

LEMMA FreeIsIdle ==
  ASSUME ThreadCnt = 1, NEW p, Free(p), NEW c \in Conns, conn[c].from = p
  PROVE  ~Waiting(conn[c])
<1> DEFINE W == {d \in Conns : conn[d].from = p /\ Waiting(conn[d])}
           O == {d \in Conns : conn[d].to = p /\ conn[d].watch = "once"}
<1>1. IsFiniteSet(W) /\ IsFiniteSet(O)
  BY FS_Subset, ConnectAssumption
<1>2. Cardinality(W) \in Nat /\ Cardinality(O) \in Nat
  BY <1>1, FS_CardinalityType
<1>3. Cardinality(W) + Cardinality(O) < 1
  BY DEF Free, Busy
<1>4. Cardinality(W) = 0
  BY <1>2, <1>3
<1>5. W = {}
  BY <1>1, <1>4, FS_EmptySet
<1> QED BY <1>5

LEMMA VersionTaken ==
  ASSUME ConnInv, NEW p \in Procs, NEW c \in Conns, ReceiveVersionRes(p, c)
  PROVE  conn'[c].cli # "version"
<1>1. PICK k \in ConnType : k = conn[c]
  BY DEF ConnInv
<1>2. PICK k2 : k2 = [k EXCEPT !.s2c = Tail(k.s2c), !.cli = "coninit"]
  OBVIOUS
<1>3. \E m : \E n \in ToServer(k2, m) : conn' = [conn EXCEPT ![c] = Norm(n)]
  BY <1>1, <1>2 DEF ReceiveVersionRes, SendConinitReq
<1>4. PICK m, n : n \in ToServer(k2, m) /\ conn' = [conn EXCEPT ![c] = Norm(n)]
  BY <1>3
<1>5. n = [k2 EXCEPT !.c2s = Append(k2.c2s, m)] \/ n = k2 \/ n = CloseCli(k2)
  BY <1>4 DEF ToServer
<1>6. n.cli # "version"
  BY <1>2, <1>5 DEF CloseCli, ConnType
<1>7. Norm(n).cli # "version"
  BY <1>6 DEF Norm, NoConn
<1>8. conn'[c] = Norm(n)
  BY <1>4 DEF ConnInv
<1> QED BY <1>7, <1>8

LEMMA CalmAsked ==
  ASSUME AskedOnce, \A c \in Conns : Calm(conn[c], conn'[c])
  PROVE  /\ \A c, d \in Conns :
              Waiting(conn'[c]) /\ Waiting(conn'[d]) /\ conn'[c].from = conn'[d].from => c = d
         /\ \A c \in Conns : conn'[c].cli = "version" =>
              /\ conn[c].cli = "version" /\ conn'[c].from = conn[c].from
              /\ comproto[conn'[c].from] = Uninit
BY DEF AskedOnce, Calm, Waiting

LEMMA PartTypesStep ==
  ASSUME ConnInv, PartTypes, [Next]_vars
  PROVE  PartTypes'
<1>1. \A p \in Procs : ConnectVersion(p) \in {Uninit, V1, V2}
  BY DEF PartTypes, ConnectVersion
<1>2. ASSUME NEW p \in Procs, NEW c \in Conns, ReceiveVersionRes(p, c)
      PROVE  PartTypes'
  <2>1. PICK v \in {V1, V2} : comproto' = [comproto EXCEPT ![p] = v]
    BY <1>2, VersionRequested
  <2>2. run' = run
    BY <1>2 DEF ReceiveVersionRes
  <2> QED BY <2>1, <2>2 DEF PartTypes
<1>3. ASSUME NEW p \in Procs, NEW q \in Procs, ConnectServer(p, q)
      PROVE  PartTypes'
  <2>1. comproto' = [comproto EXCEPT ![p] = ConnectVersion(p)] /\ run' = run
    BY <1>3 DEF ConnectServer, RawConnectServer
  <2> QED BY <2>1, <1>1 DEF PartTypes
<1>4. ASSUME UNCHANGED <<run, comproto>>
      PROVE  PartTypes'
  BY <1>4 DEF PartTypes
<1>5. CASE \E c \in Conns : Respond(c)
  <2>1. PICK c \in Conns, p \in Procs :
          \/ ReceiveVersionRes(p, c) \/ ReceiveConinitRes(p, c) \/ AnswerClosed(p, c)
          \/ TimedOut(p, c)
    BY <1>5 DEF Respond
  <2> QED BY <2>1, <1>2, <1>4 DEF ReceiveConinitRes, AnswerClosed, TimedOut
<1>6. CASE \E c \in Conns : Serve(c)
  BY <1>4, <1>6
  DEF Serve, Accept, ReceiveEnds, ReceiveVersionReq, DenyConinitReq, FailConinitReq,
      ReceiveConinitReq, ReceiveData, SlaveSockNotifyHup, AcceptingSockNotifyHup
<1>7. CASE \E c \in Conns : HupServer(c)
  BY <1>4, <1>7 DEF HupServer, ServerSockNotifyHup
<1>8. CASE Connects
  BY <1>3, <1>8 DEF Connects
<1>9. CASE Sends
  BY <1>4, <1>9 DEF Sends, SendData
<1>10. CASE Faults
  <2>1. PICK p \in Procs : \/ CloseToServers(p) \/ LeaveRing(p) \/ Clean(p) \/ Listen(p)
                           \/ \E q \in Procs : EditConfiguration(p, q)
    BY <1>10 DEF Faults
  <2>2. CASE CloseToServers(p) \/ \E q \in Procs : EditConfiguration(p, q)
    BY <1>4, <2>2 DEF CloseToServers, EditConfiguration
  <2>3. CASE LeaveRing(p)
    BY <2>3 DEF LeaveRing, PartTypes
  <2>4. CASE Clean(p)
    BY <2>4 DEF Clean, PartTypes
  <2>5. CASE Listen(p)
    BY <2>5 DEF Listen, PartTypes
  <2> QED BY <2>1, <2>2, <2>3, <2>4, <2>5
<1>11. CASE UNCHANGED vars
  BY <1>4, <1>11 DEF vars
<1> QED BY <1>5, <1>6, <1>7, <1>8, <1>9, <1>10, <1>11 DEF Next

LEMMA AskedOnceStep ==
  ASSUME ThreadCnt = 1, ConnInv, ListTypes, PartTypes, AskedOnce, [Next]_vars
  PROVE  /\ AskedOnce'
         /\ \A p \in Procs : comproto[p] # Uninit /\ run'[p] # "down" => comproto'[p] = comproto[p]
<1> DEFINE Stable == \A p \in Procs : comproto[p] # Uninit /\ run'[p] # "down" => comproto'[p] = comproto[p]
<1>1. \/ Kept
      \/ \E p, q \in Procs, c \in Conns : Free(p) /\ RawConnectServer(p, q, c)
      \/ \E q \in Procs, c \in Conns : ReceiveConinitReq(q, c)
      \/ \E q \in Procs, c \in Conns : SlaveSockNotifyHup(q, c)
      \/ \E p \in Procs : LeaveRing(p)
      \/ \E p \in Procs : Clean(p)
  BY StepKinds
<1>2. ASSUME \A c \in Conns : Calm(conn[c], conn'[c]), comproto' = comproto
      PROVE  AskedOnce' /\ Stable
  BY <1>2, CalmAsked DEF AskedOnce
<1>3. CASE Kept
  <2>1. \A c \in Conns : Calm(conn[c], conn'[c])
    BY <1>3 DEF Kept, Quiet, Calm
  <2>2. CASE comproto' = comproto
    BY <2>1, <2>2, <1>2
  <2>3. ASSUME NEW p \in Procs, NEW c \in Conns, ReceiveVersionRes(p, c)
        PROVE  AskedOnce' /\ Stable
    <3>1. PICK v \in {V1, V2} : comproto' = [comproto EXCEPT ![p] = v]
      BY <2>3, VersionRequested
    <3>2. conn[c].cli = "version" /\ conn[c].from = p
      BY <2>3, VersionRequested
    <3>3. comproto[p] = Uninit
      BY <3>2 DEF AskedOnce
    <3>4. \A r \in Procs : r # p => comproto'[r] = comproto[r]
      BY <3>1 DEF PartTypes
    <3>5. Stable
      BY <3>3, <3>4
    <3>6. ASSUME NEW d \in Conns, conn'[d].cli = "version"
          PROVE  comproto'[conn'[d].from] = Uninit
      <4>1. /\ conn[d].cli = "version" /\ conn'[d].from = conn[d].from
            /\ comproto[conn'[d].from] = Uninit
        BY <2>1, <3>6, CalmAsked
      <4>2. d # c
        BY <2>3, <3>6, VersionTaken
      <4>3. conn[d].from # p
        BY <4>1, <4>2, <3>2 DEF AskedOnce, Waiting
      <4>4. conn[d].from \in Procs
        BY <4>1, EndsOf DEF ConnInv
      <4> QED BY <4>1, <4>3, <4>4, <3>4
    <3>7. \A d, e \in Conns :
            Waiting(conn'[d]) /\ Waiting(conn'[e]) /\ conn'[d].from = conn'[e].from => d = e
      BY <2>1, CalmAsked
    <3> QED BY <3>5, <3>6, <3>7 DEF AskedOnce
  <2> QED BY <2>2, <2>3, <1>3 DEF Kept
<1>4. ASSUME NEW p \in Procs, NEW q \in Procs, NEW c \in Conns, Free(p), RawConnectServer(p, q, c)
      PROVE  AskedOnce' /\ Stable
  <2>1. PICK n : /\ n.from = p /\ (n.cli = "version" => AsksVersion(p))
                 /\ conn' = [conn EXCEPT ![c] = n]
    BY <1>4, ConnectStarts
  <2>2. \A d \in Conns : conn'[d] = IF d = c THEN n ELSE conn[d]
    BY <2>1 DEF ConnInv
  <2>3. \A d \in Conns : conn[d].from = p => ~Waiting(conn[d])
    BY <1>4, FreeIsIdle
  <2>4. comproto' = [comproto EXCEPT ![p] = ConnectVersion(p)]
    BY <1>4 DEF RawConnectServer
  <2>5. \A r \in Procs : comproto'[r] = IF r = p THEN ConnectVersion(p) ELSE comproto[r]
    BY <2>4 DEF PartTypes
  <2>6. Stable
    BY <2>5 DEF ConnectVersion
  <2>7. \A d, e \in Conns :
          Waiting(conn'[d]) /\ Waiting(conn'[e]) /\ conn'[d].from = conn'[e].from => d = e
    BY <2>1, <2>2, <2>3 DEF AskedOnce
  <2>8. ASSUME NEW d \in Conns, conn'[d].cli = "version"
        PROVE  comproto'[conn'[d].from] = Uninit
    <3>1. CASE d = c
      BY <3>1, <2>1, <2>2, <2>5, <2>8 DEF AsksVersion, ConnectVersion
    <3>2. CASE d # c
      <4>1. conn'[d] = conn[d] /\ conn[d].from # p
        BY <3>2, <2>2, <2>3, <2>8 DEF Waiting
      <4>2. conn[d].from \in Procs
        BY <4>1, <2>8, EndsOf DEF ConnInv
      <4> QED BY <4>1, <4>2, <2>5, <2>8 DEF AskedOnce
    <3> QED BY <3>1, <3>2
  <2> QED BY <2>6, <2>7, <2>8 DEF AskedOnce
<1>5. ASSUME NEW q \in Procs, NEW c \in Conns, ReceiveConinitReq(q, c) \/ SlaveSockNotifyHup(q, c)
      PROVE  AskedOnce' /\ Stable
  <2>1. PICK n : Calm(conn[c], n) /\ conn' = [conn EXCEPT ![c] = n]
    BY <1>5, SlaveAccepted, SlaveHup
  <2>2. \A d \in Conns : Calm(conn[d], conn'[d])
    BY <2>1 DEF ConnInv, Calm
  <2>3. comproto' = comproto
    BY <1>5 DEF ReceiveConinitReq, SlaveSockNotifyHup
  <2> QED BY <2>2, <2>3, <1>2
<1>6. ASSUME NEW p \in Procs, LeaveRing(p)
      PROVE  AskedOnce' /\ Stable
  <2>1. conn' = [c \in Conns |->
          Norm(CloseToServersSocks(p, CloseFromSlavesSocks(p, CloseSelfSocks(p, conn[c]))))]
    BY <1>6 DEF LeaveRing
  <2>2. \A c \in Conns : Calm(conn[c], conn'[c])
    BY <2>1, RingLeft DEF ConnInv
  <2>3. comproto' = comproto
    BY <1>6 DEF LeaveRing
  <2> QED BY <2>2, <2>3, <1>2
<1>7. ASSUME NEW p \in Procs, Clean(p)
      PROVE  AskedOnce' /\ Stable
  <2>1. /\ conn' = [c \in Conns |-> Norm(CloseAll(p, conn[c]))]
        /\ comproto' = [comproto EXCEPT ![p] = Uninit] /\ run' = [run EXCEPT ![p] = "down"]
    BY <1>7 DEF Clean
  <2>2. \A c \in Conns : Calm(conn[c], conn'[c])
    BY <2>1, ProcessCleaned DEF ConnInv
  <2>3. \A r \in Procs : comproto'[r] = IF r = p THEN Uninit ELSE comproto[r]
    BY <2>1 DEF PartTypes
  <2>4. run'[p] = "down"
    BY <2>1 DEF PartTypes
  <2>5. Stable
    BY <2>3, <2>4
  <2>6. ASSUME NEW d \in Conns, conn'[d].cli = "version"
        PROVE  comproto'[conn'[d].from] = Uninit
    <3>1. /\ conn[d].cli = "version" /\ conn'[d].from = conn[d].from
          /\ comproto[conn'[d].from] = Uninit
      BY <2>2, <2>6, CalmAsked
    <3>2. conn[d].from \in Procs
      BY <3>1, EndsOf DEF ConnInv
    <3> QED BY <3>1, <3>2, <2>3
  <2>7. \A d, e \in Conns :
          Waiting(conn'[d]) /\ Waiting(conn'[e]) /\ conn'[d].from = conn'[e].from => d = e
    BY <2>2, CalmAsked
  <2> QED BY <2>5, <2>6, <2>7 DEF AskedOnce
<1> QED BY <1>1, <1>3, <1>4, <1>5, <1>6, <1>7

\* A process whose handlers run in the event loop sets comproto_ver once: packets on
\* all its sockets have one version (InitialComVersion, RawConnectServer).
THEOREM VersionIsStable ==
  ASSUME ThreadCnt = 1
  PROVE  Spec => VersionStable
<1> DEFINE IInv == ConnInv /\ ListInv /\ PartTypes /\ AskedOnce
           Stable == \A p \in Procs : comproto[p] # Uninit /\ run'[p] # "down" => comproto'[p] = comproto[p]
<1>1. Init => IInv
  <2>1. Init => PartTypes /\ AskedOnce
    BY DEF Init, PartTypes, AskedOnce, NoConn, Waiting, Uninit, V1, V2
  <2> QED BY <2>1, ConnAtFirst, ListAtFirst
<1>2. IInv /\ [Next]_vars => IInv'
  BY StepKinds, ListStep, PartTypesStep, AskedOnceStep DEF ListInv
<1>3. IInv /\ [Next]_vars => [Stable]_vars
  BY AskedOnceStep DEF ListInv
<1> QED BY <1>1, <1>2, <1>3, PTL DEF Spec, VersionStable
=============================================================================
