--------------------------- MODULE ChmMergeMqProofs ---------------------------
(***************************************************************************)
(* Proofs about ChmMergeMq, for any RING, targets and merging servers: no  *)
(* request is answered twice, however merges are aborted and started       *)
(* again; and, as long as none is aborted and the chmpx processes have one *)
(* msgid, a target that is entered as SUCCESS has handed over its data.    *)
(***************************************************************************)
EXTENDS ChmMergeMq, SequenceTheorems, TLAPS

-----------------------------------------------------------------------------
(* Types.                                                                  *)

Run     == Nat \ {0}
Par     == Merger \X Run
Outcomes == {"SUCCESS", "FAIL"}
Packet  == [type : {"REQ"}, dept : Merger, round : Run, map : [Target -> Flag]]
           \cup [type : {"RES"}, round : Run, datum : Datum]
           \cup [type : {"RESULT"}, round : Run, result : Outcomes]
           \cup [type : {"ABORT"}, dept : Merger]
DownMsg == [type : {"GETLASTTS"}] \cup [type : {"REQ"}, param : Par]
           \cup [type : {"SET"}, datum : Datum] \cup [type : {"ABORT"}]
UpMsg   == [type : {"RESLASTTS"}]
           \cup [type : {"RES"}, to : Merger, round : Run, datum : Datum]
           \cup [type : {"RESULT"}, to : Merger, round : Run, result : Outcomes]
WorkerType == [pc : {"sleep", "asked", "lasttime", "wait"}, run : BOOLEAN, calls : Nat,
               round : Nat, of : Nat, notify : BOOLEAN, pres : BOOLEAN, answered : BOOLEAN]
ClientType == [list : Seq(Par), notify : BOOLEAN, check : BOOLEAN]
ThreadType == [pc : {"none", "loop", "get", "result", "left", "exit"},
               cur : Par \cup {NoParam}, next : Nat \ {0}, ok : BOOLEAN, heard : BOOLEAN]

\* The worker is in a call only when it has been woken.
WorkerOK(m) == wk[m].calls <= wk[m].round /\ (wk[m].pc # "sleep" => wk[m].calls > 0)
ThreadOK(t) == th[t].pc \in {"get", "result"} <=> th[t].cur # NoParam

Types ==
  /\ wire \in [Server \X Server -> Seq(Packet)]
  /\ down \in [Server -> Seq(DownMsg)]
  /\ up \in [Server -> [Box -> Seq(UpMsg)]]
  /\ wk \in [Merger -> WorkerType]
  /\ idmap \in [Merger -> [Target -> Flag]]
  /\ cl \in [Target -> ClientType]
  /\ th \in [Target -> ThreadType]
  /\ copied \in [Merger -> SUBSET (Target \X Datum)]
  /\ \A m \in Merger : WorkerOK(m)
  /\ \A t \in Target : ThreadOK(t)

-----------------------------------------------------------------------------
(* The RING.                                                               *)

Idx(s) == CHOOSE j \in DOMAIN Ring : Ring[j] = s

\* How far server d is behind m, in the direction packets travel.
Pos(m, d) == IF Idx(d) > Idx(m) THEN Idx(d) - Idx(m) ELSE Idx(d) - Idx(m) + Len(Ring)

\* A packet of m that has got to d still has t ahead.
Ahead(m, d, t) == Pos(m, d) <= Pos(m, t)

LEMMA RingIs ==
  ASSUME NEW s \in Server
  PROVE  /\ Len(Ring) \in Nat /\ Len(Ring) > 1
         /\ Idx(s) \in 1 .. Len(Ring) /\ Ring[Idx(s)] = s
         /\ NextOf(s) \in Server /\ NextOf(s) # s
         /\ Idx(NextOf(s)) = IF Idx(s) < Len(Ring) THEN Idx(s) + 1 ELSE 1
<1>1. /\ Ring \in Seq(Server) /\ DOMAIN Ring = 1 .. Len(Ring)
      /\ \A i, j \in DOMAIN Ring : Ring[i] = Ring[j] => i = j
  BY MergeAssumption, LenProperties DEF IsInjective
<1>0. PICK L : L = Len(Ring)
  OBVIOUS
<1>a. L \in Nat /\ L > 1
  BY <1>0, <1>1, MergeAssumption, LenProperties
<1>2. \E j \in DOMAIN Ring : Ring[j] = s
  BY DEF Server, Range
<1>3. PICK i : i = Idx(s)
  OBVIOUS
<1>4. i \in 1 .. L /\ Ring[i] = s
  BY <1>0, <1>1, <1>2, <1>3 DEF Idx
<1>5. PICK n : n = (i % L) + 1
  OBVIOUS
<1>6. n = IF i < L THEN i + 1 ELSE 1
  <2>1. i \in Nat /\ (i < L \/ i = L)
    BY <1>a, <1>4
  <2>2. CASE i < L
    <3>1. i % L = i
      BY <1>a, <1>4, <2>2
    <3> QED BY <1>5, <2>2, <3>1
  <2>3. CASE i = L
    <3>1. i % L = 0
      BY <1>a, <1>4, <2>3
    <3>2. n = 1
      BY <1>5, <3>1
    <3> QED BY <1>a, <2>3, <3>2
  <2> QED BY <2>1, <2>2, <2>3
<1>7. n \in 1 .. L /\ n # i
  BY <1>a, <1>4, <1>6
<1>8. NextOf(s) = Ring[n]
  BY <1>0, <1>3, <1>5 DEF NextOf, Idx
<1>9. Ring[n] \in Server /\ Ring[n] # s
  BY <1>0, <1>1, <1>4, <1>7
<1>10. Idx(Ring[n]) = n
  BY <1>0, <1>1, <1>7 DEF Idx
<1> QED BY <1>0, <1>a, <1>3, <1>4, <1>6, <1>8, <1>9, <1>10

LEMMA AheadIs ==
  ASSUME NEW m \in Server, NEW d \in Server, NEW t \in Server, m # t
  PROVE  /\ Ahead(m, NextOf(m), t) /\ ~Ahead(m, m, t)
         /\ d # m /\ Ahead(m, NextOf(d), t) => Ahead(m, d, t) /\ d # t
<1>1. /\ Len(Ring) \in Nat /\ Idx(m) \in 1 .. Len(Ring) /\ Idx(d) \in 1 .. Len(Ring)
      /\ Idx(t) \in 1 .. Len(Ring) /\ Idx(t) # Idx(m) /\ (d # m => Idx(d) # Idx(m))
  BY RingIs
<1>2. /\ Idx(NextOf(d)) = IF Idx(d) < Len(Ring) THEN Idx(d) + 1 ELSE 1
      /\ Idx(NextOf(m)) = IF Idx(m) < Len(Ring) THEN Idx(m) + 1 ELSE 1
  BY RingIs
<1>3. Pos(m, m) = Len(Ring) /\ Pos(m, t) \in 1 .. Len(Ring) - 1
  BY <1>1 DEF Pos
<1>4. Pos(m, NextOf(m)) = 1
  BY <1>1, <1>2 DEF Pos
<1>5. d # m => Pos(m, NextOf(d)) = Pos(m, d) + 1 /\ Pos(m, d) \in 1 .. Len(Ring)
  BY <1>1, <1>2 DEF Pos
<1> QED BY <1>1, <1>3, <1>4, <1>5 DEF Ahead

-----------------------------------------------------------------------------
(* Queues.                                                                 *)

\* Element p is at position i of the queue q.
Has(q, i, p) == i \in 1 .. Len(q) /\ q[i] = p

LEMMA HasIs ==
  ASSUME NEW S, NEW q \in Seq(S)
  PROVE  /\ Len(q) \in Nat
         /\ \A i, p : Has(q, i, p) => p \in S /\ i \in Nat /\ i >= 1 /\ i # Len(q) + 1
         /\ \A i, p, r : Has(q, i, p) /\ Has(q, i, r) => p = r
<1>1. Len(q) \in Nat /\ \A i \in 1 .. Len(q) : q[i] \in S
  BY LenProperties, ElementOfSeq
<1> QED BY <1>1 DEF Has

LEMMA HasAppend ==
  ASSUME NEW S, NEW q \in Seq(S), NEW e \in S
  PROVE  /\ Append(q, e) \in Seq(S)
         /\ \A i, p : Has(Append(q, e), i, p) <=> Has(q, i, p) \/ (i = Len(q) + 1 /\ p = e)
<1>1. /\ Append(q, e) \in Seq(S) /\ Len(Append(q, e)) = Len(q) + 1 /\ Len(q) \in Nat
      /\ \A i \in 1 .. Len(q) : Append(q, e)[i] = q[i]
      /\ Append(q, e)[Len(q) + 1] = e
  BY AppendProperties, LenProperties
<1>2. ASSUME NEW i, NEW p
      PROVE  Has(Append(q, e), i, p) <=> Has(q, i, p) \/ (i = Len(q) + 1 /\ p = e)
  <2>1. i \in 1 .. Len(q) + 1 <=> i \in 1 .. Len(q) \/ i = Len(q) + 1
    BY <1>1
  <2>2. i \in 1 .. Len(q) => i # Len(q) + 1
    BY <1>1
  <2> QED BY <1>1, <2>1, <2>2 DEF Has
<1> QED BY <1>1, <1>2

LEMMA HasTail ==
  ASSUME NEW S, NEW q \in Seq(S), q # << >>
  PROVE  /\ Tail(q) \in Seq(S) /\ Head(q) \in S /\ Has(q, 1, Head(q))
         /\ \A i, p : Has(Tail(q), i, p) => i \in Nat /\ Has(q, i + 1, p)
<1>1. /\ Head(q) = q[1] /\ Head(q) \in S /\ Len(q) \in Nat /\ Len(q) >= 1
      /\ Tail(q) \in Seq(S) /\ Len(Tail(q)) = Len(q) - 1
      /\ \A i \in 1 .. Len(q) - 1 : Tail(q)[i] = q[i + 1]
  BY HeadTailProperties, EmptySeq, LenProperties
<1>2. ASSUME NEW i, NEW p, Has(Tail(q), i, p)
      PROVE  i \in Nat /\ Has(q, i + 1, p)
  <2>1. i \in 1 .. Len(q) - 1
    BY <1>1, <1>2 DEF Has
  <2>2. i \in Nat /\ i + 1 \in 1 .. Len(q)
    BY <1>1, <2>1
  <2> QED BY <1>1, <1>2, <2>1, <2>2 DEF Has
<1> QED BY <1>1, <1>2 DEF Has

\* One message more, or one less, in one of the queues of f.
More(f, d, e) == [f EXCEPT ![d] = Append(@, e)]
Less(f, d)    == [f EXCEPT ![d] = Tail(@)]
Fresh(f, d, e, z, i, p) == z = d /\ i = Len(f[d]) + 1 /\ p = e

LEMMA QueueSent ==
  ASSUME NEW S, NEW D, NEW f \in [D -> Seq(S)], NEW d \in D, NEW e \in S
  PROVE  /\ More(f, d, e) \in [D -> Seq(S)]
         /\ \A z \in D : \A i, p :
              Has(More(f, d, e)[z], i, p) =>
                Has(f[z], i, p) \/ Fresh(f, d, e, z, i, p)
<1>0. PICK g : g = More(f, d, e)
  OBVIOUS
<1>1. f[d] \in Seq(S)
  OBVIOUS
<1>2. /\ Append(f[d], e) \in Seq(S)
      /\ \A i, p : Has(Append(f[d], e), i, p) <=> Has(f[d], i, p) \/ (i = Len(f[d]) + 1 /\ p = e)
  BY <1>1, HasAppend
<1>3. g[d] = Append(f[d], e) /\ \A z \in D : z # d => g[z] = f[z]
  BY <1>0 DEF More
<1>4. g \in [D -> Seq(S)]
  BY <1>0, <1>2 DEF More
<1>5. ASSUME NEW z \in D, NEW i, NEW p
      PROVE  Has(g[z], i, p) => Has(f[z], i, p) \/ Fresh(f, d, e, z, i, p)
  <2>1. CASE z = d
    BY <1>2, <1>3, <2>1 DEF Fresh
  <2>2. CASE z # d
    BY <1>3, <2>2
  <2> QED BY <2>1, <2>2
<1> QED BY <1>0, <1>4, <1>5

LEMMA QueueTaken ==
  ASSUME NEW S, NEW D, NEW f \in [D -> Seq(S)], NEW d \in D, f[d] # << >>
  PROVE  /\ Less(f, d) \in [D -> Seq(S)] /\ Head(f[d]) \in S /\ Has(f[d], 1, Head(f[d]))
         /\ \A z \in D : \A i, p :
              Has(Less(f, d)[z], i, p) => i \in Nat /\ Has(f[z], IF z = d THEN i + 1 ELSE i, p)
<1>0. PICK g : g = Less(f, d)
  OBVIOUS
<1>1. f[d] \in Seq(S)
  OBVIOUS
<1>2. /\ Tail(f[d]) \in Seq(S) /\ Head(f[d]) \in S /\ Has(f[d], 1, Head(f[d]))
      /\ \A i, p : Has(Tail(f[d]), i, p) => i \in Nat /\ Has(f[d], i + 1, p)
  BY <1>1, HasTail
<1>3. g[d] = Tail(f[d]) /\ \A z \in D : z # d => g[z] = f[z]
  BY <1>0 DEF Less
<1>4. g \in [D -> Seq(S)]
  BY <1>0, <1>2 DEF Less
<1>5. ASSUME NEW z \in D, NEW i, NEW p, Has(g[z], i, p)
      PROVE  i \in Nat /\ Has(f[z], IF z = d THEN i + 1 ELSE i, p)
  <2>1. CASE z = d
    BY <1>2, <1>3, <1>5, <2>1
  <2>2. CASE z # d
    <3>1. f[z] \in Seq(S) /\ Has(f[z], i, p)
      BY <1>3, <1>5, <2>2
    <3> QED BY <2>2, <3>1, HasIs
  <2> QED BY <2>1, <2>2
<1> QED BY <1>0, <1>2, <1>4, <1>5

-----------------------------------------------------------------------------
(* Messages.                                                               *)

LEMMA PacketIs ==
  ASSUME NEW p \in Packet
  PROVE  /\ p.type = "REQ" => p.dept \in Merger /\ p.round \in Run /\ p.map \in [Target -> Flag]
         /\ p.type = "RES" => p.round \in Run /\ p.datum \in Datum
         /\ p.type = "RESULT" => p.round \in Run /\ p.result \in Outcomes
         /\ p.type = "ABORT" => p.dept \in Merger
BY DEF Packet

LEMMA UpIs ==
  ASSUME NEW p \in UpMsg
  PROVE  /\ p.type = "RES" => p.to \in Merger /\ p.round \in Run /\ p.datum \in Datum
         /\ p.type = "RESULT" => p.to \in Merger /\ p.round \in Run /\ p.result \in Outcomes
BY DEF UpMsg

LEMMA DownIs ==
  ASSUME NEW p \in DownMsg
  PROVE  p.type = "REQ" => p.param \in Par /\ p = ReqMsg(p.param)
BY DEF DownMsg, ReqMsg

LEMMA ParIs ==
  ASSUME NEW x \in Par
  PROVE  x # NoParam /\ x = <<x[1], x[2]>> /\ x[1] \in Merger /\ x[2] \in Run
BY DEF Par, Run, NoParam

LEMMA Built ==
  /\ GetLastTs \in DownMsg /\ AbortMsg \in DownMsg /\ ResLastTs \in UpMsg
  /\ \A par \in Par : ReqMsg(par) \in DownMsg
  /\ \A k \in Datum : SetMsg(k) \in DownMsg
  /\ \A par \in Par : \A k \in Datum : Resp(par, k) \in UpMsg
  /\ \A par \in Par : \A good \in BOOLEAN : Res(par, good) \in UpMsg
  /\ \A m \in Merger : AbortPacket(m) \in Packet
<1>1. /\ GetLastTs \in DownMsg /\ AbortMsg \in DownMsg /\ ResLastTs \in UpMsg
      /\ \A par \in Par : ReqMsg(par) \in DownMsg
      /\ \A k \in Datum : SetMsg(k) \in DownMsg
  BY DEF DownMsg, UpMsg, GetLastTs, AbortMsg, ResLastTs, ReqMsg, SetMsg
<1>2. ASSUME NEW par \in Par
      PROVE  par[1] \in Merger /\ par[2] \in Run
  BY DEF Par
<1>3. \A par \in Par : \A k \in Datum : Resp(par, k) \in UpMsg
  BY <1>2 DEF UpMsg, Resp
<1>4. \A par \in Par : \A good \in BOOLEAN : Res(par, good) \in UpMsg
  BY <1>2 DEF UpMsg, Res, Outcomes
<1>5. \A m \in Merger : AbortPacket(m) \in Packet
  BY DEF Packet, AbortPacket
<1> QED BY <1>1, <1>3, <1>4, <1>5

LEMMA Forwarded ==
  ASSUME NEW p \in UpMsg
  PROVE  /\ p.type = "RES" => ResPacket(p) \in Packet
         /\ p.type = "RESULT" => ResultPacket(p) \in Packet
BY UpIs DEF Packet, ResPacket, ResultPacket

LEMMA Entered ==
  ASSUME NEW p \in Packet, p.type = "REQ", NEW d \in Target
  PROVE  /\ [p EXCEPT !.map[d] = OwnFlag(d)] \in Packet
         /\ [p EXCEPT !.map[d] = OwnFlag(d)].type = "REQ"
         /\ [p EXCEPT !.map[d] = OwnFlag(d)].dept = p.dept
         /\ [p EXCEPT !.map[d] = OwnFlag(d)].round = p.round
<1>1. OwnFlag(d) \in Flag
  BY DEF OwnFlag, Flag, Result
<1>2. p \in [type : {"REQ"}, dept : Merger, round : Run, map : [Target -> Flag]]
  BY DEF Packet
<1>3. [p EXCEPT !.map[d] = OwnFlag(d)] = [p EXCEPT !.map = [p.map EXCEPT ![d] = OwnFlag(d)]]
  BY <1>2
<1>4. [p.map EXCEPT ![d] = OwnFlag(d)] \in [Target -> Flag]
  BY <1>1, <1>2
<1>5. [p EXCEPT !.map = [p.map EXCEPT ![d] = OwnFlag(d)]] \in
        [type : {"REQ"}, dept : Merger, round : Run, map : [Target -> Flag]]
  BY <1>2, <1>4
<1> QED BY <1>2, <1>3, <1>5 DEF Packet

LEMMA Requested ==
  ASSUME Types, NEW m \in Merger
  PROVE  RunOf(m) \in Run /\ ReqPacket(m) \in Packet
<1>1. wk[m] \in WorkerType /\ WorkerOK(m) /\ idmap[m] \in [Target -> Flag]
  BY DEF Types
<1>2. RunOf(m) \in Run
  BY <1>1 DEF WorkerType, WorkerOK, RunOf, Run
<1> QED BY <1>1, <1>2 DEF Packet, ReqPacket

LEMMA Servers ==
  /\ Merger \subseteq Server /\ Target \subseteq Server
  /\ \A m \in Merger, t \in Target : m # t
  /\ \A s \in Server : s \in Merger \/ s \in Target
  /\ MaxDatum \in Nat /\ MaxRound \in Nat
  /\ \A s \in Server : NextOf(s) \in Server /\ NextOf(s) # s
BY MergeAssumption, RingIs DEF Target

-----------------------------------------------------------------------------
(* The queues after a step.                                                *)

LEMMA WireIs ==
  /\ \A s, d, p : Sent(s, d, p) = More(wire, <<s, d>>, p)
  /\ \A s, d : Taken(s, d) = Less(wire, <<s, d>>)
  /\ \A s, p : ToClient(s, p) = More(down, s, p)
  /\ \A s : Read(s) = Less(down, s)
BY DEF Sent, Taken, ToClient, Read, More, Less

LEMMA PassedIs ==
  ASSUME Types, NEW s \in Server, NEW d \in Server, NEW p
  PROVE  Passed(s, d, p) = More(Less(wire, <<s, d>>), <<d, NextOf(d)>>, p)
<1>0. PICK n \in Server : n = NextOf(d) /\ n # d
  BY Servers
<1>1. PICK y, x : y = <<s, d>> /\ x = <<d, n>>
  OBVIOUS
<1>a. y # x
  BY <1>0, <1>1
<1>2. DOMAIN wire = Server \X Server
  BY DEF Types
<1>3. Passed(s, d, p) = [wire EXCEPT ![y] = Tail(@), ![x] = Append(@, p)]
  BY <1>0, <1>1 DEF Passed
<1>4. Passed(s, d, p) = More(Less(wire, y), x, p)
  <2>1. y \in Server \X Server /\ x \in Server \X Server
    BY <1>1
  <2> QED BY <1>a, <1>1, <1>2, <1>3, <2>1 DEF More, Less
<1> QED BY <1>0, <1>1, <1>4

-----------------------------------------------------------------------------
(* Types are kept.                                                         *)

WireType == wire \in [Server \X Server -> Seq(Packet)]
DownType == down \in [Server -> Seq(DownMsg)]
UpType   == up \in [Server -> [Box -> Seq(UpMsg)]]

LEMMA SentTypes ==
  ASSUME Types
  PROVE  /\ \A s, d \in Server, p \in Packet : Sent(s, d, p) \in [Server \X Server -> Seq(Packet)]
         /\ \A s \in Server, p \in DownMsg : ToClient(s, p) \in [Server -> Seq(DownMsg)]
         /\ \A s \in Server, b \in Box, p \in UpMsg :
              ToChmpx(s, b, p) \in [Server -> [Box -> Seq(UpMsg)]]
<1>0. WireType /\ DownType /\ UpType
  BY DEF Types, WireType, DownType, UpType
<1>1. ASSUME NEW s \in Server, NEW d \in Server, NEW p \in Packet
      PROVE  Sent(s, d, p) \in [Server \X Server -> Seq(Packet)]
  BY <1>0, WireIs, QueueSent DEF WireType
<1>2. ASSUME NEW s \in Server, NEW p \in DownMsg
      PROVE  ToClient(s, p) \in [Server -> Seq(DownMsg)]
  BY <1>0, WireIs, QueueSent DEF DownType
<1>3. ASSUME NEW s \in Server, NEW b \in Box, NEW p \in UpMsg
      PROVE  ToChmpx(s, b, p) \in [Server -> [Box -> Seq(UpMsg)]]
  <2>1. up[s] \in [Box -> Seq(UpMsg)] /\ ToChmpx(s, b, p) = [up EXCEPT ![s] = More(up[s], b, p)]
    BY <1>0 DEF UpType, ToChmpx, More
  <2>2. More(up[s], b, p) \in [Box -> Seq(UpMsg)]
    BY <2>1, QueueSent
  <2> QED BY <1>0, <2>1, <2>2 DEF UpType
<1> QED BY <1>1, <1>2, <1>3

LEMMA TakenTypes ==
  ASSUME Types
  PROVE  /\ \A s, d \in Server : wire[<<s, d>>] # << >> =>
              Taken(s, d) \in [Server \X Server -> Seq(Packet)] /\ Head(wire[<<s, d>>]) \in Packet
         /\ \A s \in Server : down[s] # << >> =>
              Read(s) \in [Server -> Seq(DownMsg)] /\ Head(down[s]) \in DownMsg
         /\ \A s \in Server, b \in Box : up[s][b] # << >> =>
              /\ [up EXCEPT ![s][b] = Tail(@)] \in [Server -> [Box -> Seq(UpMsg)]]
              /\ Head(up[s][b]) \in UpMsg
         /\ \A s, d \in Server, p \in Packet : wire[<<s, d>>] # << >> =>
              Passed(s, d, p) \in [Server \X Server -> Seq(Packet)]
<1>0. WireType /\ DownType /\ UpType
  BY DEF Types, WireType, DownType, UpType
<1>1. ASSUME NEW s \in Server, NEW d \in Server, wire[<<s, d>>] # << >>
      PROVE  Less(wire, <<s, d>>) \in [Server \X Server -> Seq(Packet)] /\ Head(wire[<<s, d>>]) \in Packet
  BY <1>0, <1>1, QueueTaken DEF WireType
<1>2. ASSUME NEW s \in Server, down[s] # << >>
      PROVE  Read(s) \in [Server -> Seq(DownMsg)] /\ Head(down[s]) \in DownMsg
  BY <1>0, <1>2, WireIs, QueueTaken DEF DownType
<1>3. ASSUME NEW s \in Server, NEW b \in Box, up[s][b] # << >>
      PROVE  [up EXCEPT ![s][b] = Tail(@)] \in [Server -> [Box -> Seq(UpMsg)]] /\ Head(up[s][b]) \in UpMsg
  <2>1. /\ up[s] \in [Box -> Seq(UpMsg)]
        /\ [up EXCEPT ![s][b] = Tail(@)] = [up EXCEPT ![s] = Less(up[s], b)]
    BY <1>0 DEF UpType, Less
  <2>2. Less(up[s], b) \in [Box -> Seq(UpMsg)] /\ Head(up[s][b]) \in UpMsg
    BY <1>3, <2>1, QueueTaken
  <2> QED BY <1>0, <2>1, <2>2 DEF UpType
<1>4. ASSUME NEW s \in Server, NEW d \in Server, NEW p \in Packet, wire[<<s, d>>] # << >>
      PROVE  Passed(s, d, p) \in [Server \X Server -> Seq(Packet)]
  <2>1. NextOf(d) \in Server
    BY Servers
  <2>2. Less(wire, <<s, d>>) \in [Server \X Server -> Seq(Packet)]
    BY <1>1, <1>4
  <2>3. PICK x \in Server \X Server, v \in [Server \X Server -> Seq(Packet)] :
          x = <<d, NextOf(d)>> /\ v = Less(wire, <<s, d>>)
    BY <2>1, <2>2
  <2>4. More(v, x, p) \in [Server \X Server -> Seq(Packet)]
    BY QueueSent
  <2> QED BY <2>3, <2>4, PassedIs
<1> QED BY <1>1, <1>2, <1>3, <1>4, WireIs

\* What a step may leave alone.
Workers == wk \in [Merger -> WorkerType] /\ \A m \in Merger : WorkerOK(m)
Clients == cl \in [Target -> ClientType]
Threads == th \in [Target -> ThreadType] /\ \A t \in Target : ThreadOK(t)
Maps    == idmap \in [Merger -> [Target -> Flag]]
Copies  == copied \in [Merger -> SUBSET (Target \X Datum)]

LEMMA TypesParts ==
  Types <=> WireType /\ DownType /\ UpType /\ Workers /\ Clients /\ Threads /\ Maps /\ Copies
BY DEF Types, WireType, DownType, UpType, Workers, Clients, Threads, Maps, Copies

LEMMA TypesNext ==
  WireType' /\ DownType' /\ UpType' /\ Workers' /\ Clients' /\ Threads' /\ Maps' /\ Copies' => Types'
BY DEF Types, WireType, DownType, UpType, Workers, Clients, Threads, Maps, Copies

LEMMA WorkerTypes ==
  ASSUME Types, NEW m \in Merger, MergeStart(m) \/ WorkerStep(m)
  PROVE  Types'
<1>0. /\ WireType /\ DownType /\ UpType /\ Workers /\ Clients /\ Threads /\ Maps /\ Copies
      /\ m \in Server /\ wk[m] \in WorkerType /\ WorkerOK(m) /\ wk \in [Merger -> WorkerType]
  BY TypesParts, Servers DEF Workers
<1>1. (up' = up => UpType') /\ (cl' = cl => Clients') /\ (th' = th => Threads')
      /\ (wire' = wire => WireType') /\ (down' = down => DownType')
      /\ (idmap' = idmap => Maps') /\ (copied' = copied => Copies')
  BY <1>0 DEF UpType, Clients, Threads, ThreadOK, WireType, DownType, Maps, Copies
<1>2. ASSUME NEW r \in WorkerType, wk' = [wk EXCEPT ![m] = r], r.calls <= r.round,
             r.pc # "sleep" => r.calls > 0
      PROVE  Workers'
  <2>1. wk' \in [Merger -> WorkerType] /\ wk'[m] = r /\ \A n \in Merger : n # m => wk'[n] = wk[n]
    BY <1>0, <1>2
  <2>2. \A n \in Merger : WorkerOK(n)
    BY <1>0 DEF Workers
  <2>3. \A n \in Merger : WorkerOK(n)'
    BY <1>2, <2>1, <2>2 DEF WorkerOK
  <2> QED BY <2>1, <2>3 DEF Workers
<1>3. ASSUME NEW run \in BOOLEAN, wk' = Returned(m, run), wk[m].pc # "sleep" \/ wk[m].calls > 0
      PROVE  Workers'
  <2>1. PICK r : r = [wk[m] EXCEPT !.pc = "sleep", !.run = run, !.calls = @ - 1, !.pres = FALSE, !.notify = TRUE]
    OBVIOUS
  <2>2. wk' = [wk EXCEPT ![m] = r]
    BY <1>0, <1>3, <2>1 DEF Returned
  <2>3. wk[m].calls - 1 \in Nat /\ wk[m].calls - 1 <= wk[m].round
    BY <1>0, <1>3 DEF WorkerType, WorkerOK
  <2>4. r \in WorkerType /\ r.calls = wk[m].calls - 1 /\ r.round = wk[m].round /\ r.pc = "sleep"
    BY <1>0, <2>1, <2>3 DEF WorkerType
  <2> QED BY <1>2, <2>2, <2>3, <2>4
<1>4. CASE MergeStart(m)
  <2>1. PICK r : r = [wk[m] EXCEPT !.run = TRUE, !.calls = @ + 1, !.round = @ + 1]
    OBVIOUS
  <2>2. wk' = [wk EXCEPT ![m] = r]
    BY <1>0, <1>4, <2>1 DEF MergeStart
  <2>a. /\ wk[m].calls + 1 \in Nat /\ wk[m].round + 1 \in Nat /\ wk[m].calls + 1 > 0
        /\ wk[m].calls + 1 <= wk[m].round + 1
    BY <1>0 DEF WorkerType, WorkerOK
  <2>b. r \in WorkerType /\ r.calls = wk[m].calls + 1 /\ r.round = wk[m].round + 1
    BY <1>0, <2>1, <2>a DEF WorkerType
  <2>3. r \in WorkerType /\ r.calls <= r.round /\ (r.pc # "sleep" => r.calls > 0)
    BY <2>a, <2>b
  <2>4. Workers'
    BY <1>2, <2>2, <2>3
  <2>5. Maps' /\ Copies'
    BY <1>0, <1>4 DEF MergeStart, Maps, Copies, Flag, Inival
  <2> QED BY <1>0, <1>1, <1>4, <2>4, <2>5, TypesNext DEF MergeStart
<1>5. CASE AskLastTime(m)
  <2>1. DownType'
    <3>1. down' = down \/ down' = ToClient(m, GetLastTs)
      BY <1>5 DEF AskLastTime
    <3>2. ToClient(m, GetLastTs) \in [Server -> Seq(DownMsg)]
      BY <1>0, SentTypes, Built
    <3> QED BY <1>1, <3>1, <3>2 DEF DownType
  <2>2. Workers'
    <3>1. CASE m \in Clientless
      BY <1>3, <1>5, <3>1 DEF AskLastTime
    <3>2. CASE m \notin Clientless
      <4>1. PICK r : r = [wk[m] EXCEPT !.pc = "asked", !.of = wk[m].round, !.answered = FALSE]
        OBVIOUS
      <4>2. wk' = [wk EXCEPT ![m] = r]
        BY <1>0, <1>5, <3>2, <4>1 DEF AskLastTime
      <4>3. r \in WorkerType /\ r.calls <= r.round /\ (r.pc # "sleep" => r.calls > 0)
        BY <1>0, <1>5, <4>1 DEF WorkerType, WorkerOK, AskLastTime
      <4> QED BY <1>2, <4>2, <4>3
    <3> QED BY <3>1, <3>2
  <2> QED BY <1>0, <1>1, <1>5, <2>1, <2>2, TypesNext DEF AskLastTime
<1>6. CASE ResetNotify(m)
  <2>1. PICK r : r = [wk[m] EXCEPT !.pc = "lasttime", !.notify = FALSE, !.pres = TRUE]
    OBVIOUS
  <2>2. wk' = [wk EXCEPT ![m] = r]
    BY <1>0, <1>6, <2>1 DEF ResetNotify
  <2>3. r \in WorkerType /\ r.calls <= r.round /\ (r.pc # "sleep" => r.calls > 0)
    BY <1>0, <1>6, <2>1 DEF WorkerType, WorkerOK, ResetNotify
  <2>4. Workers'
    BY <1>2, <2>2, <2>3
  <2> QED BY <1>0, <1>1, <1>6, <2>4, TypesNext DEF ResetNotify
<1>7. CASE SendReqUpdateData(m)
  <2>1. PICK r : r = [wk[m] EXCEPT !.pc = "wait", !.pres = FALSE]
    OBVIOUS
  <2>2. wk' = [wk EXCEPT ![m] = r]
    BY <1>0, <1>7, <2>1 DEF SendReqUpdateData
  <2>3. r \in WorkerType /\ r.calls <= r.round /\ (r.pc # "sleep" => r.calls > 0)
    BY <1>0, <1>7, <2>1 DEF WorkerType, WorkerOK, SendReqUpdateData
  <2>4. Workers'
    BY <1>2, <2>2, <2>3
  <2>5. WireType'
    <3>1. wire' = Sent(m, NextOf(m), ReqPacket(m))
      BY <1>7 DEF SendReqUpdateData
    <3>2. NextOf(m) \in Server /\ ReqPacket(m) \in Packet
      BY <1>0, Requested, Servers
    <3>3. Sent(m, NextOf(m), ReqPacket(m)) \in [Server \X Server -> Seq(Packet)]
      BY <1>0, <3>2, SentTypes
    <3> QED BY <3>1, <3>3 DEF WireType
  <2> QED BY <1>0, <1>1, <1>7, <2>4, <2>5, TypesNext DEF SendReqUpdateData
<1>8. CASE LastTimeTimeout(m) \/ WorkerDone(m) \/ WorkerStopped(m)
  <2>1. Workers'
    BY <1>3, <1>8 DEF LastTimeTimeout, WorkerDone, WorkerStopped
  <2> QED BY <1>0, <1>1, <1>8, <2>1, TypesNext DEF LastTimeTimeout, WorkerDone, WorkerStopped
<1> QED BY <1>4, <1>5, <1>6, <1>7, <1>8 DEF WorkerStep

LEMMA Frame ==
  ASSUME Types
  PROVE  /\ WireType /\ DownType /\ UpType /\ Workers /\ Clients /\ Threads /\ Maps /\ Copies
         /\ (up' = up => UpType') /\ (cl' = cl => Clients') /\ (th' = th => Threads')
         /\ (wire' = wire => WireType') /\ (down' = down => DownType') /\ (wk' = wk => Workers')
         /\ (idmap' = idmap => Maps') /\ (copied' = copied => Copies')
BY TypesParts
DEF UpType, Clients, Threads, ThreadOK, WireType, DownType, Maps, Copies, Workers, WorkerOK

LEMMA SocketTypes ==
  ASSUME Types, NEW s \in Server, NEW d \in Server, SocketStep(s, d)
  PROVE  Types'
<1>0. PICK p : p = Head(wire[<<s, d>>])
  OBVIOUS
<1>1. wire[<<s, d>>] # << >>
  BY DEF SocketStep, ReceiveReqBack, ReceiveReqPass, ReceiveResUpdateData,
         ReceiveResultUpdateData, MergeAbort
<1>2. p \in Packet /\ Taken(s, d) \in [Server \X Server -> Seq(Packet)]
  BY <1>0, <1>1, TakenTypes
<1>3. CASE d \in Merger /\ ReceiveReqBack(s, d)
  <2>1. p.type = "REQ" /\ wire' = Taken(s, d) /\ idmap' = [idmap EXCEPT ![d] = MergedMap(d, p.map)]
    BY <1>0, <1>3 DEF ReceiveReqBack
  <2>2. p.map \in [Target -> Flag] /\ idmap \in [Merger -> [Target -> Flag]]
    BY <1>2, <2>1, PacketIs, Frame DEF Maps
  <2>3. MergedMap(d, p.map) \in [Target -> Flag]
    BY <1>3, <2>2 DEF MergedMap
  <2>4. Maps' /\ WireType'
    BY <1>2, <1>3, <2>1, <2>2, <2>3 DEF Maps, WireType
  <2> QED BY <1>3, <2>4, Frame, TypesNext DEF ReceiveReqBack
<1>4. CASE ReceiveReqPass(s, d)
  <2>1. p.type = "REQ" /\ p.dept \in Merger /\ p.round \in Run
    BY <1>0, <1>2, <1>4, PacketIs DEF ReceiveReqPass
  <2>2. WireType'
    <3>1. CASE d \in Target
      <4>1. wire' = Passed(s, d, [p EXCEPT !.map[d] = OwnFlag(d)])
        BY <1>0, <1>4, <3>1 DEF ReceiveReqPass
      <4>2. [p EXCEPT !.map[d] = OwnFlag(d)] \in Packet
        BY <1>2, <2>1, <3>1, Entered
      <4>3. Passed(s, d, [p EXCEPT !.map[d] = OwnFlag(d)]) \in [Server \X Server -> Seq(Packet)]
        BY <1>1, <4>2, TakenTypes
      <4> QED BY <4>1, <4>3 DEF WireType
    <3>2. CASE d \notin Target
      <4>1. wire' = Passed(s, d, p)
        BY <1>0, <1>4, <3>2 DEF ReceiveReqPass
      <4>2. Passed(s, d, p) \in [Server \X Server -> Seq(Packet)]
        BY <1>1, <1>2, TakenTypes
      <4> QED BY <4>1, <4>2 DEF WireType
    <3> QED BY <3>1, <3>2
  <2>3. DownType'
    <3>1. down' = down \/ down' = ToClient(d, ReqMsg(<<p.dept, p.round>>))
      BY <1>0, <1>4 DEF ReceiveReqPass, MergeRequestUpdateData
    <3>2. ReqMsg(<<p.dept, p.round>>) \in DownMsg
      BY <2>1, Built DEF Par
    <3>3. ToClient(d, ReqMsg(<<p.dept, p.round>>)) \in [Server -> Seq(DownMsg)]
      BY <3>2, SentTypes
    <3> QED BY <3>1, <3>3, Frame DEF DownType
  <2> QED BY <1>4, <2>2, <2>3, Frame, TypesNext DEF ReceiveReqPass
<1>5. CASE d \in Merger /\ s \in Target /\ ReceiveResUpdateData(s, d)
  <2>1. /\ p.type = "RES" /\ wire' = Taken(s, d) /\ down' = ToClient(d, SetMsg(p.datum))
        /\ copied' = [copied EXCEPT ![d] = IF p.round = wk[d].round THEN @ \cup {<<s, p.datum>>} ELSE @]
    BY <1>0, <1>5 DEF ReceiveResUpdateData, MergeSetUpdateData
  <2>2. p.datum \in Datum /\ SetMsg(p.datum) \in DownMsg
    BY <1>2, <2>1, PacketIs, Built
  <2>3. ToClient(d, SetMsg(p.datum)) \in [Server -> Seq(DownMsg)]
    BY <2>2, SentTypes
  <2>4. Copies'
    BY <1>5, <2>1, <2>2, Frame DEF Copies
  <2>5. WireType' /\ DownType'
    BY <1>2, <2>1, <2>3 DEF WireType, DownType
  <2> QED BY <1>5, <2>4, <2>5, Frame, TypesNext DEF ReceiveResUpdateData
<1>6. CASE d \in Merger /\ s \in Target /\ ReceiveResultUpdateData(s, d)
  <2>1. p.type = "RESULT" /\ wire' = Taken(s, d) /\ idmap' = [idmap EXCEPT ![d][s] = p.result]
    BY <1>0, <1>6 DEF ReceiveResultUpdateData
  <2>2. p.result \in Flag
    BY <1>2, <2>1, PacketIs DEF Outcomes, Flag, Result
  <2>3. Maps' /\ WireType'
    BY <1>2, <1>6, <2>1, <2>2, Frame DEF Maps, WireType
  <2> QED BY <1>6, <2>3, Frame, TypesNext DEF ReceiveResultUpdateData
<1>7. CASE MergeAbort(s, d)
  <2>1. wire' = Taken(s, d) \/ wire' = Passed(s, d, p)
    BY <1>0, <1>7 DEF MergeAbort
  <2>2. WireType'
    <3>1. Passed(s, d, p) \in [Server \X Server -> Seq(Packet)]
      BY <1>1, <1>2, TakenTypes
    <3> QED BY <1>2, <2>1, <3>1 DEF WireType
  <2>3. down' = down \/ down' = ToClient(d, AbortMsg)
    BY <1>7 DEF MergeAbort, MergeAbortUpdateData
  <2>4. ToClient(d, AbortMsg) \in [Server -> Seq(DownMsg)]
    BY SentTypes, Built
  <2>5. DownType'
    BY <2>3, <2>4, Frame DEF DownType
  <2>6. wk' = wk \/ (d \in Merger /\ wk' = [wk EXCEPT ![d].run = FALSE])
    BY <1>7 DEF MergeAbort
  <2>7. Workers'
    <3>1. wk \in [Merger -> WorkerType] /\ \A n \in Merger : WorkerOK(n)
      BY Frame DEF Workers
    <3>2. CASE wk' = wk
      BY <3>1, <3>2 DEF Workers, WorkerOK
    <3>3. CASE d \in Merger /\ wk' = [wk EXCEPT ![d].run = FALSE]
      <4>1. PICK r : r = [wk[d] EXCEPT !.run = FALSE]
        OBVIOUS
      <4>2. wk' = [wk EXCEPT ![d] = r] /\ wk[d] \in WorkerType
        BY <3>1, <3>3, <4>1
      <4>3. /\ r \in WorkerType /\ r.pc = wk[d].pc /\ r.calls = wk[d].calls
            /\ r.round = wk[d].round
        BY <4>1, <4>2 DEF WorkerType
      <4>4. /\ wk' \in [Merger -> WorkerType] /\ wk'[d] = r
            /\ \A n \in Merger : n # d => wk'[n] = wk[n]
        BY <3>1, <3>3, <4>2, <4>3
      <4>5. \A n \in Merger : WorkerOK(n)'
        BY <3>1, <3>3, <4>3, <4>4 DEF WorkerOK
      <4> QED BY <4>4, <4>5 DEF Workers
    <3> QED BY <2>6, <3>2, <3>3
  <2> QED BY <1>7, <2>2, <2>5, <2>7, Frame, TypesNext DEF MergeAbort
<1> QED BY <1>3, <1>4, <1>5, <1>6, <1>7 DEF SocketStep

LEMMA AbortTypes ==
  ASSUME Types, NEW s \in Merger, RequestMergeAbort(s)
  PROVE  Types'
<1>1. s \in Server /\ NextOf(s) \in Server /\ AbortPacket(s) \in Packet
  BY Servers, Built
<1>2. wire' = Sent(s, NextOf(s), AbortPacket(s))
  BY DEF RequestMergeAbort
<1>3. Sent(s, NextOf(s), AbortPacket(s)) \in [Server \X Server -> Seq(Packet)]
  BY <1>1, SentTypes
<1>4. WireType'
  BY <1>2, <1>3 DEF WireType
<1> QED BY <1>4, Frame, TypesNext DEF RequestMergeAbort

LEMMA IdleType ==
  ASSUME NEW c \in {"none", "loop", "get", "result", "left", "exit"}, NEW x \in Par \cup {NoParam}
  PROVE  [pc |-> c, cur |-> x, next |-> 1, ok |-> TRUE, heard |-> FALSE] \in ThreadType
<1>1. PICK n : n = 1
  OBVIOUS
<1>2. n \in Nat \ {0}
  BY <1>1
<1>3. [pc |-> c, cur |-> x, next |-> n, ok |-> TRUE, heard |-> FALSE] \in ThreadType
  BY <1>2 DEF ThreadType
<1> QED BY <1>1, <1>3

LEMMA IdleIs ==
  ASSUME NEW c \in {"loop", "left"}, NEW r, r = [IdleThread EXCEPT !.pc = c]
  PROVE  r \in ThreadType /\ r.pc = c /\ r.cur = NoParam
<1>1. PICK x : x = NoParam
  OBVIOUS
<1>2. r = [pc |-> c, cur |-> x, next |-> 1, ok |-> TRUE, heard |-> FALSE]
  BY <1>1 DEF IdleThread
<1>3. x \in Par \cup {NoParam} /\ c \in {"none", "loop", "get", "result", "left", "exit"}
  BY <1>1
<1>4. r \in ThreadType
  <2>1. [pc |-> c, cur |-> x, next |-> 1, ok |-> TRUE, heard |-> FALSE] \in ThreadType
    BY <1>3, IdleType, Zenon
  <2> QED BY <1>2, <2>1, Zenon
<1>5. r.pc = c /\ r.cur = x
  BY <1>2
<1> QED BY <1>1, <1>4, <1>5

LEMMA ChmpxTypes ==
  ASSUME Types, NEW s \in Server, NEW b \in Box, ChmpxStep(s, b)
  PROVE  Types'
<1>0. PICK p : p = Head(up[s][b])
  OBVIOUS
<1>1. up[s][b] # << >>
  BY DEF ChmpxStep, ChmpxLastTime, ChmpxResponse, ChmpxResult
<1>2. p \in UpMsg /\ [up EXCEPT ![s][b] = Tail(@)] \in [Server -> [Box -> Seq(UpMsg)]]
  BY <1>0, <1>1, TakenTypes
<1>3. UpType'
  BY <1>2 DEF UpType, ChmpxStep, ChmpxLastTime, ChmpxResponse, ChmpxResult
<1>4. CASE ChmpxLastTime(s, b)
  <2>1. wk' = [wk EXCEPT ![s].notify = TRUE, ![s].answered = TRUE]
    BY <1>4 DEF ChmpxLastTime
  <2>2. Workers'
    <3>1. wk \in [Merger -> WorkerType] /\ \A n \in Merger : WorkerOK(n)
      BY Frame DEF Workers
    <3>2. CASE wk' = wk
      BY <3>1, <3>2 DEF Workers, WorkerOK
    <3>3. CASE s \in Merger /\ wk' = [wk EXCEPT ![s].notify = TRUE, ![s].answered = TRUE]
      <4>1. PICK r : r = [wk[s] EXCEPT !.notify = TRUE, !.answered = TRUE]
        OBVIOUS
      <4>2. wk' = [wk EXCEPT ![s] = r] /\ wk[s] \in WorkerType
        BY <3>1, <3>3, <4>1
      <4>3. /\ r \in WorkerType /\ r.pc = wk[s].pc /\ r.calls = wk[s].calls
            /\ r.round = wk[s].round
        BY <4>1, <4>2 DEF WorkerType
      <4>4. /\ wk' \in [Merger -> WorkerType] /\ wk'[s] = r
            /\ \A n \in Merger : n # s => wk'[n] = wk[n]
        BY <3>1, <3>3, <4>2, <4>3
      <4>5. \A n \in Merger : WorkerOK(n)'
        BY <3>1, <3>3, <4>3, <4>4 DEF WorkerOK
      <4> QED BY <4>4, <4>5 DEF Workers
    <3>4. CASE s \notin Merger
      <4>1. wk' = wk
        BY <2>1, <3>1, <3>4
      <4> QED BY <3>2, <4>1
    <3> QED BY <2>1, <3>3, <3>4
  <2> QED BY <1>3, <1>4, <2>2, Frame, TypesNext DEF ChmpxLastTime
<1>5. CASE ChmpxResponse(s, b)
  <2>1. p.type = "RES" /\ wire' = Sent(s, p.to, ResPacket(p))
    BY <1>0, <1>5 DEF ChmpxResponse, MergeResponseUpdateData
  <2>2. p.to \in Server /\ ResPacket(p) \in Packet
    BY <1>2, <2>1, UpIs, Forwarded, Servers
  <2>3. Sent(s, p.to, ResPacket(p)) \in [Server \X Server -> Seq(Packet)]
    BY <2>2, SentTypes
  <2>4. WireType'
    BY <2>1, <2>3 DEF WireType
  <2> QED BY <1>3, <1>5, <2>4, Frame, TypesNext DEF ChmpxResponse
<1>6. CASE ChmpxResult(s, b)
  <2>1. p.type = "RESULT" /\ wire' = Sent(s, p.to, ResultPacket(p))
    BY <1>0, <1>6 DEF ChmpxResult, MergeResultUpdateData
  <2>2. p.to \in Server /\ ResultPacket(p) \in Packet
    BY <1>2, <2>1, UpIs, Forwarded, Servers
  <2>3. Sent(s, p.to, ResultPacket(p)) \in [Server \X Server -> Seq(Packet)]
    BY <2>2, SentTypes
  <2>4. WireType'
    BY <2>1, <2>3 DEF WireType
  <2> QED BY <1>3, <1>6, <2>4, Frame, TypesNext DEF ChmpxResult
<1> QED BY <1>4, <1>5, <1>6 DEF ChmpxStep

LEMMA ClientTypes ==
  ASSUME Types, NEW s \in Server, ClientStep(s)
  PROVE  Types'
<1>0. PICK p : p = Head(down[s])
  OBVIOUS
<1>1. CASE s \in Target /\ ClientRunThread(s)
  <2>1. cl' = [cl EXCEPT ![s].check = FALSE]
    BY <1>1 DEF ClientRunThread
  <2>2. PICK r \in ThreadType : r = [IdleThread EXCEPT !.pc = "loop"] /\ r.pc = "loop" /\ r.cur = NoParam
    BY IdleIs
  <2>3. th' = th \/ th' = [th EXCEPT ![s] = r]
    BY <1>1, <2>2 DEF ClientRunThread
  <2>4. Clients'
    BY <1>1, <2>1, Frame DEF Clients, ClientType
  <2>5. Threads'
    BY <1>1, <2>2, <2>3, Frame DEF Threads, ThreadOK
  <2> QED BY <1>1, <2>4, <2>5, Frame, TypesNext DEF ClientRunThread
<1>2. CASE ~(s \in Target /\ ClientRunThread(s))
  <2>1. down[s] # << >> /\ down' = Read(s)
    BY <1>2 DEF ClientStep, ClientLastTime, ClientSet, ClientRequest, ClientAbort
  <2>2. p \in DownMsg /\ Read(s) \in [Server -> Seq(DownMsg)]
    BY <1>0, <2>1, TakenTypes
  <2>3. DownType'
    BY <2>1, <2>2 DEF DownType
  <2>4. CASE \E b \in Box : ClientLastTime(s, b)
    <3>1. PICK b \in Box : up' = ToChmpx(s, b, ResLastTs)
      BY <2>4 DEF ClientLastTime
    <3>2. UpType'
      BY <3>1, SentTypes, Built DEF UpType
    <3> QED BY <2>3, <2>4, <3>2, Frame, TypesNext DEF ClientLastTime
  <2>5. CASE ClientSet(s)
    BY <2>3, <2>5, Frame, TypesNext DEF ClientSet
  <2>6. ASSUME s \in Target, NEW b \in Box, ClientRequest(s, b)
        PROVE  Types'
    <3>1. p.type = "REQ"
      BY <1>0, <2>6 DEF ClientRequest
    <3>2. PICK par \in Par : par = p.param
      BY <2>2, <3>1, DownIs
    <3>3. CASE s \in NoCallback
      <4>1. up' = ToChmpx(s, b, Res(par, TRUE)) /\ cl' = cl
        BY <1>0, <2>6, <3>2, <3>3 DEF ClientRequest
      <4>2. Res(par, TRUE) \in UpMsg
        BY Built
      <4>3. ToChmpx(s, b, Res(par, TRUE)) \in [Server -> [Box -> Seq(UpMsg)]]
        BY <4>2, SentTypes
      <4>4. UpType'
        BY <4>1, <4>3 DEF UpType
      <4> QED BY <2>3, <2>6, <4>1, <4>4, Frame, TypesNext DEF ClientRequest
    <3>4. CASE s \notin NoCallback
      <4>1. cl' = [cl EXCEPT ![s].list = Append(@, par), ![s].notify = TRUE, ![s].check = TRUE] /\ up' = up
        BY <1>0, <2>6, <3>2, <3>4 DEF ClientRequest
      <4>2. cl \in [Target -> ClientType] /\ cl[s] \in ClientType /\ cl[s].list \in Seq(Par)
        BY <2>6, Frame DEF Clients, ClientType
      <4>3. Append(cl[s].list, par) \in Seq(Par)
        BY <4>2, HasAppend
      <4>4. Clients'
        BY <4>1, <4>2, <4>3 DEF Clients, ClientType
      <4> QED BY <2>3, <2>6, <4>1, <4>4, Frame, TypesNext DEF ClientRequest
    <3> QED BY <3>3, <3>4
  <2>7. CASE ClientAbort(s)
    <3>1. CASE UNCHANGED <<cl, th>>
      BY <2>3, <2>7, <3>1, Frame, TypesNext DEF ClientAbort
    <3>2. CASE ~UNCHANGED <<cl, th>>
      <4>1. /\ s \in Target
            /\ cl' = [cl EXCEPT ![s].list = << >>, ![s].notify = FALSE]
            /\ th' = [th EXCEPT ![s].heard = @ \/ th[s].pc \in {"get", "result"}]
        BY <2>7, <3>2 DEF ClientAbort
      <4>2. << >> \in Seq(Par) /\ cl \in [Target -> ClientType] /\ th \in [Target -> ThreadType]
        BY EmptySeq, Frame DEF Clients, Threads
      <4>3. Clients'
        BY <4>1, <4>2 DEF Clients, ClientType
      <4>4. PICK h \in BOOLEAN : h = (th[s].heard \/ th[s].pc \in {"get", "result"})
        OBVIOUS
      <4>5. th' = [th EXCEPT ![s].heard = h]
        BY <4>1, <4>2, <4>4
      <4>6. Threads'
        BY <4>1, <4>2, <4>5, Frame DEF Threads, ThreadType, ThreadOK
      <4> QED BY <2>3, <2>7, <4>3, <4>6, Frame, TypesNext DEF ClientAbort
    <3> QED BY <3>1, <3>2
  <2> QED BY <1>2, <2>4, <2>5, <2>6, <2>7 DEF ClientStep
<1> QED BY <1>1, <1>2

LEMMA ThreadTypes ==
  ASSUME Types, NEW t \in Target, ThreadStep(t)
  PROVE  Types'
<1>0. /\ t \in Server /\ cl \in [Target -> ClientType] /\ cl[t] \in ClientType /\ cl[t].list \in Seq(Par)
      /\ th \in [Target -> ThreadType] /\ th[t] \in ThreadType /\ ThreadOK(t)
      /\ MaxDatum \in Nat
  BY Servers, Frame DEF Clients, ClientType, Threads
<1>1. ASSUME NEW r \in ThreadType, th' = [th EXCEPT ![t] = r],
             r.pc \in {"get", "result"} <=> r.cur # NoParam
      PROVE  Threads'
  BY <1>0, <1>1, Frame DEF Threads, ThreadOK
<1>2. /\ [IdleThread EXCEPT !.pc = "loop"] \in ThreadType /\ [IdleThread EXCEPT !.pc = "left"] \in ThreadType
      /\ [IdleThread EXCEPT !.pc = "loop"].cur = NoParam /\ [IdleThread EXCEPT !.pc = "left"].cur = NoParam
      /\ [IdleThread EXCEPT !.pc = "loop"].pc = "loop" /\ [IdleThread EXCEPT !.pc = "left"].pc = "left"
  BY IdleIs
<1>3. CASE ThreadTake(t)
  <2>1. CASE cl[t].notify /\ cl[t].list # << >>
    <3>1. PICK x \in Par : x = Head(cl[t].list)
      BY <1>0, <2>1, HasTail
    <3>2. PICK r : r = [pc |-> "get", cur |-> x, next |-> 1, ok |-> TRUE, heard |-> FALSE]
      OBVIOUS
    <3>3. th' = [th EXCEPT ![t] = r] /\ cl' = [cl EXCEPT ![t].list = Tail(cl[t].list)]
      BY <1>3, <2>1, <3>1, <3>2 DEF ThreadTake, Rest
    <3>4. x # NoParam
      BY ParIs
    <3>5. Tail(cl[t].list) \in Seq(Par)
      BY <1>0, <2>1, HasTail
    <3>6. Clients'
      BY <1>0, <3>3, <3>5 DEF Clients, ClientType
    <3>7. r \in ThreadType /\ r.pc = "get" /\ r.cur # NoParam
      BY <3>2, <3>4 DEF ThreadType
    <3>8. Threads'
      BY <1>1, <3>3, <3>7
    <3> QED BY <1>3, <3>6, <3>8, Frame, TypesNext DEF ThreadTake
  <2>2. CASE ~(cl[t].notify /\ cl[t].list # << >>)
    <3>1. th' = [th EXCEPT ![t] = [IdleThread EXCEPT !.pc = "left"]] /\ cl' = cl
      BY <1>3, <2>2 DEF ThreadTake
    <3>2. Threads'
      BY <1>1, <1>2, <3>1
    <3> QED BY <1>3, <3>1, <3>2, Frame, TypesNext DEF ThreadTake
  <2> QED BY <2>1, <2>2
<1>4. ASSUME NEW b \in Box, ThreadGet(t, b)
      PROVE  Types'
  <2>1. th[t].next \in Datum /\ th[t].next + 1 \in Nat \ {0} /\ th[t].cur \in Par
    <3>1. th[t].next \in Nat \ {0} /\ th[t].next <= MaxDatum
      BY <1>0, <1>4 DEF ThreadGet, MoreData, ThreadType
    <3>2. th[t].cur \in Par
      BY <1>0, <1>4 DEF ThreadGet, ThreadOK, ThreadType
    <3> QED BY <1>0, <3>1, <3>2 DEF Datum
  <2>2. UpType'
    <3>1. up' = up \/ up' = ToChmpx(t, b, Resp(th[t].cur, th[t].next))
      BY <1>4 DEF ThreadGet
    <3>2. Resp(th[t].cur, th[t].next) \in UpMsg
      BY <2>1, Built
    <3>3. ToChmpx(t, b, Resp(th[t].cur, th[t].next)) \in [Server -> [Box -> Seq(UpMsg)]]
      BY <1>0, <3>2, SentTypes
    <3> QED BY <3>1, <3>3, Frame DEF UpType
  <2>3. PICK r : /\ th' = [th EXCEPT ![t] = r]
                 /\ \/ r = [th[t] EXCEPT !.next = @ + 1]
                    \/ r = [th[t] EXCEPT !.next = @ + 1, !.ok = FALSE]
    BY <1>0, <1>4 DEF ThreadGet
  <2>4. r \in ThreadType /\ r.pc = th[t].pc /\ r.cur = th[t].cur
    BY <1>0, <2>1, <2>3 DEF ThreadType
  <2>5. Threads'
    BY <1>0, <1>1, <2>3, <2>4 DEF ThreadOK
  <2> QED BY <1>4, <2>2, <2>5, Frame, TypesNext DEF ThreadGet
<1>5. CASE ThreadEnough(t)
  <2>1. PICK r : /\ th' = [th EXCEPT ![t] = r]
                 /\ r = [th[t] EXCEPT !.pc = "result"] \/ r = [th[t] EXCEPT !.pc = "result", !.ok = FALSE]
    BY <1>0, <1>5 DEF ThreadEnough
  <2>2. r \in ThreadType /\ r.pc = "result" /\ r.cur = th[t].cur
    BY <1>0, <2>1 DEF ThreadType
  <2>3. th[t].cur # NoParam
    BY <1>0, <1>5 DEF ThreadEnough, ThreadOK
  <2>4. Threads'
    BY <1>1, <2>1, <2>2, <2>3
  <2> QED BY <1>5, <2>4, Frame, TypesNext DEF ThreadEnough
<1>6. ASSUME NEW b \in Box, ThreadResult(t, b)
      PROVE  Types'
  <2>1. th[t].cur \in Par /\ Outcome(t) \in BOOLEAN
    BY <1>0, <1>6 DEF ThreadResult, ThreadOK, ThreadType, Outcome
  <2>2. UpType'
    <3>1. up' = up \/ up' = ToChmpx(t, b, Res(th[t].cur, Outcome(t)))
      BY <1>6 DEF ThreadResult
    <3>2. Res(th[t].cur, Outcome(t)) \in UpMsg
      BY <2>1, Built
    <3>3. ToChmpx(t, b, Res(th[t].cur, Outcome(t))) \in [Server -> [Box -> Seq(UpMsg)]]
      BY <1>0, <3>2, SentTypes
    <3> QED BY <3>1, <3>3, Frame DEF UpType
  <2>3. th' = [th EXCEPT ![t] = [IdleThread EXCEPT !.pc = "loop"]]
    BY <1>6 DEF ThreadResult
  <2>4. Threads'
    BY <1>1, <1>2, <2>3
  <2> QED BY <1>6, <2>2, <2>4, Frame, TypesNext DEF ThreadResult
<1>7. CASE ThreadExit(t)
  <2>1. PICK r : th' = [th EXCEPT ![t] = r] /\ r = [th[t] EXCEPT !.pc = "exit"]
    BY <1>0, <1>7 DEF ThreadExit
  <2>2. r \in ThreadType /\ r.pc = "exit" /\ r.cur = th[t].cur /\ th[t].cur = NoParam
    BY <1>0, <1>7, <2>1 DEF ThreadType, ThreadExit, ThreadOK
  <2>3. Threads'
    BY <1>1, <2>1, <2>2
  <2> QED BY <1>7, <2>3, Frame, TypesNext DEF ThreadExit
<1> QED BY <1>3, <1>4, <1>5, <1>6, <1>7 DEF ThreadStep

LEMMA NextTypes == Types /\ [Next]_vars => Types'
<1> SUFFICES ASSUME Types, [Next]_vars PROVE Types'
  OBVIOUS
<1>1. CASE UNCHANGED vars
  BY <1>1, Frame, TypesNext DEF vars
<1>2. ASSUME NEW m \in Merger, MergeStart(m) \/ WorkerStep(m) \/ RequestMergeAbort(m)
      PROVE  Types'
  BY <1>2, WorkerTypes, AbortTypes
<1>3. ASSUME NEW s \in Server, NEW d \in Server, SocketStep(s, d)
      PROVE  Types'
  BY <1>3, SocketTypes
<1>4. ASSUME NEW s \in Server, NEW b \in Box, ChmpxStep(s, b)
      PROVE  Types'
  BY <1>4, ChmpxTypes
<1>5. ASSUME NEW s \in Server, ClientStep(s)
      PROVE  Types'
  BY <1>5, ClientTypes
<1>6. ASSUME NEW t \in Target, ThreadStep(t)
      PROVE  Types'
  BY <1>6, ThreadTypes
<1> QED BY <1>1, <1>2, <1>3, <1>4, <1>5, <1>6 DEF Next

LEMMA InitTypes == Init => Types
<1> SUFFICES ASSUME Init PROVE Types
  OBVIOUS
<1>1. \A S : << >> \in Seq(S)
  BY EmptySeq
<1>2. wire \in [Server \X Server -> Seq(Packet)] /\ down \in [Server -> Seq(DownMsg)]
  BY <1>1 DEF Init
<1>3. up \in [Server -> [Box -> Seq(UpMsg)]]
  BY <1>1 DEF Init
<1>4. wk \in [Merger -> WorkerType] /\ \A m \in Merger : WorkerOK(m)
  BY DEF Init, WorkerType, WorkerOK
<1>5. idmap \in [Merger -> [Target -> Flag]] /\ copied \in [Merger -> SUBSET (Target \X Datum)]
  BY DEF Init, Flag
<1>6. cl \in [Target -> ClientType]
  BY <1>1 DEF Init, ClientType
<1>7. IdleThread \in ThreadType /\ IdleThread.pc = "none" /\ IdleThread.cur = NoParam
  <2>1. PICK x : x = NoParam
    OBVIOUS
  <2>2. [pc |-> "none", cur |-> x, next |-> 1, ok |-> TRUE, heard |-> FALSE] \in ThreadType
    BY <2>1, IdleType
  <2> QED BY <2>1, <2>2 DEF IdleThread
<1>8. th \in [Target -> ThreadType] /\ \A t \in Target : ThreadOK(t)
  BY <1>7 DEF Init, ThreadOK
<1> QED BY <1>2, <1>3, <1>4, <1>5, <1>6, <1>8 DEF Types

-----------------------------------------------------------------------------
(* The places of a request.  From PxComSendReqUpdateData on, request x is  *)
(* at one place only as far as target t is concerned: on the RING with t   *)
(* still ahead, on its way to the client of t, stacked there, in the hands *)
(* of the merge thread, or as a RESULT on its way back, in the queue of    *)
(* the chmpx process or on the socket to the merging server.               *)

IsReq(p, x) == p.type = "REQ" /\ p.dept = x[1] /\ p.round = x[2]

\* Target t hands requests to its client.
Serves(t) == OwnFlag(t) = Do

Carries(z, p, t, x) ==
  \/ IsReq(p, x) /\ Ahead(x[1], z[2], t) /\ Serves(t)
  \/ p.type = "RESULT" /\ p.round = x[2] /\ z[1] = t /\ z[2] = x[1]

RingAt(z, i, t, x) == z \in Server \X Server /\ \E p : Has(wire[z], i, p) /\ Carries(z, p, t, x)
DownAt(i, t, x)    == Has(down[t], i, ReqMsg(x))
ListAt(i, t, x)    == Has(cl[t].list, i, x)
ThreadAt(i, t, x)  == i = 1 /\ th[t].cur = x
UpAt(b, i, t, x)   == b \in Box /\ \E p : Has(up[t][b], i, p) /\ IsResult(p) /\ Answers(p) = x

At(k, z, i, t, x) ==
  /\ i \in Nat \ {0}
  /\ \/ k = "ring" /\ RingAt(z, i, t, x)
     \/ k = "down" /\ z = t /\ DownAt(i, t, x)
     \/ k = "list" /\ z = t /\ ListAt(i, t, x)
     \/ k = "thread" /\ z = t /\ ThreadAt(i, t, x)
     \/ k = "up" /\ UpAt(z, i, t, x)

OnePlace(t, x) ==
  \A k1, k2, z1, z2, i1, i2 :
    At(k1, z1, i1, t, x) /\ At(k2, z2, i2, t, x) => k1 = k2 /\ z1 = z2 /\ i1 = i2

\* The merging server has sent request x.
Asked(x) == \/ x[2] < RunOf(x[1])
            \/ x[2] = RunOf(x[1]) /\ wk[x[1]].pc = "wait"

PlaceOK(t, x) == OnePlace(t, x) /\ \A k, z, i : At(k, z, i, t, x) => Asked(x) /\ Serves(t)
Live(t, x)    == \E k, z, i : At(k, z, i, t, x)

MergeInv == Types /\ \A t \in Target, x \in Par : PlaceOK(t, x)

\* A step takes the first message of queue pz of kind pk, which moves up the others, and
\* adds at most one place: that of the message it took, or of a request just sent.
Shifted(k, z, i, pk, pz) == IF k = pk /\ z = pz THEN i + 1 ELSE i
Added(k, z, i, fk, fz, fi) == k = fk /\ z = fz /\ i = fi

\* The step in which the merging server sends request x.
Opens(x) == ~Asked(x) /\ Asked(x)' /\ wk'[x[1]].pc = "wait"

\* What a step has to show of a request.
Kept(t, x) == PlaceOK(t, x)' /\ (Live(t, x)' => Live(t, x) \/ Opens(x))

\* What a step may do to the places of a request.
Moves(t, x, pk, pz, fk, fz, fi) ==
  \A k, z, i : At(k, z, i, t, x)' =>
    \/ At(k, z, Shifted(k, z, i, pk, pz), t, x)
    \/ Added(k, z, i, fk, fz, fi) /\ (At(pk, pz, 1, t, x) \/ (Opens(x) /\ Serves(t)))

LEMMA PlaceKept ==
  ASSUME NEW t, NEW x, PlaceOK(t, x), Asked(x) => Asked(x)',
         NEW pk, NEW pz, NEW fk, NEW fz, NEW fi, Moves(t, x, pk, pz, fk, fz, fi)
  PROVE  Kept(t, x)
<1>1. ASSUME NEW k, NEW z, NEW i, At(k, z, i, t, x)'
      PROVE  /\ i \in Nat \ {0}
             /\ \/ At(k, z, Shifted(k, z, i, pk, pz), t, x)
                \/ Added(k, z, i, fk, fz, fi) /\ (At(pk, pz, 1, t, x) \/ (Opens(x) /\ Serves(t)))
  BY <1>1 DEF Moves, At
<1>2. ASSUME NEW k, NEW z, NEW i, At(k, z, i, t, x)'
      PROVE  Asked(x)' /\ Serves(t) /\ (Live(t, x) \/ Opens(x))
  BY <1>1, <1>2 DEF PlaceOK, Opens, Live
<1>3. ASSUME NEW k1, NEW k2, NEW z1, NEW z2, NEW i1, NEW i2,
             At(k1, z1, i1, t, x)', At(k2, z2, i2, t, x)',
             At(k1, z1, Shifted(k1, z1, i1, pk, pz), t, x)
      PROVE  k1 = k2 /\ z1 = z2 /\ i1 = i2
  <2>1. Asked(x) /\ i1 \in Nat \ {0} /\ i2 \in Nat \ {0}
    BY <1>1, <1>3 DEF PlaceOK
  <2>2. CASE At(k2, z2, Shifted(k2, z2, i2, pk, pz), t, x)
    <3>1. k1 = k2 /\ z1 = z2 /\ Shifted(k1, z1, i1, pk, pz) = Shifted(k2, z2, i2, pk, pz)
      BY <1>3, <2>2 DEF PlaceOK, OnePlace
    <3> QED BY <2>1, <3>1 DEF Shifted
  <2>3. CASE At(pk, pz, 1, t, x)
    <3>1. k1 = pk /\ z1 = pz /\ Shifted(k1, z1, i1, pk, pz) = 1
      BY <1>3, <2>3 DEF PlaceOK, OnePlace
    <3> QED BY <2>1, <3>1 DEF Shifted
  <2> QED BY <1>1, <1>3, <2>1, <2>2, <2>3 DEF Opens
<1>4. ASSUME NEW k1, NEW k2, NEW z1, NEW z2, NEW i1, NEW i2,
             At(k1, z1, i1, t, x)', At(k2, z2, i2, t, x)'
      PROVE  k1 = k2 /\ z1 = z2 /\ i1 = i2
  <2>1. CASE At(k1, z1, Shifted(k1, z1, i1, pk, pz), t, x)
    BY <1>3, <1>4, <2>1
  <2>2. CASE At(k2, z2, Shifted(k2, z2, i2, pk, pz), t, x)
    BY <1>3, <1>4, <2>2
  <2>3. CASE Added(k1, z1, i1, fk, fz, fi) /\ Added(k2, z2, i2, fk, fz, fi)
    BY <2>3 DEF Added
  <2> QED BY <1>1, <1>4, <2>1, <2>2, <2>3
<1>5. Live(t, x)' => Live(t, x) \/ Opens(x)
  BY <1>2 DEF Live
<1>6. Serves(t)' <=> Serves(t)
  BY DEF Serves
<1>7. PlaceOK(t, x)'
  BY <1>2, <1>4, <1>6 DEF PlaceOK, OnePlace
<1> QED BY <1>5, <1>7 DEF Kept

\* What sending and taking do to the places of a kind.
LEMMA RingSame ==
  ASSUME NEW t, NEW x, wire' = wire
  PROVE  \A z, i : RingAt(z, i, t, x)' => RingAt(z, i, t, x)
BY DEF RingAt

LEMMA RingSent ==
  ASSUME Types, NEW t, NEW x, NEW s \in Server, NEW d \in Server, NEW e \in Packet,
         wire' = Sent(s, d, e), NEW z, NEW i, RingAt(z, i, t, x)'
  PROVE  \/ RingAt(z, i, t, x)
         \/ z = <<s, d>> /\ i = Len(wire[<<s, d>>]) + 1 /\ Carries(z, e, t, x)
<1>1. PICK p : Has(wire'[z], i, p) /\ Carries(z, p, t, x)
  BY DEF RingAt
<1>2. z \in Server \X Server
  BY DEF RingAt
<1>a. PICK v, y : v = wire /\ y = <<s, d>>
  OBVIOUS
<1>3. v = wire /\ y = <<s, d>> /\ y \in Server \X Server
  BY <1>a
<1>4. v \in [Server \X Server -> Seq(Packet)] /\ wire' = More(v, y, e)
  BY <1>3, WireIs, Frame DEF WireType
<1>5. Has(More(v, y, e)[z], i, p)
  BY <1>1, <1>4
<1>6. Has(v[z], i, p) \/ Fresh(v, y, e, z, i, p)
  BY <1>2, <1>3, <1>4, <1>5, QueueSent
<1>7. CASE Has(v[z], i, p)
  BY <1>1, <1>2, <1>3, <1>7 DEF RingAt
<1>8. CASE Fresh(v, y, e, z, i, p)
  BY <1>1, <1>2, <1>3, <1>8 DEF Fresh
<1> QED BY <1>6, <1>7, <1>8

LEMMA RingOther ==
  ASSUME Types, NEW t, NEW x, NEW s \in Server, NEW d \in Server, NEW e \in Packet,
         wire' = Sent(s, d, e), e.type \notin {"REQ", "RESULT"}
  PROVE  \A z, i : RingAt(z, i, t, x)' => RingAt(z, i, t, x)
<1>1. ASSUME NEW z
      PROVE  ~Carries(z, e, t, x)
  BY DEF Carries, IsReq
<1> QED BY <1>1, RingSent

LEMMA RingTaken ==
  ASSUME Types, NEW t, NEW x, NEW s \in Server, NEW d \in Server, wire[<<s, d>>] # << >>,
         wire' = Taken(s, d), NEW z, NEW i, RingAt(z, i, t, x)'
  PROVE  RingAt(z, IF z = <<s, d>> THEN i + 1 ELSE i, t, x)
<1>1. PICK p : Has(wire'[z], i, p) /\ Carries(z, p, t, x)
  BY DEF RingAt
<1>2. z \in Server \X Server
  BY DEF RingAt
<1>a. PICK v, y : v = wire /\ y = <<s, d>>
  OBVIOUS
<1>3. v = wire /\ y = <<s, d>> /\ y \in Server \X Server
  BY <1>a
<1>4. v \in [Server \X Server -> Seq(Packet)] /\ wire' = Less(v, y) /\ v[y] # << >>
  BY <1>3, WireIs, Frame DEF WireType
<1>5. Has(Less(v, y)[z], i, p)
  BY <1>1, <1>4
<1>6. Has(v[z], IF z = y THEN i + 1 ELSE i, p)
  BY <1>2, <1>3, <1>4, <1>5, QueueTaken
<1> QED BY <1>1, <1>2, <1>3, <1>6 DEF RingAt

LEMMA RingPassed ==
  ASSUME Types, NEW t, NEW x, NEW s \in Server, NEW d \in Server, wire[<<s, d>>] # << >>,
         NEW e \in Packet, wire' = Passed(s, d, e), NEW z, NEW i, RingAt(z, i, t, x)'
  PROVE  \/ RingAt(z, IF z = <<s, d>> THEN i + 1 ELSE i, t, x)
         \/ /\ z = <<d, NextOf(d)>> /\ i = Len(wire[<<d, NextOf(d)>>]) + 1
            /\ Carries(z, e, t, x)
<1>1. PICK p : Has(wire'[z], i, p) /\ Carries(z, p, t, x)
  BY DEF RingAt
<1>2. z \in Server \X Server
  BY DEF RingAt
<1>3. NextOf(d) \in Server /\ NextOf(d) # d
  BY Servers
<1>4. PICK v, y, w, n : /\ v = wire /\ y = <<s, d>> /\ w = <<d, n>> /\ n = NextOf(d)
  OBVIOUS
<1>5. y \in Server \X Server /\ w \in Server \X Server /\ y # w
  <2>1. n # d
    BY <1>3, <1>4
  <2> QED BY <1>3, <1>4, <2>1
<1>6. v \in [Server \X Server -> Seq(Packet)] /\ v[y] # << >>
  BY <1>4, Frame DEF WireType
<1>7. wire' = More(Less(v, y), w, e)
  BY <1>4, PassedIs
<1>8. PICK u : u = Less(v, y) /\ u \in [Server \X Server -> Seq(Packet)] /\ u[w] = v[w]
  <2>1. Less(v, y) \in [Server \X Server -> Seq(Packet)]
    BY <1>5, <1>6, QueueTaken
  <2>2. Less(v, y)[w] = v[w]
    BY <1>5, <1>6 DEF Less
  <2> QED BY <2>1, <2>2
<1>9. Has(More(u, w, e)[z], i, p)
  BY <1>1, <1>7, <1>8
<1>10. Has(u[z], i, p) \/ Fresh(u, w, e, z, i, p)
  BY <1>2, <1>5, <1>8, <1>9, QueueSent
<1>11. CASE Has(u[z], i, p)
  <2>1. Has(v[z], IF z = y THEN i + 1 ELSE i, p)
    BY <1>2, <1>5, <1>6, <1>8, <1>11, QueueTaken
  <2> QED BY <1>1, <1>2, <1>4, <2>1 DEF RingAt
<1>12. CASE Fresh(u, w, e, z, i, p)
  <2>1. z = w /\ i = Len(v[w]) + 1 /\ p = e
    BY <1>8, <1>12 DEF Fresh
  <2> QED BY <1>1, <1>2, <1>4, <2>1
<1> QED BY <1>10, <1>11, <1>12

LEMMA DownSame ==
  ASSUME NEW t, NEW x, down' = down
  PROVE  \A i : DownAt(i, t, x)' => DownAt(i, t, x)
BY DEF DownAt

LEMMA DownSent ==
  ASSUME Types, NEW t \in Target, NEW x, NEW s \in Server, NEW e \in DownMsg,
         down' = ToClient(s, e), NEW i, DownAt(i, t, x)'
  PROVE  DownAt(i, t, x) \/ (t = s /\ i = Len(down[s]) + 1 /\ e = ReqMsg(x))
<1>1. down \in [Server -> Seq(DownMsg)] /\ down' = More(down, s, e) /\ t \in Server
  BY WireIs, Frame, Servers DEF DownType
<1>2. Has(down'[t], i, ReqMsg(x))
  BY DEF DownAt
<1>3. Has(More(down, s, e)[t], i, ReqMsg(x))
  BY <1>1, <1>2
<1>4. Has(down[t], i, ReqMsg(x)) \/ Fresh(down, s, e, t, i, ReqMsg(x))
  BY <1>1, <1>3, QueueSent
<1> QED BY <1>4 DEF DownAt, Fresh

LEMMA DownOther ==
  ASSUME Types, NEW t \in Target, NEW x, NEW s \in Server, NEW e \in DownMsg,
         down' = ToClient(s, e), e.type # "REQ"
  PROVE  \A i : DownAt(i, t, x)' => DownAt(i, t, x)
BY DownSent DEF ReqMsg

LEMMA DownRead ==
  ASSUME Types, NEW t \in Target, NEW x, NEW s \in Server, down[s] # << >>, down' = Read(s),
         NEW i, DownAt(i, t, x)'
  PROVE  DownAt(IF t = s THEN i + 1 ELSE i, t, x)
<1>1. down \in [Server -> Seq(DownMsg)] /\ down' = Less(down, s) /\ t \in Server
  BY WireIs, Frame, Servers DEF DownType
<1>2. Has(down'[t], i, ReqMsg(x))
  BY DEF DownAt
<1>3. Has(Less(down, s)[t], i, ReqMsg(x))
  BY <1>1, <1>2
<1> QED BY <1>1, <1>3, QueueTaken DEF DownAt

LEMMA UpSame ==
  ASSUME NEW t, NEW x, up' = up
  PROVE  \A z, i : UpAt(z, i, t, x)' => UpAt(z, i, t, x)
BY DEF UpAt

LEMMA UpSent ==
  ASSUME Types, NEW t \in Target, NEW x, NEW s \in Server, NEW b \in Box, NEW e \in UpMsg,
         up' = ToChmpx(s, b, e), NEW z, NEW i, UpAt(z, i, t, x)'
  PROVE  UpAt(z, i, t, x) \/ (t = s /\ z = b /\ i = Len(up[s][b]) + 1 /\ IsResult(e) /\ Answers(e) = x)
<1>1. PICK p : z \in Box /\ Has(up'[t][z], i, p) /\ IsResult(p) /\ Answers(p) = x
  BY DEF UpAt
<1>2. up \in [Server -> [Box -> Seq(UpMsg)]] /\ t \in Server
  BY Frame, Servers DEF UpType
<1>3. up' = [up EXCEPT ![s] = More(up[s], b, e)]
  BY <1>2 DEF ToChmpx, More
<1>4. CASE t = s
  <2>1. PICK f \in [Box -> Seq(UpMsg)] : f = up[t] /\ up'[t] = More(f, b, e)
    BY <1>2, <1>3, <1>4
  <2>2. Has(More(f, b, e)[z], i, p)
    BY <1>1, <2>1
  <2>3. Has(f[z], i, p) \/ Fresh(f, b, e, z, i, p)
    BY <1>1, <2>2, QueueSent
  <2>4. CASE Has(f[z], i, p)
    BY <1>1, <2>1, <2>4 DEF UpAt
  <2>5. CASE Fresh(f, b, e, z, i, p)
    BY <1>1, <1>4, <2>1, <2>5 DEF Fresh
  <2> QED BY <2>3, <2>4, <2>5
<1>5. CASE t # s
  <2>1. up'[t] = up[t]
    BY <1>2, <1>3, <1>5
  <2> QED BY <1>1, <2>1 DEF UpAt
<1> QED BY <1>4, <1>5

LEMMA UpOther ==
  ASSUME Types, NEW t \in Target, NEW x, NEW s \in Server, NEW b \in Box, NEW e \in UpMsg,
         up' = ToChmpx(s, b, e), e.type # "RESULT"
  PROVE  \A z, i : UpAt(z, i, t, x)' => UpAt(z, i, t, x)
BY UpSent DEF IsResult

LEMMA UpTaken ==
  ASSUME Types, NEW t \in Target, NEW x, NEW s \in Server, NEW b \in Box, up[s][b] # << >>,
         up' = [up EXCEPT ![s][b] = Tail(@)], NEW z, NEW i, UpAt(z, i, t, x)'
  PROVE  UpAt(z, IF t = s /\ z = b THEN i + 1 ELSE i, t, x)
<1>1. PICK p : z \in Box /\ Has(up'[t][z], i, p) /\ IsResult(p) /\ Answers(p) = x
  BY DEF UpAt
<1>2. up \in [Server -> [Box -> Seq(UpMsg)]] /\ t \in Server
  BY Frame, Servers DEF UpType
<1>3. up' = [up EXCEPT ![s] = Less(up[s], b)]
  BY <1>2 DEF Less
<1>4. CASE t = s
  <2>1. PICK f \in [Box -> Seq(UpMsg)] : f = up[t] /\ up'[t] = Less(f, b) /\ f[b] # << >>
    BY <1>2, <1>3, <1>4
  <2>2. Has(Less(f, b)[z], i, p)
    BY <1>1, <2>1
  <2>3. Has(f[z], IF z = b THEN i + 1 ELSE i, p)
    BY <1>1, <2>1, <2>2, QueueTaken
  <2> QED BY <1>1, <1>4, <2>1, <2>3 DEF UpAt
<1>5. CASE t # s
  <2>1. up'[t] = up[t]
    BY <1>2, <1>3, <1>5
  <2> QED BY <1>1, <1>5, <2>1 DEF UpAt
<1> QED BY <1>4, <1>5

\* A request that has been sent stays so: a worker that leaves its wait goes on to the
\* next merge.
LEMMA AskedStays ==
  ASSUME Types, [Next]_vars, NEW x \in Par, Asked(x)
  PROVE  Asked(x)'
<1>1. PICK m \in Merger : m = x[1]
  BY ParIs
<1>2. wk \in [Merger -> WorkerType] /\ wk[m] \in WorkerType /\ x[2] \in Nat
  BY ParIs, Frame DEF Workers, Run
<1>3. PICK r, c : r = wk[m].round /\ c = wk[m].calls /\ r \in Nat /\ c \in Nat /\ RunOf(m) = r - c + 1
  BY <1>2 DEF WorkerType, RunOf
<1>4. ASSUME wk'[m].round = r, wk'[m].calls = c, wk[m].pc = "wait" => wk'[m].pc = "wait"
      PROVE  Asked(x)'
  BY <1>1, <1>3, <1>4 DEF Asked, RunOf
<1>5. ASSUME wk'[m].round = r, wk'[m].calls = c - 1
      PROVE  Asked(x)'
  <2>1. RunOf(m)' = r - c + 2
    BY <1>3, <1>5 DEF RunOf
  <2>2. x[2] <= r - c + 1
    BY <1>1, <1>2, <1>3 DEF Asked
  <2>3. x[2] < RunOf(m)'
    BY <1>2, <1>3, <2>1, <2>2
  <2> QED BY <1>1, <2>3 DEF Asked
<1>6. CASE wk' = wk
  BY <1>1, <1>3, <1>4, <1>6
<1>7. ASSUME NEW n \in Merger, MergeStart(n)
      PROVE  Asked(x)'
  <2>1. wk'[m].pc = wk[m].pc /\ (n # m => wk'[m] = wk[m])
        /\ (n = m => wk'[m].round = r + 1 /\ wk'[m].calls = c + 1)
    BY <1>2, <1>3, <1>7 DEF MergeStart, WorkerType
  <2>2. RunOf(m)' = RunOf(m)
    BY <1>3, <2>1 DEF RunOf
  <2> QED BY <1>1, <2>1, <2>2 DEF Asked
<1>8. ASSUME NEW n \in Merger, NEW run, wk' = Returned(n, run)
      PROVE  Asked(x)'
  <2>1. n # m => wk'[m] = wk[m]
    BY <1>2, <1>8 DEF Returned
  <2>2. n = m => wk'[m].round = r /\ wk'[m].calls = c - 1
    BY <1>2, <1>3, <1>8 DEF Returned, WorkerType
  <2> QED BY <1>3, <1>4, <1>5, <2>1, <2>2
<1>9. ASSUME NEW n \in Merger, WorkerStep(n)
      PROVE  Asked(x)'
  <2>1. CASE \E run : wk' = Returned(n, run)
    BY <1>8, <2>1
  <2>2. CASE ~\E run : wk' = Returned(n, run)
    <3>1. \/ AskLastTime(n) /\ n \notin Clientless
          \/ ResetNotify(n) \/ SendReqUpdateData(n)
      BY <1>9, <2>2 DEF WorkerStep, AskLastTime, LastTimeTimeout, WorkerDone, WorkerStopped
    <3>2. /\ wk'[m].round = r /\ wk'[m].calls = c
          /\ wk[m].pc = "wait" => wk'[m].pc = "wait"
      <4>1. CASE AskLastTime(n) /\ n \notin Clientless
        <5>1. wk[n].pc = "sleep" /\ wk' = [wk EXCEPT ![n].pc = "asked", ![n].of = wk[n].round, ![n].answered = FALSE]
          BY <4>1 DEF AskLastTime
        <5> QED BY <1>2, <1>3, <5>1 DEF WorkerType
      <4>2. CASE ResetNotify(n)
        <5>1. wk[n].pc = "asked" /\ wk' = [wk EXCEPT ![n].pc = "lasttime", ![n].notify = FALSE, ![n].pres = TRUE]
          BY <4>2 DEF ResetNotify
        <5> QED BY <1>2, <1>3, <5>1 DEF WorkerType
      <4>3. CASE SendReqUpdateData(n)
        <5>1. wk' = [wk EXCEPT ![n].pc = "wait", ![n].pres = FALSE]
          BY <4>3 DEF SendReqUpdateData
        <5> QED BY <1>2, <1>3, <5>1 DEF WorkerType
      <4> QED BY <3>1, <4>1, <4>2, <4>3
    <3> QED BY <1>4, <3>2
  <2> QED BY <2>1, <2>2
<1>10. ASSUME NEW s \in Server, NEW d \in Server, SocketStep(s, d)
       PROVE  Asked(x)'
  <2>1. wk' = wk \/ wk' = [wk EXCEPT ![d].run = FALSE]
    BY <1>10 DEF SocketStep, ReceiveReqBack, ReceiveReqPass, ReceiveResUpdateData,
                 ReceiveResultUpdateData, MergeAbort
  <2>2. wk'[m].round = r /\ wk'[m].calls = c /\ wk'[m].pc = wk[m].pc
    BY <1>2, <1>3, <2>1 DEF WorkerType
  <2> QED BY <1>4, <2>2
<1>11. ASSUME NEW s \in Server, NEW b \in Box, ChmpxStep(s, b)
       PROVE  Asked(x)'
  <2>1. wk' = wk \/ wk' = [wk EXCEPT ![s].notify = TRUE, ![s].answered = TRUE]
    BY <1>11 DEF ChmpxStep, ChmpxLastTime, ChmpxResponse, ChmpxResult
  <2>2. wk'[m].round = r /\ wk'[m].calls = c /\ wk'[m].pc = wk[m].pc
    BY <1>2, <1>3, <2>1 DEF WorkerType
  <2> QED BY <1>4, <2>2
<1>12. ASSUME NEW s \in Server, ClientStep(s)
       PROVE  wk' = wk
  BY <1>12 DEF ClientStep, ClientLastTime, ClientSet, ClientRequest, ClientRunThread, ClientAbort
<1>13. ASSUME NEW t \in Target, ThreadStep(t)
       PROVE  wk' = wk
  BY <1>13 DEF ThreadStep, ThreadTake, ThreadGet, ThreadEnough, ThreadResult, ThreadExit
<1>14. ASSUME NEW n \in Merger, RequestMergeAbort(n)
       PROVE  wk' = wk
  BY <1>14 DEF RequestMergeAbort
<1> QED BY <1>6, <1>7, <1>9, <1>10, <1>11, <1>12, <1>13, <1>14 DEF Next, vars

MayAdd(t, x, pk, pz) == At(pk, pz, 1, t, x) \/ (Opens(x) /\ Serves(t))

RingMoves(t, x, pk, pz, fk, fz, fi) ==
  \A z : \A i \in Nat \ {0} : RingAt(z, i, t, x)' =>
    \/ RingAt(z, Shifted("ring", z, i, pk, pz), t, x)
    \/ Added("ring", z, i, fk, fz, fi) /\ MayAdd(t, x, pk, pz)
DownMoves(t, x, pk, pz, fk, fz, fi) ==
  \A i \in Nat \ {0} : DownAt(i, t, x)' =>
    \/ DownAt(Shifted("down", t, i, pk, pz), t, x)
    \/ Added("down", t, i, fk, fz, fi) /\ MayAdd(t, x, pk, pz)
ListMoves(t, x, pk, pz, fk, fz, fi) ==
  \A i \in Nat \ {0} : ListAt(i, t, x)' =>
    \/ ListAt(Shifted("list", t, i, pk, pz), t, x)
    \/ Added("list", t, i, fk, fz, fi) /\ MayAdd(t, x, pk, pz)
ThreadMoves(t, x, pk, pz, fk, fz, fi) ==
  ThreadAt(1, t, x)' =>
    \/ ThreadAt(Shifted("thread", t, 1, pk, pz), t, x)
    \/ Added("thread", t, 1, fk, fz, fi) /\ MayAdd(t, x, pk, pz)
UpMoves(t, x, pk, pz, fk, fz, fi) ==
  \A z : \A i \in Nat \ {0} : UpAt(z, i, t, x)' =>
    \/ UpAt(z, Shifted("up", z, i, pk, pz), t, x)
    \/ Added("up", z, i, fk, fz, fi) /\ MayAdd(t, x, pk, pz)

LEMMA KindsMove ==
  ASSUME NEW t, NEW x,
         NEW pk, NEW pz, NEW fk, NEW fz, NEW fi,
         RingMoves(t, x, pk, pz, fk, fz, fi), DownMoves(t, x, pk, pz, fk, fz, fi),
         ListMoves(t, x, pk, pz, fk, fz, fi), ThreadMoves(t, x, pk, pz, fk, fz, fi),
         UpMoves(t, x, pk, pz, fk, fz, fi)
  PROVE  Moves(t, x, pk, pz, fk, fz, fi)
<1>1. ASSUME NEW k, NEW z, NEW i, At(k, z, i, t, x)'
      PROVE  \/ At(k, z, Shifted(k, z, i, pk, pz), t, x)
             \/ Added(k, z, i, fk, fz, fi) /\ MayAdd(t, x, pk, pz)
  <2>0. PICK j : j = Shifted(k, z, i, pk, pz)
    OBVIOUS
  <2>1. i \in Nat \ {0} /\ j \in Nat \ {0}
    BY <1>1, <2>0 DEF At, Shifted
  <2>2. CASE k = "ring"
    BY <1>1, <2>0, <2>1, <2>2 DEF At, RingMoves
  <2>3. CASE k = "down"
    BY <1>1, <2>0, <2>1, <2>3 DEF At, DownMoves
  <2>4. CASE k = "list"
    BY <1>1, <2>0, <2>1, <2>4 DEF At, ListMoves
  <2>5. CASE k = "thread"
    <3>1. i = 1 /\ z = t
      BY <1>1, <2>5 DEF At, ThreadAt
    <3> QED BY <1>1, <2>0, <2>1, <2>5, <3>1 DEF At, ThreadMoves
  <2>6. CASE k = "up"
    BY <1>1, <2>0, <2>1, <2>6 DEF At, UpMoves
  <2> QED BY <1>1, <2>2, <2>3, <2>4, <2>5, <2>6 DEF At
<1> QED BY <1>1 DEF Moves, MayAdd

LEMMA PlacesMove ==
  ASSUME Types, [Next]_vars, NEW t, NEW x \in Par, PlaceOK(t, x),
         NEW pk, NEW pz, NEW fk, NEW fz, NEW fi,
         RingMoves(t, x, pk, pz, fk, fz, fi), DownMoves(t, x, pk, pz, fk, fz, fi),
         ListMoves(t, x, pk, pz, fk, fz, fi), ThreadMoves(t, x, pk, pz, fk, fz, fi),
         UpMoves(t, x, pk, pz, fk, fz, fi)
  PROVE  Kept(t, x)
<1>1. Moves(t, x, pk, pz, fk, fz, fi)
  BY KindsMove
<1>2. Asked(x) => Asked(x)'
  BY AskedStays
<1> QED BY <1>1, <1>2, PlaceKept

\* A request whose only place a step takes away is nowhere any more.
LEMMA PlaceGone ==
  ASSUME NEW t, NEW x, PlaceOK(t, x), NEW pk, NEW pz, Moves(t, x, pk, pz, "none", 0, 0),
         At(pk, pz, 1, t, x)
  PROVE  ~Live(t, x)'
<1> SUFFICES ASSUME NEW k, NEW z, NEW i, At(k, z, i, t, x)'
             PROVE  FALSE
  BY DEF Live
<1>1. i \in Nat \ {0} /\ k # "none"
  BY DEF At
<1>2. At(k, z, Shifted(k, z, i, pk, pz), t, x)
  BY <1>1 DEF Moves, Added
<1>3. k = pk /\ z = pz /\ Shifted(k, z, i, pk, pz) = 1
  BY <1>2 DEF PlaceOK, OnePlace
<1> QED BY <1>1, <1>3 DEF Shifted

\* What a step leaves alone.
RingStays(t, x)   == \A z, i : RingAt(z, i, t, x)' => RingAt(z, i, t, x)
DownStays(t, x)   == \A i : DownAt(i, t, x)' => DownAt(i, t, x)
ListStays(t, x)   == \A i : ListAt(i, t, x)' => ListAt(i, t, x)
ThreadStays(t, x) == ThreadAt(1, t, x)' => ThreadAt(1, t, x)
UpStays(t, x)     == \A z, i : UpAt(z, i, t, x)' => UpAt(z, i, t, x)

LEMMA StaysMoves ==
  ASSUME NEW t, NEW x, NEW pk, NEW pz, NEW fk, NEW fz, NEW fi
  PROVE  /\ RingStays(t, x) /\ pk # "ring" => RingMoves(t, x, pk, pz, fk, fz, fi)
         /\ DownStays(t, x) /\ pk # "down" => DownMoves(t, x, pk, pz, fk, fz, fi)
         /\ ListStays(t, x) /\ pk # "list" => ListMoves(t, x, pk, pz, fk, fz, fi)
         /\ ThreadStays(t, x) /\ pk # "thread" => ThreadMoves(t, x, pk, pz, fk, fz, fi)
         /\ UpStays(t, x) /\ pk # "up" => UpMoves(t, x, pk, pz, fk, fz, fi)
<1>1. RingStays(t, x) /\ pk # "ring" => RingMoves(t, x, pk, pz, fk, fz, fi)
  BY DEF RingStays, RingMoves, Shifted
<1>2. DownStays(t, x) /\ pk # "down" => DownMoves(t, x, pk, pz, fk, fz, fi)
  BY DEF DownStays, DownMoves, Shifted
<1>3. ListStays(t, x) /\ pk # "list" => ListMoves(t, x, pk, pz, fk, fz, fi)
  BY DEF ListStays, ListMoves, Shifted
<1>4. ThreadStays(t, x) /\ pk # "thread" => ThreadMoves(t, x, pk, pz, fk, fz, fi)
  BY DEF ThreadStays, ThreadMoves, Shifted
<1>5. UpStays(t, x) /\ pk # "up" => UpMoves(t, x, pk, pz, fk, fz, fi)
  BY DEF UpStays, UpMoves, Shifted
<1> QED BY <1>1, <1>2, <1>3, <1>4, <1>5

LEMMA Unchanged ==
  ASSUME Types, NEW t \in Target, NEW x \in Par
  PROVE  /\ wire' = wire => RingStays(t, x)
         /\ down' = down => DownStays(t, x)
         /\ cl'[t].list = cl[t].list => ListStays(t, x)
         /\ th'[t].cur = th[t].cur => ThreadStays(t, x)
         /\ up' = up => UpStays(t, x)
         /\ cl' = cl => ListStays(t, x)
         /\ th' = th => ThreadStays(t, x)
         /\ \A s, d \in Server, e \in Packet :
              wire' = Sent(s, d, e) /\ e.type \notin {"REQ", "RESULT"} => RingStays(t, x)
         /\ \A s \in Server, e \in DownMsg :
              down' = ToClient(s, e) /\ e.type # "REQ" => DownStays(t, x)
         /\ \A s \in Server, b \in Box, e \in UpMsg :
              up' = ToChmpx(s, b, e) /\ e.type # "RESULT" => UpStays(t, x)
<1>1. wire' = wire => RingStays(t, x)
  BY RingSame DEF RingStays
<1>2. down' = down => DownStays(t, x)
  BY DownSame DEF DownStays
<1>3. up' = up => UpStays(t, x)
  BY UpSame DEF UpStays
<1>4. cl'[t].list = cl[t].list => ListStays(t, x)
  BY DEF ListStays, ListAt
<1>5. th'[t].cur = th[t].cur => ThreadStays(t, x)
  BY DEF ThreadStays, ThreadAt
<1>6. ASSUME NEW s \in Server, NEW d \in Server, NEW e \in Packet, wire' = Sent(s, d, e), e.type \notin {"REQ", "RESULT"}
      PROVE  RingStays(t, x)
  BY <1>6, RingOther DEF RingStays
<1>7. ASSUME NEW s \in Server, NEW e \in DownMsg, down' = ToClient(s, e), e.type # "REQ"
      PROVE  DownStays(t, x)
  BY <1>7, DownOther DEF DownStays
<1>8. ASSUME NEW s \in Server, NEW b \in Box, NEW e \in UpMsg, up' = ToChmpx(s, b, e), e.type # "RESULT"
      PROVE  UpStays(t, x)
  BY <1>8, UpOther DEF UpStays
<1> QED BY <1>1, <1>2, <1>3, <1>4, <1>5, <1>6, <1>7, <1>8

\* A step that takes nothing of a request.
LEMMA NothingMoves ==
  ASSUME Types, [Next]_vars, NEW t \in Target, NEW x \in Par, PlaceOK(t, x),
         RingStays(t, x), DownStays(t, x), ListStays(t, x), ThreadStays(t, x), UpStays(t, x)
  PROVE  Kept(t, x)
<1>1. /\ RingMoves(t, x, "none", 0, "none", 0, 0) /\ DownMoves(t, x, "none", 0, "none", 0, 0)
      /\ ListMoves(t, x, "none", 0, "none", 0, 0) /\ ThreadMoves(t, x, "none", 0, "none", 0, 0)
      /\ UpMoves(t, x, "none", 0, "none", 0, 0)
  BY StaysMoves
<1> QED BY <1>1, PlacesMove

\* A step that takes the first message of a queue, and passes no request on.
LEMMA FirstTaken ==
  ASSUME Types, NEW t \in Target, NEW x \in Par
  PROVE  /\ \A s, d \in Server : wire[<<s, d>>] # << >> /\ wire' = Taken(s, d) =>
              RingMoves(t, x, "ring", <<s, d>>, "none", 0, 0)
         /\ \A s \in Server : down[s] # << >> /\ down' = Read(s) =>
              \A fk, fz, fi : DownMoves(t, x, "down", s, fk, fz, fi)
         /\ \A s \in Server, b \in Box : up[s][b] # << >> /\ up' = [up EXCEPT ![s][b] = Tail(@)] =>
              /\ s = t => \A fk, fz, fi : UpMoves(t, x, "up", b, fk, fz, fi)
              /\ s # t => UpStays(t, x)
<1>1. ASSUME NEW s \in Server, NEW d \in Server, wire[<<s, d>>] # << >>, wire' = Taken(s, d)
      PROVE  RingMoves(t, x, "ring", <<s, d>>, "none", 0, 0)
  <2>1. PICK y : y = <<s, d>>
    OBVIOUS
  <2>2. ASSUME NEW z, NEW i, RingAt(z, i, t, x)'
        PROVE  RingAt(z, IF z = y THEN i + 1 ELSE i, t, x)
    BY <1>1, <2>1, <2>2, RingTaken
  <2>3. RingMoves(t, x, "ring", y, "none", 0, 0)
    BY <2>2 DEF RingMoves, Shifted
  <2> QED BY <2>1, <2>3
<1>2. ASSUME NEW s \in Server, down[s] # << >>, down' = Read(s), NEW fk, NEW fz, NEW fi
      PROVE  DownMoves(t, x, "down", s, fk, fz, fi)
  <2>1. ASSUME NEW i, DownAt(i, t, x)'
        PROVE  DownAt(IF t = s THEN i + 1 ELSE i, t, x)
    BY <1>2, <2>1, DownRead
  <2> QED BY <2>1 DEF DownMoves, Shifted
<1>3. ASSUME NEW s \in Server, NEW b \in Box, up[s][b] # << >>, up' = [up EXCEPT ![s][b] = Tail(@)]
      PROVE  /\ s = t => \A fk, fz, fi : UpMoves(t, x, "up", b, fk, fz, fi)
             /\ s # t => UpStays(t, x)
  <2>1. ASSUME NEW z, NEW i, UpAt(z, i, t, x)'
        PROVE  UpAt(z, IF t = s /\ z = b THEN i + 1 ELSE i, t, x)
    BY <1>3, <2>1, UpTaken
  <2>2. CASE s = t
    BY <2>1, <2>2 DEF UpMoves, Shifted
  <2>3. CASE s # t
    BY <2>1, <2>3 DEF UpStays
  <2> QED BY <2>2, <2>3
<1> QED BY <1>1, <1>2, <1>3

-----------------------------------------------------------------------------
(* The places of a request after each step.                                *)

LEMMA SendPlaces ==
  ASSUME Types, [Next]_vars, NEW t \in Target, NEW x \in Par, PlaceOK(t, x),
         NEW m \in Merger, SendReqUpdateData(m)
  PROVE  Kept(t, x)
<1>1. PICK y : y = <<m, NextOf(m)>>
  OBVIOUS
<1>2. PICK n : n = Len(wire[y]) + 1
  OBVIOUS
<1>3. /\ m \in Server /\ NextOf(m) \in Server /\ ReqPacket(m) \in Packet
      /\ wk \in [Merger -> WorkerType] /\ RunOf(m) \in Run /\ x[2] \in Run
  BY Servers, Requested, Frame, ParIs DEF Workers
<1>4. wk[m].pc = "lasttime" /\ wire' = Sent(m, NextOf(m), ReqPacket(m))
      /\ UNCHANGED <<down, up, cl, th>> /\ wk' = [wk EXCEPT ![m].pc = "wait", ![m].pres = FALSE]
  BY DEF SendReqUpdateData
<1>5. wk'[m].pc = "wait" /\ RunOf(m)' = RunOf(m)
  BY <1>3, <1>4 DEF WorkerType, RunOf
<1>6. ASSUME IsReq(ReqPacket(m), x)
      PROVE  Opens(x)
  <2>1. x[1] = m /\ x[2] = RunOf(m)
    BY <1>6 DEF IsReq, ReqPacket
  <2>2. ~(x[2] < RunOf(m))
    BY <1>3, <2>1 DEF Run
  <2> QED BY <1>4, <1>5, <2>1, <2>2 DEF Asked, Opens
<1>7. ASSUME NEW z, NEW i, RingAt(z, i, t, x)'
      PROVE  RingAt(z, i, t, x) \/ (Added("ring", z, i, "ring", y, n) /\ MayAdd(t, x, "none", 0))
  <2>1. RingAt(z, i, t, x) \/ (z = y /\ i = n /\ Carries(z, ReqPacket(m), t, x))
    BY <1>1, <1>2, <1>3, <1>4, <1>7, RingSent
  <2>2. Carries(z, ReqPacket(m), t, x) => IsReq(ReqPacket(m), x) /\ Serves(t)
    BY DEF Carries, ReqPacket
  <2> QED BY <1>6, <2>1, <2>2 DEF Added, MayAdd
<1>8. RingMoves(t, x, "none", 0, "ring", y, n)
  BY <1>7 DEF RingMoves, Shifted
<1>9. /\ DownMoves(t, x, "none", 0, "ring", y, n) /\ ListMoves(t, x, "none", 0, "ring", y, n)
      /\ ThreadMoves(t, x, "none", 0, "ring", y, n) /\ UpMoves(t, x, "none", 0, "ring", y, n)
  BY <1>4, Unchanged, StaysMoves
<1> QED BY <1>8, <1>9, PlacesMove

LEMMA WorkerPlaces ==
  ASSUME Types, [Next]_vars, NEW t \in Target, NEW x \in Par, PlaceOK(t, x),
         NEW m \in Merger, MergeStart(m) \/ WorkerStep(m) \/ RequestMergeAbort(m)
  PROVE  Kept(t, x)
<1>1. m \in Server /\ NextOf(m) \in Server
  BY Servers
<1>2. CASE SendReqUpdateData(m)
  BY <1>2, SendPlaces
<1>3. CASE MergeStart(m) \/ ResetNotify(m) \/ LastTimeTimeout(m) \/ WorkerDone(m) \/ WorkerStopped(m)
  <2>1. UNCHANGED <<wire, down, up, cl, th>>
    BY <1>3 DEF MergeStart, ResetNotify, LastTimeTimeout, WorkerDone, WorkerStopped
  <2> QED BY <2>1, Unchanged, NothingMoves
<1>4. CASE AskLastTime(m)
  <2>1. UNCHANGED <<wire, up, cl, th>> /\ (down' = down \/ down' = ToClient(m, GetLastTs))
    BY <1>4 DEF AskLastTime
  <2>2. GetLastTs \in DownMsg /\ GetLastTs.type # "REQ"
    BY Built DEF GetLastTs
  <2>3. DownStays(t, x)
    BY <1>1, <2>1, <2>2, Unchanged
  <2> QED BY <2>1, <2>3, Unchanged, NothingMoves
<1>5. CASE RequestMergeAbort(m)
  <2>1. UNCHANGED <<down, up, cl, th>> /\ wire' = Sent(m, NextOf(m), AbortPacket(m))
    BY <1>5 DEF RequestMergeAbort
  <2>2. AbortPacket(m) \in Packet /\ AbortPacket(m).type \notin {"REQ", "RESULT"}
    BY Built DEF AbortPacket
  <2>3. RingStays(t, x)
    BY <1>1, <2>1, <2>2, Unchanged
  <2> QED BY <2>1, <2>3, Unchanged, NothingMoves
<1> QED BY <1>2, <1>3, <1>4, <1>5 DEF WorkerStep

LEMMA TakenPlaces ==
  ASSUME Types, [Next]_vars, NEW t \in Target, NEW x \in Par, PlaceOK(t, x),
         NEW s \in Server, NEW d \in Server, wire[<<s, d>>] # << >>, wire' = Taken(s, d),
         DownStays(t, x), ListStays(t, x), ThreadStays(t, x), UpStays(t, x)
  PROVE  Kept(t, x)
<1>1. PICK y : y = <<s, d>> /\ RingMoves(t, x, "ring", y, "none", 0, 0)
  BY FirstTaken
<1>2. /\ DownMoves(t, x, "ring", y, "none", 0, 0) /\ ListMoves(t, x, "ring", y, "none", 0, 0)
      /\ ThreadMoves(t, x, "ring", y, "none", 0, 0) /\ UpMoves(t, x, "ring", y, "none", 0, 0)
  BY StaysMoves
<1> QED BY <1>1, <1>2, PlacesMove

\* A request, or an abort, that is passed on.
LEMMA PassedPlaces ==
  ASSUME Types, [Next]_vars, NEW t \in Target, NEW x \in Par, PlaceOK(t, x),
         NEW s \in Server, NEW d \in Server, wire[<<s, d>>] # << >>, NEW e \in Packet,
         wire' = Passed(s, d, e), e.type # "RESULT", IsReq(e, x) => IsReq(Head(wire[<<s, d>>]), x) /\ d # x[1],
         NEW n, DownMoves(t, x, "ring", <<s, d>>, IF d = t THEN "down" ELSE "ring",
                          IF d = t THEN t ELSE <<d, NextOf(d)>>, n),
         n = IF d = t THEN Len(down[t]) + 1 ELSE Len(wire[<<d, NextOf(d)>>]) + 1,
         ListStays(t, x), ThreadStays(t, x), UpStays(t, x)
  PROVE  Kept(t, x)
<1>1. PICK y, w : y = <<s, d>> /\ w = <<d, NextOf(d)>>
  OBVIOUS
<1>2. PICK k, u : k = (IF d = t THEN "down" ELSE "ring") /\ u = (IF d = t THEN t ELSE w)
  OBVIOUS
<1>3. x[1] \in Merger /\ x[1] # t /\ x[1] \in Server /\ t \in Server
  BY ParIs, Servers
<1>4. ASSUME Carries(w, e, t, x)
      PROVE  d # t /\ At("ring", y, 1, t, x)
  <2>0. IsReq(e, x) /\ Ahead(x[1], NextOf(d), t) /\ Serves(t)
    <3>1. w[2] = NextOf(d)
      BY <1>1
    <3> QED BY <1>4, <3>1 DEF Carries
  <2>1. Ahead(x[1], d, t) /\ d # t
    BY <1>3, <2>0, AheadIs
  <2>2. y \in Server \X Server /\ y[2] = d
    BY <1>1
  <2>3. Has(wire[y], 1, Head(wire[y]))
    <3>1. wire[y] # << >> /\ wire \in [Server \X Server -> Seq(Packet)]
      BY <1>1, Frame DEF WireType
    <3> QED BY <2>2, <3>1, QueueTaken
  <2>4. IsReq(Head(wire[y]), x)
    BY <1>1, <2>0
  <2> QED BY <2>0, <2>1, <2>2, <2>3, <2>4 DEF At, RingAt, Carries
<1>5. ASSUME NEW z, NEW i, RingAt(z, i, t, x)'
      PROVE  \/ RingAt(z, IF z = y THEN i + 1 ELSE i, t, x)
             \/ Added("ring", z, i, k, u, n) /\ MayAdd(t, x, "ring", y)
  <2>1. \/ RingAt(z, IF z = y THEN i + 1 ELSE i, t, x)
        \/ z = w /\ i = Len(wire[w]) + 1 /\ Carries(z, e, t, x)
    <3>1. \/ RingAt(z, IF z = <<s, d>> THEN i + 1 ELSE i, t, x)
          \/ /\ z = <<d, NextOf(d)>> /\ i = Len(wire[<<d, NextOf(d)>>]) + 1
             /\ Carries(z, e, t, x)
      BY <1>5, RingPassed
    <3> QED BY <1>1, <3>1
  <2>2. CASE z = w /\ i = Len(wire[w]) + 1 /\ Carries(z, e, t, x)
    <3>1. d # t /\ At("ring", y, 1, t, x)
      BY <1>4, <2>2
    <3>2. k = "ring" /\ u = w /\ n = Len(wire[w]) + 1
      BY <1>1, <1>2, <3>1
    <3> QED BY <2>2, <3>1, <3>2 DEF Added, MayAdd
  <2> QED BY <2>1, <2>2
<1>6. RingMoves(t, x, "ring", y, k, u, n)
  BY <1>5 DEF RingMoves, Shifted
<1>7. DownMoves(t, x, "ring", y, k, u, n)
  BY <1>1, <1>2
<1>8. ListMoves(t, x, "ring", y, k, u, n) /\ ThreadMoves(t, x, "ring", y, k, u, n)
      /\ UpMoves(t, x, "ring", y, k, u, n)
  BY StaysMoves
<1> QED BY <1>6, <1>7, <1>8, PlacesMove

LEMMA ReqPassPlaces ==
  ASSUME Types, [Next]_vars, NEW t \in Target, NEW x \in Par, PlaceOK(t, x),
         NEW s \in Server, NEW d \in Server, ReceiveReqPass(s, d)
  PROVE  Kept(t, x)
<1>1. PICK p, y, w : p = Head(wire[<<s, d>>]) /\ y = <<s, d>> /\ w = <<d, NextOf(d)>>
  OBVIOUS
<1>2. /\ wire[y] # << >> /\ p = Head(wire[y]) /\ p.type = "REQ" /\ p.dept # d
      /\ UNCHANGED <<up, cl, th>>
  BY <1>1 DEF ReceiveReqPass
<1>3. p \in Packet /\ y \in Server \X Server /\ Has(wire[y], 1, p) /\ d \in Server
  <2>1. y \in Server \X Server /\ wire \in [Server \X Server -> Seq(Packet)]
    BY <1>1, Frame DEF WireType
  <2> QED BY <1>2, <2>1, QueueTaken
<1>4. p.dept \in Merger /\ p.round \in Run
  BY <1>2, <1>3, PacketIs
<1>5. IsReq(p, x) => d # x[1]
  BY <1>2 DEF IsReq
<1>6. PICK n : n = IF d = t THEN Len(down[t]) + 1 ELSE Len(wire[w]) + 1
  OBVIOUS
<1>7. PICK k, u : k = (IF d = t THEN "down" ELSE "ring") /\ u = (IF d = t THEN t ELSE w)
  OBVIOUS
<1>8. ASSUME DownMoves(t, x, "ring", y, k, u, n), NEW e \in Packet, wire' = Passed(s, d, e),
             e.type = "REQ", IsReq(e, x) => IsReq(p, x)
      PROVE  Kept(t, x)
  <2>1. ListStays(t, x) /\ ThreadStays(t, x) /\ UpStays(t, x)
    BY <1>2, Unchanged
  <2>2. DownMoves(t, x, "ring", <<s, d>>, IF d = t THEN "down" ELSE "ring",
                  IF d = t THEN t ELSE <<d, NextOf(d)>>, n)
    BY <1>1, <1>7, <1>8
  <2>3. n = IF d = t THEN Len(down[t]) + 1 ELSE Len(wire[<<d, NextOf(d)>>]) + 1
    BY <1>1, <1>6
  <2>4. wire[<<s, d>>] # << >> /\ (IsReq(e, x) => IsReq(Head(wire[<<s, d>>]), x) /\ d # x[1])
    BY <1>1, <1>2, <1>5, <1>8
  <2> QED BY <1>8, <2>1, <2>2, <2>3, <2>4, PassedPlaces
<1>9. ASSUME DownStays(t, x)
      PROVE  DownMoves(t, x, "ring", y, k, u, n)
  BY <1>9, StaysMoves
<1>10. CASE d \notin Target
  <2>1. wire' = Passed(s, d, p) /\ down' = down
    BY <1>1, <1>10 DEF ReceiveReqPass
  <2> QED BY <1>2, <1>3, <1>8, <1>9, <2>1, Unchanged
<1>11. CASE d \in Target
  <2>1. PICK e \in Packet : /\ e = [p EXCEPT !.map[d] = OwnFlag(d)]
                            /\ e.type = "REQ" /\ e.dept = p.dept /\ e.round = p.round
    BY <1>2, <1>3, <1>11, Entered
  <2>2. wire' = Passed(s, d, e)
    BY <1>1, <1>11, <2>1 DEF ReceiveReqPass
  <2>3. IsReq(e, x) => IsReq(p, x)
    BY <1>2, <2>1 DEF IsReq
  <2>4. CASE down' = down
    BY <1>8, <1>9, <2>1, <2>2, <2>3, <2>4, Unchanged
  <2>5. CASE down' # down
    <3>0. PICK par : par = <<p.dept, p.round>>
      OBVIOUS
    <3>1. par = <<p.dept, p.round>> /\ par \in Par /\ par[1] = p.dept /\ par[2] = p.round
      BY <1>4, <3>0 DEF Par
    <3>2. down' = ToClient(d, ReqMsg(par)) /\ ReqMsg(par) \in DownMsg
      BY <1>1, <1>11, <2>5, <3>1, Built DEF ReceiveReqPass, MergeRequestUpdateData
    <3>3. ASSUME d = t, par = x
          PROVE  At("ring", y, 1, t, x)
      <4>1. IsReq(p, x)
        BY <1>2, <3>1, <3>3 DEF IsReq
      <4>2. Ahead(x[1], d, t)
        <5>1. x[1] \in Server /\ t \in Server
          BY ParIs, Servers
        <5>2. Pos(x[1], t) \in Int
          BY <5>1, RingIs DEF Pos
        <5> QED BY <3>3, <5>2 DEF Ahead
      <4>3. y[2] = d
        BY <1>1
      <4>4. Serves(t)
        BY <1>11, <2>5, <3>3 DEF ReceiveReqPass, Serves
      <4> QED BY <1>3, <4>1, <4>2, <4>3, <4>4 DEF At, RingAt, Carries
    <3>4. ASSUME NEW i, DownAt(i, t, x)'
          PROVE  \/ DownAt(i, t, x)
                 \/ Added("down", t, i, k, u, n) /\ MayAdd(t, x, "ring", y)
      <4>1. DownAt(i, t, x) \/ (t = d /\ i = Len(down[d]) + 1 /\ ReqMsg(par) = ReqMsg(x))
        BY <3>2, <3>4, DownSent
      <4>2. CASE t = d /\ i = Len(down[d]) + 1 /\ ReqMsg(par) = ReqMsg(x)
        <5>1. par = x
          BY <4>2 DEF ReqMsg
        <5>2. k = "down" /\ u = t /\ i = n
          BY <1>6, <1>7, <4>2
        <5> QED BY <3>3, <4>2, <5>1, <5>2 DEF Added, MayAdd
      <4> QED BY <4>1, <4>2
    <3>5. DownMoves(t, x, "ring", y, k, u, n)
      BY <3>4 DEF DownMoves, Shifted
    <3> QED BY <1>8, <2>1, <2>2, <2>3, <3>5
  <2> QED BY <2>4, <2>5
<1> QED BY <1>10, <1>11

LEMMA SocketPlaces ==
  ASSUME Types, [Next]_vars, NEW t \in Target, NEW x \in Par, PlaceOK(t, x),
         NEW s \in Server, NEW d \in Server, SocketStep(s, d)
  PROVE  Kept(t, x)
<1>1. PICK p : p = Head(wire[<<s, d>>])
  OBVIOUS
<1>2. CASE ReceiveReqPass(s, d)
  BY <1>2, ReqPassPlaces
<1>3. CASE ReceiveReqBack(s, d) \/ ReceiveResultUpdateData(s, d)
  <2>1. wire[<<s, d>>] # << >> /\ wire' = Taken(s, d) /\ UNCHANGED <<down, up, cl, th>>
    BY <1>3 DEF ReceiveReqBack, ReceiveResultUpdateData
  <2> QED BY <2>1, Unchanged, TakenPlaces
<1>4. CASE ReceiveResUpdateData(s, d)
  <2>1. /\ wire[<<s, d>>] # << >> /\ wire' = Taken(s, d) /\ UNCHANGED <<up, cl, th>>
        /\ p.type = "RES" /\ down' = ToClient(d, SetMsg(p.datum))
    BY <1>1, <1>4 DEF ReceiveResUpdateData, MergeSetUpdateData
  <2>2. p \in Packet
    BY <1>1, <2>1, TakenTypes
  <2>3. SetMsg(p.datum) \in DownMsg /\ SetMsg(p.datum).type # "REQ"
    BY <2>1, <2>2, PacketIs, Built DEF SetMsg
  <2>4. DownStays(t, x)
    BY <2>1, <2>3, Unchanged
  <2> QED BY <2>1, <2>4, Unchanged, TakenPlaces
<1>5. CASE MergeAbort(s, d)
  <2>1. /\ wire[<<s, d>>] # << >> /\ UNCHANGED <<up, cl, th>> /\ p.type = "ABORT"
        /\ wire' = Taken(s, d) \/ wire' = Passed(s, d, p)
        /\ down' = down \/ down' = ToClient(d, AbortMsg)
    BY <1>1, <1>5 DEF MergeAbort, MergeAbortUpdateData
  <2>2. p \in Packet
    BY <1>1, <2>1, TakenTypes
  <2>3. AbortMsg \in DownMsg /\ AbortMsg.type # "REQ"
    BY Built DEF AbortMsg
  <2>4. DownStays(t, x) /\ ListStays(t, x) /\ ThreadStays(t, x) /\ UpStays(t, x)
    BY <2>1, <2>3, Unchanged
  <2>5. CASE wire' = Taken(s, d)
    BY <2>1, <2>4, <2>5, TakenPlaces
  <2>6. CASE wire' = Passed(s, d, p)
    <3>1. ~IsReq(p, x) /\ p.type # "RESULT"
      BY <2>1 DEF IsReq
    <3>2. PICK n : n = IF d = t THEN Len(down[t]) + 1 ELSE Len(wire[<<d, NextOf(d)>>]) + 1
      OBVIOUS
    <3>3. DownMoves(t, x, "ring", <<s, d>>, IF d = t THEN "down" ELSE "ring",
                    IF d = t THEN t ELSE <<d, NextOf(d)>>, n)
      BY <2>4, StaysMoves
    <3> QED BY <2>1, <2>2, <2>4, <2>6, <3>1, <3>2, <3>3, PassedPlaces
  <2> QED BY <2>1, <2>5, <2>6
<1> QED BY <1>2, <1>3, <1>4, <1>5 DEF SocketStep

LEMMA ChmpxPlaces ==
  ASSUME Types, [Next]_vars, NEW t \in Target, NEW x \in Par, PlaceOK(t, x),
         NEW s \in Server, NEW b \in Box, ChmpxStep(s, b)
  PROVE  Kept(t, x)
<1>1. PICK p : p = Head(up[s][b])
  OBVIOUS
<1>2. /\ up[s][b] # << >> /\ up' = [up EXCEPT ![s][b] = Tail(@)] /\ UNCHANGED <<down, cl, th>>
      /\ \/ wire' = wire
         \/ p.type = "RES" /\ wire' = Sent(s, p.to, ResPacket(p))
         \/ p.type = "RESULT" /\ wire' = Sent(s, p.to, ResultPacket(p))
  BY <1>1 DEF ChmpxStep, ChmpxLastTime, ChmpxResponse, ChmpxResult, MergeResponseUpdateData,
              MergeResultUpdateData
<1>3. p \in UpMsg
  BY <1>1, <1>2, TakenTypes
<1>4. PICK k, y, n : /\ k = (IF p.type = "RESULT" THEN "ring" ELSE "none") /\ y = <<s, p.to>>
                     /\ n = Len(wire[y]) + 1
  OBVIOUS
<1>5. DownStays(t, x) /\ ListStays(t, x) /\ ThreadStays(t, x)
  BY <1>2, Unchanged
<1>6. p.type # "RESULT" => RingStays(t, x)
  <2>1. CASE wire' = wire
    BY <2>1, Unchanged
  <2>2. CASE p.type = "RES" /\ wire' = Sent(s, p.to, ResPacket(p))
    <3>1. ResPacket(p) \in Packet /\ ResPacket(p).type \notin {"REQ", "RESULT"}
      BY <1>3, <2>2, Forwarded DEF ResPacket
    <3>2. p.to \in Server
      BY <1>3, <2>2, UpIs, Servers
    <3> QED BY <2>2, <3>1, <3>2, Unchanged
  <2> QED BY <1>2, <2>1, <2>2
<1>7. ASSUME NEW z, NEW i, RingAt(z, i, t, x)'
      PROVE  RingAt(z, i, t, x) \/ (s = t /\ Added("ring", z, i, k, y, n) /\ MayAdd(t, x, "up", b))
  <2>1. CASE p.type # "RESULT"
    BY <1>6, <1>7, <2>1 DEF RingStays
  <2>2. CASE p.type = "RESULT"
    <3>1. PICK e \in Packet : e = ResultPacket(p)
      BY <1>3, <2>2, Forwarded
    <3>2. p.to \in Server /\ (wire' = wire \/ wire' = Sent(s, p.to, e))
      BY <1>2, <1>3, <2>2, <3>1, UpIs, Servers
    <3>3. RingAt(z, i, t, x) \/ (z = y /\ i = n /\ Carries(z, e, t, x))
      <4>1. CASE wire' = wire
        BY <1>7, <4>1, RingSame
      <4>2. CASE wire' = Sent(s, p.to, e)
        BY <1>4, <1>7, <3>2, <4>2, RingSent
      <4> QED BY <3>2, <4>1, <4>2
    <3>4. ASSUME Carries(y, e, t, x)
          PROVE  s = t /\ At("up", b, 1, t, x)
      <4>1. e.type = "RESULT" /\ e.round = p.round /\ y[1] = s /\ y[2] = p.to
        BY <1>4, <3>1 DEF ResultPacket
      <4>2. s = t /\ x[1] = p.to /\ x[2] = p.round
        BY <3>4, <4>1 DEF Carries, IsReq
      <4>3. Answers(p) = x
        BY <4>2, ParIs DEF Answers
      <4>4. Has(up[s][b], 1, p)
        <5>1. up[s] \in [Box -> Seq(UpMsg)]
          BY Frame DEF UpType
        <5> QED BY <1>1, <1>2, <5>1, QueueTaken
      <4> QED BY <2>2, <4>2, <4>3, <4>4 DEF At, UpAt, IsResult
    <3> QED BY <1>4, <2>2, <3>3, <3>4 DEF Added, MayAdd
  <2> QED BY <2>1, <2>2
<1>8. CASE s = t
  <2>1. RingMoves(t, x, "up", b, k, y, n)
    BY <1>7 DEF RingMoves, Shifted
  <2>2. UpMoves(t, x, "up", b, k, y, n)
    BY <1>2, <1>8, FirstTaken
  <2>3. /\ DownMoves(t, x, "up", b, k, y, n) /\ ListMoves(t, x, "up", b, k, y, n)
        /\ ThreadMoves(t, x, "up", b, k, y, n)
    BY <1>5, StaysMoves
  <2> QED BY <2>1, <2>2, <2>3, PlacesMove
<1>9. CASE s # t
  <2>1. UpStays(t, x)
    BY <1>2, <1>9, FirstTaken
  <2>2. RingStays(t, x)
    BY <1>7, <1>9 DEF RingStays
  <2> QED BY <1>5, <2>1, <2>2, NothingMoves
<1> QED BY <1>8, <1>9

\* The client reads a message that is no request.
LEMMA ReadPlaces ==
  ASSUME Types, [Next]_vars, NEW t \in Target, NEW x \in Par, PlaceOK(t, x),
         NEW s \in Server, down[s] # << >>, down' = Read(s),
         RingStays(t, x), ListStays(t, x), ThreadStays(t, x), UpStays(t, x)
  PROVE  Kept(t, x)
<1>1. DownMoves(t, x, "down", s, "none", 0, 0)
  BY FirstTaken
<1>2. /\ RingMoves(t, x, "down", s, "none", 0, 0) /\ ListMoves(t, x, "down", s, "none", 0, 0)
      /\ ThreadMoves(t, x, "down", s, "none", 0, 0) /\ UpMoves(t, x, "down", s, "none", 0, 0)
  BY StaysMoves
<1> QED BY <1>1, <1>2, PlacesMove

LEMMA RequestPlaces ==
  ASSUME Types, [Next]_vars, NEW t \in Target, NEW x \in Par, PlaceOK(t, x),
         NEW s \in Target, NEW b \in Box, ClientRequest(s, b)
  PROVE  Kept(t, x)
<1>1. PICK p, par : p = Head(down[s]) /\ par = p.param
  OBVIOUS
<1>2. /\ s \in Server /\ down[s] # << >> /\ down' = Read(s) /\ p.type = "REQ"
      /\ UNCHANGED <<wire, th>>
  BY <1>1, Servers DEF ClientRequest
<1>3. p \in DownMsg /\ Has(down[s], 1, p)
  BY <1>1, <1>2, Frame, QueueTaken DEF DownType
<1>4. p = ReqMsg(par) /\ par \in Par
  BY <1>1, <1>2, <1>3, DownIs
<1>5. s = t /\ par = x => At("down", s, 1, t, x)
  BY <1>3, <1>4 DEF At, DownAt
<1>6. RingStays(t, x) /\ ThreadStays(t, x)
  BY <1>2, Unchanged
<1>7. CASE s \in NoCallback
  <2>1. PICK e, n : e = Res(par, TRUE) /\ n = Len(up[s][b]) + 1
    OBVIOUS
  <2>2. up' = ToChmpx(s, b, e) /\ cl' = cl /\ e \in UpMsg
    BY <1>1, <1>4, <1>7, <2>1, Built DEF ClientRequest
  <2>3. Answers(e) = par
    BY <1>4, <2>1, ParIs DEF Answers, Res
  <2>4. ASSUME NEW z, NEW i, UpAt(z, i, t, x)'
        PROVE  UpAt(z, i, t, x) \/ (Added("up", z, i, "up", b, n) /\ MayAdd(t, x, "down", s))
    <3>0. UpAt(z, i, t, x)
          \/ (t = s /\ z = b /\ i = Len(up[s][b]) + 1 /\ IsResult(e) /\ Answers(e) = x)
      BY <1>2, <2>2, <2>4, UpSent
    <3>1. UpAt(z, i, t, x) \/ (t = s /\ z = b /\ i = n /\ Answers(e) = x)
      BY <2>1, <3>0
    <3> QED BY <1>5, <2>3, <3>1 DEF Added, MayAdd
  <2>5. UpMoves(t, x, "down", s, "up", b, n)
    BY <2>4 DEF UpMoves, Shifted
  <2>6. DownMoves(t, x, "down", s, "up", b, n)
    BY <1>2, FirstTaken
  <2>7. /\ RingMoves(t, x, "down", s, "up", b, n) /\ ListMoves(t, x, "down", s, "up", b, n)
        /\ ThreadMoves(t, x, "down", s, "up", b, n)
    BY <1>6, <2>2, Unchanged, StaysMoves
  <2> QED BY <2>5, <2>6, <2>7, PlacesMove
<1>8. CASE s \notin NoCallback
  <2>1. PICK l, n : l = cl[s].list /\ n = Len(l) + 1
    OBVIOUS
  <2>2. cl' = [cl EXCEPT ![s].list = Append(@, par), ![s].notify = TRUE, ![s].check = TRUE] /\ up' = up
    BY <1>1, <1>8 DEF ClientRequest
  <2>3. cl \in [Target -> ClientType] /\ l \in Seq(Par)
    BY <2>1, Frame DEF Clients, ClientType
  <2>4. cl'[s].list = Append(l, par) /\ (t # s => cl'[t] = cl[t])
    BY <2>1, <2>2, <2>3 DEF ClientType
  <2>5. ASSUME NEW i, ListAt(i, t, x)'
        PROVE  ListAt(i, t, x) \/ (Added("list", t, i, "list", s, n) /\ MayAdd(t, x, "down", s))
    <3>1. CASE t # s
      BY <2>4, <2>5, <3>1 DEF ListAt
    <3>2. CASE t = s
      <4>1. Has(Append(l, par), i, x)
        BY <2>4, <2>5, <3>2 DEF ListAt
      <4>2. Has(l, i, x) \/ (i = n /\ x = par)
        BY <1>4, <2>1, <2>3, <4>1, HasAppend
      <4> QED BY <1>5, <2>1, <3>2, <4>2 DEF ListAt, Added, MayAdd
    <3> QED BY <3>1, <3>2
  <2>6. ListMoves(t, x, "down", s, "list", s, n)
    BY <2>5 DEF ListMoves, Shifted
  <2>7. DownMoves(t, x, "down", s, "list", s, n)
    BY <1>2, FirstTaken
  <2>8. /\ RingMoves(t, x, "down", s, "list", s, n) /\ UpMoves(t, x, "down", s, "list", s, n)
        /\ ThreadMoves(t, x, "down", s, "list", s, n)
    BY <1>6, <2>2, Unchanged, StaysMoves
  <2> QED BY <2>6, <2>7, <2>8, PlacesMove
<1> QED BY <1>7, <1>8

LEMMA ClientPlaces ==
  ASSUME Types, [Next]_vars, NEW t \in Target, NEW x \in Par, PlaceOK(t, x),
         NEW s \in Server, ClientStep(s)
  PROVE  Kept(t, x)
<1>1. ASSUME NEW b \in Box, ClientLastTime(s, b)
      PROVE  Kept(t, x)
  <2>1. /\ down[s] # << >> /\ down' = Read(s) /\ up' = ToChmpx(s, b, ResLastTs)
        /\ UNCHANGED <<wire, cl, th>>
    BY <1>1 DEF ClientLastTime
  <2>2. ResLastTs \in UpMsg /\ ResLastTs.type # "RESULT"
    BY Built DEF ResLastTs
  <2>3. UpStays(t, x)
    BY <2>1, <2>2, Unchanged
  <2> QED BY <2>1, <2>3, Unchanged, ReadPlaces
<1>2. CASE ClientSet(s)
  <2>1. down[s] # << >> /\ down' = Read(s) /\ UNCHANGED <<wire, up, cl, th>>
    BY <1>2 DEF ClientSet
  <2> QED BY <2>1, Unchanged, ReadPlaces
<1>3. CASE s \in Target /\ ClientRunThread(s)
  <2>1. UNCHANGED <<wire, down, up>> /\ cl' = [cl EXCEPT ![s].check = FALSE]
        /\ cl \in [Target -> ClientType] /\ th \in [Target -> ThreadType] /\ ThreadOK(s)
    BY <1>3, Frame DEF ClientRunThread, Clients, Threads
  <2>2. cl'[t].list = cl[t].list
    BY <2>1 DEF ClientType
  <2>3. CASE th[s].pc \in {"none", "exit"}
    <3>1. th' = [th EXCEPT ![s] = [IdleThread EXCEPT !.pc = "loop"]] /\ th[s].cur = NoParam
      BY <1>3, <2>1, <2>3 DEF ClientRunThread, ThreadOK
    <3>2. [IdleThread EXCEPT !.pc = "loop"].cur = NoParam
      BY DEF IdleThread
    <3>3. th'[t].cur = th[t].cur
      BY <1>3, <2>1, <3>1, <3>2
    <3> QED BY <2>1, <2>2, <3>3, Unchanged, NothingMoves
  <2>4. CASE th[s].pc \notin {"none", "exit"}
    <3>1. th' = th
      BY <1>3, <2>4 DEF ClientRunThread
    <3> QED BY <2>1, <2>2, <3>1, Unchanged, NothingMoves
  <2> QED BY <2>3, <2>4
<1>4. CASE ClientAbort(s)
  <2>1. /\ down[s] # << >> /\ down' = Read(s) /\ UNCHANGED <<wire, up>>
        /\ \/ UNCHANGED <<cl, th>>
           \/ /\ s \in Target
              /\ cl' = [cl EXCEPT ![s].list = << >>, ![s].notify = FALSE]
              /\ th' = [th EXCEPT ![s].heard = @ \/ th[s].pc \in {"get", "result"}]
    BY <1>4 DEF ClientAbort
  <2>2. CASE UNCHANGED <<cl, th>>
    BY <2>1, <2>2, Unchanged, ReadPlaces
  <2>3. CASE /\ s \in Target
             /\ cl' = [cl EXCEPT ![s].list = << >>, ![s].notify = FALSE]
             /\ th' = [th EXCEPT ![s].heard = @ \/ th[s].pc \in {"get", "result"}]
    <3>1. cl \in [Target -> ClientType] /\ th \in [Target -> ThreadType]
      BY Frame DEF Clients, Threads
    <3>2. th'[t].cur = th[t].cur
      BY <2>3, <3>1 DEF ThreadType
    <3>3. cl'[s].list = << >> /\ (t # s => cl'[t] = cl[t])
      BY <2>3, <3>1 DEF ClientType
    <3>4. \A i : ~Has(<< >>, i, x)
      BY EmptySeq DEF Has
    <3>5. ListStays(t, x)
      BY <3>3, <3>4 DEF ListStays, ListAt
    <3> QED BY <2>1, <3>2, <3>5, Unchanged, ReadPlaces
  <2> QED BY <2>1, <2>2, <2>3
<1> QED BY <1>1, <1>2, <1>3, <1>4, RequestPlaces DEF ClientStep

LEMMA TakePlaces ==
  ASSUME Types, [Next]_vars, NEW t \in Target, NEW x \in Par, PlaceOK(t, x),
         NEW s \in Target, ThreadTake(s)
  PROVE  Kept(t, x)
<1>1. /\ th[s].pc = "loop" /\ UNCHANGED <<wire, down, up>> /\ ThreadOK(s)
      /\ cl \in [Target -> ClientType] /\ th \in [Target -> ThreadType]
  BY Frame DEF ThreadTake, Clients, Threads
<1>2. CASE cl[s].notify /\ cl[s].list # << >>
  <2>1. PICK l : l = cl[s].list
    OBVIOUS
  <2>2. PICK r : r = [pc |-> "get", cur |-> Head(l), next |-> 1, ok |-> TRUE, heard |-> FALSE]
    OBVIOUS
  <2>3. th' = [th EXCEPT ![s] = r] /\ cl' = [cl EXCEPT ![s].list = Tail(l)]
    BY <1>2, <2>1, <2>2 DEF ThreadTake, Rest
  <2>4. l \in Seq(Par) /\ l # << >> /\ Has(l, 1, Head(l))
    BY <1>1, <1>2, <2>1, HasTail DEF ClientType
  <2>5. cl'[s].list = Tail(l) /\ (t # s => cl'[t] = cl[t])
        /\ th'[s].cur = Head(l) /\ (t # s => th'[t] = th[t])
    BY <1>1, <2>2, <2>3 DEF ClientType
  <2>6. s = t /\ Head(l) = x => At("list", s, 1, t, x)
    BY <2>1, <2>4 DEF At, ListAt
  <2>7. ASSUME NEW i, ListAt(i, t, x)'
        PROVE  ListAt(IF t = s THEN i + 1 ELSE i, t, x)
    <3>1. CASE t # s
      BY <2>5, <2>7, <3>1 DEF ListAt
    <3>2. CASE t = s
      <4>1. Has(Tail(l), i, x)
        BY <2>5, <2>7, <3>2 DEF ListAt
      <4>2. Has(l, i + 1, x)
        BY <2>4, <4>1, HasTail
      <4> QED BY <2>1, <3>2, <4>2 DEF ListAt
    <3> QED BY <3>1, <3>2
  <2>8. ListMoves(t, x, "list", s, "thread", s, 1)
    BY <2>7 DEF ListMoves, Shifted
  <2>9. ThreadMoves(t, x, "list", s, "thread", s, 1)
    <3>1. ThreadAt(1, t, x)' => ThreadAt(1, t, x) \/ (t = s /\ Head(l) = x)
      BY <2>5 DEF ThreadAt
    <3> QED BY <2>6, <3>1 DEF ThreadMoves, Shifted, Added, MayAdd
  <2>10. /\ RingMoves(t, x, "list", s, "thread", s, 1) /\ DownMoves(t, x, "list", s, "thread", s, 1)
         /\ UpMoves(t, x, "list", s, "thread", s, 1)
    BY <1>1, Unchanged, StaysMoves
  <2> QED BY <2>8, <2>9, <2>10, PlacesMove
<1>3. CASE ~(cl[s].notify /\ cl[s].list # << >>)
  <2>1. th' = [th EXCEPT ![s] = [IdleThread EXCEPT !.pc = "left"]] /\ cl' = cl /\ th[s].cur = NoParam
    BY <1>1, <1>3 DEF ThreadTake, ThreadOK
  <2>2. [IdleThread EXCEPT !.pc = "left"].cur = NoParam
    BY DEF IdleThread
  <2>3. th'[t].cur = th[t].cur
    BY <1>1, <2>1, <2>2
  <2> QED BY <1>1, <2>1, <2>3, Unchanged, NothingMoves
<1> QED BY <1>2, <1>3

LEMMA ResultPlaces ==
  ASSUME Types, [Next]_vars, NEW t \in Target, NEW x \in Par, PlaceOK(t, x),
         NEW s \in Target, NEW b \in Box, ThreadResult(s, b)
  PROVE  Kept(t, x)
<1>1. PICK par, e, n : par = th[s].cur /\ e = Res(par, Outcome(s)) /\ n = Len(up[s][b]) + 1
  OBVIOUS
<1>2. /\ th[s].pc = "result" /\ UNCHANGED <<wire, down, cl>> /\ (up' = ToChmpx(s, b, e) \/ up' = up)
      /\ th' = [th EXCEPT ![s] = [IdleThread EXCEPT !.pc = "loop"]]
  BY <1>1 DEF ThreadResult
<1>3. /\ th \in [Target -> ThreadType] /\ ThreadOK(s) /\ cl[s] \in ClientType /\ s \in Server
      /\ th[s] \in ThreadType
  BY Frame, Servers DEF Threads, Clients
<1>4. par \in Par
  BY <1>1, <1>2, <1>3 DEF ThreadOK, ThreadType
<1>5. Outcome(s) \in BOOLEAN
  BY <1>3 DEF Outcome, ThreadType, ClientType
<1>6. e \in UpMsg /\ Answers(e) = par
  BY <1>1, <1>4, <1>5, Built, ParIs DEF Answers, Res
<1>7. s = t /\ par = x => At("thread", s, 1, t, x)
  BY <1>1 DEF At, ThreadAt
<1>8. th'[s].cur = NoParam /\ (t # s => th'[t] = th[t])
  BY <1>2, <1>3 DEF IdleThread
<1>9. ThreadMoves(t, x, "thread", s, "up", b, n)
  <2>1. ThreadAt(1, t, x)' => ThreadAt(1, t, x) /\ t # s
    BY <1>8, ParIs DEF ThreadAt
  <2> QED BY <2>1 DEF ThreadMoves, Shifted
<1>10. UpMoves(t, x, "thread", s, "up", b, n)
  <2>1. CASE up' = up
    BY <2>1, Unchanged, StaysMoves
  <2>2. CASE up' = ToChmpx(s, b, e)
    <3>1. ASSUME NEW z, NEW i, UpAt(z, i, t, x)'
          PROVE  UpAt(z, i, t, x) \/ (Added("up", z, i, "up", b, n) /\ MayAdd(t, x, "thread", s))
      <4>1. UpAt(z, i, t, x) \/ (t = s /\ z = b /\ i = n /\ Answers(e) = x)
        BY <1>1, <1>3, <1>6, <2>2, <3>1, UpSent
      <4> QED BY <1>6, <1>7, <4>1 DEF Added, MayAdd
    <3> QED BY <3>1 DEF UpMoves, Shifted
  <2> QED BY <1>2, <2>1, <2>2
<1>11. /\ RingMoves(t, x, "thread", s, "up", b, n) /\ DownMoves(t, x, "thread", s, "up", b, n)
       /\ ListMoves(t, x, "thread", s, "up", b, n)
  BY <1>2, Unchanged, StaysMoves
<1> QED BY <1>9, <1>10, <1>11, PlacesMove

LEMMA ThreadPlaces ==
  ASSUME Types, [Next]_vars, NEW t \in Target, NEW x \in Par, PlaceOK(t, x),
         NEW s \in Target, ThreadStep(s)
  PROVE  Kept(t, x)
<1>1. /\ th \in [Target -> ThreadType] /\ ThreadOK(s) /\ th[s] \in ThreadType /\ s \in Server
  BY Frame, Servers DEF Threads
<1>2. ASSUME NEW b \in Box, ThreadGet(s, b)
      PROVE  Kept(t, x)
  <2>1. th[s].pc = "get" /\ UNCHANGED <<wire, down, cl>>
    BY <1>2 DEF ThreadGet
  <2>2. th'[t].cur = th[t].cur
    BY <1>1, <1>2 DEF ThreadGet, ThreadType
  <2>3. UpStays(t, x)
    <3>1. CASE up' = up
      BY <3>1, Unchanged
    <3>2. CASE up' # up
      <4>1. up' = ToChmpx(s, b, Resp(th[s].cur, th[s].next)) /\ MoreData(s)
        BY <1>2, <3>2 DEF ThreadGet
      <4>2. th[s].cur \in Par /\ th[s].next \in Datum
        BY <1>1, <2>1, <4>1, Servers DEF ThreadOK, ThreadType, MoreData, Datum
      <4>3. Resp(th[s].cur, th[s].next) \in UpMsg /\ Resp(th[s].cur, th[s].next).type # "RESULT"
        BY <4>2, Built DEF Resp
      <4> QED BY <1>1, <4>1, <4>3, Unchanged
    <3> QED BY <3>1, <3>2
  <2> QED BY <2>1, <2>2, <2>3, Unchanged, NothingMoves
<1>3. CASE ThreadEnough(s) \/ ThreadExit(s)
  <2>1. UNCHANGED <<wire, down, up, cl>>
    BY <1>3 DEF ThreadEnough, ThreadExit
  <2>2. th'[t].cur = th[t].cur
    BY <1>1, <1>3 DEF ThreadEnough, ThreadExit, ThreadType
  <2> QED BY <2>1, <2>2, Unchanged, NothingMoves
<1> QED BY <1>2, <1>3, TakePlaces, ResultPlaces DEF ThreadStep

-----------------------------------------------------------------------------

LEMMA InitPlaces ==
  ASSUME Init, NEW t \in Target, NEW x \in Par
  PROVE  PlaceOK(t, x) /\ ~Live(t, x)
<1>1. \A i, p : ~Has(<< >>, i, p)
  BY EmptySeq DEF Has
<1>2. t \in Server /\ x # NoParam
  BY Servers, ParIs
<1>3. /\ \A z \in Server \X Server : wire[z] = << >>
      /\ down[t] = << >> /\ \A b \in Box : up[t][b] = << >>
      /\ cl[t].list = << >> /\ th[t].cur = NoParam
  BY <1>2 DEF Init, IdleThread
<1>4. \A k, z, i : ~At(k, z, i, t, x)
  BY <1>1, <1>2, <1>3 DEF At, RingAt, DownAt, ListAt, ThreadAt, UpAt
<1> QED BY <1>4 DEF PlaceOK, OnePlace, Live

LEMMA NextPlaces ==
  ASSUME Types, [Next]_vars, NEW t \in Target, NEW x \in Par, PlaceOK(t, x)
  PROVE  Kept(t, x)
<1>1. CASE UNCHANGED vars
  <2>1. UNCHANGED <<wire, down, up, cl, th>>
    BY <1>1 DEF vars
  <2> QED BY <2>1, Unchanged, NothingMoves
<1>2. CASE Next
  BY <1>2, WorkerPlaces, SocketPlaces, ChmpxPlaces, ClientPlaces, ThreadPlaces DEF Next
<1> QED BY <1>1, <1>2

LEMMA PlacesAnswered ==
  MergeInv => AnsweredOnce
<1> SUFFICES ASSUME MergeInv, NEW t \in Target, NEW b \in Box, NEW i \in DOMAIN up[t][b],
                    IsResult(up[t][b][i])
             PROVE  /\ \A c \in Box : \A j \in DOMAIN up[t][c] :
                         IsResult(up[t][c][j]) /\ Answers(up[t][c][j]) = Answers(up[t][b][i])
                           => c = b /\ j = i
                    /\ Answers(up[t][b][i]) \notin Range(cl[t].list)
                    /\ th[t].cur # Answers(up[t][b][i])
  BY DEF AnsweredOnce
<1>1. PICK p, x : p = up[t][b][i] /\ x = Answers(p)
  OBVIOUS
<1>2. /\ \A c \in Box : up[t][c] \in Seq(UpMsg) /\ DOMAIN up[t][c] = 1 .. Len(up[t][c])
      /\ cl[t].list \in Seq(Par) /\ DOMAIN cl[t].list = 1 .. Len(cl[t].list)
  BY Frame, Servers, LenProperties DEF MergeInv, UpType, Clients, ClientType
<1>3. p \in UpMsg /\ IsResult(p) /\ Has(up[t][b], i, p)
  BY <1>1, <1>2, ElementOfSeq DEF Has
<1>4. x \in Par
  BY <1>1, <1>3, UpIs DEF Answers, IsResult, Par
<1>5. OnePlace(t, x)
  BY <1>4 DEF MergeInv, PlaceOK
<1>6. At("up", b, i, t, x)
  BY <1>1, <1>2, <1>3, HasIs DEF At, UpAt
<1>7. ASSUME NEW c \in Box, NEW j \in DOMAIN up[t][c], IsResult(up[t][c][j]), Answers(up[t][c][j]) = x
      PROVE  c = b /\ j = i
  <2>1. Has(up[t][c], j, up[t][c][j])
    BY <1>2 DEF Has
  <2>2. At("up", c, j, t, x)
    BY <1>2, <1>7, <2>1, HasIs DEF At, UpAt
  <2> QED BY <1>5, <1>6, <2>2 DEF OnePlace
<1>8. x \notin Range(cl[t].list)
  <2>1. ASSUME NEW j \in DOMAIN cl[t].list, cl[t].list[j] = x
        PROVE  FALSE
    <3>1. Has(cl[t].list, j, x) /\ j \in Nat \ {0}
      BY <1>2, <2>1, LenProperties DEF Has
    <3>2. At("list", t, j, t, x)
      BY <3>1 DEF At, ListAt
    <3> QED BY <1>5, <1>6, <3>2 DEF OnePlace
  <2> QED BY <2>1 DEF Range
<1>9. th[t].cur # x
  <2>1. ASSUME th[t].cur = x
        PROVE  FALSE
    <3>1. At("thread", t, 1, t, x)
      BY <2>1 DEF At, ThreadAt
    <3> QED BY <1>5, <1>6, <3>1 DEF OnePlace
  <2> QED BY <2>1
<1> QED BY <1>1, <1>7, <1>8, <1>9

\* The client of a target answers each request at most once, for any number of merges
\* started, aborted and started again, any RING and any number of msgids.
THEOREM AnsweredOnceHolds == Spec => []AnsweredOnce
<1>1. Init => MergeInv
  BY InitTypes, InitPlaces DEF MergeInv
<1>2. MergeInv /\ [Next]_vars => MergeInv'
  <2> SUFFICES ASSUME MergeInv, [Next]_vars
               PROVE  MergeInv'
    OBVIOUS
  <2>1. Types'
    BY NextTypes DEF MergeInv
  <2>2. ASSUME NEW t \in Target, NEW x \in Par
        PROVE  PlaceOK(t, x)'
    BY <2>2, NextPlaces DEF MergeInv, Kept
  <2>3. (\A t \in Target, x \in Par : PlaceOK(t, x))'
    BY <2>2
  <2> QED BY <2>1, <2>3 DEF MergeInv
<1>3. MergeInv => AnsweredOnce
  BY PlacesAnswered
<1> QED BY <1>1, <1>2, <1>3, PTL DEF Spec

-----------------------------------------------------------------------------
(* As long as no merge is aborted.  Every request that is on its way is    *)
(* one of the merge that runs, and its target has no result yet.           *)

Entry(t) == {Inival, OwnFlag(t)}

CalmPacket(p) ==
  p.type # "ABORT" /\ (p.type = "REQ" => \A t \in Target : p.map[t] \in Entry(t))
WireCalm == \A z \in Server \X Server : \A i, p : Has(wire[z], i, p) => CalmPacket(p)
DownCalm == \A s \in Server : \A i, p : Has(down[s], i, p) => p.type # "ABORT"

WorkerCalm(m) == wk[m].calls \in {0, 1} /\ (wk[m].run => wk[m].calls = 1) /\ (wk[m].calls = 1 => wk[m].run)
ClientCalm(t) == th[t].cur # NoParam => cl[t].notify
MapCalm(m, t) == idmap[m][t] \in Entry(t) \/ (Serves(t) /\ idmap[m][t] \in Outcomes)
AskCalm(m, t) == Serves(t) /\ wk[m].run /\ wk[m].pc # "wait" => idmap[m][t] \notin Outcomes
PlaceCalm(t, x) ==
  Live(t, x) => wk[x[1]].run /\ x[2] = wk[x[1]].round /\ idmap[x[1]][t] \notin Outcomes

MergerCalm(m) ==
  /\ WorkerCalm(m)
  /\ \A t \in Target : MapCalm(m, t) /\ AskCalm(m, t)
  /\ \A t \in Target, x \in Par : x[1] = m => PlaceCalm(t, x)

Calm == WireCalm /\ DownCalm /\ (\A t \in Target : ClientCalm(t)) /\ \A m \in Merger : MergerCalm(m)

AllKept == \A t \in Target, x \in Par : Kept(t, x)

LEMMA CalmSent ==
  ASSUME Types, WireCalm, NEW s \in Server, NEW d \in Server, NEW e \in Packet, CalmPacket(e),
         wire' = Sent(s, d, e)
  PROVE  WireCalm'
<1>1. PICK v, y : v = wire /\ y = <<s, d>>
  OBVIOUS
<1>2. /\ y \in Server \X Server /\ v \in [Server \X Server -> Seq(Packet)]
      /\ wire' = More(v, y, e)
  BY <1>1, WireIs, Frame DEF WireType
<1>3. \A z \in Server \X Server : \A i, p : Has(v[z], i, p) => CalmPacket(p)
  BY <1>1 DEF WireCalm
<1>4. ASSUME NEW z \in Server \X Server, NEW i, NEW p, Has(More(v, y, e)[z], i, p)
      PROVE  CalmPacket(p)
  <2>1. Has(v[z], i, p) \/ Fresh(v, y, e, z, i, p)
    BY <1>2, <1>4, QueueSent
  <2> QED BY <1>3, <2>1 DEF Fresh
<1>5. \A z \in Server \X Server : \A i, p : Has(wire'[z], i, p) => CalmPacket(p)
  BY <1>2, <1>4
<1> QED BY <1>5 DEF WireCalm, CalmPacket, Entry

LEMMA CalmTaken ==
  ASSUME Types, WireCalm, NEW s \in Server, NEW d \in Server, wire[<<s, d>>] # << >>
  PROVE  /\ CalmPacket(Head(wire[<<s, d>>]))
         /\ wire' = Taken(s, d) => WireCalm'
         /\ \A e \in Packet : CalmPacket(e) /\ wire' = Passed(s, d, e) => WireCalm'
<1>1. PICK v, y, w, n : v = wire /\ y = <<s, d>> /\ w = <<d, n>> /\ n = NextOf(d)
  OBVIOUS
<1>2. n \in Server
  BY <1>1, Servers
<1>3. /\ y \in Server \X Server /\ v \in [Server \X Server -> Seq(Packet)] /\ v[y] # << >>
      /\ w \in Server \X Server
  BY <1>1, <1>2, Frame DEF WireType
<1>4. \A z \in Server \X Server : \A i, p : Has(v[z], i, p) => CalmPacket(p)
  BY <1>1 DEF WireCalm
<1>5. CalmPacket(Head(v[y]))
  BY <1>3, <1>4, QueueTaken
<1>6. PICK u : u = Less(v, y)
  OBVIOUS
<1>7. u \in [Server \X Server -> Seq(Packet)]
  BY <1>3, <1>6, QueueTaken
<1>8. ASSUME NEW z \in Server \X Server, NEW i, NEW p, Has(u[z], i, p)
      PROVE  CalmPacket(p)
  <2>1. Has(v[z], IF z = y THEN i + 1 ELSE i, p)
    BY <1>3, <1>6, <1>8, QueueTaken
  <2> QED BY <1>4, <2>1
<1>9. ASSUME wire' = u
      PROVE  WireCalm'
  BY <1>8, <1>9 DEF WireCalm, CalmPacket, Entry
<1>10. ASSUME NEW e \in Packet, CalmPacket(e), wire' = More(u, w, e)
       PROVE  WireCalm'
  <2>1. ASSUME NEW z \in Server \X Server, NEW i, NEW p, Has(More(u, w, e)[z], i, p)
        PROVE  CalmPacket(p)
    <3>1. Has(u[z], i, p) \/ Fresh(u, w, e, z, i, p)
      BY <1>3, <1>7, <2>1, QueueSent
    <3> QED BY <1>8, <1>10, <3>1 DEF Fresh
  <2>2. \A z \in Server \X Server : \A i, p : Has(wire'[z], i, p) => CalmPacket(p)
    BY <1>10, <2>1
  <2> QED BY <2>2 DEF WireCalm, CalmPacket, Entry
<1>11. Taken(s, d) = u
  BY <1>1, <1>6, WireIs
<1>12. \A e : Passed(s, d, e) = More(u, w, e)
  BY <1>1, <1>6, PassedIs
<1>13. CalmPacket(Head(wire[<<s, d>>]))
  BY <1>1, <1>5
<1> QED BY <1>9, <1>10, <1>11, <1>12, <1>13

LEMMA DownCalmNext ==
  ASSUME Types, DownCalm, NEW s \in Server
  PROVE  /\ down' = down => DownCalm'
         /\ \A e \in DownMsg : e.type # "ABORT" /\ down' = ToClient(s, e) => DownCalm'
         /\ down[s] # << >> => Head(down[s]).type # "ABORT" /\ (down' = Read(s) => DownCalm')
<1>1. down \in [Server -> Seq(DownMsg)]
  BY Frame DEF DownType
<1>2. down' = down => DownCalm'
  BY DEF DownCalm
<1>3. ASSUME NEW e \in DownMsg, e.type # "ABORT", down' = ToClient(s, e)
      PROVE  DownCalm'
  <2>1. down' = More(down, s, e)
    BY <1>3, WireIs
  <2>2. ASSUME NEW z \in Server, NEW i, NEW p, Has(More(down, s, e)[z], i, p)
        PROVE  p.type # "ABORT"
    <3>1. Has(down[z], i, p) \/ Fresh(down, s, e, z, i, p)
      BY <1>1, <2>2, QueueSent
    <3> QED BY <1>3, <3>1 DEF Fresh, DownCalm
  <2> QED BY <2>1, <2>2 DEF DownCalm
<1>4. ASSUME down[s] # << >>
      PROVE  Head(down[s]).type # "ABORT"
  BY <1>1, <1>4, QueueTaken DEF DownCalm
<1>5. ASSUME down[s] # << >>, down' = Read(s)
      PROVE  DownCalm'
  <2>1. down' = Less(down, s)
    BY <1>5, WireIs
  <2>2. ASSUME NEW z \in Server, NEW i, NEW p, Has(Less(down, s)[z], i, p)
        PROVE  p.type # "ABORT"
    <3>1. Has(down[z], IF z = s THEN i + 1 ELSE i, p)
      BY <1>1, <1>5, <2>2, QueueTaken
    <3> QED BY <3>1 DEF DownCalm
  <2> QED BY <2>1, <2>2 DEF DownCalm
<1> QED BY <1>2, <1>3, <1>4, <1>5

LEMMA AskedCalm ==
  ASSUME Types, NEW m \in Merger, MergerCalm(m), wk[m].pc # "wait", wk[m].calls > 0
  PROVE  \A t \in Target : idmap[m][t] \in Entry(t)
BY DEF MergerCalm, WorkerCalm, MapCalm, AskCalm

LEMMA QueuesCalm ==
  ASSUME Types, Calm, aborts = 0, aborts' = 0, [Next]_vars
  PROVE  WireCalm' /\ DownCalm'
<1>1. WireCalm /\ DownCalm /\ \A m \in Merger : MergerCalm(m)
  BY DEF Calm
<1>2. wire' = wire => WireCalm'
  BY <1>1 DEF WireCalm, CalmPacket, Entry
<1>3. down' = down => DownCalm'
  BY <1>1 DEF DownCalm
<1>4. CASE UNCHANGED vars
  BY <1>2, <1>3, <1>4 DEF vars
<1>5. ASSUME NEW m \in Merger, MergeStart(m) \/ WorkerStep(m)
      PROVE  WireCalm' /\ DownCalm'
  <2>1. m \in Server /\ NextOf(m) \in Server
    BY Servers
  <2>2. CASE SendReqUpdateData(m)
    <3>1. down' = down /\ wire' = Sent(m, NextOf(m), ReqPacket(m)) /\ wk[m].pc = "lasttime"
      BY <2>2 DEF SendReqUpdateData
    <3>2. wk[m].calls > 0
      BY <3>1, Frame DEF Workers, WorkerOK
    <3>3. CalmPacket(ReqPacket(m))
      BY <1>1, <3>1, <3>2, AskedCalm DEF CalmPacket, ReqPacket
    <3>4. ReqPacket(m) \in Packet
      BY Requested
    <3> QED BY <1>1, <1>3, <2>1, <3>1, <3>3, <3>4, CalmSent
  <2>3. CASE ~SendReqUpdateData(m)
    <3>1. wire' = wire /\ (down' = down \/ down' = ToClient(m, GetLastTs))
      BY <1>5, <2>3 DEF MergeStart, WorkerStep, AskLastTime, ResetNotify, LastTimeTimeout,
                        WorkerDone, WorkerStopped
    <3>2. GetLastTs \in DownMsg /\ GetLastTs.type # "ABORT"
      BY Built DEF GetLastTs
    <3> QED BY <1>1, <1>2, <2>1, <3>1, <3>2, DownCalmNext
  <2> QED BY <2>2, <2>3
<1>6. ASSUME NEW m \in Merger, RequestMergeAbort(m)
      PROVE  FALSE
  <2>1. aborts' = aborts + 1
    BY <1>6 DEF RequestMergeAbort
  <2> QED BY <2>1
<1>7. ASSUME NEW s \in Server, NEW d \in Server, SocketStep(s, d)
      PROVE  WireCalm' /\ DownCalm'
  <2>1. PICK p : p = Head(wire[<<s, d>>])
    OBVIOUS
  <2>2. wire[<<s, d>>] # << >>
    BY <1>7 DEF SocketStep, ReceiveReqBack, ReceiveReqPass, ReceiveResUpdateData,
                ReceiveResultUpdateData, MergeAbort
  <2>3. p \in Packet /\ CalmPacket(p)
    BY <1>1, <2>1, <2>2, TakenTypes, CalmTaken
  <2>4. ~MergeAbort(s, d)
    BY <2>1, <2>3 DEF MergeAbort, CalmPacket
  <2>5. CASE ReceiveReqBack(s, d) \/ ReceiveResultUpdateData(s, d)
    <3>1. wire' = Taken(s, d) /\ down' = down
      BY <2>5 DEF ReceiveReqBack, ReceiveResultUpdateData
    <3> QED BY <1>1, <1>3, <2>2, <3>1, CalmTaken
  <2>6. CASE ReceiveResUpdateData(s, d)
    <3>1. wire' = Taken(s, d) /\ down' = ToClient(d, SetMsg(p.datum)) /\ p.type = "RES"
      BY <2>1, <2>6 DEF ReceiveResUpdateData, MergeSetUpdateData
    <3>2. SetMsg(p.datum) \in DownMsg /\ SetMsg(p.datum).type # "ABORT"
      BY <2>3, <3>1, PacketIs, Built DEF SetMsg
    <3>3. DownCalm'
      BY <1>1, <3>1, <3>2, DownCalmNext
    <3> QED BY <1>1, <2>2, <3>1, <3>3, CalmTaken
  <2>7. CASE ReceiveReqPass(s, d)
    <3>1. p.type = "REQ" /\ p.dept \in Merger /\ p.round \in Run /\ p.map \in [Target -> Flag]
      BY <2>1, <2>3, <2>7, PacketIs DEF ReceiveReqPass
    <3>2. DownCalm'
      <4>1. down' = down \/ down' = ToClient(d, ReqMsg(<<p.dept, p.round>>))
        BY <2>1, <2>7 DEF ReceiveReqPass, MergeRequestUpdateData
      <4>2. ReqMsg(<<p.dept, p.round>>) \in DownMsg /\ ReqMsg(<<p.dept, p.round>>).type # "ABORT"
        BY <3>1, Built DEF Par, ReqMsg
      <4> QED BY <1>1, <1>3, <4>1, <4>2, DownCalmNext
    <3>3. CASE d \notin Target
      <4>1. wire' = Passed(s, d, p)
        BY <2>1, <2>7, <3>3 DEF ReceiveReqPass
      <4> QED BY <1>1, <2>2, <2>3, <3>2, <4>1, CalmTaken
    <3>4. CASE d \in Target
      <4>1. PICK e \in Packet : e = [p EXCEPT !.map[d] = OwnFlag(d)] /\ e.type = "REQ"
        BY <2>3, <3>1, <3>4, Entered
      <4>2. wire' = Passed(s, d, e)
        BY <2>1, <2>7, <3>4, <4>1 DEF ReceiveReqPass
      <4>3. e.map = [p.map EXCEPT ![d] = OwnFlag(d)]
        <5>1. p \in [type : {"REQ"}, dept : Merger, round : Run, map : [Target -> Flag]]
          BY <2>3, <3>1 DEF Packet
        <5> QED BY <4>1, <5>1
      <4>4. ASSUME NEW t \in Target
            PROVE  e.map[t] \in Entry(t)
        BY <2>3, <3>1, <4>3 DEF CalmPacket, Entry
      <4>5. CalmPacket(e)
        BY <4>1, <4>4 DEF CalmPacket
      <4> QED BY <1>1, <2>2, <3>2, <4>2, <4>5, CalmTaken
    <3> QED BY <3>3, <3>4
  <2> QED BY <1>7, <2>4, <2>5, <2>6, <2>7 DEF SocketStep
<1>8. ASSUME NEW s \in Server, NEW b \in Box, ChmpxStep(s, b)
      PROVE  WireCalm' /\ DownCalm'
  <2>1. PICK p : p = Head(up[s][b])
    OBVIOUS
  <2>2. /\ up[s][b] # << >> /\ down' = down
        /\ \/ wire' = wire
           \/ p.type = "RES" /\ wire' = Sent(s, p.to, ResPacket(p))
           \/ p.type = "RESULT" /\ wire' = Sent(s, p.to, ResultPacket(p))
    BY <1>8, <2>1 DEF ChmpxStep, ChmpxLastTime, ChmpxResponse, ChmpxResult,
                      MergeResponseUpdateData, MergeResultUpdateData
  <2>3. p \in UpMsg
    BY <2>1, <2>2, TakenTypes
  <2>4. CASE wire' = wire
    BY <1>2, <1>3, <2>2, <2>4
  <2>5. CASE p.type = "RES" /\ wire' = Sent(s, p.to, ResPacket(p))
    <3>1. p.to \in Server /\ ResPacket(p) \in Packet /\ CalmPacket(ResPacket(p))
      BY <2>3, <2>5, UpIs, Forwarded, Servers DEF ResPacket, CalmPacket
    <3> QED BY <1>1, <1>3, <2>2, <2>5, <3>1, CalmSent
  <2>6. CASE p.type = "RESULT" /\ wire' = Sent(s, p.to, ResultPacket(p))
    <3>1. p.to \in Server /\ ResultPacket(p) \in Packet /\ CalmPacket(ResultPacket(p))
      BY <2>3, <2>6, UpIs, Forwarded, Servers DEF ResultPacket, CalmPacket
    <3> QED BY <1>1, <1>3, <2>2, <2>6, <3>1, CalmSent
  <2> QED BY <2>2, <2>4, <2>5, <2>6
<1>9. ASSUME NEW s \in Server, ClientStep(s)
      PROVE  WireCalm' /\ DownCalm'
  <2>1. /\ wire' = wire
        /\ down' = down \/ (down[s] # << >> /\ down' = Read(s))
    BY <1>9 DEF ClientStep, ClientLastTime, ClientSet, ClientRequest, ClientRunThread, ClientAbort
  <2> QED BY <1>1, <1>2, <1>3, <2>1, DownCalmNext
<1>10. ASSUME NEW t \in Target, ThreadStep(t)
       PROVE  wire' = wire /\ down' = down
  BY <1>10 DEF ThreadStep, ThreadTake, ThreadGet, ThreadEnough, ThreadResult, ThreadExit
<1> QED BY <1>2, <1>3, <1>4, <1>5, <1>6, <1>7, <1>8, <1>9, <1>10 DEF Next

\* What a live request tells of the worker that waits for it.
LEMMA LiveIs ==
  ASSUME Types, NEW t \in Target, NEW x \in Par, PlaceOK(t, x), NEW m \in Merger, x[1] = m,
         MergerCalm(m), Live(t, x)
  PROVE  /\ Serves(t) /\ wk[m].run /\ x[2] = wk[m].round /\ idmap[m][t] \notin Outcomes
         /\ wk[m].pc = "wait" /\ idmap[m][t] \notin Result
<1>1. Serves(t) /\ Asked(x)
  BY DEF PlaceOK, Live
<1>2. wk[m].run /\ x[2] = wk[m].round /\ idmap[m][t] \notin Outcomes /\ wk[m].calls = 1
  BY DEF MergerCalm, PlaceCalm, WorkerCalm
<1>3. x[2] \in Nat
  BY ParIs DEF Run
<1>4. RunOf(m) = x[2]
  BY <1>2, <1>3 DEF RunOf
<1>5. wk[m].pc = "wait"
  BY <1>1, <1>3, <1>4 DEF Asked
<1>6. idmap[m][t] \in {Inival, Do}
  BY <1>1, <1>2 DEF MergerCalm, MapCalm, Entry, Serves
<1>7. idmap[m][t] \notin Result
  BY <1>6 DEF Inival, Do, Result
<1> QED BY <1>1, <1>2, <1>5, <1>7

\* A step that leaves the worker of m where it is, as far as requests are concerned.
SameWorker(m) ==
  /\ wk'[m].run = wk[m].run /\ wk'[m].calls = wk[m].calls /\ wk'[m].round = wk[m].round
  /\ wk'[m].pc = "wait" <=> wk[m].pc = "wait"

LEMMA SameAsked ==
  ASSUME NEW x, SameWorker(x[1])
  PROVE  ~Opens(x)
BY DEF SameWorker, Opens, Asked, RunOf

LEMMA CalmKept ==
  ASSUME Types, NEW m \in Merger, MergerCalm(m), AllKept, SameWorker(m), idmap'[m] = idmap[m]
  PROVE  MergerCalm(m)'
<1>1. WorkerCalm(m)'
  BY DEF MergerCalm, WorkerCalm, SameWorker
<1>2. ASSUME NEW t \in Target
      PROVE  MapCalm(m, t)' /\ AskCalm(m, t)'
  BY DEF MergerCalm, MapCalm, AskCalm, SameWorker, Entry, Serves
<1>3. ASSUME NEW t \in Target, NEW x \in Par, x[1] = m
      PROVE  PlaceCalm(t, x)'
  <2>1. Live(t, x)' => Live(t, x)
    BY <1>3, SameAsked DEF AllKept, Kept
  <2> QED BY <1>3, <2>1 DEF MergerCalm, PlaceCalm, SameWorker
<1> QED BY <1>1, <1>2, <1>3 DEF MergerCalm

LEMMA StartCalm ==
  ASSUME Types, NEW m \in Merger, MergerCalm(m), AllKept, MergeStart(m)
  PROVE  MergerCalm(m)'
<1>1. /\ wk \in [Merger -> WorkerType] /\ WorkerOK(m) /\ wk[m] \in WorkerType /\ ~wk[m].run
      /\ idmap' = [idmap EXCEPT ![m] = [t \in Target |-> Inival]]
      /\ idmap \in [Merger -> [Target -> Flag]]
      /\ wk' = [wk EXCEPT ![m].run = TRUE, ![m].calls = @ + 1, ![m].round = @ + 1]
  BY Frame DEF Workers, MergeStart, Maps
<1>2. wk[m].calls = 0 /\ wk[m].pc = "sleep"
  BY <1>1 DEF MergerCalm, WorkerCalm, WorkerOK
<1>3. wk'[m].run /\ wk'[m].calls = 1 /\ wk'[m].pc = "sleep"
  BY <1>1, <1>2 DEF WorkerType
<1>4. WorkerCalm(m)'
  BY <1>3 DEF WorkerCalm
<1>5. ASSUME NEW t \in Target
      PROVE  MapCalm(m, t)' /\ AskCalm(m, t)'
  <2>1. idmap'[m][t] = Inival
    BY <1>1
  <2> QED BY <2>1 DEF MapCalm, AskCalm, Entry, Inival, Outcomes
<1>6. ASSUME NEW t \in Target, NEW x \in Par, x[1] = m
      PROVE  PlaceCalm(t, x)'
  <2>1. ~Live(t, x)
    BY <1>1, <1>6 DEF MergerCalm, PlaceCalm
  <2>2. ~Opens(x)
    BY <1>3, <1>6 DEF Opens
  <2> QED BY <2>1, <2>2 DEF AllKept, Kept, PlaceCalm
<1> QED BY <1>4, <1>5, <1>6 DEF MergerCalm

LEMMA ReturnCalm ==
  ASSUME Types, NEW m \in Merger, MergerCalm(m), AllKept, wk' = Returned(m, FALSE),
         idmap' = idmap, wk[m].calls > 0, \A t \in Target, x \in Par : x[1] = m => ~Live(t, x)
  PROVE  MergerCalm(m)'
<1>1. wk \in [Merger -> WorkerType] /\ wk[m] \in WorkerType
  BY Frame DEF Workers
<1>2. wk[m].calls = 1
  BY DEF MergerCalm, WorkerCalm
<1>3. ~wk'[m].run /\ wk'[m].calls = 0 /\ wk'[m].pc = "sleep"
  BY <1>1, <1>2 DEF WorkerType, Returned
<1>4. WorkerCalm(m)'
  <2>1. wk'[m].calls = 0 /\ ~wk'[m].run
    BY <1>3
  <2>2. \A n \in Int : n = 0 => n \in {0, 1} /\ n # 1
    OBVIOUS
  <2>3. wk'[m].calls \in {0, 1} /\ wk'[m].calls # 1
    BY <2>1, <2>2, 0 \in Int
  <2> QED BY <2>1, <2>3 DEF WorkerCalm
<1>5. ASSUME NEW t \in Target
      PROVE  MapCalm(m, t)' /\ AskCalm(m, t)'
  BY <1>3 DEF MergerCalm, MapCalm, AskCalm, Entry, Serves
<1>6. ASSUME NEW t \in Target, NEW x \in Par, x[1] = m
      PROVE  PlaceCalm(t, x)'
  <2>1. ~Opens(x)
    BY <1>3, <1>6 DEF Opens
  <2> QED BY <1>6, <2>1 DEF AllKept, Kept, PlaceCalm
<1> QED BY <1>4, <1>5, <1>6 DEF MergerCalm

LEMMA SendCalm ==
  ASSUME Types, NEW m \in Merger, MergerCalm(m), AllKept, SendReqUpdateData(m)
  PROVE  MergerCalm(m)'
<1>1. /\ wk \in [Merger -> WorkerType] /\ wk[m] \in WorkerType /\ wk[m].pc = "lasttime"
      /\ WorkerOK(m) /\ wk' = [wk EXCEPT ![m].pc = "wait", ![m].pres = FALSE] /\ idmap' = idmap
  BY Frame DEF Workers, SendReqUpdateData
<1>2. wk[m].calls = 1 /\ wk[m].run
  BY <1>1 DEF MergerCalm, WorkerCalm, WorkerOK
<1>3. wk'[m].run /\ wk'[m].calls = 1 /\ wk'[m].pc = "wait" /\ wk'[m].round = wk[m].round
  BY <1>1, <1>2 DEF WorkerType
<1>4. WorkerCalm(m)'
  BY <1>3 DEF WorkerCalm
<1>5. ASSUME NEW t \in Target
      PROVE  MapCalm(m, t)' /\ AskCalm(m, t)'
  BY <1>1, <1>3 DEF MergerCalm, MapCalm, AskCalm, Entry, Serves
<1>6. ASSUME NEW t \in Target, NEW x \in Par, x[1] = m, Live(t, x)'
      PROVE  wk'[m].run /\ x[2] = wk'[m].round /\ idmap'[m][t] \notin Outcomes
  <2>1. CASE Live(t, x)
    BY <1>1, <1>3, <1>6, <2>1 DEF MergerCalm, PlaceCalm
  <2>2. CASE Opens(x)
    <3>1. x[2] \in Nat /\ wk[m].round \in Nat
      BY <1>1, ParIs DEF Run, WorkerType
    <3>2. RunOf(m) = wk[m].round /\ RunOf(m)' = wk[m].round
      BY <1>2, <1>3, <3>1 DEF RunOf
    <3>3. x[2] = wk[m].round
      BY <1>6, <2>2, <3>1, <3>2 DEF Opens, Asked
    <3>4. Serves(t)
      BY <1>6 DEF AllKept, Kept, PlaceOK, Live, Serves
    <3>5. idmap[m][t] \notin Outcomes
      BY <1>1, <1>2, <3>4 DEF MergerCalm, AskCalm
    <3> QED BY <1>1, <1>3, <3>3, <3>5
  <2> QED BY <1>6, <2>1, <2>2 DEF AllKept, Kept
<1>7. ASSUME NEW t \in Target, NEW x \in Par, x[1] = m
      PROVE  PlaceCalm(t, x)'
  BY <1>6, <1>7 DEF PlaceCalm
<1> QED BY <1>4, <1>5, <1>7 DEF MergerCalm

LEMMA WorkerCalmNext ==
  ASSUME Types, NEW m \in Merger, MergerCalm(m), AllKept, \A t \in Target, x \in Par : PlaceOK(t, x),
         NEW n \in Merger, MergeStart(n) \/ WorkerStep(n)
  PROVE  MergerCalm(m)'
<1>1. /\ wk \in [Merger -> WorkerType] /\ wk[m] \in WorkerType /\ WorkerOK(m)
      /\ idmap \in [Merger -> [Target -> Flag]]
  BY Frame DEF Workers, Maps
<1>2. CASE n # m
  <2>1. wk'[m] = wk[m]
    BY <1>1, <1>2 DEF MergeStart, WorkerStep, AskLastTime, ResetNotify, LastTimeTimeout,
                      SendReqUpdateData, WorkerDone, WorkerStopped, Returned
  <2>2. idmap'[m] = idmap[m]
    BY <1>1, <1>2 DEF MergeStart, WorkerStep, AskLastTime, ResetNotify, LastTimeTimeout,
                      SendReqUpdateData, WorkerDone, WorkerStopped
  <2> QED BY <2>1, <2>2, CalmKept DEF SameWorker
<1>3. ASSUME wk[m].pc # "wait", NEW t \in Target, NEW x \in Par, x[1] = m
      PROVE  ~Live(t, x)
  BY <1>3, LiveIs
<1>4. CASE n = m /\ AskLastTime(m)
  <2>1. wk[m].pc = "sleep" /\ wk[m].calls > 0 /\ idmap' = idmap
    BY <1>4 DEF AskLastTime
  <2>2. CASE m \in Clientless
    BY <1>3, <1>4, <2>1, <2>2, ReturnCalm DEF AskLastTime
  <2>3. CASE m \notin Clientless
    <3>1. wk' = [wk EXCEPT ![m].pc = "asked", ![m].of = wk[m].round, ![m].answered = FALSE]
      BY <1>4, <2>3 DEF AskLastTime
    <3>2. SameWorker(m)
      BY <1>1, <2>1, <3>1 DEF SameWorker, WorkerType
    <3> QED BY <2>1, <3>2, CalmKept
  <2> QED BY <2>2, <2>3
<1>5. CASE n = m /\ ResetNotify(m)
  <2>1. /\ wk[m].pc = "asked" /\ idmap' = idmap
        /\ wk' = [wk EXCEPT ![m].pc = "lasttime", ![m].notify = FALSE, ![m].pres = TRUE]
    BY <1>5 DEF ResetNotify
  <2>2. SameWorker(m)
    BY <1>1, <2>1 DEF SameWorker, WorkerType
  <2> QED BY <2>1, <2>2, CalmKept
<1>6. CASE n = m /\ LastTimeTimeout(m)
  <2>1. wk[m].pc = "lasttime" /\ idmap' = idmap /\ wk' = Returned(m, FALSE) /\ wk[m].calls > 0
    BY <1>1, <1>6 DEF LastTimeTimeout, WorkerOK
  <2> QED BY <1>3, <2>1, ReturnCalm
<1>7. CASE n = m /\ WorkerDone(m)
  <2>1. /\ wk[m].pc = "wait" /\ idmap' = idmap /\ wk' = Returned(m, FALSE) /\ wk[m].calls > 0
        /\ AllFinished(m)
    BY <1>1, <1>7 DEF WorkerDone, WorkerOK
  <2>2. ASSUME NEW t \in Target, NEW x \in Par, x[1] = m
        PROVE  ~Live(t, x)
    BY <2>1, <2>2, LiveIs DEF AllFinished
  <2> QED BY <2>1, <2>2, ReturnCalm
<1>8. CASE n = m /\ WorkerStopped(m)
  BY <1>1, <1>8 DEF WorkerStopped, WorkerOK, MergerCalm, WorkerCalm
<1> QED BY <1>2, <1>4, <1>5, <1>6, <1>7, <1>8, StartCalm, SendCalm DEF WorkerStep

LEMMA BackCalm ==
  ASSUME Types, NEW m \in Merger, MergerCalm(m), AllKept, WireCalm,
         \A t \in Target, x \in Par : PlaceOK(t, x), NEW s \in Server, ReceiveReqBack(s, m)
  PROVE  MergerCalm(m)'
<1>1. PICK p : p = Head(wire[<<s, m>>])
  OBVIOUS
<1>2. /\ wire[<<s, m>>] # << >> /\ p.type = "REQ" /\ wk' = wk
      /\ idmap' = [idmap EXCEPT ![m] = MergedMap(m, p.map)]
  BY <1>1 DEF ReceiveReqBack
<1>3. m \in Server /\ idmap \in [Merger -> [Target -> Flag]]
  BY Servers, Frame DEF Maps
<1>4. \A t \in Target : p.map[t] \in Entry(t)
  BY <1>1, <1>2, <1>3, CalmTaken DEF CalmPacket
<1>5. ASSUME NEW t \in Target
      PROVE  idmap'[m][t] = IF idmap[m][t] \in Result THEN idmap[m][t] ELSE p.map[t]
  BY <1>2, <1>3 DEF MergedMap
<1>6. WorkerCalm(m)'
  BY <1>2 DEF MergerCalm, WorkerCalm
<1>7. ASSUME NEW t \in Target, Serves(t), idmap[m][t] \notin Outcomes
      PROVE  idmap'[m][t] \notin Outcomes
  <2>1. p.map[t] \notin Outcomes
    BY <1>4, <1>7 DEF Entry, Serves, Inival, Do, Outcomes
  <2> QED BY <1>5, <1>7, <2>1
<1>8. ASSUME NEW t \in Target
      PROVE  MapCalm(m, t)' /\ AskCalm(m, t)'
  <2>1. idmap'[m][t] = idmap[m][t] \/ idmap'[m][t] \in Entry(t)
    BY <1>4, <1>5
  <2>2. MapCalm(m, t)'
    BY <2>1 DEF MergerCalm, MapCalm, Entry, Serves
  <2>3. AskCalm(m, t)'
    BY <1>2, <1>7 DEF MergerCalm, AskCalm, Serves
  <2> QED BY <2>2, <2>3
<1>9. ASSUME NEW t \in Target, NEW x \in Par, x[1] = m, Live(t, x)'
      PROVE  wk'[m].run /\ x[2] = wk'[m].round /\ idmap'[m][t] \notin Outcomes
  <2>1. ~Opens(x)
    BY <1>2, SameAsked DEF SameWorker
  <2>2. Live(t, x) /\ PlaceOK(t, x)
    BY <1>9, <2>1 DEF AllKept, Kept
  <2>3. Serves(t) /\ wk[m].run /\ x[2] = wk[m].round /\ idmap[m][t] \notin Outcomes
    BY <1>9, <2>2, LiveIs
  <2> QED BY <1>2, <1>7, <2>3
<1>10. ASSUME NEW t \in Target, NEW x \in Par, x[1] = m
       PROVE  PlaceCalm(t, x)'
  BY <1>9, <1>10 DEF PlaceCalm
<1> QED BY <1>6, <1>8, <1>10 DEF MergerCalm

\* A RESULT that arrives is the place of its request, and the last one.
LEMMA ResultIsLive ==
  ASSUME Types, \A t \in Target, x \in Par : PlaceOK(t, x), NEW t \in Target, NEW m \in Merger,
         ReceiveResultUpdateData(t, m), NEW r, r = Head(wire[<<t, m>>]).round
  PROVE  <<m, r>> \in Par /\ Live(t, <<m, r>>) /\ ~Live(t, <<m, r>>)'
<1>1. PICK p, x, y : p = Head(wire[<<t, m>>]) /\ x = <<m, r>> /\ y = <<t, m>>
  OBVIOUS
<1>2. t \in Server /\ m \in Server
  BY Servers
<1>3. /\ wire[<<t, m>>] # << >> /\ p.type = "RESULT" /\ wire' = Taken(t, m)
      /\ UNCHANGED <<down, up, cl, th>>
  BY <1>1 DEF ReceiveResultUpdateData
<1>4. p \in Packet
  BY <1>1, <1>2, <1>3, TakenTypes
<1>5. p.round = r /\ r \in Run
  BY <1>1, <1>3, <1>4, PacketIs
<1>6. x \in Par /\ x[1] = m /\ x[2] = r
  BY <1>1, <1>5 DEF Par
<1>7. y \in Server \X Server /\ y[1] = t /\ y[2] = m
  BY <1>1, <1>2
<1>8. Has(wire[y], 1, p)
  BY <1>1, <1>3, <1>7, QueueTaken, Frame DEF WireType
<1>9. RingAt(y, 1, t, x)
  BY <1>3, <1>5, <1>6, <1>7, <1>8 DEF RingAt, Carries
<1>10. At("ring", y, 1, t, x)
  BY <1>9 DEF At
<1>11. RingMoves(t, x, "ring", y, "none", 0, 0)
  BY <1>1, <1>2, <1>3, <1>6, FirstTaken
<1>12. DownStays(t, x) /\ ListStays(t, x) /\ ThreadStays(t, x) /\ UpStays(t, x)
  BY <1>3, <1>6, Unchanged
<1>13. Moves(t, x, "ring", y, "none", 0, 0)
  BY <1>11, <1>12, StaysMoves, KindsMove
<1>14. ~Live(t, x)'
  BY <1>6, <1>10, <1>13, PlaceGone
<1> QED BY <1>1, <1>6, <1>10, <1>14 DEF Live

LEMMA ResultCalm ==
  ASSUME Types, NEW m \in Merger, MergerCalm(m), AllKept,
         \A t \in Target, x \in Par : PlaceOK(t, x), NEW t0 \in Target, ReceiveResultUpdateData(t0, m)
  PROVE  MergerCalm(m)'
<1>1. PICK p, x0 : p = Head(wire[<<t0, m>>]) /\ x0 = <<m, p.round>>
  OBVIOUS
<1>2. /\ wire[<<t0, m>>] # << >> /\ p.type = "RESULT" /\ wk' = wk
      /\ idmap' = [idmap EXCEPT ![m][t0] = p.result]
  BY <1>1 DEF ReceiveResultUpdateData
<1>3. m \in Server /\ t0 \in Server /\ idmap \in [Merger -> [Target -> Flag]]
  BY Servers, Frame DEF Maps
<1>4. p.result \in Outcomes
  BY <1>1, <1>2, <1>3, TakenTypes, PacketIs
<1>5. x0 \in Par /\ Live(t0, x0) /\ ~Live(t0, x0)'
  BY <1>1, ResultIsLive
<1>6. x0[1] = m /\ PlaceOK(t0, x0)
  BY <1>1, <1>5
<1>7. Serves(t0) /\ wk[m].run /\ x0[2] = wk[m].round /\ wk[m].pc = "wait"
  BY <1>5, <1>6, LiveIs
<1>8. idmap'[m][t0] = p.result /\ \A t \in Target : t # t0 => idmap'[m][t] = idmap[m][t]
  BY <1>2, <1>3
<1>9. WorkerCalm(m)'
  BY <1>2 DEF MergerCalm, WorkerCalm
<1>10. ASSUME NEW t \in Target
       PROVE  MapCalm(m, t)' /\ AskCalm(m, t)'
  <2>1. CASE t = t0
    BY <1>2, <1>4, <1>7, <1>8, <2>1 DEF MapCalm, AskCalm, Serves
  <2>2. CASE t # t0
    BY <1>2, <1>8, <2>2 DEF MergerCalm, MapCalm, AskCalm, Serves, Entry
  <2> QED BY <2>1, <2>2
<1>11. ASSUME NEW t \in Target, NEW x \in Par, x[1] = m, Live(t, x)'
       PROVE  wk'[m].run /\ x[2] = wk'[m].round /\ idmap'[m][t] \notin Outcomes
  <2>1. ~Opens(x)
    BY <1>2, SameAsked DEF SameWorker
  <2>2. Live(t, x) /\ PlaceOK(t, x)
    BY <1>11, <2>1 DEF AllKept, Kept
  <2>3. wk[m].run /\ x[2] = wk[m].round /\ idmap[m][t] \notin Outcomes
    BY <1>11, <2>2, LiveIs
  <2>4. t # t0
    <3>1. x = <<x[1], x[2]>> /\ x0 = <<x0[1], x0[2]>>
      BY <1>5, ParIs
    <3>2. t = t0 => x = x0
      BY <1>6, <1>7, <1>11, <2>3, <3>1
    <3> QED BY <1>5, <1>11, <3>2
  <2> QED BY <1>2, <1>8, <2>3, <2>4
<1>12. ASSUME NEW t \in Target, NEW x \in Par, x[1] = m
       PROVE  PlaceCalm(t, x)'
  BY <1>11, <1>12 DEF PlaceCalm
<1> QED BY <1>9, <1>10, <1>12 DEF MergerCalm

LEMMA SocketCalm ==
  ASSUME Types, Calm, AllKept, \A t \in Target, x \in Par : PlaceOK(t, x), NEW m \in Merger,
         NEW s \in Server, NEW d \in Server, SocketStep(s, d)
  PROVE  MergerCalm(m)'
<1>1. WireCalm /\ MergerCalm(m) /\ idmap \in [Merger -> [Target -> Flag]]
  BY Frame DEF Calm, Maps
<1>2. ~MergeAbort(s, d)
  BY <1>1, CalmTaken DEF MergeAbort, CalmPacket
<1>3. wk' = wk
  BY <1>2 DEF SocketStep, ReceiveReqBack, ReceiveReqPass, ReceiveResUpdateData,
              ReceiveResultUpdateData
<1>4. CASE idmap'[m] = idmap[m]
  BY <1>1, <1>3, <1>4, CalmKept DEF SameWorker
<1>5. CASE idmap'[m] # idmap[m]
  <2>1. \/ d \in Merger /\ ReceiveReqBack(s, d)
        \/ d \in Merger /\ s \in Target /\ ReceiveResultUpdateData(s, d)
    BY <1>2, <1>5 DEF SocketStep, ReceiveReqPass, ReceiveResUpdateData
  <2>2. d = m
    BY <1>1, <1>5, <2>1 DEF ReceiveReqBack, ReceiveResultUpdateData
  <2> QED BY <1>1, <2>1, <2>2, BackCalm, ResultCalm
<1> QED BY <1>4, <1>5

LEMMA MergersCalm ==
  ASSUME Types, Calm, AllKept, \A t \in Target, x \in Par : PlaceOK(t, x), aborts = 0, aborts' = 0,
         [Next]_vars, NEW m \in Merger
  PROVE  MergerCalm(m)'
<1>1. MergerCalm(m) /\ wk \in [Merger -> WorkerType]
  BY Frame DEF Calm, Workers
<1>2. wk' = wk /\ idmap' = idmap => MergerCalm(m)'
  BY <1>1, CalmKept DEF SameWorker
<1>3. CASE UNCHANGED vars
  BY <1>2, <1>3 DEF vars
<1>4. ASSUME NEW n \in Merger, RequestMergeAbort(n)
      PROVE  FALSE
  <2>1. aborts' = aborts + 1
    BY <1>4 DEF RequestMergeAbort
  <2> QED BY <2>1
<1>5. ASSUME NEW s \in Server, NEW b \in Box, ChmpxStep(s, b)
      PROVE  MergerCalm(m)'
  <2>1. idmap' = idmap /\ (wk' = wk \/ wk' = [wk EXCEPT ![s].notify = TRUE, ![s].answered = TRUE])
    BY <1>5 DEF ChmpxStep, ChmpxLastTime, ChmpxResponse, ChmpxResult
  <2>2. SameWorker(m)
    BY <1>1, <2>1 DEF SameWorker, WorkerType
  <2> QED BY <1>1, <2>1, <2>2, CalmKept
<1>6. ASSUME NEW s \in Server, ClientStep(s)
      PROVE  wk' = wk /\ idmap' = idmap
  BY <1>6 DEF ClientStep, ClientLastTime, ClientSet, ClientRequest, ClientRunThread, ClientAbort
<1>7. ASSUME NEW t \in Target, ThreadStep(t)
      PROVE  wk' = wk /\ idmap' = idmap
  BY <1>7 DEF ThreadStep, ThreadTake, ThreadGet, ThreadEnough, ThreadResult, ThreadExit
<1> QED BY <1>1, <1>2, <1>3, <1>4, <1>5, <1>6, <1>7, WorkerCalmNext, SocketCalm DEF Next

LEMMA ClientsCalm ==
  ASSUME Types, Calm, [Next]_vars, NEW t \in Target
  PROVE  ClientCalm(t)'
<1>1. /\ ClientCalm(t) /\ DownCalm /\ cl \in [Target -> ClientType] /\ th \in [Target -> ThreadType]
      /\ cl[t] \in ClientType /\ th[t] \in ThreadType
  BY Frame DEF Calm, Clients, Threads
<1>2. th'[t].cur \in {th[t].cur, NoParam} /\ cl'[t].notify = cl[t].notify => ClientCalm(t)'
  BY <1>1 DEF ClientCalm
<1>3. CASE th' = th /\ cl' = cl
  BY <1>2, <1>3
<1>4. ASSUME NEW s \in Server, ClientStep(s), ~(th' = th /\ cl' = cl)
      PROVE  ClientCalm(t)'
  <2>1. ~ClientAbort(s)
    BY <1>1, DownCalmNext DEF ClientAbort
  <2>2. s \in Target
    BY <1>4, <2>1 DEF ClientStep, ClientLastTime, ClientSet
  <2>3. CASE \E b \in Box : ClientRequest(s, b)
    <3>1. th' = th
      BY <2>3 DEF ClientRequest
    <3>2. PICK par : cl' = [cl EXCEPT ![s].list = Append(@, par), ![s].notify = TRUE, ![s].check = TRUE]
      BY <1>4, <2>3, <3>1 DEF ClientRequest
    <3>3. cl'[t].notify = cl[t].notify \/ cl'[t].notify = TRUE
      BY <1>1, <3>2 DEF ClientType
    <3> QED BY <1>1, <3>1, <3>3 DEF ClientCalm
  <2>4. CASE ClientRunThread(s)
    <3>1. cl'[t].notify = cl[t].notify
      BY <1>1, <2>4 DEF ClientRunThread, ClientType
    <3>2. th' = th \/ th' = [th EXCEPT ![s] = [IdleThread EXCEPT !.pc = "loop"]]
      BY <2>4 DEF ClientRunThread
    <3>3. PICK r : r = [IdleThread EXCEPT !.pc = "loop"]
      OBVIOUS
    <3>4. r.cur = NoParam
      BY <3>3, IdleIs
    <3>5. th'[t].cur \in {th[t].cur, NoParam}
      <4>1. th' = th \/ th' = [th EXCEPT ![s] = r]
        BY <3>2, <3>3
      <4> QED BY <1>1, <2>2, <3>4, <4>1
    <3> QED BY <1>2, <3>1, <3>5
  <2> QED BY <1>4, <2>1, <2>2, <2>3, <2>4, Servers DEF ClientStep, ClientLastTime, ClientSet
<1>5. ASSUME NEW s \in Target, ThreadStep(s)
      PROVE  ClientCalm(t)'
  <2>1. CASE ThreadTake(s)
    <3>1. cl'[t].notify = cl[t].notify
      BY <1>1, <2>1 DEF ThreadTake, ClientType
    <3>2. CASE s = t /\ cl[t].notify
      BY <3>1, <3>2 DEF ClientCalm
    <3>3. CASE s = t /\ ~cl[t].notify
      <4>1. PICK r : r = [IdleThread EXCEPT !.pc = "left"]
        OBVIOUS
      <4>2. th' = [th EXCEPT ![s] = r]
        BY <2>1, <3>3, <4>1 DEF ThreadTake
      <4>3. th'[t].cur = NoParam
        BY <1>1, <3>3, <4>1, <4>2, IdleIs
      <4> QED BY <1>2, <3>1, <4>3
    <3>4. CASE s # t
      <4>1. th'[t] = th[t]
        BY <1>1, <2>1, <3>4 DEF ThreadTake
      <4> QED BY <1>2, <3>1, <4>1
    <3> QED BY <3>2, <3>3, <3>4
  <2>2. CASE ThreadEnough(s) \/ ThreadExit(s) \/ \E b \in Box : ThreadGet(s, b)
    <3>1. cl' = cl
      BY <2>2 DEF ThreadEnough, ThreadExit, ThreadGet
    <3>2. th'[t].cur = th[t].cur
      BY <1>1, <2>2 DEF ThreadEnough, ThreadExit, ThreadGet, ThreadType
    <3> QED BY <1>2, <3>1, <3>2
  <2>3. CASE \E b \in Box : ThreadResult(s, b)
    <3>1. PICK r : r = [IdleThread EXCEPT !.pc = "loop"]
      OBVIOUS
    <3>2. cl' = cl /\ th' = [th EXCEPT ![s] = r] /\ r.cur = NoParam
      BY <2>3, <3>1, IdleIs DEF ThreadResult
    <3>3. th'[t].cur \in {th[t].cur, NoParam}
      BY <1>1, <3>2
    <3> QED BY <1>2, <3>2, <3>3
  <2> QED BY <1>5, <2>1, <2>2, <2>3 DEF ThreadStep
<1>6. ASSUME NEW m \in Merger, MergeStart(m) \/ WorkerStep(m) \/ RequestMergeAbort(m)
      PROVE  th' = th /\ cl' = cl
  BY <1>6 DEF MergeStart, WorkerStep, AskLastTime, ResetNotify, LastTimeTimeout, SendReqUpdateData,
              WorkerDone, WorkerStopped, RequestMergeAbort
<1>7. ASSUME NEW s \in Server, NEW d \in Server, SocketStep(s, d)
      PROVE  th' = th /\ cl' = cl
  BY <1>7 DEF SocketStep, ReceiveReqBack, ReceiveReqPass, ReceiveResUpdateData,
              ReceiveResultUpdateData, MergeAbort
<1>8. ASSUME NEW s \in Server, NEW b \in Box, ChmpxStep(s, b)
      PROVE  th' = th /\ cl' = cl
  BY <1>8 DEF ChmpxStep, ChmpxLastTime, ChmpxResponse, ChmpxResult
<1> QED BY <1>3, <1>4, <1>5, <1>6, <1>7, <1>8 DEF Next, vars

-----------------------------------------------------------------------------
(* The data of a request goes ahead of its RESULT: through the queue of    *)
(* the client, over the socket, and to the client of the merging server.   *)

DataPacket(x, k) == [type |-> "RES", round |-> x[2], datum |-> k]
Success(x)       == [type |-> "RESULT", round |-> x[2], result |-> "SUCCESS"]

\* p is in the queue q, before position n.
In(q, p)        == \E j : Has(q, j, p)
Before(q, n, p) == \E j : Has(q, j, p) /\ j < n

\* Datum k of target t has got further than the queue v of its client, the socket q, or
\* position n of one of them; c is what the merging server has.
Got(c, t, k)                == <<t, k>> \in c
HandedW(c, q, t, x, k, n)    == Got(c, t, k) \/ Before(q, n, DataPacket(x, k))
HandedU(c, q, v, t, x, k, n) == Got(c, t, k) \/ In(q, DataPacket(x, k)) \/ Before(v, n, Resp(x, k))
Handed(c, q, v, t, x, k)     == Got(c, t, k) \/ In(q, DataPacket(x, k)) \/ In(v, Resp(x, k))

WireData(c, q, t, x) ==
  \A i : Has(q, i, Success(x)) => \A k \in Datum : HandedW(c, q, t, x, k, i)
UpData(c, q, v, t, x) ==
  \A i : Has(v, i, Res(x, TRUE)) => \A k \in Datum : HandedU(c, q, v, t, x, k, i)
FlowOK(c, q, v, t, x) == WireData(c, q, t, x) /\ UpData(c, q, v, t, x)

LEMMA QueueEnd ==
  ASSUME NEW S, NEW q \in Seq(S), NEW e \in S
  PROVE  /\ \A p : In(q, p) => In(Append(q, e), p)
         /\ \A p, n : Before(q, n, p) => Before(Append(q, e), n, p)
         /\ \A p : In(q, p) => Before(Append(q, e), Len(q) + 1, p)
         /\ In(Append(q, e), e)
<1>1. \A i, p : Has(q, i, p) => Has(Append(q, e), i, p)
  BY HasAppend
<1>2. Has(Append(q, e), Len(q) + 1, e)
  BY HasAppend
<1>3. \A i, p : Has(q, i, p) => i < Len(q) + 1
  <2>1. Len(q) \in Nat
    BY LenProperties
  <2> QED BY <2>1 DEF Has
<1> QED BY <1>1, <1>2, <1>3 DEF In, Before

LEMMA QueueHead ==
  ASSUME NEW S, NEW q \in Seq(S), q # << >>
  PROVE  /\ \A p : In(q, p) => In(Tail(q), p) \/ p = Head(q)
         /\ \A p, n : n \in Nat /\ Before(q, n + 1, p) => Before(Tail(q), n, p) \/ p = Head(q)
         /\ \A p : ~Before(q, 1, p)
<1>1. /\ Head(q) = q[1] /\ Len(q) \in Nat /\ Len(q) >= 1 /\ Len(Tail(q)) = Len(q) - 1
      /\ \A i \in 1 .. Len(q) - 1 : Tail(q)[i] = q[i + 1]
  BY HeadTailProperties, EmptySeq, LenProperties
<1>2. ASSUME NEW i, NEW p, Has(q, i, p)
      PROVE  /\ i \in Nat /\ i >= 1
             /\ p = Head(q) \/ (i > 1 /\ Has(Tail(q), i - 1, p))
  <2>1. i \in 1 .. Len(q) /\ q[i] = p
    BY <1>2 DEF Has
  <2>2. CASE i = 1
    BY <1>1, <2>1, <2>2
  <2>3. CASE i # 1
    <3>1. i - 1 \in 1 .. Len(q) - 1 /\ (i - 1) + 1 = i /\ i > 1
      BY <1>1, <2>1, <2>3
    <3> QED BY <1>1, <2>1, <3>1 DEF Has
  <2> QED BY <2>2, <2>3
<1>3. \A p : In(q, p) => In(Tail(q), p) \/ p = Head(q)
  BY <1>2 DEF In
<1>4. ASSUME NEW p, NEW n \in Nat, Before(q, n + 1, p)
      PROVE  Before(Tail(q), n, p) \/ p = Head(q)
  <2>1. PICK j : Has(q, j, p) /\ j < n + 1
    BY <1>4 DEF Before
  <2>2. j \in Nat /\ (p = Head(q) \/ Has(Tail(q), j - 1, p))
    BY <1>2, <2>1
  <2>3. j - 1 < n
    BY <2>1, <2>2
  <2> QED BY <2>2, <2>3 DEF Before
<1>5. \A p : ~Before(q, 1, p)
  BY <1>2 DEF Before
<1> QED BY <1>3, <1>4, <1>5

\* A message is added to one of the queues; a RESULT is only added to that of the client,
\* and a SUCCESS only when all data have been handed over.
LEMMA FlowGrows ==
  ASSUME NEW c, NEW q \in Seq(Packet), NEW v \in Seq(UpMsg), NEW c2, NEW q2, NEW v2,
         NEW t, NEW x, FlowOK(c, q, v, t, x), c \subseteq c2,
         q2 = q \/ \E e \in Packet : e.type # "RESULT" /\ q2 = Append(q, e),
         v2 = v \/ \E e \in UpMsg : v2 = Append(v, e) /\
                     (e = Res(x, TRUE) => \A k \in Datum : Handed(c, q, v, t, x, k))
  PROVE  FlowOK(c2, q2, v2, t, x) /\ \A k : Handed(c, q, v, t, x, k) => Handed(c2, q2, v2, t, x, k)
<1>1. /\ \A p : In(q, p) => In(q2, p)
      /\ \A p, n : Before(q, n, p) => Before(q2, n, p)
      /\ \A i : Has(q2, i, Success(x)) => Has(q, i, Success(x))
  <2>1. CASE q2 # q
    <3>1. PICK e \in Packet : e.type # "RESULT" /\ q2 = Append(q, e)
      BY <2>1
    <3>2. e # Success(x)
      BY <3>1 DEF Success
    <3> QED BY <3>1, <3>2, QueueEnd, HasAppend
  <2> QED BY <2>1
<1>2. /\ \A p : In(v, p) => In(v2, p)
      /\ \A p, n : Before(v, n, p) => Before(v2, n, p)
  <2>1. CASE v2 # v
    <3>1. PICK e \in UpMsg : v2 = Append(v, e)
      BY <2>1
    <3> QED BY <3>1, QueueEnd
  <2> QED BY <2>1
<1>3. \A k : Got(c, t, k) => Got(c2, t, k)
  BY DEF Got
<1>4. WireData(c2, q2, t, x)
  BY <1>1, <1>3 DEF FlowOK, WireData, HandedW
<1>5. ASSUME NEW i, Has(v2, i, Res(x, TRUE)), NEW k \in Datum
      PROVE  HandedU(c2, q2, v2, t, x, k, i)
  <2>1. CASE Has(v, i, Res(x, TRUE))
    BY <1>1, <1>2, <1>3, <2>1 DEF FlowOK, UpData, HandedU
  <2>2. CASE ~Has(v, i, Res(x, TRUE))
    <3>1. PICK e \in UpMsg : v2 = Append(v, e) /\
                     (e = Res(x, TRUE) => \A z \in Datum : Handed(c, q, v, t, x, z))
      BY <1>5, <2>2
    <3>2. i = Len(v) + 1 /\ e = Res(x, TRUE)
      BY <1>5, <2>2, <3>1, HasAppend
    <3>3. \A p : In(v, p) => Before(v2, i, p)
      BY <3>1, <3>2, QueueEnd
    <3>4. Handed(c, q, v, t, x, k)
      BY <3>1, <3>2
    <3> QED BY <1>1, <1>3, <3>3, <3>4 DEF Handed, HandedU
  <2> QED BY <2>1, <2>2
<1>6. UpData(c2, q2, v2, t, x)
  BY <1>5 DEF UpData
<1>7. \A k : Handed(c, q, v, t, x, k) => Handed(c2, q2, v2, t, x, k)
  BY <1>1, <1>2, <1>3 DEF Handed
<1> QED BY <1>4, <1>6, <1>7 DEF FlowOK

\* The merging server takes a packet; a datum gets to its client.
LEMMA FlowTaken ==
  ASSUME NEW c, NEW q \in Seq(Packet), NEW v \in Seq(UpMsg), NEW c2,
         NEW t, NEW x, FlowOK(c, q, v, t, x), c \subseteq c2, q # << >>,
         \A k : Head(q) = DataPacket(x, k) => Got(c2, t, k)
  PROVE  /\ FlowOK(c2, Tail(q), v, t, x)
         /\ \A k : Handed(c, q, v, t, x, k) => Handed(c2, Tail(q), v, t, x, k)
<1>1. /\ \A p : In(q, p) => In(Tail(q), p) \/ p = Head(q)
      /\ \A p, n : n \in Nat /\ Before(q, n + 1, p) => Before(Tail(q), n, p) \/ p = Head(q)
  BY QueueHead
<1>2. \A k : Got(c, t, k) => Got(c2, t, k)
  BY DEF Got
<1>3. ASSUME NEW i, Has(Tail(q), i, Success(x)), NEW k \in Datum
      PROVE  HandedW(c2, Tail(q), t, x, k, i)
  <2>1. i \in Nat /\ Has(q, i + 1, Success(x))
    BY <1>3, HasTail
  <2>2. HandedW(c, q, t, x, k, i + 1)
    BY <2>1 DEF FlowOK, WireData
  <2> QED BY <1>1, <1>2, <2>1, <2>2 DEF HandedW
<1>4. WireData(c2, Tail(q), t, x)
  BY <1>3 DEF WireData
<1>5. UpData(c2, Tail(q), v, t, x)
  BY <1>1, <1>2 DEF FlowOK, UpData, HandedU
<1>6. \A k : Handed(c, q, v, t, x, k) => Handed(c2, Tail(q), v, t, x, k)
  BY <1>1, <1>2 DEF Handed
<1> QED BY <1>4, <1>5, <1>6 DEF FlowOK

\* The chmpx process takes a message of its client and, if it is for the merging server,
\* puts it on the socket.
LEMMA FlowForwarded ==
  ASSUME NEW c, NEW q \in Seq(Packet), NEW v \in Seq(UpMsg), NEW q2,
         NEW t, NEW x \in Par, FlowOK(c, q, v, t, x), v # << >>, NEW h, h = Head(v),
         \/ h.type = "RES" /\ h.to = x[1] /\ q2 = Append(q, ResPacket(h))
         \/ h.type = "RESULT" /\ h.to = x[1] /\ q2 = Append(q, ResultPacket(h))
         \/ ~(h.type = "RES" /\ h.to = x[1]) /\ q2 = q
  PROVE  /\ FlowOK(c, q2, Tail(v), t, x)
         /\ \A k : Handed(c, q, v, t, x, k) => Handed(c, q2, Tail(v), t, x, k)
<1>1. /\ \A p : In(v, p) => In(Tail(v), p) \/ p = h
      /\ \A p, n : n \in Nat /\ Before(v, n + 1, p) => Before(Tail(v), n, p) \/ p = h
      /\ \A p : ~Before(v, 1, p)
      /\ Has(v, 1, h) /\ h \in UpMsg
  BY QueueHead, HasTail
<1>2. /\ h.type = "RES" => ResPacket(h) \in Packet
      /\ h.type = "RESULT" => ResultPacket(h) \in Packet
  BY <1>1, Forwarded
<1>3. /\ \A p : In(q, p) => In(q2, p)
      /\ \A p, n : Before(q, n, p) => Before(q2, n, p)
  <2>1. CASE q2 # q
    <3>1. PICK e \in Packet : q2 = Append(q, e)
      BY <1>2, <2>1
    <3> QED BY <3>1, QueueEnd
  <2> QED BY <2>1
<1>4. ASSUME NEW k, h = Resp(x, k)
      PROVE  In(q2, DataPacket(x, k))
  <2>1. h.type = "RES" /\ h.to = x[1] /\ ResPacket(h) = DataPacket(x, k)
    BY <1>4 DEF Resp, ResPacket, DataPacket
  <2>2. q2 = Append(q, DataPacket(x, k)) /\ DataPacket(x, k) \in Packet
    BY <1>2, <2>1
  <2> QED BY <2>2, QueueEnd
<1>5. ASSUME NEW i, Has(q2, i, Success(x)), NEW k \in Datum
      PROVE  HandedW(c, q2, t, x, k, i)
  <2>1. CASE Has(q, i, Success(x))
    BY <1>3, <2>1 DEF FlowOK, WireData, HandedW
  <2>2. CASE ~Has(q, i, Success(x))
    <3>1. q2 # q
      BY <1>5, <2>2
    <3>2. h.type = "RESULT" /\ h.to = x[1] /\ q2 = Append(q, ResultPacket(h))
      <4>1. ~(h.type = "RES" /\ q2 = Append(q, ResPacket(h)))
        <5> SUFFICES ASSUME h.type = "RES", q2 = Append(q, ResPacket(h)) PROVE FALSE
          OBVIOUS
        <5>1. Success(x) = ResPacket(h)
          BY <1>2, <1>5, <2>2, HasAppend
        <5> QED BY <5>1 DEF Success, ResPacket
      <4> QED BY <3>1, <4>1
    <3>3. i = Len(q) + 1 /\ Success(x) = ResultPacket(h)
      BY <1>2, <1>5, <2>2, <3>2, HasAppend
    <3>4. h = Res(x, TRUE)
      <4>1. h.round = x[2] /\ h.result = "SUCCESS"
        BY <3>3 DEF Success, ResultPacket
      <4>2. h \in [type : {"RESULT"}, to : Merger, round : Run, result : Outcomes]
        BY <1>1, <3>2 DEF UpMsg
      <4> QED BY <3>2, <4>1, <4>2 DEF Res
    <3>5. HandedU(c, q, v, t, x, k, 1)
      BY <1>1, <3>4 DEF FlowOK, UpData
    <3>6. \A p : In(q, p) => Before(q2, i, p)
      BY <1>2, <3>2, <3>3, QueueEnd
    <3> QED BY <1>1, <3>5, <3>6 DEF HandedU, HandedW
  <2> QED BY <2>1, <2>2
<1>6. WireData(c, q2, t, x)
  BY <1>5 DEF WireData
<1>7. ASSUME NEW i, Has(Tail(v), i, Res(x, TRUE)), NEW k \in Datum
      PROVE  HandedU(c, q2, Tail(v), t, x, k, i)
  <2>1. i \in Nat /\ Has(v, i + 1, Res(x, TRUE))
    BY <1>7, HasTail
  <2>2. HandedU(c, q, v, t, x, k, i + 1)
    BY <2>1 DEF FlowOK, UpData
  <2> QED BY <1>1, <1>3, <1>4, <2>1, <2>2 DEF HandedU
<1>8. UpData(c, q2, Tail(v), t, x)
  BY <1>7 DEF UpData
<1>9. \A k : Handed(c, q, v, t, x, k) => Handed(c, q2, Tail(v), t, x, k)
  BY <1>1, <1>3, <1>4 DEF Handed
<1> QED BY <1>6, <1>8, <1>9 DEF FlowOK

Flows(t, x, b) == FlowOK(copied[x[1]], wire[<<t, x[1]>>], up[t][b], t, x)
HandedOver(t, x, b, k) == Handed(copied[x[1]], wire[<<t, x[1]>>], up[t][b], t, x, k)

\* The merge thread has handed over what it has got, and ends when there is no more.
ThreadData(t, x, b) ==
  th[t].cur = x /\ th[t].ok =>
    /\ \A k \in Datum : k < th[t].next => HandedOver(t, x, b, k)
    /\ th[t].pc = "result" => th[t].next > MaxDatum

DataOK(t, x, b) == Flows(t, x, b) /\ ThreadData(t, x, b)
DoneData(m, t)  == idmap[m][t] = "SUCCESS" => \A k \in Datum : Got(copied[m], t, k)

FlowKept(t, x, b) ==
  Flows(t, x, b)' /\ \A k : HandedOver(t, x, b, k) => HandedOver(t, x, b, k)'

LEMMA ChannelIs ==
  ASSUME Types, NEW t \in Target, NEW m \in Merger, NEW s \in Server, NEW d \in Server
  PROVE  /\ wire[<<t, m>>] \in Seq(Packet)
         /\ \A e : wire' = Sent(s, d, e) =>
              wire'[<<t, m>>] = IF s = t /\ d = m THEN Append(wire[<<t, m>>], e) ELSE wire[<<t, m>>]
         /\ wire' = Taken(s, d) =>
              wire'[<<t, m>>] = IF s = t /\ d = m THEN Tail(wire[<<t, m>>]) ELSE wire[<<t, m>>]
         /\ \A e : wire' = Passed(s, d, e) =>
              \/ s = t /\ d = m /\ wire'[<<t, m>>] = Tail(wire[<<t, m>>])
              \/ ~(s = t /\ d = m) /\ wire'[<<t, m>>] = Append(wire[<<t, m>>], e)
              \/ ~(s = t /\ d = m) /\ wire'[<<t, m>>] = wire[<<t, m>>]
<1>1. PICK y, z, w, n : y = <<t, m>> /\ z = <<s, d>> /\ w = <<d, n>> /\ n = NextOf(d)
  OBVIOUS
<1>2. /\ y \in Server \X Server /\ z \in Server \X Server /\ w \in Server \X Server
      /\ (y = z <=> s = t /\ d = m) /\ w # z
  BY <1>1, Servers
<1>3. wire \in [Server \X Server -> Seq(Packet)]
  BY Frame DEF WireType
<1>4. \A e : wire' = More(wire, z, e) => wire'[y] = IF y = z THEN Append(wire[y], e) ELSE wire[y]
  BY <1>2, <1>3 DEF More
<1>5. wire' = Less(wire, z) => wire'[y] = IF y = z THEN Tail(wire[y]) ELSE wire[y]
  BY <1>2, <1>3 DEF Less
<1>6. ASSUME NEW e, wire' = More(Less(wire, z), w, e)
      PROVE  \/ y = z /\ wire'[y] = Tail(wire[y])
             \/ y # z /\ wire'[y] = Append(wire[y], e)
             \/ y # z /\ wire'[y] = wire[y]
  BY <1>2, <1>3, <1>6 DEF More, Less
<1>7. wire[<<t, m>>] \in Seq(Packet)
  BY <1>1, <1>2, <1>3
<1>8. \A e : wire' = Sent(s, d, e) =>
        wire'[<<t, m>>] = IF s = t /\ d = m THEN Append(wire[<<t, m>>], e) ELSE wire[<<t, m>>]
  BY <1>1, <1>2, <1>4, WireIs
<1>9. wire' = Taken(s, d) =>
        wire'[<<t, m>>] = IF s = t /\ d = m THEN Tail(wire[<<t, m>>]) ELSE wire[<<t, m>>]
  BY <1>1, <1>2, <1>5, WireIs
<1>10. ASSUME NEW e, wire' = Passed(s, d, e)
       PROVE  \/ s = t /\ d = m /\ wire'[<<t, m>>] = Tail(wire[<<t, m>>])
              \/ ~(s = t /\ d = m) /\ wire'[<<t, m>>] = Append(wire[<<t, m>>], e)
              \/ ~(s = t /\ d = m) /\ wire'[<<t, m>>] = wire[<<t, m>>]
  <2>1. wire' = More(Less(wire, z), w, e)
    BY <1>1, <1>10, PassedIs
  <2> QED BY <1>1, <1>2, <1>6, <2>1
<1> QED BY <1>7, <1>8, <1>9, <1>10

LEMMA BoxIs ==
  ASSUME Types, NEW t \in Target, NEW b \in Box, Box = {b}, NEW s \in Server, NEW c \in Box
  PROVE  /\ up[t][b] \in Seq(UpMsg) /\ c = b
         /\ \A e : up' = ToChmpx(s, c, e) =>
              up'[t][b] = IF s = t THEN Append(up[t][b], e) ELSE up[t][b]
         /\ up' = [up EXCEPT ![s][c] = Tail(@)] =>
              up'[t][b] = IF s = t THEN Tail(up[t][b]) ELSE up[t][b]
<1>1. up \in [Server -> [Box -> Seq(UpMsg)]] /\ t \in Server /\ c = b
  BY Frame, Servers DEF UpType
<1>2. up[t] \in [Box -> Seq(UpMsg)] /\ up[t][b] \in Seq(UpMsg)
  BY <1>1
<1>3. ASSUME NEW e, NEW f, f \in {Append(up[s][c], e), Tail(up[s][c])},
             up' = [up EXCEPT ![s] = [up[s] EXCEPT ![c] = f]]
      PROVE  up'[t][b] = IF s = t THEN f ELSE up[t][b]
  <2>1. CASE s = t
    BY <1>1, <1>2, <1>3, <2>1
  <2>2. CASE s # t
    BY <1>1, <1>3, <2>2
  <2> QED BY <2>1, <2>2
<1>4. ASSUME NEW e, up' = ToChmpx(s, c, e)
      PROVE  up'[t][b] = IF s = t THEN Append(up[t][b], e) ELSE up[t][b]
  <2>1. up' = [up EXCEPT ![s] = [up[s] EXCEPT ![c] = Append(up[s][c], e)]]
    BY <1>4 DEF ToChmpx
  <2> QED BY <1>1, <1>3, <2>1
<1>5. ASSUME up' = [up EXCEPT ![s][c] = Tail(@)]
      PROVE  up'[t][b] = IF s = t THEN Tail(up[t][b]) ELSE up[t][b]
  <2>1. up' = [up EXCEPT ![s] = [up[s] EXCEPT ![c] = Tail(up[s][c])]]
    BY <1>5
  <2> QED BY <1>1, <1>3, <2>1
<1> QED BY <1>1, <1>2, <1>4, <1>5

\* Nothing is claimed of a request that is not on its way.
LEMMA DeadData ==
  ASSUME Types', NEW t \in Target, NEW x \in Par, NEW b \in Box, ~Live(t, x)'
  PROVE  DataOK(t, x, b)'
<1>1. PICK y : y = <<t, x[1]>>
  OBVIOUS
<1>2. y \in Server \X Server /\ y[1] = t /\ y[2] = x[1] /\ x[1] \in Merger /\ t \in Server
  BY <1>1, ParIs, Servers
<1>3. wire'[y] \in Seq(Packet) /\ up'[t][b] \in Seq(UpMsg)
  BY <1>2 DEF Types
<1>4. ASSUME NEW i, Has(wire'[y], i, Success(x))
      PROVE  FALSE
  <2>1. RingAt(y, i, t, x)'
    BY <1>2, <1>4 DEF RingAt, Carries, Success
  <2>2. i \in Nat \ {0}
    BY <1>3, <1>4, HasIs
  <2>3. At("ring", y, i, t, x)'
    BY <2>1, <2>2 DEF At
  <2> QED BY <2>3 DEF Live
<1>5. ASSUME NEW i, Has(up'[t][b], i, Res(x, TRUE))
      PROVE  FALSE
  <2>1. Answers(Res(x, TRUE)) = x /\ IsResult(Res(x, TRUE))
    BY ParIs DEF Res, Answers, IsResult
  <2>2. UpAt(b, i, t, x)'
    BY <1>5, <2>1 DEF UpAt
  <2>3. i \in Nat \ {0}
    <3>1. PICK v, p : v = up'[t][b] /\ p = Res(x, TRUE)
      OBVIOUS
    <3>2. v \in Seq(UpMsg) /\ Has(v, i, p)
      BY <1>3, <1>5, <3>1
    <3> QED BY <3>2, HasIs
  <2>4. At("up", b, i, t, x)'
    BY <2>2, <2>3 DEF At
  <2> QED BY <2>4 DEF Live
<1>6. th'[t].cur # x
  <2> SUFFICES ASSUME th'[t].cur = x PROVE FALSE
    OBVIOUS
  <2>1. At("thread", t, 1, t, x)'
    BY DEF At, ThreadAt
  <2> QED BY <2>1 DEF Live
<1>7. ThreadData(t, x, b)'
  BY <1>6 DEF ThreadData
<1>8. Flows(t, x, b)'
  BY <1>1, <1>4, <1>5 DEF Flows, FlowOK, WireData, UpData
<1> QED BY <1>7, <1>8 DEF DataOK

\* The thread of t is where it was, or without a request.
LEMMA ThreadDataKept ==
  ASSUME NEW t, NEW x \in Par, NEW b, ThreadData(t, x, b), FlowKept(t, x, b),
         \/ th'[t] = th[t]
         \/ th'[t].cur = NoParam
         \/ /\ th'[t].cur = th[t].cur /\ th'[t].ok = th[t].ok /\ th'[t].pc = th[t].pc
            /\ th'[t].next = th[t].next
  PROVE  DataOK(t, x, b)'
<1>1. x # NoParam
  BY ParIs
<1>2. ThreadData(t, x, b)'
  BY <1>1 DEF ThreadData, FlowKept
<1> QED BY <1>2 DEF DataOK, FlowKept

LEMMA FlowSame ==
  ASSUME NEW t, NEW x, NEW b, Flows(t, x, b), wire'[<<t, x[1]>>] = wire[<<t, x[1]>>],
         up'[t][b] = up[t][b], copied'[x[1]] = copied[x[1]]
  PROVE  FlowKept(t, x, b)
BY DEF FlowKept, Flows, HandedOver

LEMMA StartIsDead ==
  ASSUME Types, Calm, AllKept, NEW t \in Target, NEW x \in Par, MergeStart(x[1])
  PROVE  ~Live(t, x)'
<1>1. PICK m \in Merger : m = x[1]
  BY ParIs
<1>2. /\ MergerCalm(m) /\ WorkerOK(m) /\ wk \in [Merger -> WorkerType] /\ wk[m] \in WorkerType
      /\ ~wk[m].run
      /\ wk' = [wk EXCEPT ![m].run = TRUE, ![m].calls = @ + 1, ![m].round = @ + 1]
  BY <1>1, Frame DEF Calm, Workers, MergeStart
<1>3. wk[m].calls = 0 /\ wk[m].pc = "sleep"
  BY <1>2 DEF MergerCalm, WorkerCalm, WorkerOK
<1>4. wk'[m].pc = "sleep"
  BY <1>2, <1>3 DEF WorkerType
<1>5. ~Opens(x)
  BY <1>1, <1>4 DEF Opens
<1>6. ~Live(t, x)
  BY <1>1, <1>2 DEF MergerCalm, PlaceCalm
<1> QED BY <1>5, <1>6 DEF AllKept, Kept

LEMMA WorkerFlow ==
  ASSUME Types, Calm, AllKept, NEW t \in Target, NEW x \in Par, NEW b, Flows(t, x, b), Live(t, x)',
         NEW n \in Merger, MergeStart(n) \/ WorkerStep(n) \/ RequestMergeAbort(n)
  PROVE  FlowKept(t, x, b)
<1>1. n # t /\ n \in Server /\ NextOf(n) \in Server /\ x[1] \in Merger
  BY Servers, ParIs
<1>2. wire' = wire \/ \E e : wire' = Sent(n, NextOf(n), e)
  BY DEF MergeStart, WorkerStep, AskLastTime, ResetNotify, LastTimeTimeout, SendReqUpdateData,
         WorkerDone, WorkerStopped, RequestMergeAbort
<1>3. wire'[<<t, x[1]>>] = wire[<<t, x[1]>>]
  BY <1>1, <1>2, ChannelIs
<1>4. up' = up
  BY DEF MergeStart, WorkerStep, AskLastTime, ResetNotify, LastTimeTimeout, SendReqUpdateData,
         WorkerDone, WorkerStopped, RequestMergeAbort
<1>5. copied'[x[1]] = copied[x[1]]
  <2>1. CASE MergeStart(n)
    <3>1. x[1] # n
      BY <2>1, StartIsDead
    <3> QED BY <1>1, <2>1, <3>1, Frame DEF MergeStart, Copies
  <2>2. CASE ~MergeStart(n)
    BY <2>2 DEF WorkerStep, AskLastTime, ResetNotify, LastTimeTimeout, SendReqUpdateData,
                WorkerDone, WorkerStopped, RequestMergeAbort
  <2> QED BY <2>1, <2>2
<1> QED BY <1>3, <1>4, <1>5, FlowSame

\* FlowTaken and FlowGrows for the queues of a request.
LEMMA FlowPopped ==
  ASSUME Types, NEW t \in Target, NEW x \in Par, NEW b \in Box, Flows(t, x, b),
         wire[<<t, x[1]>>] # << >>, wire'[<<t, x[1]>>] = Tail(wire[<<t, x[1]>>]), up' = up,
         copied[x[1]] \subseteq copied'[x[1]],
         \A k : Head(wire[<<t, x[1]>>]) = DataPacket(x, k) => Got(copied'[x[1]], t, k)
  PROVE  FlowKept(t, x, b)
<1>1. PICK c, q, v, c2 : c = copied[x[1]] /\ q = wire[<<t, x[1]>>] /\ v = up[t][b] /\ c2 = copied'[x[1]]
  OBVIOUS
<1>2. t \in Server /\ x[1] \in Merger
  BY ParIs, Servers
<1>3. q \in Seq(Packet) /\ v \in Seq(UpMsg)
  BY <1>1, <1>2, ChannelIs, Frame DEF UpType
<1>4. /\ FlowOK(c, q, v, t, x) /\ c \subseteq c2 /\ q # << >>
      /\ \A k : Head(q) = DataPacket(x, k) => Got(c2, t, k)
  BY <1>1 DEF Flows
<1>5. /\ FlowOK(c2, Tail(q), v, t, x)
      /\ \A k : Handed(c, q, v, t, x, k) => Handed(c2, Tail(q), v, t, x, k)
  BY <1>3, <1>4, FlowTaken
<1> QED BY <1>1, <1>5 DEF FlowKept, Flows, HandedOver

LEMMA FlowGrown ==
  ASSUME Types, NEW t \in Target, NEW x \in Par, NEW b \in Box, Flows(t, x, b),
         copied[x[1]] \subseteq copied'[x[1]],
         \/ wire'[<<t, x[1]>>] = wire[<<t, x[1]>>]
         \/ \E e \in Packet : e.type # "RESULT" /\ wire'[<<t, x[1]>>] = Append(wire[<<t, x[1]>>], e),
         \/ up'[t][b] = up[t][b]
         \/ \E e \in UpMsg : up'[t][b] = Append(up[t][b], e) /\
              (e = Res(x, TRUE) => \A k \in Datum : HandedOver(t, x, b, k))
  PROVE  FlowKept(t, x, b)
<1>1. PICK c, q, v, c2, q2, v2 :
        /\ c = copied[x[1]] /\ q = wire[<<t, x[1]>>] /\ v = up[t][b]
        /\ c2 = copied'[x[1]] /\ q2 = wire'[<<t, x[1]>>] /\ v2 = up'[t][b]
  OBVIOUS
<1>2. t \in Server /\ x[1] \in Merger
  BY ParIs, Servers
<1>3. q \in Seq(Packet) /\ v \in Seq(UpMsg)
  BY <1>1, <1>2, ChannelIs, Frame DEF UpType
<1>4. FlowOK(c, q, v, t, x) /\ c \subseteq c2
  BY <1>1 DEF Flows
<1>5. q2 = q \/ \E e \in Packet : e.type # "RESULT" /\ q2 = Append(q, e)
  BY <1>1
<1>6. v2 = v \/ \E e \in UpMsg : v2 = Append(v, e) /\
                  (e = Res(x, TRUE) => \A k \in Datum : Handed(c, q, v, t, x, k))
  BY <1>1 DEF HandedOver
<1>7. FlowOK(c2, q2, v2, t, x) /\ \A k : Handed(c, q, v, t, x, k) => Handed(c2, q2, v2, t, x, k)
  BY <1>3, <1>4, <1>5, <1>6, FlowGrows
<1> QED BY <1>1, <1>7 DEF FlowKept, Flows, HandedOver

LEMMA SocketFlow ==
  ASSUME Types, Calm, AllKept, NEW t \in Target, NEW x \in Par, NEW b \in Box, Flows(t, x, b),
         Live(t, x)', NEW s \in Server, NEW d \in Server, SocketStep(s, d)
  PROVE  FlowKept(t, x, b)
<1>1. PICK p, m : p = Head(wire[<<s, d>>]) /\ m = x[1]
  OBVIOUS
<1>2. m \in Merger /\ WireCalm /\ MergerCalm(m) /\ copied \in [Merger -> SUBSET (Target \X Datum)]
  BY <1>1, ParIs, Frame DEF Calm, Copies
<1>3. ~MergeAbort(s, d)
  BY <1>2, CalmTaken DEF MergeAbort, CalmPacket
<1>4. wk' = wk /\ up' = up /\ wire[<<s, d>>] # << >>
  BY <1>3 DEF SocketStep, ReceiveReqBack, ReceiveReqPass, ReceiveResUpdateData,
              ReceiveResultUpdateData
<1>5. x[2] = wk[m].round
  <2>1. ~Opens(x)
    BY <1>4, SameAsked DEF SameWorker
  <2> QED BY <1>1, <1>2, <2>1 DEF AllKept, Kept, MergerCalm, PlaceCalm
<1>6. p \in Packet
  BY <1>1, <1>4, TakenTypes
<1>7. CASE ReceiveReqPass(s, d)
  <2>1. p.type = "REQ" /\ copied' = copied
    BY <1>1, <1>7 DEF ReceiveReqPass
  <2>2. PICK e \in Packet : e.type = "REQ" /\ wire' = Passed(s, d, e)
    BY <1>1, <1>6, <1>7, <2>1, Entered DEF ReceiveReqPass
  <2>3. \/ s = t /\ d = m /\ wire'[<<t, m>>] = Tail(wire[<<t, m>>])
        \/ wire'[<<t, m>>] = Append(wire[<<t, m>>], e)
        \/ wire'[<<t, m>>] = wire[<<t, m>>]
    BY <1>2, <2>2, ChannelIs
  <2>4. CASE s = t /\ d = m /\ wire'[<<t, m>>] = Tail(wire[<<t, m>>])
    <3>1. \A k : p # DataPacket(x, k)
      BY <2>1 DEF DataPacket
    <3> QED BY <1>1, <1>4, <2>1, <2>4, <3>1, FlowPopped
  <2>5. CASE wire'[<<t, m>>] = Append(wire[<<t, m>>], e) \/ wire'[<<t, m>>] = wire[<<t, m>>]
    BY <1>1, <1>4, <2>1, <2>2, <2>5, FlowGrown
  <2> QED BY <2>3, <2>4, <2>5
<1>8. CASE ~ReceiveReqPass(s, d)
  <2>1. wire' = Taken(s, d)
    BY <1>3, <1>8 DEF SocketStep, ReceiveReqBack, ReceiveResUpdateData, ReceiveResultUpdateData
  <2>2. wire'[<<t, m>>] = IF s = t /\ d = m THEN Tail(wire[<<t, m>>]) ELSE wire[<<t, m>>]
    BY <1>2, <2>1, ChannelIs
  <2>3. \/ p.type # "RES" /\ copied' = copied
        \/ /\ p.type = "RES" /\ d \in Merger
           /\ copied' = [copied EXCEPT ![d] =
                          IF p.round = wk[d].round THEN @ \cup {<<s, p.datum>>} ELSE @]
    BY <1>1, <1>3, <1>8 DEF SocketStep, ReceiveReqBack, ReceiveResUpdateData, ReceiveResultUpdateData
  <2>4. copied[m] \subseteq copied'[m]
    BY <1>2, <2>3
  <2>5. CASE s = t /\ d = m
    <3>1. ASSUME NEW k, p = DataPacket(x, k)
          PROVE  Got(copied'[m], t, k)
      <4>1. p.type = "RES" /\ p.round = x[2] /\ p.datum = k
        BY <3>1 DEF DataPacket
      <4>2. <<t, k>> \in copied'[m]
        BY <1>2, <1>5, <2>3, <2>5, <4>1
      <4> QED BY <4>2 DEF Got
    <3> QED BY <1>1, <1>4, <2>2, <2>4, <2>5, <3>1, FlowPopped
  <2>6. CASE ~(s = t /\ d = m)
    BY <1>1, <1>4, <2>2, <2>4, <2>6, FlowGrown
  <2> QED BY <2>5, <2>6
<1> QED BY <1>7, <1>8

LEMMA ChmpxFlow ==
  ASSUME Types, NEW t \in Target, NEW x \in Par, NEW b \in Box, Box = {b}, Flows(t, x, b),
         NEW s \in Server, NEW a \in Box, ChmpxStep(s, a)
  PROVE  FlowKept(t, x, b)
<1>1. PICK h, m : h = Head(up[s][a]) /\ m = x[1]
  OBVIOUS
<1>2. m \in Merger /\ a = b
  BY <1>1, ParIs
<1>3. up[s][a] # << >> /\ up' = [up EXCEPT ![s][a] = Tail(@)] /\ copied' = copied
  BY DEF ChmpxStep, ChmpxLastTime, ChmpxResponse, ChmpxResult
<1>4. h \in UpMsg
  BY <1>1, <1>3, TakenTypes
<1>5. \/ h.type = "RESLASTTS" /\ wire' = wire
      \/ h.type = "RES" /\ wire' = Sent(s, h.to, ResPacket(h))
      \/ h.type = "RESULT" /\ wire' = Sent(s, h.to, ResultPacket(h))
  BY <1>1 DEF ChmpxStep, ChmpxLastTime, ChmpxResponse, ChmpxResult, MergeResponseUpdateData,
              MergeResultUpdateData
<1>6. up'[t][b] = IF s = t THEN Tail(up[t][b]) ELSE up[t][b]
  BY <1>2, <1>3, BoxIs
<1>7. wire' # wire => h.to \in Server
  BY <1>4, <1>5, UpIs, Servers
<1>8. CASE s # t
  <2>1. wire'[<<t, m>>] = wire[<<t, m>>]
    BY <1>2, <1>5, <1>7, <1>8, ChannelIs
  <2> QED BY <1>1, <1>3, <1>6, <1>8, <2>1, FlowSame
<1>9. CASE s = t
  <2>1. PICK c, q, v, q2 : /\ c = copied[m] /\ q = wire[<<t, m>>] /\ v = up[t][b]
                           /\ q2 = wire'[<<t, m>>]
    OBVIOUS
  <2>2. \/ h.type = "RESLASTTS" /\ q2 = q
        \/ h.type = "RES" /\ q2 = IF h.to = m THEN Append(q, ResPacket(h)) ELSE q
        \/ h.type = "RESULT" /\ q2 = IF h.to = m THEN Append(q, ResultPacket(h)) ELSE q
    <3>1. CASE wire' = wire
      BY <1>1, <1>2, <1>5, <1>9, <2>1, <3>1, <1>4, ChannelIs, UpIs, Servers
    <3>2. CASE wire' # wire
      BY <1>2, <1>5, <1>7, <1>9, <2>1, <3>2, ChannelIs
    <3> QED BY <3>1, <3>2
  <2>3. \/ h.type = "RES" /\ h.to = x[1] /\ q2 = Append(q, ResPacket(h))
        \/ h.type = "RESULT" /\ h.to = x[1] /\ q2 = Append(q, ResultPacket(h))
        \/ ~(h.type = "RES" /\ h.to = x[1]) /\ q2 = q
    BY <1>1, <2>2
  <2>4. q \in Seq(Packet) /\ v \in Seq(UpMsg) /\ v # << >> /\ h = Head(v)
    BY <1>1, <1>2, <1>3, <1>9, <2>1, ChannelIs, BoxIs
  <2>5. FlowOK(c, q, v, t, x)
    BY <1>1, <2>1 DEF Flows
  <2>6. /\ FlowOK(c, q2, Tail(v), t, x)
        /\ \A k : Handed(c, q, v, t, x, k) => Handed(c, q2, Tail(v), t, x, k)
    BY <2>3, <2>4, <2>5, FlowForwarded
  <2>7. up'[t][b] = Tail(v) /\ copied'[m] = c
    BY <1>3, <1>6, <1>9, <2>1
  <2> QED BY <1>1, <2>1, <2>6, <2>7 DEF FlowKept, Flows, HandedOver
<1> QED BY <1>8, <1>9

LEMMA ClientData ==
  ASSUME Types, NEW t \in Target \ NoCallback, NEW x \in Par, NEW b \in Box, Box = {b},
         DataOK(t, x, b), NEW s \in Server, ClientStep(s)
  PROVE  DataOK(t, x, b)'
<1>1. wire' = wire /\ copied' = copied /\ t \in Target
  BY DEF ClientStep, ClientLastTime, ClientSet, ClientRequest, ClientRunThread, ClientAbort
<1>2. up'[t][b] = up[t][b]
  <2>1. CASE up' = up
    BY <2>1
  <2>2. CASE up' # up
    <3>1. \/ s \in Merger /\ \E a \in Box : ClientLastTime(s, a)
          \/ s \in NoCallback /\ \E a \in Box : ClientRequest(s, a)
      BY <2>2 DEF ClientStep, ClientSet, ClientRequest, ClientRunThread, ClientAbort
    <3>2. s # t /\ \E a \in Box : \E e : up' = ToChmpx(s, a, e)
      BY <2>2, <3>1, Servers DEF ClientLastTime, ClientRequest
    <3> QED BY <1>1, <3>2, BoxIs
  <2> QED BY <2>1, <2>2
<1>3. FlowKept(t, x, b)
  BY <1>1, <1>2, FlowSame DEF DataOK
<1>4. /\ th \in [Target -> ThreadType] /\ th[t] \in ThreadType
  BY <1>1, Frame DEF Threads
<1>5. \/ th'[t] = th[t]
      \/ th'[t].cur = NoParam
      \/ /\ th'[t].cur = th[t].cur /\ th'[t].ok = th[t].ok /\ th'[t].pc = th[t].pc
         /\ th'[t].next = th[t].next
  <2>1. CASE th' = th
    BY <2>1
  <2>2. CASE s \in Target /\ ClientRunThread(s) /\ th' # th
    <3>1. PICK r : r = [IdleThread EXCEPT !.pc = "loop"]
      OBVIOUS
    <3>2. th' = [th EXCEPT ![s] = r] /\ r.cur = NoParam
      BY <2>2, <3>1, IdleIs DEF ClientRunThread
    <3> QED BY <1>1, <1>4, <3>2
  <2>3. CASE s \in Target /\ ClientAbort(s)
    <3>1. th' = th \/ \E f : th' = [th EXCEPT ![s].heard = f]
      BY <2>3 DEF ClientAbort
    <3> QED BY <1>1, <1>4, <3>1 DEF ThreadType
  <2> QED BY <2>1, <2>2, <2>3, Servers
          DEF ClientStep, ClientLastTime, ClientSet, ClientRequest, ClientAbort
<1> QED BY <1>3, <1>5, ThreadDataKept DEF DataOK

LEMMA TakeData ==
  ASSUME Types, NEW t \in Target, NEW x \in Par, NEW b \in Box, DataOK(t, x, b), ThreadTake(t)
  PROVE  DataOK(t, x, b)'
<1>1. th \in [Target -> ThreadType] /\ UNCHANGED <<wire, up, copied>>
  BY Frame DEF Threads, ThreadTake
<1>2. FlowKept(t, x, b)
  BY <1>1, FlowSame DEF DataOK
<1>3. CASE cl[t].notify /\ cl[t].list # << >>
  <2>1. th'[t].pc = "get" /\ th'[t].next = 1
    BY <1>1, <1>3 DEF ThreadTake
  <2>2. \A k \in Datum : ~(k < 1)
    BY Servers DEF Datum
  <2>3. ThreadData(t, x, b)'
    BY <2>1, <2>2 DEF ThreadData
  <2> QED BY <1>2, <2>3 DEF DataOK, FlowKept
<1>4. CASE ~(cl[t].notify /\ cl[t].list # << >>)
  <2>1. PICK r : r = [IdleThread EXCEPT !.pc = "left"]
    OBVIOUS
  <2>2. th' = [th EXCEPT ![t] = r] /\ r.cur = NoParam
    BY <1>4, <2>1, IdleIs DEF ThreadTake
  <2>3. th'[t].cur = NoParam
    BY <1>1, <2>2
  <2> QED BY <1>2, <2>3, ThreadDataKept DEF DataOK
<1> QED BY <1>3, <1>4

LEMMA GetData ==
  ASSUME Types, NEW t \in Target, NEW x \in Par, NEW b \in Box, Box = {b}, DataOK(t, x, b),
         NEW a \in Box, ThreadGet(t, a)
  PROVE  DataOK(t, x, b)'
<1>1. /\ th \in [Target -> ThreadType] /\ th[t] \in ThreadType /\ th[t].pc = "get" /\ ThreadOK(t)
      /\ wire' = wire /\ copied' = copied /\ t \in Server
  BY Frame, Servers DEF Threads, ThreadGet
<1>2. PICK par, n : par = th[t].cur /\ n = th[t].next
  OBVIOUS
<1>3. par \in Par /\ n \in Nat /\ n \in Datum
  <2>1. par \in Par /\ n \in Nat \ {0}
    BY <1>1, <1>2 DEF ThreadOK, ThreadType
  <2>2. n <= MaxDatum
    BY <1>2 DEF ThreadGet, MoreData
  <2> QED BY <2>1, <2>2, Servers DEF Datum
<1>4. CASE up' = ToChmpx(t, a, Resp(par, n)) /\ th' = [th EXCEPT ![t].next = @ + 1]
  <2>1. PICK e \in UpMsg : e = Resp(par, n)
    BY <1>3, Built
  <2>2. up'[t][b] = Append(up[t][b], e) /\ up[t][b] \in Seq(UpMsg)
    BY <1>1, <1>4, <2>1, BoxIs
  <2>3. e # Res(x, TRUE)
    BY <2>1 DEF Resp, Res
  <2>4. FlowKept(t, x, b)
    BY <1>1, <2>2, <2>3, FlowGrown DEF DataOK
  <2>5. th'[t].cur = par /\ th'[t].ok = th[t].ok /\ th'[t].pc = "get" /\ th'[t].next = n + 1
    BY <1>1, <1>2, <1>4 DEF ThreadType
  <2>6. ASSUME par = x, NEW k \in Datum, k < n + 1, th[t].ok
        PROVE  HandedOver(t, x, b, k)'
    <3>1. k \in Nat /\ (k < n \/ k = n)
      BY <1>3, <2>6, Servers DEF Datum
    <3>2. CASE k < n
      BY <1>2, <2>4, <2>6, <3>2 DEF DataOK, ThreadData, FlowKept
    <3>3. CASE k = n
      <4>1. In(up'[t][b], Resp(x, k))
        BY <2>1, <2>2, <2>6, <3>3, QueueEnd
      <4> QED BY <4>1 DEF HandedOver, Handed
    <3> QED BY <3>1, <3>2, <3>3
  <2>7. ThreadData(t, x, b)'
    BY <2>5, <2>6 DEF ThreadData
  <2> QED BY <2>4, <2>7 DEF DataOK, FlowKept
<1>5. CASE up' = up /\ th' = [th EXCEPT ![t].next = @ + 1, ![t].ok = FALSE]
  <2>1. FlowKept(t, x, b)
    BY <1>1, <1>5, FlowSame DEF DataOK
  <2>2. ~th'[t].ok
    BY <1>1, <1>5 DEF ThreadType
  <2>3. ThreadData(t, x, b)'
    BY <2>2 DEF ThreadData
  <2> QED BY <2>1, <2>3 DEF DataOK, FlowKept
<1> QED BY <1>2, <1>4, <1>5 DEF ThreadGet

LEMMA EnoughData ==
  ASSUME Types, NEW t \in Target, NEW x \in Par, NEW b \in Box, DataOK(t, x, b), ClientCalm(t),
         ThreadEnough(t)
  PROVE  DataOK(t, x, b)'
<1>1. /\ th \in [Target -> ThreadType] /\ th[t] \in ThreadType /\ UNCHANGED <<wire, up, copied>>
  BY Frame DEF Threads, ThreadEnough
<1>2. FlowKept(t, x, b)
  BY <1>1, FlowSame DEF DataOK
<1>3. CASE ~(cl[t].notify /\ MoreData(t)) /\ th' = [th EXCEPT ![t].pc = "result"]
  <2>1. th'[t].cur = th[t].cur /\ th'[t].ok = th[t].ok /\ th'[t].next = th[t].next
    BY <1>1, <1>3 DEF ThreadType
  <2>2. th[t].cur = x => th[t].next > MaxDatum
    <3> SUFFICES ASSUME th[t].cur = x PROVE th[t].next > MaxDatum
      OBVIOUS
    <3>1. cl[t].notify
      BY ParIs DEF ClientCalm
    <3>2. ~(th[t].next <= MaxDatum)
      BY <1>3, <3>1 DEF MoreData
    <3>3. th[t].next \in Nat
      BY <1>1 DEF ThreadType
    <3> QED BY <3>2, <3>3, Servers
  <2>3. ThreadData(t, x, b)'
    BY <1>2, <2>1, <2>2 DEF ThreadData, FlowKept, DataOK
  <2> QED BY <1>2, <2>3 DEF DataOK, FlowKept
<1>4. CASE th' = [th EXCEPT ![t].pc = "result", ![t].ok = FALSE]
  <2>1. ~th'[t].ok
    BY <1>1, <1>4 DEF ThreadType
  <2>2. ThreadData(t, x, b)'
    BY <2>1 DEF ThreadData
  <2> QED BY <1>2, <2>2 DEF DataOK, FlowKept
<1> QED BY <1>3, <1>4 DEF ThreadEnough

LEMMA ResultData ==
  ASSUME Types, NEW t \in Target, NEW x \in Par, NEW b \in Box, Box = {b}, DataOK(t, x, b),
         NEW a \in Box, ThreadResult(t, a)
  PROVE  DataOK(t, x, b)'
<1>1. /\ th \in [Target -> ThreadType] /\ th[t] \in ThreadType /\ th[t].pc = "result" /\ ThreadOK(t)
      /\ wire' = wire /\ copied' = copied /\ t \in Server /\ cl[t] \in ClientType
  BY Frame, Servers DEF Threads, Clients, ThreadResult
<1>2. PICK par, e : par = th[t].cur /\ e = Res(par, Outcome(t))
  OBVIOUS
<1>3. par \in Par /\ Outcome(t) \in BOOLEAN
  BY <1>1, <1>2 DEF ThreadOK, ThreadType, ClientType, Outcome
<1>4. e \in UpMsg
  BY <1>2, <1>3, Built
<1>5. up' = up \/ up' = ToChmpx(t, a, e)
  BY <1>2 DEF ThreadResult
<1>6. up'[t][b] = up[t][b] \/ up'[t][b] = Append(up[t][b], e)
  <2>1. CASE up' = ToChmpx(t, a, e)
    BY <1>1, <2>1, BoxIs
  <2> QED BY <1>5, <2>1
<1>7. ASSUME e = Res(x, TRUE), NEW k \in Datum
      PROVE  HandedOver(t, x, b, k)
  <2>1. par = x
    <3>1. par[1] = x[1] /\ par[2] = x[2]
      BY <1>2, <1>7 DEF Res
    <3> QED BY <1>3, <3>1, ParIs
  <2>2. Outcome(t)
    BY <1>2, <1>7 DEF Res
  <2>3. k < th[t].next
    <3>1. th[t].next > MaxDatum /\ th[t].next \in Nat
      BY <1>1, <1>2, <2>1, <2>2 DEF Outcome, DataOK, ThreadData, ThreadType
    <3> QED BY <3>1, Servers DEF Datum
  <2> QED BY <1>2, <2>1, <2>2, <2>3 DEF Outcome, DataOK, ThreadData
<1>8. FlowKept(t, x, b)
  BY <1>1, <1>4, <1>6, <1>7, FlowGrown DEF DataOK
<1>9. PICK r : r = [IdleThread EXCEPT !.pc = "loop"]
  OBVIOUS
<1>10. th' = [th EXCEPT ![t] = r] /\ r.cur = NoParam
  BY <1>9, IdleIs DEF ThreadResult
<1>11. th'[t].cur = NoParam
  BY <1>1, <1>10
<1> QED BY <1>8, <1>11, ThreadDataKept DEF DataOK

LEMMA ThreadStepData ==
  ASSUME Types, NEW t \in Target, NEW x \in Par, NEW b \in Box, Box = {b}, DataOK(t, x, b),
         ClientCalm(t), NEW s \in Target, ThreadStep(s)
  PROVE  DataOK(t, x, b)'
<1>1. /\ th \in [Target -> ThreadType] /\ th[t] \in ThreadType /\ wire' = wire /\ copied' = copied
      /\ s \in Server /\ ThreadOK(t)
  BY Frame, Servers DEF Threads, ThreadStep, ThreadTake, ThreadGet, ThreadEnough, ThreadResult, ThreadExit
<1>2. CASE s # t
  <2>1. th'[t] = th[t]
    BY <1>1, <1>2 DEF ThreadStep, ThreadTake, ThreadGet, ThreadEnough, ThreadResult, ThreadExit
  <2>2. up' = up \/ \E a \in Box : \E e : up' = ToChmpx(s, a, e)
    BY DEF ThreadStep, ThreadTake, ThreadGet, ThreadEnough, ThreadResult, ThreadExit
  <2>3. up'[t][b] = up[t][b]
    BY <1>1, <1>2, <2>2, BoxIs
  <2>4. FlowKept(t, x, b)
    BY <1>1, <2>3, FlowSame DEF DataOK
  <2> QED BY <2>1, <2>4, ThreadDataKept DEF DataOK
<1>3. CASE s = t /\ ThreadExit(t)
  <2>1. th'[t].cur = NoParam /\ up' = up
    BY <1>1, <1>3 DEF ThreadExit, ThreadOK, ThreadType
  <2>2. FlowKept(t, x, b)
    BY <1>1, <2>1, FlowSame DEF DataOK
  <2> QED BY <2>1, <2>2, ThreadDataKept DEF DataOK
<1> QED BY <1>2, <1>3, TakeData, GetData, EnoughData, ResultData DEF ThreadStep

LEMMA DataNext ==
  ASSUME Types, Types', Calm, AllKept, NEW t \in Target \ NoCallback, NEW x \in Par, NEW b \in Box,
         Box = {b}, DataOK(t, x, b), [Next]_vars
  PROVE  DataOK(t, x, b)'
<1>1. CASE ~Live(t, x)'
  BY <1>1, DeadData
<1>2. CASE UNCHANGED vars
  BY <1>2, FlowSame, ThreadDataKept DEF vars, DataOK
<1>3. ASSUME Live(t, x)', NEW n \in Merger, MergeStart(n) \/ WorkerStep(n) \/ RequestMergeAbort(n)
      PROVE  DataOK(t, x, b)'
  <2>1. th' = th
    BY <1>3 DEF MergeStart, WorkerStep, AskLastTime, ResetNotify, LastTimeTimeout, SendReqUpdateData,
                WorkerDone, WorkerStopped, RequestMergeAbort
  <2>2. FlowKept(t, x, b)
    BY <1>3, WorkerFlow DEF DataOK
  <2> QED BY <2>1, <2>2, ThreadDataKept DEF DataOK
<1>4. ASSUME Live(t, x)', NEW s \in Server, NEW d \in Server, SocketStep(s, d)
      PROVE  DataOK(t, x, b)'
  <2>1. th' = th
    BY <1>4 DEF SocketStep, ReceiveReqBack, ReceiveReqPass, ReceiveResUpdateData,
                ReceiveResultUpdateData, MergeAbort
  <2>2. FlowKept(t, x, b)
    BY <1>4, SocketFlow DEF DataOK
  <2> QED BY <2>1, <2>2, ThreadDataKept DEF DataOK
<1>5. ASSUME NEW s \in Server, NEW a \in Box, ChmpxStep(s, a)
      PROVE  DataOK(t, x, b)'
  <2>1. th' = th
    BY <1>5 DEF ChmpxStep, ChmpxLastTime, ChmpxResponse, ChmpxResult
  <2>2. FlowKept(t, x, b)
    BY <1>5, ChmpxFlow DEF DataOK
  <2> QED BY <2>1, <2>2, ThreadDataKept DEF DataOK
<1>6. ASSUME NEW s \in Server, ClientStep(s)
      PROVE  DataOK(t, x, b)'
  BY <1>6, ClientData
<1>7. ASSUME NEW s \in Target, ThreadStep(s)
      PROVE  DataOK(t, x, b)'
  BY <1>7, ThreadStepData DEF Calm
<1> QED BY <1>1, <1>2, <1>3, <1>4, <1>5, <1>6, <1>7 DEF Next

\* A target is entered as SUCCESS only by its RESULT, behind which no datum is left.
LEMMA DoneNext ==
  ASSUME Types, Calm, \A t \in Target, x \in Par : PlaceOK(t, x), NEW b \in Box, Box = {b},
         NEW t \in Target \ NoCallback, NEW m \in Merger, \A x \in Par : DataOK(t, x, b),
         DoneData(m, t), [Next]_vars
  PROVE  DoneData(m, t)'
<1>1. /\ idmap \in [Merger -> [Target -> Flag]] /\ copied \in [Merger -> SUBSET (Target \X Datum)]
      /\ WireCalm /\ m \in Server /\ t \in Server /\ t \in Target
  BY Frame, Servers DEF Calm, Maps, Copies
<1>2. ASSUME idmap'[m][t] = "SUCCESS" => idmap[m][t] = "SUCCESS", copied[m] \subseteq copied'[m]
      PROVE  DoneData(m, t)'
  BY <1>2 DEF DoneData, Got
<1>3. idmap' = idmap /\ copied' = copied => DoneData(m, t)'
  BY <1>2
<1>4. CASE UNCHANGED vars
  BY <1>3, <1>4 DEF vars
<1>5. ASSUME NEW n \in Merger, MergeStart(n)
      PROVE  DoneData(m, t)'
  <2>1. /\ idmap' = [idmap EXCEPT ![n] = [z \in Target |-> Inival]]
        /\ copied' = [copied EXCEPT ![n] = {}]
    BY <1>5 DEF MergeStart
  <2>2. CASE n = m
    <3>1. idmap'[m][t] = Inival
      BY <1>1, <2>1, <2>2
    <3> QED BY <3>1 DEF DoneData, Inival
  <2>3. CASE n # m
    BY <1>1, <1>2, <2>1, <2>3
  <2> QED BY <2>2, <2>3
<1>6. ASSUME NEW n \in Merger, WorkerStep(n) \/ RequestMergeAbort(n)
      PROVE  DoneData(m, t)'
  BY <1>3, <1>6 DEF WorkerStep, AskLastTime, ResetNotify, LastTimeTimeout, SendReqUpdateData,
                    WorkerDone, WorkerStopped, RequestMergeAbort
<1>7. ASSUME NEW s \in Server, NEW d \in Server, SocketStep(s, d)
      PROVE  DoneData(m, t)'
  <2>1. PICK p : p = Head(wire[<<s, d>>])
    OBVIOUS
  <2>2. CASE d \in Merger /\ ReceiveReqBack(s, d)
    <3>1. /\ wire[<<s, d>>] # << >> /\ p.type = "REQ" /\ copied' = copied
          /\ idmap' = [idmap EXCEPT ![d] = MergedMap(d, p.map)]
      BY <2>1, <2>2 DEF ReceiveReqBack
    <3>2. p.map[t] \in Entry(t)
      BY <1>1, <2>1, <3>1, CalmTaken DEF CalmPacket
    <3>3. p.map[t] # "SUCCESS"
      BY <3>2 DEF Entry, OwnFlag, Inival, Do
    <3>4. idmap'[m][t] = "SUCCESS" => idmap[m][t] = "SUCCESS"
      BY <1>1, <2>2, <3>1, <3>3 DEF MergedMap
    <3> QED BY <1>2, <3>1, <3>4
  <2>3. CASE ReceiveReqPass(s, d) \/ MergeAbort(s, d)
    BY <1>3, <2>3 DEF ReceiveReqPass, MergeAbort
  <2>4. CASE d \in Merger /\ s \in Target /\ ReceiveResUpdateData(s, d)
    <3>1. idmap' = idmap
      BY <2>4 DEF ReceiveResUpdateData
    <3>2. copied[m] \subseteq copied'[m]
      BY <1>1, <2>4 DEF ReceiveResUpdateData
    <3> QED BY <1>2, <3>1, <3>2
  <2>5. CASE d \in Merger /\ s \in Target /\ ReceiveResultUpdateData(s, d)
    <3>1. /\ wire[<<s, d>>] # << >> /\ p.type = "RESULT" /\ copied' = copied
          /\ idmap' = [idmap EXCEPT ![d][s] = p.result]
      BY <2>1, <2>5 DEF ReceiveResultUpdateData
    <3>2. CASE ~(s = t /\ d = m)
      <4>1. idmap'[m][t] = idmap[m][t]
        BY <1>1, <2>5, <3>1, <3>2
      <4> QED BY <1>2, <3>1, <4>1
    <3>3. CASE s = t /\ d = m /\ p.result # "SUCCESS"
      <4>1. idmap'[m][t] = p.result
        BY <1>1, <3>1, <3>3
      <4> QED BY <3>3, <4>1 DEF DoneData
    <3>4. CASE s = t /\ d = m /\ p.result = "SUCCESS"
      <4>1. PICK q, c, x, v : /\ q = wire[<<t, m>>] /\ c = copied[m] /\ x = <<m, p.round>>
                              /\ v = up[t][b]
        OBVIOUS
      <4>2. q \in Seq(Packet) /\ q # << >> /\ p = Head(q)
        BY <1>1, <2>1, <3>1, <3>4, <4>1, ChannelIs
      <4>3. Has(q, 1, p) /\ p \in Packet
        BY <4>2, HasTail
      <4>4. p.round \in Run /\ p \in [type : {"RESULT"}, round : Run, result : Outcomes]
        BY <3>1, <4>3 DEF Packet
      <4>5. x \in Par /\ x[1] = m /\ x[2] = p.round
        BY <4>1, <4>4 DEF Par
      <4>6. p = Success(x)
        BY <3>4, <4>4, <4>5 DEF Success
      <4>7. DataOK(t, x, b)
        BY <4>5
      <4>8. FlowOK(c, q, v, t, x)
        BY <4>1, <4>5, <4>7 DEF DataOK, Flows
      <4>9. \A k \in Datum : HandedW(c, q, t, x, k, 1)
        BY <4>3, <4>6, <4>8 DEF FlowOK, WireData
      <4>10. \A k \in Datum : Got(c, t, k)
        BY <4>2, <4>9, QueueHead DEF HandedW
      <4> QED BY <3>1, <4>1, <4>10 DEF DoneData
    <3> QED BY <3>2, <3>3, <3>4
  <2> QED BY <1>7, <2>2, <2>3, <2>4, <2>5 DEF SocketStep
<1>8. ASSUME NEW s \in Server, NEW a \in Box, ChmpxStep(s, a)
      PROVE  DoneData(m, t)'
  BY <1>3, <1>8 DEF ChmpxStep, ChmpxLastTime, ChmpxResponse, ChmpxResult
<1>9. ASSUME NEW s \in Server, ClientStep(s)
      PROVE  DoneData(m, t)'
  BY <1>3, <1>9 DEF ClientStep, ClientLastTime, ClientSet, ClientRequest, ClientRunThread, ClientAbort
<1>10. ASSUME NEW s \in Target, ThreadStep(s)
       PROVE  DoneData(m, t)'
  BY <1>3, <1>10 DEF ThreadStep, ThreadTake, ThreadGet, ThreadEnough, ThreadResult, ThreadExit
<1> QED BY <1>4, <1>5, <1>6, <1>7, <1>8, <1>9, <1>10 DEF Next

Data(b) == \A t \in Target \ NoCallback :
             (\A x \in Par : DataOK(t, x, b)) /\ \A m \in Merger : DoneData(m, t)

DataInv(b) == MergeInv /\ aborts \in Nat /\ (aborts = 0 => Calm /\ Data(b))

LEMMA AbortsGrow ==
  ASSUME aborts \in Nat, [Next]_vars
  PROVE  aborts' \in Nat /\ (aborts' = 0 => aborts = 0)
<1>1. aborts' = aborts \/ aborts' = aborts + 1
  <2>1. ASSUME NEW m \in Merger, MergeStart(m) \/ WorkerStep(m) \/ RequestMergeAbort(m)
        PROVE  aborts' = aborts \/ aborts' = aborts + 1
    BY <2>1 DEF MergeStart, WorkerStep, AskLastTime, ResetNotify, LastTimeTimeout,
                SendReqUpdateData, WorkerDone, WorkerStopped, RequestMergeAbort, counts
  <2>2. ASSUME NEW s \in Server, NEW d \in Server, SocketStep(s, d)
        PROVE  aborts' = aborts
    BY <2>2 DEF SocketStep, ReceiveReqBack, ReceiveReqPass, ReceiveResUpdateData,
                ReceiveResultUpdateData, MergeAbort, counts
  <2>3. ASSUME NEW s \in Server, NEW a \in Box, ChmpxStep(s, a)
        PROVE  aborts' = aborts
    BY <2>3 DEF ChmpxStep, ChmpxLastTime, ChmpxResponse, ChmpxResult, counts
  <2>4. ASSUME NEW s \in Server, ClientStep(s)
        PROVE  aborts' = aborts
    BY <2>4 DEF ClientStep, ClientLastTime, ClientSet, ClientRequest, ClientRunThread, ClientAbort,
                counts
  <2>5. ASSUME NEW t \in Target, ThreadStep(t)
        PROVE  aborts' = aborts
    BY <2>5 DEF ThreadStep, ThreadTake, ThreadGet, ThreadEnough, ThreadResult, ThreadExit, counts
  <2>6. CASE UNCHANGED vars
    BY <2>6 DEF vars, counts
  <2> QED BY <2>1, <2>2, <2>3, <2>4, <2>5, <2>6 DEF Next
<1> QED BY <1>1

LEMMA InitData ==
  ASSUME Init, NEW b \in Box
  PROVE  Calm /\ Data(b)
<1>1. /\ \A z \in Server \X Server : wire[z] = << >>
      /\ \A s \in Server : down[s] = << >>
      /\ \A s \in Server : up[s][b] = << >>
      /\ \A m \in Merger : ~wk[m].run /\ wk[m].calls = 0
      /\ \A m \in Merger, t \in Target : idmap[m][t] = Inival
      /\ \A t \in Target : th[t].cur = NoParam
  BY DEF Init, IdleThread
<1>2. \A i, p : ~Has(<< >>, i, p)
  BY EmptySeq DEF Has
<1>3. WireCalm /\ DownCalm
  BY <1>1, <1>2 DEF WireCalm, DownCalm
<1>4. \A t \in Target : ClientCalm(t)
  BY <1>1 DEF ClientCalm
<1>5. ASSUME NEW m \in Merger
      PROVE  MergerCalm(m)
  <2>1. WorkerCalm(m)
    BY <1>1 DEF WorkerCalm
  <2>2. ASSUME NEW t \in Target
        PROVE  MapCalm(m, t) /\ AskCalm(m, t)
    BY <1>1 DEF MapCalm, AskCalm, Entry, Inival, Outcomes
  <2>3. ASSUME NEW t \in Target, NEW x \in Par
        PROVE  PlaceCalm(t, x)
    BY InitPlaces DEF PlaceCalm
  <2> QED BY <2>1, <2>2, <2>3 DEF MergerCalm
<1>6. ASSUME NEW t \in Target, NEW x \in Par
      PROVE  DataOK(t, x, b)
  <2>1. PICK y : y = <<t, x[1]>>
    OBVIOUS
  <2>2. y \in Server \X Server /\ t \in Server
    BY <2>1, ParIs, Servers
  <2>3. wire[<<t, x[1]>>] = << >> /\ up[t][b] = << >>
    BY <1>1, <2>1, <2>2
  <2>4. Flows(t, x, b)
    BY <1>2, <2>3 DEF Flows, FlowOK, WireData, UpData
  <2>5. ThreadData(t, x, b)
    BY <1>1, ParIs DEF ThreadData
  <2> QED BY <2>4, <2>5 DEF DataOK
<1>7. ASSUME NEW t \in Target, NEW m \in Merger
      PROVE  DoneData(m, t)
  BY <1>1 DEF DoneData, Inival
<1> QED BY <1>3, <1>4, <1>5, <1>6, <1>7 DEF Calm, Data

\* As long as no merge is aborted, a target that is entered as SUCCESS has handed over all
\* its updates, failed Sends and time-outs notwithstanding, if the chmpx process has one
\* msgid: the data and the RESULT then go through the same queue.
THEOREM DataBeforeResultHolds ==
  ASSUME NEW b, Box = {b}
  PROVE  Spec => []DataBeforeResult
<1>0. b \in Box
  OBVIOUS
<1>1. Init => DataInv(b)
  <2> SUFFICES ASSUME Init PROVE DataInv(b)
    OBVIOUS
  <2>1. MergeInv
    BY InitTypes, InitPlaces DEF MergeInv
  <2>2. aborts \in Nat
    BY DEF Init
  <2> QED BY <1>0, <2>1, <2>2, InitData DEF DataInv
<1>2. DataInv(b) /\ [Next]_vars => DataInv(b)'
  <2> SUFFICES ASSUME DataInv(b), [Next]_vars PROVE DataInv(b)'
    OBVIOUS
  <2>1. Types /\ Types' /\ (\A t \in Target, x \in Par : PlaceOK(t, x)) /\ aborts \in Nat
    BY NextTypes DEF DataInv, MergeInv
  <2>2. AllKept
    BY <2>1, NextPlaces DEF AllKept
  <2>3. (\A t \in Target, x \in Par : PlaceOK(t, x))'
    BY <2>2 DEF AllKept, Kept
  <2>4. MergeInv'
    BY <2>1, <2>3 DEF MergeInv
  <2>5. aborts' \in Nat /\ (aborts' = 0 => aborts = 0)
    BY <2>1, AbortsGrow
  <2>6. ASSUME aborts' = 0
        PROVE  Calm' /\ Data(b)'
    <3>1. aborts = 0 /\ Calm /\ Data(b)
      BY <2>5, <2>6 DEF DataInv
    <3>2. WireCalm' /\ DownCalm'
      BY <2>1, <2>6, <3>1, QueuesCalm
    <3>3. (\A t \in Target : ClientCalm(t)) /\ \A t \in Target : ClientCalm(t)'
      BY <2>1, <3>1, ClientsCalm DEF Calm
    <3>4. \A m \in Merger : MergerCalm(m)'
      BY <2>1, <2>2, <2>6, <3>1, MergersCalm
    <3>5. Calm'
      BY <3>2, <3>3, <3>4 DEF Calm
    <3>6. ASSUME NEW t \in Target \ NoCallback, NEW x \in Par
          PROVE  DataOK(t, x, b)'
      BY <1>0, <2>1, <2>2, <3>1, DataNext DEF Data
    <3>7. ASSUME NEW t \in Target \ NoCallback, NEW m \in Merger
          PROVE  DoneData(m, t)'
      BY <1>0, <2>1, <3>1, DoneNext DEF Data
    <3> QED BY <3>5, <3>6, <3>7 DEF Data
  <2> QED BY <2>4, <2>5, <2>6 DEF DataInv
<1>3. DataInv(b) => DataBeforeResult
  BY DEF DataInv, Data, DoneData, Got, DataBeforeResult
<1> QED BY <1>1, <1>2, <1>3, PTL DEF Spec
=============================================================================
