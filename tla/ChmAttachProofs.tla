--------------------------- MODULE ChmAttachProofs ---------------------------
(***************************************************************************)
(* Proofs about ChmAttach, for any client processes and pool: during the   *)
(* first start of the chmpx process the name of a msgid leads to the queue *)
(* of its owner, and a server at rest is SUSPEND exactly when it has no    *)
(* client.                                                                 *)
(***************************************************************************)
EXTENDS ChmAttach, ChmMsgPoolProofs

-----------------------------------------------------------------------------
(* The invariant of the pool and the queues, for the first start.          *)

Owner     == Proc \cup {Px, None}
ShmType   == [free : Seq(Id), own : [Id -> Owner], pids : SUBSET Proc]
ClientType == [pc : {"off", "rejoin", "shm", "k2h", "mq", "pid", "up", "dead", "left", "gone"},
               start : {0, 1}, k2h : {0, 1}, id : 0 .. MaxId, cb : BOOLEAN]
CheckType == [pc : {"idle", "look", "pids", "clients"}, list : SUBSET Proc]

Types ==
  /\ k \in {0, 1} /\ file \in {0, 1} /\ pxs \in {"down", "shm", "sock", "run"}
  /\ shm \in [Start -> ShmType]
  /\ path \in [Id -> [start : Nat, who : Owner]]
  /\ cl \in [Proc -> ClientType]
  /\ chk \in CheckType /\ note \subseteq Proc
  /\ sup \in BOOLEAN /\ gone \in BOOLEAN /\ ev \in BOOLEAN

\* The chmpx process runs only with its file in place.
FileThere ==
  /\ file = 1 => k = 1
  /\ pxs # "down" => file = 1

\* A msgid is in the pool exactly when it has no owner.
PoolOK(m) == IsInjective(m.free) /\ \A i \in Id : i \in ToSet(m.free) <=> m.own[i] = None

\* A client has at most one msgid, and its queue while it lives.
Attached(c) == c.pc \in {"mq", "pid", "up"}
ClientOK(p) ==
  LET c == cl[p] IN
  /\ c.pc \notin {"off", "rejoin"} => c.start = 1
  /\ c.pc \in {"k2h", "mq", "pid", "up"} => c.k2h = 1
  /\ Attached(c) => c.id \in Id /\ shm[1].own[c.id] = p /\ path[c.id] = Queue(1, p)
  /\ \A i \in Id : shm[1].own[i] = p => c.id = i /\ (Attached(c) \/ c.pc \in {"dead", "gone"})

\* The chmpx process has its queue while it runs, and none before.
PxOK ==
  /\ k = 0 \/ pxs \in {"shm", "sock"} => \A i \in Id : shm[1].own[i] # Px
  /\ pxs = "run" => \E i \in Id : shm[1].own[i] = Px
  /\ pxs = "run" => \A i \in Id : shm[1].own[i] = Px => path[i] = Queue(1, Px)

First ==
  /\ Types /\ FileThere /\ PoolOK(shm[1]) /\ PxOK
  /\ \A p \in Proc : ClientOK(p)
FirstInv == k \in Nat /\ (k <= 1 => First)

-----------------------------------------------------------------------------
(* The invariant of SUSPEND, when nobody attaches early and the entries of *)
(* /proc go in time.                                                       *)

\* Nobody attaches before the chmpx process has its queue.
Before == k = 0 \/ pxs \in {"shm", "sock"}
NobodyYet ==
  /\ \A p \in Proc : cl[p].pc = "off"
  /\ shm[1].pids = {} /\ note = {} /\ sup /\ ~gone /\ ~ev /\ chk = IdleCheck

\* The list of pids has every client and otherwise only processes that have ended.
PidsOK ==
  /\ \A p \in Proc : cl[p].pc \in {"pid", "up"} => p \in shm[1].pids
  /\ \A p \in shm[1].pids : cl[p].pc \in {"pid", "up"} \/ p \in Ended

\* A process that has ended is being looked for.
Noticed(e) == ev \/ (chk.pc \in {"look", "pids"} /\ e \in chk.list)

\* SUSPEND is about to follow the list of pids.
Follows ==
  /\ shm[1].pids = {} /\ ~sup => gone \/ chk.pc = "clients"
  /\ \A p \in Proc : cl[p].pc = "up" => p \in note \/ ~sup

Alone == \A d, e \in Ended : d = e
Second ==
  /\ Before => NobodyYet
  /\ chk.pc = "pids" => \A p \in chk.list : cl[p].pc = "gone"
  /\ pxs = "run" => /\ PidsOK /\ Follows
                    /\ Alone => \A e \in Ended \cap shm[1].pids : Noticed(e)
SuspendInv == k <= 1 => Second

-----------------------------------------------------------------------------
(* The shared memory.                                                      *)

LEMMA Ids == Id \in SUBSET Int /\ IsFiniteSet(Id) /\ Cardinality(Id) = MaxId /\ 1 \in Start /\ MaxId \in Nat
<1>1. MaxId \in Nat /\ MaxStart \in Nat \ {0}
  BY AttachAssumption
<1>2. IsFiniteSet(1 .. MaxId) /\ Cardinality(1 .. MaxId) = MaxId
  BY <1>1, FS_Interval
<1> QED BY <1>1, <1>2 DEF Id, Start

LEMMA IdRange == 0 \in 0 .. MaxId /\ \A i \in Id : i \in 0 .. MaxId
BY AttachAssumption DEF Id

LEMMA Freed ==
  ASSUME NEW m \in ShmType, PoolOK(m), NEW W, None \notin W
  PROVE  LET n == FreeMsgs(m, W)
         IN  /\ n \in ShmType /\ PoolOK(n) /\ n.pids = m.pids
             /\ \A i \in Id : n.own[i] = IF m.own[i] \in W THEN None ELSE m.own[i]
<1>1. PICK S \in SUBSET Id : S = IdsOf(m, W)
  BY DEF IdsOf
<1>2. \A i \in Id : i \in S <=> m.own[i] \in W
  BY <1>1 DEF IdsOf
<1>3. m.free \in Seq(Id) /\ IsInjective(m.free) /\ m.own \in [Id -> Owner]
  BY DEF ShmType, PoolOK
<1>4. S \cap ToSet(m.free) = {}
  BY <1>2 DEF PoolOK
<1>5. PICK g : g = Descending(S) \o m.free
  OBVIOUS
<1>6. g \in Seq(Id) /\ IsInjective(g) /\ ToSet(g) = S \cup ToSet(m.free)
  BY <1>3, <1>4, <1>5, Ids, Prepended
<1>7. PICK o : o = [i \in Id |-> IF m.own[i] \in W THEN None ELSE m.own[i]]
  OBVIOUS
<1>8. o \in [Id -> Owner]
  BY <1>3, <1>7 DEF Owner
<1>9. PICK n : n = [m EXCEPT !.free = g, !.own = o]
  OBVIOUS
<1>10. n = FreeMsgs(m, W)
  BY <1>1, <1>5, <1>7, <1>9 DEF FreeMsgs
<1>11. n \in ShmType /\ n.free = g /\ n.own = o /\ n.pids = m.pids
  BY <1>6, <1>8, <1>9 DEF ShmType
<1>12. PoolOK(n)
  BY <1>2, <1>6, <1>7, <1>11 DEF PoolOK
<1> QED BY <1>7, <1>10, <1>11, <1>12

LEMMA AssignedMsg ==
  ASSUME NEW m \in ShmType, PoolOK(m), m.free # << >>, NEW w \in Proc \cup {Px}
  PROVE  LET n == AssignMsg(m, w)
             h == Head(m.free)
         IN  /\ h \in Id /\ m.own[h] = None
             /\ n \in ShmType /\ PoolOK(n) /\ n.pids = m.pids
             /\ \A i \in Id : n.own[i] = IF i = h THEN w ELSE m.own[i]
<1>1. PICK f \in Seq(Id) : f = m.free
  BY DEF ShmType
<1>2. IsInjective(f) /\ f # << >> /\ m.own \in [Id -> Owner]
  BY <1>1 DEF ShmType, PoolOK
<1>3. PICK h : h = Head(f)
  OBVIOUS
<1>4. PICK g : g = Tail(f)
  OBVIOUS
<1>5. Len(f) \in Nat \ {0} /\ DOMAIN f = 1 .. Len(f) /\ f[1] = h
  BY <1>2, <1>3
<1>6. h \in Id /\ g \in Seq(Id) /\ Len(g) = Len(f) - 1 /\ \A i \in 1 .. Len(g) : g[i] = f[i + 1]
  BY <1>2, <1>3, <1>4, HeadTailProperties
<1>7. DOMAIN g = 1 .. Len(f) - 1 /\ \A i \in 1 .. Len(f) - 1 : i + 1 \in 1 .. Len(f) /\ i + 1 # 1
  BY <1>5, <1>6
<1>8. IsInjective(g)
  <2> SUFFICES ASSUME NEW a \in 1 .. Len(f) - 1, NEW b \in 1 .. Len(f) - 1, g[a] = g[b] PROVE a = b
    BY <1>7 DEF IsInjective
  <2>1. a + 1 = b + 1
    BY <1>2, <1>5, <1>6, <1>7 DEF IsInjective
  <2> QED BY <2>1, <1>5
<1>9. ToSet(g) = ToSet(f) \ {h}
  <2>1. ASSUME NEW i \in 1 .. Len(f) - 1
        PROVE  g[i] \in ToSet(f) /\ g[i] # h
    <3>1. g[i] = f[i + 1] /\ i + 1 \in 1 .. Len(f) /\ i + 1 # 1 /\ 1 \in 1 .. Len(f)
      BY <1>5, <1>6, <1>7
    <3> QED BY <3>1, <1>2, <1>5 DEF IsInjective, ToSet
  <2>2. ASSUME NEW j \in 1 .. Len(f), f[j] # h
        PROVE  f[j] \in ToSet(g)
    <3>1. j - 1 \in 1 .. Len(f) - 1 /\ (j - 1) + 1 = j
      BY <2>2, <1>5
    <3>2. g[j - 1] = f[j]
      BY <3>1, <1>6
    <3> QED BY <3>1, <3>2, <1>7 DEF ToSet
  <2>3. ToSet(g) \subseteq ToSet(f) \ {h}
    BY <2>1, <1>7 DEF ToSet
  <2>4. ToSet(f) \ {h} \subseteq ToSet(g)
    BY <2>2, <1>5 DEF ToSet
  <2> QED BY <2>3, <2>4
<1>10. h \in ToSet(f)
  BY <1>5 DEF ToSet
<1>11. m.own[h] = None
  BY <1>1, <1>6, <1>10 DEF PoolOK
<1>12. PICK n : n = [m EXCEPT !.free = g, !.own[h] = w]
  OBVIOUS
<1>13. n = AssignMsg(m, w)
  BY <1>1, <1>3, <1>4, <1>12 DEF AssignMsg
<1>14. /\ n \in ShmType /\ n.free = g /\ n.pids = m.pids
       /\ n.own = [m.own EXCEPT ![h] = w]
  BY <1>2, <1>6, <1>12 DEF ShmType, Owner
<1>15. \A i \in Id : n.own[i] = IF i = h THEN w ELSE m.own[i]
  BY <1>2, <1>14
<1>16. w # None
  BY AttachAssumption DEF Px, None
<1>17. PoolOK(n)
  BY <1>1, <1>8, <1>9, <1>10, <1>14, <1>15, <1>16 DEF PoolOK
<1> QED BY <1>1, <1>3, <1>6, <1>11, <1>13, <1>14, <1>15, <1>17

\* There are more msgids than processes.
LEMMA PoolHasMsg ==
  ASSUME First, \A i \in Id : shm[1].own[i] # Px
  PROVE  shm[1].free # << >>
<1>1. PICK m \in ShmType : m = shm[1]
  BY Ids DEF First, Types
<1>2. PICK o \in [Id -> Owner] : o = m.own
  BY DEF ShmType
<1> SUFFICES ASSUME m.free = << >> PROVE FALSE
  BY <1>1
<1>3. \A i \in Id : o[i] # None
  BY <1>1, <1>2 DEF First, PoolOK, ToSet
<1>4. o \in [Id -> Proc]
  BY <1>1, <1>2, <1>3 DEF Owner
<1>5. \A i, j \in Id : o[i] = o[j] => i = j
  BY <1>1, <1>2, <1>4 DEF First, ClientOK
<1>6. o \in Injection(Id, Proc)
  BY <1>4, <1>5 DEF Injection, IsInjective
<1>7. IsFiniteSet(Proc)
  BY AttachAssumption
<1>8. Cardinality(Id) <= Cardinality(Proc) /\ Cardinality(Proc) \in Nat
  BY <1>6, <1>7, FS_Injection, FS_CardinalityType
<1>9. Cardinality(Id) = MaxId /\ MaxId \in Nat /\ MaxId > Cardinality(Proc)
  BY Ids, AttachAssumption
<1> QED BY <1>8, <1>9

-----------------------------------------------------------------------------
(* What a step leaves alone.                                               *)

LEMMA Names == ASSUME NEW p \in Proc PROVE p # Px /\ p # None
BY AttachAssumption

LEMMA Px0 == Px # None
BY DEF Px, None

\* A client that does not move keeps its msgid and queue.
LEMMA ClientKept ==
  ASSUME NEW q \in Proc, ClientOK(q), cl'[q] = cl[q],
         \A i \in Id : shm'[1].own[i] = q <=> shm[1].own[i] = q,
         \A i \in Id : shm[1].own[i] = q => path'[i] = path[i]
  PROVE  ClientOK(q)'
BY DEF ClientOK, Attached

\* A step of the chmpx process or its thread that touches no msgid and no client.
LEMMA Untouched ==
  ASSUME First, UNCHANGED <<shm, path, cl>>, Types', FileThere',
         k' = 0 \/ pxs' \in {"shm", "sock"} => k = 0 \/ pxs \in {"shm", "sock"},
         pxs' = "run" => pxs = "run"
  PROVE  First'
<1>1. \A p \in Proc : ClientOK(p)'
  BY ClientKept DEF First
<1>2. PxOK'
  BY DEF First, PxOK
<1>3. PoolOK(shm[1])'
  BY DEF First, PoolOK
<1> QED BY <1>1, <1>2, <1>3 DEF First

LEMMA PxSteps ==
  ASSUME FirstInv, k' <= 1,
         \/ InitializeShm \/ SockSetEventQueue \/ DoSuspend \/ PxCrash
         \/ CheckNotifyEvent \/ GiveUpLooking \/ CheckClients
         \/ \E p \in Proc : PxCltReceiveJoinNotify(p)
  PROVE  First'
<1>1. k \in Nat
  BY DEF FirstInv
<1>2. CASE InitializeShm
  <2>1. k = 0 /\ k' = 1 /\ file' = 1 /\ pxs' = "shm" /\ UNCHANGED <<shm, path, cl>>
    BY <1>1, <1>2 DEF InitializeShm, NewFiles, LockChmpxPid
  <2>2. First
    BY <2>1 DEF FirstInv
  <2>3. /\ note' = {} /\ sup' = TRUE /\ gone' = FALSE /\ ev' = FALSE /\ chk' = IdleCheck
    BY <1>2 DEF InitializeShm
  <2>4. Types'
    BY <2>1, <2>2, <2>3 DEF First, Types, IdleCheck, CheckType
  <2>5. FileThere'
    BY <2>1 DEF FileThere
  <2> QED BY <2>1, <2>2, <2>4, <2>5, Untouched
<1>3. CASE ~InitializeShm
  <2>1. k' = k /\ UNCHANGED <<shm, path, cl>>
    BY <1>3
    DEF SockSetEventQueue, DoSuspend, PxCrash, CheckNotifyEvent, GiveUpLooking, CheckClients,
        PxCltReceiveJoinNotify, chvars, pxvars
  <2>2. First
    BY <2>1 DEF FirstInv
  <2>3. /\ file' = file
        /\ pxs' = pxs \/ (pxs = "shm" /\ pxs' = "sock") \/ (pxs # "down" /\ pxs' = "down")
    BY <1>3
    DEF SockSetEventQueue, DoSuspend, PxCrash, CheckNotifyEvent, GiveUpLooking, CheckClients,
        PxCltReceiveJoinNotify, chvars, pxvars
  <2>4. /\ note' \subseteq note
        /\ sup' \in BOOLEAN /\ gone' \in BOOLEAN /\ ev' \in BOOLEAN
    BY <1>3, <2>2
    DEF SockSetEventQueue, DoSuspend, PxCrash, CheckNotifyEvent, GiveUpLooking, CheckClients,
        PxCltReceiveJoinNotify, chvars, pxvars, First, Types, SetSelfStatus, IsClientPids
  <2>5. chk' \in CheckType
    <3>1. \/ chk' = chk \/ chk' = IdleCheck
          \/ chk' = [pc |-> "look", list |-> shm[k].pids] /\ pxs = "run"
      BY <1>3
      DEF SockSetEventQueue, DoSuspend, PxCrash, CheckNotifyEvent, GiveUpLooking, CheckClients,
          PxCltReceiveJoinNotify, chvars, pxvars
    <3>2. pxs = "run" => k = 1
      BY <2>2 DEF First, FileThere
    <3>3. shm[1].pids \subseteq Proc
      BY <2>2, Ids DEF First, Types, ShmType
    <3> QED BY <3>1, <3>2, <3>3, <2>2 DEF First, Types, CheckType, IdleCheck
  <2>6. Types'
    BY <2>1, <2>2, <2>3, <2>4, <2>5 DEF First, Types
  <2>7. FileThere'
    BY <2>1, <2>2, <2>3 DEF First, FileThere
  <2> QED BY <2>1, <2>2, <2>3, <2>6, <2>7, Untouched
<1> QED BY <1>2, <1>3

\* The chmpx process gets its queue.
LEMMA QueueMade ==
  ASSUME First, MqSetEventQueue
  PROVE  First' /\ shm'[1].pids = shm[1].pids
<1>1. k = 1 /\ pxs = "sock" /\ \A i \in Id : shm[1].own[i] # Px
  BY DEF First, MqSetEventQueue, FileThere, PxOK
<1>2. PICK m \in ShmType : m = shm[1] /\ PoolOK(m)
  BY Ids DEF First, Types
<1>3. m.free # << >>
  BY <1>1, <1>2, PoolHasMsg
<1>4. PICK h : h = Head(m.free)
  OBVIOUS
<1>5. PICK n : n = AssignMsg(m, Px)
  OBVIOUS
<1>6. /\ h \in Id /\ m.own[h] = None /\ n \in ShmType /\ PoolOK(n) /\ n.pids = m.pids
      /\ \A i \in Id : n.own[i] = IF i = h THEN Px ELSE m.own[i]
  BY <1>2, <1>3, <1>4, <1>5, AssignedMsg
<1>7. /\ shm' = [shm EXCEPT ![1] = n] /\ path' = [path EXCEPT ![h] = Queue(1, Px)]
      /\ pxs' = "run" /\ UNCHANGED <<k, file, cl, note, chvars>>
  BY <1>1, <1>2, <1>4, <1>5 DEF MqSetEventQueue, MakeQueue
<1>8. shm'[1] = n
  BY <1>7, Ids DEF First, Types
<1>9. \A i \in Id : path'[i] = IF i = h THEN Queue(1, Px) ELSE path[i]
  BY <1>7 DEF First, Types
<1>10. Types'
  BY <1>1, <1>6, <1>7 DEF First, Types, chvars, Queue, Owner
<1>11. FileThere'
  BY <1>1, <1>7 DEF First, FileThere, MqSetEventQueue
<1>12. PxOK'
  BY <1>1, <1>2, <1>6, <1>7, <1>8, <1>9 DEF PxOK
<1>13. ASSUME NEW q \in Proc
       PROVE  ClientOK(q)'
  <2>1. q # Px /\ q # None
    BY Names
  <2>2. \A i \in Id : shm'[1].own[i] = q <=> shm[1].own[i] = q
    BY <2>1, <1>2, <1>6, <1>8
  <2>3. \A i \in Id : shm[1].own[i] = q => path'[i] = path[i]
    BY <2>1, <1>2, <1>6, <1>9
  <2>4. cl'[q] = cl[q]
    BY <1>7
  <2> QED BY <2>2, <2>3, <2>4, ClientKept DEF First
<1>14. PoolOK(shm[1])'
  BY <1>6, <1>8 DEF PoolOK
<1> QED BY <1>2, <1>6, <1>8, <1>10, <1>11, <1>12, <1>13, <1>14 DEF First

LEMMA PxCleaned ==
  ASSUME First, PxClean
  PROVE  First'
<1>1. k = 1 /\ pxs = "run"
  BY DEF First, PxClean, FileThere
<1>2. PICK m \in ShmType : m = shm[1] /\ PoolOK(m)
  BY Ids DEF First, Types
<1>3. PICK n : n = FreeMsgs(m, {Px})
  OBVIOUS
<1>4. /\ n \in ShmType /\ PoolOK(n) /\ n.pids = m.pids
      /\ \A i \in Id : n.own[i] = IF m.own[i] \in {Px} THEN None ELSE m.own[i]
  BY <1>2, <1>3, Freed, Px0
<1>5. /\ shm' = [shm EXCEPT ![1] = n] /\ path' = Unlink(IdsOf(m, {Px})) /\ note' = {}
      /\ pxs' = "down" /\ file' = 0 /\ UNCHANGED <<k, cl, chvars>>
  BY <1>1, <1>2, <1>3 DEF PxClean, CloseFiles, UnlockChmpxPid
<1>6. shm'[1] = n
  BY <1>5, Ids DEF First, Types
<1>7. \A i \in Id : path'[i] = IF m.own[i] = Px THEN NoQueue ELSE path[i]
  BY <1>5 DEF Unlink, IdsOf
<1>8. path' \in [Id -> [start : Nat, who : Owner]]
  BY <1>5, <1>7 DEF First, Types, Unlink, NoQueue, Owner
<1>9. Types'
  BY <1>1, <1>4, <1>5, <1>8 DEF First, Types, chvars
<1>10. FileThere' /\ PxOK'
  BY <1>1, <1>5 DEF FileThere, PxOK
<1>11. ASSUME NEW q \in Proc
       PROVE  ClientOK(q)'
  <2>1. q # Px /\ q # None
    BY Names
  <2>2. \A i \in Id : shm'[1].own[i] = q <=> shm[1].own[i] = q
    BY <2>1, <1>2, <1>4, <1>6
  <2>3. \A i \in Id : shm[1].own[i] = q => path'[i] = path[i]
    BY <2>1, <1>2, <1>7
  <2>4. cl'[q] = cl[q]
    BY <1>5
  <2> QED BY <2>2, <2>3, <2>4, ClientKept DEF First
<1>12. PoolOK(shm[1])'
  BY <1>4, <1>6 DEF PoolOK
<1> QED BY <1>9, <1>10, <1>11, <1>12 DEF First

-----------------------------------------------------------------------------
(* The thread that looks for dead clients, and the clients.                *)

\* Giving back the msgids of processes that hold none while they live.
LEMMA ThreadSteps ==
  ASSUME First, FreeDown \/ RemovePids
  PROVE  /\ First'
         /\ shm'[1].pids = IF chk.pc = "pids" THEN shm[1].pids \ chk.list ELSE shm[1].pids
<1>1. k = 1 /\ pxs = "run"
  BY DEF First, FreeDown, RemovePids, Looking, FileThere
<1>2. PICK m \in ShmType : m = shm[1] /\ PoolOK(m)
  BY Ids DEF First, Types
<1>3. \E n \in ShmType : \E D \in SUBSET Proc :
        /\ shm' = [shm EXCEPT ![1] = n] /\ PoolOK(n)
        /\ n.pids = IF chk.pc = "pids" THEN m.pids \ chk.list ELSE m.pids
        /\ \A q \in D : cl[q].pc = "gone"
        /\ \A i \in Id : n.own[i] = IF m.own[i] \in D THEN None ELSE m.own[i]
  <2>1. CASE FreeDown
    <3>1. PICK D : D = Down(chk.list)
      OBVIOUS
    <3>a. chk.list \in SUBSET Proc
      BY DEF First, Types, CheckType
    <3>b. D \in SUBSET Proc /\ \A q \in D : cl[q].pc = "gone"
      BY <3>1, <3>a DEF Down
    <3>2. None \notin D
      BY <3>b, Names
    <3>3. PICK n : n = FreeMsgs(m, D)
      OBVIOUS
    <3>4. /\ n \in ShmType /\ PoolOK(n) /\ n.pids = m.pids
          /\ \A i \in Id : n.own[i] = IF m.own[i] \in D THEN None ELSE m.own[i]
      BY <1>2, <3>2, <3>3, Freed
    <3>5. shm' = [shm EXCEPT ![1] = n]
      BY <1>1, <1>2, <2>1, <3>1, <3>3 DEF FreeDown
    <3>6. chk.pc # "pids"
      BY <2>1 DEF FreeDown, Looking
    <3> QED BY <3>b, <3>4, <3>5, <3>6
  <2>2. CASE RemovePids
    <3>1. PICK n : n = [m EXCEPT !.pids = m.pids \ chk.list]
      OBVIOUS
    <3>2. n \in ShmType /\ n.own = m.own /\ n.free = m.free /\ n.pids = m.pids \ chk.list
      BY <3>1 DEF ShmType
    <3>7. chk.pc = "pids"
      BY <2>2 DEF RemovePids
    <3>3. shm' = [shm EXCEPT ![1] = n]
      BY <1>1, <1>2, <2>2, <3>1 DEF RemovePids, RetrieveClientPid
    <3>4. PoolOK(n)
      BY <1>2, <3>2 DEF PoolOK
    <3>5. \A i \in Id : n.own[i] = IF m.own[i] \in {} THEN None ELSE m.own[i]
      BY <3>2
    <3>6. {} \in SUBSET Proc /\ \A q \in {} : cl[q].pc = "gone"
      OBVIOUS
    <3> QED BY <3>2, <3>3, <3>4, <3>5, <3>6, <3>7
  <2> QED BY <2>1, <2>2
<1>4. PICK n \in ShmType, D \in SUBSET Proc :
        /\ shm' = [shm EXCEPT ![1] = n] /\ PoolOK(n)
        /\ n.pids = IF chk.pc = "pids" THEN m.pids \ chk.list ELSE m.pids
        /\ \A q \in D : cl[q].pc = "gone"
        /\ \A i \in Id : n.own[i] = IF m.own[i] \in D THEN None ELSE m.own[i]
  BY <1>3
<1>5. shm'[1] = n
  BY <1>4, Ids DEF First, Types
<1>6. UNCHANGED <<k, pxs, file, path, cl, note, sup, gone, ev>>
  BY DEF FreeDown, RemovePids, pxvars
<1>7. chk' \in CheckType
  BY DEF FreeDown, RemovePids, CheckType, First, Types, Down
<1>8. Types'
  BY <1>4, <1>6, <1>7 DEF First, Types
<1>9. FileThere'
  BY <1>6 DEF First, FileThere
<1>10. PxOK'
  <2>1. Px \notin D /\ Px # None
    BY Names, Px0
  <2>2. \A i \in Id : shm'[1].own[i] = Px <=> shm[1].own[i] = Px
    BY <2>1, <1>2, <1>4, <1>5
  <2> QED BY <2>2, <1>6 DEF First, PxOK
<1>11. ASSUME NEW q \in Proc
       PROVE  ClientOK(q)'
  <2>1. q # None /\ cl'[q] = cl[q]
    BY <1>6, Names
  <2>2. CASE q \notin D
    <3>1. \A i \in Id : shm'[1].own[i] = q <=> shm[1].own[i] = q
      BY <2>1, <2>2, <1>2, <1>4, <1>5
    <3> QED BY <2>1, <3>1, <1>6, ClientKept DEF First
  <2>3. CASE q \in D
    <3>1. \A i \in Id : shm'[1].own[i] # q
      BY <2>1, <2>3, <1>2, <1>4, <1>5
    <3>2. cl[q].pc = "gone" /\ ClientOK(q)
      BY <2>3, <1>4 DEF First
    <3> QED BY <2>1, <3>1, <3>2 DEF ClientOK, Attached
  <2> QED BY <2>2, <2>3
<1>12. PoolOK(shm[1])'
  BY <1>4, <1>5 DEF PoolOK
<1> QED BY <1>2, <1>4, <1>5, <1>8, <1>9, <1>10, <1>11, <1>12 DEF First

\* Only client p changes.
OnlyClient(p, c) ==
  cl' = [cl EXCEPT ![p] = c] /\ c \in ClientType

\* A client moves without touching msgids and queues.
LEMMA ClientMoves ==
  ASSUME First, NEW p \in Proc, NEW c, OnlyClient(p, c), UNCHANGED <<k, pxs, file, path>>,
         shm' \in [Start -> ShmType], shm'[1].own = shm[1].own, shm'[1].free = shm[1].free,
         UNCHANGED <<sup, gone, chk>>, ev' \in BOOLEAN, note' \subseteq Proc,
         c.pc \notin {"off", "rejoin"} => c.start = 1,
         c.pc \in {"k2h", "mq", "pid", "up"} => c.k2h = 1,
         c.id = cl[p].id,
         Attached(c) => Attached(cl[p]),
         Attached(cl[p]) => Attached(c) \/ c.pc = "dead",
         cl[p].pc \in {"dead", "gone"} => c.pc = "gone"
  PROVE  First'
<1>1. cl' \in [Proc -> ClientType] /\ cl'[p] = c /\ \A q \in Proc \ {p} : cl'[q] = cl[q]
  BY DEF First, Types, OnlyClient
<1>2. Types'
  BY <1>1 DEF First, Types
<1>3. FileThere'
  BY DEF First, FileThere
<1>4. PxOK'
  BY DEF First, PxOK
<1>5. PoolOK(shm[1])'
  BY DEF First, PoolOK
<1>6. ASSUME NEW q \in Proc, q # p
      PROVE  ClientOK(q)'
  BY <1>1, <1>6, ClientKept DEF First
<1>7. ClientOK(p)'
  BY <1>1 DEF First, ClientOK, Attached
<1> QED BY <1>2, <1>3, <1>4, <1>5, <1>6, <1>7 DEF First

LEMMA StartIs ==
  ASSUME First, NEW p \in Proc
  PROVE  /\ cl[p] \in ClientType /\ ClientOK(p)
         /\ cl[p].pc \notin {"off", "rejoin"} => cl[p].start = 1
         /\ shm[1] \in ShmType /\ PoolOK(shm[1]) /\ shm \in [Start -> ShmType]
BY Ids DEF First, Types, ClientOK

LEMMA MoveSteps ==
  ASSUME First, NEW p \in Proc,
         AttachShm(p) \/ AttachK2hash(p) \/ PxCltSendJoinNotify(p) \/ Die(p) \/ Exit(p)
  PROVE  First'
<1>1. /\ cl[p] \in ClientType /\ ClientOK(p) /\ (cl[p].pc \notin {"off", "rejoin"} => cl[p].start = 1)
      /\ file \in {0, 1} /\ note \subseteq Proc /\ ev \in BOOLEAN /\ shm \in [Start -> ShmType]
      /\ cl \in [Proc -> ClientType]
  BY StartIs DEF First, Types
<1>2. CASE AttachShm(p)
  <2>1. PICK c : c = [cl[p] EXCEPT !.pc = "shm", !.start = file, !.cb = (cl[p].pc = "off")]
    OBVIOUS
  <2>2. cl' = [cl EXCEPT ![p] = c]
    BY <1>1, <1>2, <2>1 DEF AttachShm
  <2>3. /\ file = 1 /\ cl[p].pc \in {"off", "rejoin"}
        /\ UNCHANGED <<k, pxs, file, shm, path, note, sup, gone, ev, chk>>
    BY <1>1, <1>2 DEF AttachShm, pxvars, chvars
  <2>4. c \in ClientType /\ c.pc = "shm" /\ c.start = 1 /\ c.id = cl[p].id
    BY <1>1, <2>1, <2>3 DEF ClientType
  <2> QED BY <1>1, <2>2, <2>3, <2>4, ClientMoves DEF OnlyClient, Attached
<1>3. CASE AttachK2hash(p)
  <2>1. /\ cl[p].pc = "shm"
        /\ UNCHANGED <<k, pxs, file, shm, path, note, sup, gone, ev, chk>>
    BY <1>3 DEF AttachK2hash, pxvars, chvars
  <2>2. CASE file = 0
    <3>1. PICK c : c = [cl[p] EXCEPT !.pc = "rejoin"]
      OBVIOUS
    <3>2. cl' = [cl EXCEPT ![p] = c]
      BY <1>1, <1>3, <2>2, <3>1 DEF AttachK2hash, GiveUpAttach, To
    <3>3. c \in ClientType /\ c.pc = "rejoin" /\ c.id = cl[p].id
      BY <1>1, <3>1 DEF ClientType
    <3> QED BY <1>1, <2>1, <3>2, <3>3, ClientMoves DEF OnlyClient, Attached
  <2>3. CASE file = 1
    <3>1. PICK c : c = [cl[p] EXCEPT !.pc = "k2h", !.k2h = file]
      OBVIOUS
    <3>2. cl' = [cl EXCEPT ![p].pc = "k2h", ![p].k2h = file]
      BY <1>3, <2>3 DEF AttachK2hash
    <3>a. cl' = [cl EXCEPT ![p] = c]
      BY <1>1, <3>1, <3>2
    <3>3. c \in ClientType /\ c.pc = "k2h" /\ c.k2h = 1 /\ c.start = 1 /\ c.id = cl[p].id
      BY <1>1, <2>1, <2>3, <3>1 DEF ClientType
    <3> QED BY <1>1, <2>1, <3>a, <3>3, ClientMoves DEF OnlyClient, Attached
  <2> QED BY <1>1, <2>2, <2>3
<1>4. CASE PxCltSendJoinNotify(p)
  <2>1. PICK c : c = [cl[p] EXCEPT !.pc = "up"]
    OBVIOUS
  <2>2. cl' = [cl EXCEPT ![p] = c] /\ note' \subseteq Proc
    BY <1>1, <1>4, <2>1 DEF PxCltSendJoinNotify, To
  <2>3. /\ cl[p].pc = "pid" /\ UNCHANGED <<k, pxs, file, shm, path, sup, gone, ev, chk>>
    BY <1>4 DEF PxCltSendJoinNotify, pxvars, chvars
  <2>4. c \in ClientType /\ c.pc = "up" /\ c.start = 1 /\ c.id = cl[p].id /\ c.k2h = 1
    BY <1>1, <2>1, <2>3 DEF ClientType, ClientOK
  <2> QED BY <1>1, <2>2, <2>3, <2>4, ClientMoves DEF OnlyClient, Attached
<1>5. CASE Die(p)
  <2>1. PICK c : c = [cl[p] EXCEPT !.pc = "dead"]
    OBVIOUS
  <2>2. cl' = [cl EXCEPT ![p] = c] /\ ev' \in BOOLEAN
    BY <1>1, <1>5, <2>1 DEF Die, To, CloseEvent
  <2>3. /\ cl[p].pc \in {"mq", "pid", "up"} /\ UNCHANGED <<k, pxs, file, shm, path, note, sup, gone, chk>>
    BY <1>5 DEF Die, pxvars
  <2>4. c \in ClientType /\ c.pc = "dead" /\ c.start = 1 /\ c.id = cl[p].id
    BY <1>1, <2>1, <2>3 DEF ClientType
  <2> QED BY <1>1, <2>2, <2>3, <2>4, ClientMoves DEF OnlyClient, Attached
<1>6. CASE Exit(p)
  <2>1. PICK c : c = [cl[p] EXCEPT !.pc = "gone"]
    OBVIOUS
  <2>2. cl' = [cl EXCEPT ![p] = c]
    BY <1>1, <1>6, <2>1 DEF Exit, To
  <2>3. /\ cl[p].pc \in {"dead", "left"}
        /\ UNCHANGED <<k, pxs, file, shm, path, note, sup, gone, ev, chk>>
    BY <1>6 DEF Exit, pxvars, chvars
  <2>4. c \in ClientType /\ c.pc = "gone" /\ c.start = 1 /\ c.id = cl[p].id
    BY <1>1, <2>1, <2>3 DEF ClientType
  <2> QED BY <1>1, <2>2, <2>3, <2>4, ClientMoves DEF OnlyClient, Attached
<1> QED BY <1>2, <1>3, <1>4, <1>5, <1>6

LEMMA PidEntered ==
  ASSUME First, NEW p \in Proc, EnterPid(p)
  PROVE  First' /\ shm'[1].pids = shm[1].pids \cup {p}
<1>1. /\ cl[p] \in ClientType /\ ClientOK(p) /\ cl[p].pc = "mq" /\ cl[p].start = 1
      /\ shm[1] \in ShmType /\ shm \in [Start -> ShmType] /\ cl \in [Proc -> ClientType]
  BY StartIs DEF EnterPid, First, Types
<1>2. PICK m : m = shm[1]
  OBVIOUS
<1>3. PICK n : n = [m EXCEPT !.pids = m.pids \cup {p}]
  OBVIOUS
<1>4. n \in ShmType /\ n.own = m.own /\ n.free = m.free /\ n.pids = m.pids \cup {p}
  BY <1>1, <1>2, <1>3 DEF ShmType
<1>5. shm' = [shm EXCEPT ![1] = n]
  BY <1>1, <1>2, <1>3 DEF EnterPid, AddClientPid
<1>6. shm'[1] = n /\ shm' \in [Start -> ShmType]
  BY <1>1, <1>4, <1>5, Ids
<1>7. PICK c : c = [cl[p] EXCEPT !.pc = "pid"]
  OBVIOUS
<1>8. cl' = [cl EXCEPT ![p] = c] /\ UNCHANGED <<k, pxs, file, path, note, sup, gone, ev, chk>>
  BY <1>1, <1>7 DEF EnterPid, To, pxvars, chvars
<1>9. c \in ClientType /\ c.pc = "pid" /\ c.start = 1 /\ c.id = cl[p].id /\ c.k2h = 1
  BY <1>1, <1>7 DEF ClientType, ClientOK
<1>10. ev' \in BOOLEAN /\ note' \subseteq Proc
  BY <1>8 DEF First, Types
<1>11. First'
  BY <1>1, <1>2, <1>4, <1>6, <1>8, <1>9, <1>10, ClientMoves DEF OnlyClient, Attached
<1> QED BY <1>2, <1>4, <1>6, <1>11

\* A client gets a msgid and makes its queue.
LEMMA MsgTaken ==
  ASSUME First, NEW p \in Proc, SetEventQueue(p)
  PROVE  First' /\ shm'[1].pids = shm[1].pids
<1>1. /\ cl[p] \in ClientType /\ ClientOK(p) /\ cl[p].pc = "k2h" /\ cl[p].start = 1
      /\ cl \in [Proc -> ClientType]
  BY StartIs DEF SetEventQueue, First, Types
<1>2. PICK m \in ShmType : m = shm[1] /\ PoolOK(m)
  BY StartIs
<1>3. UNCHANGED <<k, pxs, file, note, sup, gone, ev, chk>>
  BY DEF SetEventQueue, pxvars, chvars
<1>4. CASE m.free = << >>
  <2>1. PICK c : c = [cl[p] EXCEPT !.pc = "rejoin"]
    OBVIOUS
  <2>2. cl' = [cl EXCEPT ![p] = c] /\ UNCHANGED <<shm, path>>
    BY <1>1, <1>2, <1>4, <2>1 DEF SetEventQueue, GiveUpAttach, To
  <2>3. c \in ClientType /\ c.pc = "rejoin" /\ c.id = cl[p].id
    BY <1>1, <2>1 DEF ClientType
  <2>4. ev' \in BOOLEAN /\ note' \subseteq Proc /\ shm' \in [Start -> ShmType]
    BY <1>3, <2>2 DEF First, Types
  <2> QED BY <1>1, <1>3, <2>2, <2>3, <2>4, ClientMoves DEF OnlyClient, Attached
<1>5. CASE m.free # << >>
  <2>1. PICK h : h = Head(m.free)
    OBVIOUS
  <2>2. PICK n : n = AssignMsg(m, p)
    OBVIOUS
  <2>3. /\ h \in Id /\ m.own[h] = None /\ n \in ShmType /\ PoolOK(n) /\ n.pids = m.pids
        /\ \A i \in Id : n.own[i] = IF i = h THEN p ELSE m.own[i]
    BY <1>2, <1>5, <2>1, <2>2, AssignedMsg
  <2>4. PICK c : c = [cl[p] EXCEPT !.pc = "mq", !.id = h]
    OBVIOUS
  <2>5. /\ shm' = [shm EXCEPT ![1] = n] /\ path' = [path EXCEPT ![h] = Queue(1, p)]
        /\ cl' = [cl EXCEPT ![p].pc = "mq", ![p].id = h]
    BY <1>1, <1>2, <1>5, <2>1, <2>2 DEF SetEventQueue, MakeQueue
  <2>6. cl' = [cl EXCEPT ![p] = c]
    BY <1>1, <2>4, <2>5
  <2>7. c \in ClientType /\ c.pc = "mq" /\ c.id = h /\ c.start = 1 /\ c.k2h = 1
    BY <1>1, <2>3, <2>4, IdRange DEF ClientType, ClientOK
  <2>8. shm'[1] = n /\ shm' \in [Start -> ShmType]
    BY <2>3, <2>5, Ids DEF First, Types
  <2>9. \A i \in Id : path'[i] = IF i = h THEN Queue(1, p) ELSE path[i]
    BY <2>5 DEF First, Types
  <2>10. cl'[p] = c /\ \A q \in Proc \ {p} : cl'[q] = cl[q]
    BY <1>1, <2>6
  <2>11. Queue(1, p) \in [start : Nat, who : Owner]
    BY DEF Queue, Owner
  <2>12. path' \in [Id -> [start : Nat, who : Owner]]
    BY <2>5, <2>11 DEF First, Types
  <2>13. Types'
    BY <1>1, <1>3, <2>6, <2>7, <2>8, <2>12 DEF First, Types
  <2>14. FileThere'
    BY <1>3 DEF First, FileThere
  <2>15. p # Px /\ p # None /\ Px # None
    BY Names, Px0
  <2>16. \A i \in Id : shm'[1].own[i] = Px <=> shm[1].own[i] = Px
    BY <1>2, <2>3, <2>8, <2>15
  <2>17. \A i \in Id : shm[1].own[i] = Px => path'[i] = path[i]
    BY <1>2, <2>3, <2>9, <2>15
  <2>18. PxOK'
    BY <1>3, <2>16, <2>17 DEF First, PxOK
  <2>19. ASSUME NEW q \in Proc, q # p
         PROVE  ClientOK(q)'
    <3>1. q # None
      BY Names
    <3>2. \A i \in Id : shm'[1].own[i] = q <=> shm[1].own[i] = q
      BY <3>1, <1>2, <2>3, <2>8, <2>19
    <3>3. \A i \in Id : shm[1].own[i] = q => path'[i] = path[i]
      BY <3>1, <1>2, <2>3, <2>9
    <3> QED BY <3>2, <3>3, <2>10, <2>19, ClientKept DEF First
  <2>20. ClientOK(p)'
    <3>1. \A i \in Id : shm[1].own[i] # p
      BY <1>1 DEF ClientOK, Attached
    <3>2. \A i \in Id : shm'[1].own[i] = p <=> i = h
      BY <3>1, <1>2, <2>3, <2>8
    <3> QED BY <3>2, <2>3, <2>7, <2>9, <2>10 DEF ClientOK, Attached
  <2>21. PoolOK(shm[1])'
    BY <2>3, <2>8 DEF PoolOK
  <2> QED BY <1>2, <2>3, <2>8, <2>13, <2>14, <2>18, <2>19, <2>20, <2>21 DEF First
<1> QED BY <1>4, <1>5

\* A client gives back its msgid and goes.
LEMMA MsgReleased ==
  ASSUME First, NEW p \in Proc, Detach(p) \/ Leave(p)
  PROVE  First' /\ shm'[1].pids = shm[1].pids
<1>1. /\ cl[p] \in ClientType /\ ClientOK(p) /\ cl[p].pc = "up" /\ cl[p].start = 1
      /\ cl \in [Proc -> ClientType]
  BY StartIs DEF Detach, IsChmpxExit, Leave, First, Types
<1>2. PICK m \in ShmType : m = shm[1] /\ PoolOK(m)
  BY StartIs
<1>3. PICK n : n = FreeMsgs(m, {p})
  OBVIOUS
<1>4. p # Px /\ p # None /\ Px # None
  BY Names, Px0
<1>5. /\ n \in ShmType /\ PoolOK(n) /\ n.pids = m.pids
      /\ \A i \in Id : n.own[i] = IF m.own[i] \in {p} THEN None ELSE m.own[i]
  BY <1>2, <1>3, <1>4, Freed
<1>6. PICK h : h = cl[p].id
  OBVIOUS
<1>7. h \in Id /\ m.own[h] = p
  BY <1>1, <1>2, <1>6 DEF ClientOK, Attached
<1>8. /\ shm' = [shm EXCEPT ![1] = n] /\ path' = Unlink({h})
      /\ UNCHANGED <<k, pxs, file, note, sup, gone, chk>> /\ ev' \in BOOLEAN
  BY <1>1, <1>2, <1>3, <1>6 DEF Detach, Leave, Released, pxvars, chvars, First, Types, CloseEvent
<1>9. shm'[1] = n /\ shm' \in [Start -> ShmType]
  BY <1>5, <1>8, Ids DEF First, Types
<1>10. \A i \in Id : path'[i] = IF i = h THEN NoQueue ELSE path[i]
  BY <1>8 DEF Unlink
<1>11. NoQueue \in [start : Nat, who : Owner]
  BY DEF NoQueue, Owner
<1>12. path' \in [Id -> [start : Nat, who : Owner]]
  BY <1>8, <1>11 DEF First, Types, Unlink
<1>13. PICK c \in ClientType : cl' = [cl EXCEPT ![p] = c] /\ c.pc \in {"rejoin", "left"} /\ (c.pc = "left" => c.start = 1)
  <2>1. CASE Detach(p)
    <3>1. PICK c : c = [cl[p] EXCEPT !.pc = "rejoin", !.start = 0, !.k2h = 0, !.id = 0]
      OBVIOUS
    <3>2. cl' = [cl EXCEPT ![p] = c]
      BY <1>1, <2>1, <3>1 DEF Detach
    <3>3. c \in ClientType /\ c.pc = "rejoin"
      BY <1>1, <3>1, IdRange DEF ClientType
    <3> QED BY <3>2, <3>3
  <2>2. CASE Leave(p)
    <3>1. PICK c : c = [cl[p] EXCEPT !.pc = "left"]
      OBVIOUS
    <3>2. cl' = [cl EXCEPT ![p] = c]
      BY <1>1, <2>2, <3>1 DEF Leave, To
    <3>3. c \in ClientType /\ c.pc = "left" /\ c.start = 1
      BY <1>1, <3>1 DEF ClientType
    <3> QED BY <3>2, <3>3
  <2> QED BY <2>1, <2>2
<1>14. cl'[p] = c /\ \A q \in Proc \ {p} : cl'[q] = cl[q]
  BY <1>1, <1>13
<1>15. Types'
  BY <1>1, <1>8, <1>9, <1>12, <1>13 DEF First, Types
<1>16. FileThere'
  BY <1>8 DEF First, FileThere
<1>17. PxOK'
  <2>1. \A i \in Id : shm'[1].own[i] = Px <=> shm[1].own[i] = Px
    BY <1>2, <1>4, <1>5, <1>9
  <2>2. \A i \in Id : shm[1].own[i] = Px => path'[i] = path[i]
    BY <1>2, <1>4, <1>7, <1>10
  <2> QED BY <2>1, <2>2, <1>8 DEF First, PxOK
<1>18. ASSUME NEW q \in Proc, q # p
       PROVE  ClientOK(q)'
  <2>1. q # None
    BY Names
  <2>2. \A i \in Id : shm'[1].own[i] = q <=> shm[1].own[i] = q
    BY <2>1, <1>2, <1>5, <1>9, <1>18
  <2>3. \A i \in Id : shm[1].own[i] = q => path'[i] = path[i]
    BY <1>2, <1>7, <1>10, <1>18
  <2> QED BY <2>2, <2>3, <1>14, <1>18, ClientKept DEF First
<1>19. ClientOK(p)'
  <2>1. \A i \in Id : shm'[1].own[i] # p
    BY <1>2, <1>4, <1>5, <1>9
  <2> QED BY <2>1, <1>13, <1>14 DEF ClientOK, Attached
<1>20. PoolOK(shm[1])'
  BY <1>5, <1>9 DEF PoolOK
<1> QED BY <1>2, <1>5, <1>9, <1>15, <1>16, <1>17, <1>18, <1>19, <1>20 DEF First

LEMMA FirstAtFirst == Init => FirstInv
<1> SUFFICES ASSUME Init PROVE First /\ k \in Nat
  BY DEF FirstInv
<1>1. PICK f : f = [i \in Id |-> i]
  OBVIOUS
<1>2. f \in Seq(Id) /\ DOMAIN f = Id /\ \A i \in Id : f[i] = i
  BY <1>1, Ids DEF Id
<1>3. shm[1] = FreshShm /\ shm = [s \in Start |-> FreshShm]
  BY Ids DEF Init
<1>4. FreshShm.free = f /\ FreshShm.own = [i \in Id |-> None] /\ FreshShm.pids = {}
  BY <1>1 DEF FreshShm
<1>5. FreshShm \in ShmType
  BY <1>1, <1>2 DEF FreshShm, ShmType, Owner
<1>6. PoolOK(shm[1])
  BY <1>2, <1>3, <1>4 DEF PoolOK, IsInjective, ToSet
<1>7. Types
  <2>1. Unattached \in ClientType
    BY IdRange DEF Unattached, ClientType
  <2>2. NoQueue \in [start : Nat, who : Owner] /\ IdleCheck \in CheckType
    BY DEF NoQueue, Owner, IdleCheck, CheckType
  <2>3. cl \in [Proc -> ClientType] /\ path \in [Id -> [start : Nat, who : Owner]] /\ shm \in [Start -> ShmType]
    BY <2>1, <2>2, <1>3, <1>5 DEF Init
  <2> QED BY <2>2, <2>3 DEF Init, Types
<1>8. FileThere
  BY DEF Init, FileThere
<1>9. \A i \in Id : shm[1].own[i] = None
  BY <1>3, <1>4
<1>10. PxOK
  BY <1>9, Px0 DEF PxOK, Init
<1>11. ASSUME NEW p \in Proc PROVE ClientOK(p)
  BY <1>9, Names DEF Init, ClientOK, Unattached, Attached
<1>12. k \in Nat
  BY DEF Init
<1> QED BY <1>6, <1>7, <1>8, <1>10, <1>11, <1>12 DEF First

\* Starts are never undone.
LEMMA StartsGrow ==
  ASSUME k \in Nat, [Next]_vars
  PROVE  k' \in Nat /\ (k' = k \/ (InitializeShm /\ k' = k + 1))
<1>1. CASE UNCHANGED vars
  BY <1>1 DEF vars
<1>2. CASE PxStep
  <2>1. InitializeShm => k' = k + 1
    BY DEF InitializeShm, NewFiles
  <2>2. SockSetEventQueue \/ MqSetEventQueue \/ DoSuspend => k' = k
    BY DEF SockSetEventQueue, MqSetEventQueue, DoSuspend, pxvars
  <2>3. \A p \in Proc : PxCltReceiveJoinNotify(p) => k' = k
    BY DEF PxCltReceiveJoinNotify, pxvars
  <2>4. k + 1 \in Nat
    OBVIOUS
  <2> QED BY <1>2, <2>1, <2>2, <2>3, <2>4 DEF PxStep
<1>3. CASE ChkStep
  BY <1>3 DEF ChkStep, CheckNotifyEvent, GiveUpLooking, FreeDown, RemovePids, CheckClients, pxvars
<1>4. CASE PxClean \/ PxCrash
  BY <1>4 DEF PxClean, PxCrash
<1>5. ASSUME NEW p \in Proc, Attach(p) \/ Leave(p) \/ Die(p) \/ Exit(p)
      PROVE  k' = k
  <2>1. Attach(p) => k' = k
    BY DEF Attach, AttachShm, AttachK2hash, SetEventQueue, EnterPid, PxCltSendJoinNotify, Detach, pxvars
  <2> QED BY <2>1, <1>5 DEF Leave, Die, Exit, pxvars
<1> QED BY <1>1, <1>2, <1>3, <1>4, <1>5 DEF Next

LEMMA FirstStep == FirstInv /\ [Next]_vars => FirstInv'
<1> SUFFICES ASSUME FirstInv, [Next]_vars PROVE FirstInv'
  OBVIOUS
<1>1. k \in Nat /\ k' \in Nat /\ (k' = k \/ (InitializeShm /\ k' = k + 1))
  BY StartsGrow DEF FirstInv
<1> SUFFICES ASSUME k' <= 1 PROVE First'
  BY <1>1 DEF FirstInv
<1>2. First
  BY <1>1 DEF FirstInv
<1>3. CASE UNCHANGED vars
  <2>1. Types' /\ FileThere'
    BY <1>2, <1>3 DEF First, Types, FileThere, vars
  <2> QED BY <2>1, <1>2, <1>3, Untouched DEF vars
<1>4. CASE PxStep
  BY <1>2, <1>4, PxSteps, QueueMade DEF PxStep
<1>5. CASE ChkStep
  BY <1>2, <1>5, PxSteps, ThreadSteps DEF ChkStep
<1>6. CASE PxClean \/ PxCrash
  BY <1>2, <1>6, PxSteps, PxCleaned
<1>7. ASSUME NEW p \in Proc, Attach(p) \/ Leave(p) \/ Die(p) \/ Exit(p)
      PROVE  First'
  BY <1>2, <1>7, MoveSteps, PidEntered, MsgTaken, MsgReleased DEF Attach
<1> QED BY <1>3, <1>4, <1>5, <1>6, <1>7 DEF Next

\* While the chmpx process runs for the first time, the name of a msgid leads to the
\* queue its owner reads, for every attached client and for the chmpx process itself
\* (MakeMqPath, SetEventQueue, FreeMsgIds, FreeMsgs).
THEOREM QueuesReachable == Spec => []QueueReachable
<1>1. Init => FirstInv
  BY FirstAtFirst
<1>2. FirstInv /\ [Next]_vars => FirstInv'
  BY FirstStep
<1>3. FirstInv => QueueReachable
  BY DEF FirstInv, First, PxOK, ClientOK, Attached, QueueReachable, IdsOf
<1> QED BY <1>1, <1>2, <1>3, PTL DEF Spec

-----------------------------------------------------------------------------
(* SUSPEND.                                                                *)

LEMMA RunIs ==
  ASSUME First, pxs = "run"
  PROVE  k = 1 /\ ~Before
BY DEF First, FileThere, Before

\* Before the chmpx process has its queue no client is there.
LEMMA ClientIs ==
  ASSUME First, Second, NEW p \in Proc, cl[p].pc # "off"
  PROVE  ~Before /\ (pxs # "down" => pxs = "run" /\ k = 1)
BY DEF First, Types, FileThere, Second, NobodyYet, Before

\* A client moves.
LEMMA ClientSecond ==
  ASSUME First, Second, ~Before, NEW p \in Proc, NEW c,
         cl' = [cl EXCEPT ![p] = c], UNCHANGED <<k, pxs, sup, gone, chk>>,
         cl[p].pc # "gone", note \subseteq note', ev => ev',
         pxs = "run" =>
           /\ shm'[1].pids = shm[1].pids \/ (c.pc = "pid" /\ shm'[1].pids = shm[1].pids \cup {p})
           /\ c.pc \in {"pid", "up"} => p \in shm'[1].pids
           /\ p \in shm'[1].pids => c.pc \in {"pid", "up", "dead", "left", "gone"}
           /\ c.pc = "up" => p \in note'
           /\ \/ ev'
              \/ (c.pc \in {"dead", "left", "gone"} <=> cl[p].pc \in {"dead", "left", "gone"})
  PROVE  Second'
<1>1. cl'[p] = c /\ \A q \in Proc \ {p} : cl'[q] = cl[q]
  BY DEF First, Types
<1>2. ~Before'
  BY DEF Before
<1>3. chk.list \subseteq Proc
  BY DEF First, Types, CheckType
<1>4. chk'.pc = "pids" => \A q \in chk'.list : cl'[q].pc = "gone"
  BY <1>1, <1>3 DEF Second
<1>5. ASSUME pxs' = "run"
      PROVE  PidsOK' /\ Follows' /\ (Alone' => \A e \in Ended' \cap shm'[1].pids : Noticed(e)')
  <2>1. pxs = "run" /\ PidsOK /\ Follows /\ (Alone => \A e \in Ended \cap shm[1].pids : Noticed(e))
    BY <1>5 DEF Second
  <2>2. shm[1].pids \subseteq Proc
    BY StartIs DEF ShmType
  <2>3. PidsOK'
    BY <2>1, <2>2, <1>1 DEF PidsOK, Ended
  <2>4. Follows'
    BY <2>1, <1>1 DEF Follows
  <2>5. ASSUME Alone', NEW e \in Ended' \cap shm'[1].pids, ~ev'
        PROVE  Noticed(e)'
    <3>1. Ended' = Ended
      BY <2>1, <2>5, <1>1 DEF Ended
    <3>2. c.pc = "pid" => p \notin Ended'
      BY <1>1 DEF Ended
    <3>3. Alone /\ e \in Ended \cap shm[1].pids
      BY <2>1, <2>5, <3>1, <3>2 DEF Alone
    <3> QED BY <2>1, <2>5, <3>3 DEF Noticed
  <2>6. Alone' => \A e \in Ended' \cap shm'[1].pids : Noticed(e)'
    BY <2>5 DEF Noticed
  <2> QED BY <2>3, <2>4, <2>6
<1> QED BY <1>2, <1>4, <1>5 DEF Second

LEMMA SecondMoves ==
  ASSUME ~EarlyAttach, First, Second, NEW p \in Proc, Attach(p) \/ Leave(p) \/ Die(p) \/ Exit(p)
  PROVE  Second'
<1>1. /\ cl[p] \in ClientType /\ ClientOK(p) /\ (cl[p].pc \notin {"off", "rejoin"} => cl[p].start = 1)
      /\ cl \in [Proc -> ClientType] /\ file \in {0, 1} /\ ev \in BOOLEAN
  BY StartIs DEF First, Types
<1>2. cl[p].pc # "off" => ~Before /\ (pxs # "down" => pxs = "run" /\ k = 1)
  BY ClientIs
<1>3. pxs = "run" => PidsOK /\ Follows /\ k = 1 /\ PxOK
  BY RunIs DEF First, Second
<1>4. pxs = "run" /\ p \in shm[1].pids => cl[p].pc \in {"pid", "up", "dead", "left", "gone"}
  BY <1>3 DEF PidsOK, Ended
<1>5. CASE AttachShm(p)
  <2>1. PICK c : c = [cl[p] EXCEPT !.pc = "shm", !.start = file, !.cb = (cl[p].pc = "off")]
    OBVIOUS
  <2>2. cl' = [cl EXCEPT ![p] = c] /\ c.pc = "shm"
    BY <1>1, <1>5, <2>1 DEF AttachShm, ClientType
  <2>3. /\ pxs = "run" /\ cl[p].pc \in {"off", "rejoin"}
        /\ UNCHANGED <<k, pxs, file, shm, path, note, sup, gone, ev, chk>>
    BY <1>5 DEF AttachShm, pxvars, chvars
  <2>4. ~Before
    BY <2>3, RunIs
  <2> QED BY <1>4, <2>2, <2>3, <2>4, ClientSecond
<1>6. CASE AttachK2hash(p)
  <2>1. /\ cl[p].pc = "shm"
        /\ UNCHANGED <<k, pxs, file, shm, path, note, sup, gone, ev, chk>>
    BY <1>6 DEF AttachK2hash, pxvars, chvars
  <2>2. PICK c : cl' = [cl EXCEPT ![p] = c] /\ c.pc \in {"rejoin", "k2h"}
    <3>1. CASE file = 0
      <4>1. PICK c : c = [cl[p] EXCEPT !.pc = "rejoin"]
        OBVIOUS
      <4>2. cl' = [cl EXCEPT ![p] = c] /\ c.pc = "rejoin"
        BY <1>1, <1>6, <3>1, <4>1 DEF AttachK2hash, GiveUpAttach, To, ClientType
      <4> QED BY <4>2
    <3>2. CASE file # 0
      <4>1. PICK c : c = [cl[p] EXCEPT !.pc = "k2h", !.k2h = file]
        OBVIOUS
      <4>2. cl' = [cl EXCEPT ![p].pc = "k2h", ![p].k2h = file]
        BY <1>6, <3>2 DEF AttachK2hash
      <4>3. cl' = [cl EXCEPT ![p] = c] /\ c.pc = "k2h"
        BY <1>1, <4>1, <4>2 DEF ClientType
      <4> QED BY <4>3
    <3> QED BY <3>1, <3>2
  <2>3. c.pc \in {"rejoin", "k2h"} /\ ~Before
    BY <1>2, <2>1, <2>2
  <2> QED BY <1>4, <2>1, <2>2, <2>3, ClientSecond
<1>7. CASE SetEventQueue(p)
  <2>1. /\ cl[p].pc = "k2h" /\ UNCHANGED <<k, pxs, file, note, sup, gone, ev, chk>>
    BY <1>7 DEF SetEventQueue, pxvars, chvars
  <2>2. shm'[1].pids = shm[1].pids
    BY <1>7, MsgTaken
  <2>3. PICK c : cl' = [cl EXCEPT ![p] = c] /\ c.pc \in {"rejoin", "mq"}
    <3>1. CASE shm[1].free = << >>
      <4>1. PICK c : c = [cl[p] EXCEPT !.pc = "rejoin"]
        OBVIOUS
      <4>2. cl' = [cl EXCEPT ![p] = c] /\ c.pc = "rejoin"
        BY <1>1, <1>7, <2>1, <3>1, <4>1 DEF SetEventQueue, GiveUpAttach, To, ClientType
      <4> QED BY <4>2
    <3>2. CASE shm[1].free # << >>
      <4>1. PICK c : c = [cl[p] EXCEPT !.pc = "mq", !.id = Head(shm[1].free)]
        OBVIOUS
      <4>2. cl' = [cl EXCEPT ![p].pc = "mq", ![p].id = Head(shm[1].free)]
        BY <1>1, <1>7, <2>1, <3>2 DEF SetEventQueue
      <4>3. cl' = [cl EXCEPT ![p] = c] /\ c.pc = "mq"
        BY <1>1, <4>1, <4>2 DEF ClientType
      <4> QED BY <4>3
    <3> QED BY <3>1, <3>2
  <2>4. c.pc \in {"rejoin", "mq"} /\ ~Before
    BY <1>2, <2>1, <2>3
  <2> QED BY <1>4, <2>1, <2>2, <2>3, <2>4, ClientSecond
<1>8. CASE EnterPid(p)
  <2>1. /\ cl[p].pc = "mq" /\ UNCHANGED <<k, pxs, file, note, sup, gone, ev, chk>>
    BY <1>8 DEF EnterPid, pxvars, chvars
  <2>2. shm'[1].pids = shm[1].pids \cup {p}
    BY <1>8, PidEntered
  <2>3. PICK c : c = [cl[p] EXCEPT !.pc = "pid"]
    OBVIOUS
  <2>4. cl' = [cl EXCEPT ![p] = c] /\ c.pc = "pid"
    BY <1>1, <1>8, <2>3 DEF EnterPid, To, ClientType
  <2>5. ~Before
    BY <1>2, <2>1
  <2> QED BY <2>1, <2>2, <2>4, <2>5, ClientSecond
<1>9. CASE PxCltSendJoinNotify(p)
  <2>1. /\ cl[p].pc = "pid" /\ UNCHANGED <<k, pxs, file, shm, path, sup, gone, ev, chk>>
    BY <1>9 DEF PxCltSendJoinNotify, pxvars, chvars
  <2>2. PICK c : c = [cl[p] EXCEPT !.pc = "up"]
    OBVIOUS
  <2>3. cl' = [cl EXCEPT ![p] = c] /\ c.pc = "up" /\ note \subseteq note'
    BY <1>1, <1>9, <2>2 DEF PxCltSendJoinNotify, To, ClientType
  \* The chmpx process runs, so its queue is there and the notice gets into it.
  <2>4. ASSUME pxs = "run"
        PROVE  p \in note' /\ p \in shm[1].pids
    <3>1. cl[p].start = 1 /\ cl[p].k2h = 1 /\ k = 1
      BY <1>1, <1>3, <2>1, <2>4 DEF ClientOK
    <3>2. Queue(1, Px) \in PxQueues(1)
      BY <1>3, <2>4 DEF PxOK, PxQueues, IdsOf
    <3>3. p \in note'
      BY <1>9, <3>1, <3>2 DEF PxCltSendJoinNotify
    <3> QED BY <3>3, <1>3, <2>1, <2>4 DEF PidsOK
  <2>5. ~Before
    BY <1>2, <2>1
  <2> QED BY <2>1, <2>3, <2>4, <2>5, ClientSecond
<1>10. CASE Detach(p)
  <2>1. cl[p].pc = "up" /\ cl[p].start = 1 /\ IsNeedDetach(1)
    BY <1>1, <1>10 DEF Detach, IsChmpxExit
  <2>2. pxs # "run"
    BY <2>1, <1>2 DEF IsNeedDetach, IsChmpxProcessRunning
  <2>3. PICK c : c = [cl[p] EXCEPT !.pc = "rejoin", !.start = 0, !.k2h = 0, !.id = 0]
    OBVIOUS
  <2>4. cl' = [cl EXCEPT ![p] = c]
    BY <1>1, <1>10, <2>3 DEF Detach
  <2>5. UNCHANGED <<k, pxs, note, sup, gone, ev, chk>>
    BY <1>10 DEF Detach, pxvars, chvars
  <2>6. ~Before
    BY <1>2, <2>1
  <2> QED BY <2>1, <2>2, <2>4, <2>5, <2>6, ClientSecond
<1>11. CASE Leave(p)
  <2>1. cl[p].pc = "up" /\ cl[p].start = 1 /\ pxs = "run" /\ k = 1
    BY <1>1, <1>2, <1>11 DEF Leave, IsChmpxProcessRunning
  <2>2. shm'[1].pids = shm[1].pids
    BY <1>11, MsgReleased
  <2>3. PICK c : c = [cl[p] EXCEPT !.pc = "left"]
    OBVIOUS
  <2>4. cl' = [cl EXCEPT ![p] = c] /\ c.pc = "left"
    BY <1>1, <1>11, <2>3 DEF Leave, To, ClientType
  <2>5. UNCHANGED <<k, pxs, note, sup, gone, chk>> /\ ev' = TRUE
    BY <1>11, <2>1 DEF Leave, pxvars, CloseEvent
  <2>6. ~Before
    BY <1>2, <2>1
  <2> QED BY <2>1, <2>2, <2>4, <2>5, <2>6, ClientSecond
<1>12. CASE Die(p)
  <2>1. cl[p].pc \in {"mq", "pid", "up"} /\ cl[p].start = 1
    BY <1>1, <1>12 DEF Die
  <2>2. PICK c : c = [cl[p] EXCEPT !.pc = "dead"]
    OBVIOUS
  <2>3. cl' = [cl EXCEPT ![p] = c] /\ c.pc = "dead"
    BY <1>1, <1>12, <2>2 DEF Die, To, ClientType
  <2>4. UNCHANGED <<k, pxs, shm, note, sup, gone, chk>> /\ (ev => ev') /\ (pxs = "run" => ev')
    BY <1>2, <1>12, <2>1 DEF Die, pxvars, CloseEvent
  <2>5. ~Before
    BY <1>2, <2>1
  <2> QED BY <2>1, <2>3, <2>4, <2>5, ClientSecond
<1>13. CASE Exit(p)
  <2>1. /\ cl[p].pc \in {"dead", "left"}
        /\ UNCHANGED <<k, pxs, file, shm, path, note, sup, gone, ev, chk>>
    BY <1>13 DEF Exit, pxvars, chvars
  <2>2. PICK c : c = [cl[p] EXCEPT !.pc = "gone"]
    OBVIOUS
  <2>3. cl' = [cl EXCEPT ![p] = c] /\ c.pc = "gone"
    BY <1>1, <1>13, <2>2 DEF Exit, To, ClientType
  <2>4. ~Before
    BY <1>2, <2>1
  <2> QED BY <2>1, <2>3, <2>4, ClientSecond
<1> QED BY <1>5, <1>6, <1>7, <1>8, <1>9, <1>10, <1>11, <1>12, <1>13 DEF Attach

LEMMA SecondPx ==
  ASSUME First, Second, SockSetEventQueue \/ MqSetEventQueue \/ DoSuspend \/ PxClean \/ PxCrash
                        \/ \E p \in Proc : PxCltReceiveJoinNotify(p)
  PROVE  Second'
<1>1. k' = k /\ UNCHANGED <<cl, ev, chk>>
  BY DEF SockSetEventQueue, MqSetEventQueue, DoSuspend, PxClean, PxCrash, PxCltReceiveJoinNotify,
         pxvars, chvars
<1>2. chk'.pc = "pids" => \A p \in chk'.list : cl'[p].pc = "gone"
  BY <1>1 DEF Second
<1>3. CASE SockSetEventQueue
  <2>1. pxs = "shm" /\ pxs' = "sock" /\ UNCHANGED <<shm, note, gone>> /\ sup' = SetSelfStatus(shm[k], TRUE)
    BY <1>3 DEF SockSetEventQueue
  <2>2. NobodyYet /\ k = 1
    BY <2>1 DEF First, Types, FileThere, Second, Before
  <2>3. sup' = TRUE
    BY <2>1, <2>2 DEF NobodyYet, SetSelfStatus, IsClientPids
  <2>4. NobodyYet'
    BY <1>1, <2>1, <2>2, <2>3 DEF NobodyYet
  <2> QED BY <1>2, <2>1, <2>4 DEF Second
<1>4. CASE MqSetEventQueue
  <2>1. pxs = "sock" /\ pxs' = "run" /\ UNCHANGED <<note, sup, gone>>
    BY <1>4 DEF MqSetEventQueue, chvars
  <2>2. NobodyYet /\ k = 1
    BY <2>1 DEF First, Types, FileThere, Second, Before
  <2>3. shm'[1].pids = {}
    BY <1>4, <2>2, QueueMade DEF NobodyYet
  <2>4. PidsOK' /\ Follows'
    BY <1>1, <2>1, <2>2, <2>3 DEF NobodyYet, PidsOK, Follows
  <2> QED BY <1>1, <1>2, <2>1, <2>2, <2>3, <2>4 DEF Second, Before
<1>5. CASE DoSuspend \/ \E p \in Proc : PxCltReceiveJoinNotify(p)
  <2>1. pxs = "run" /\ pxs' = "run" /\ UNCHANGED shm
    BY <1>5 DEF DoSuspend, PxCltReceiveJoinNotify, pxvars
  <2>2. k = 1 /\ PidsOK /\ Follows /\ (Alone => \A e \in Ended \cap shm[1].pids : Noticed(e)) /\ sup \in BOOLEAN
    BY <2>1, RunIs DEF First, Types, Second
  <2>3. PidsOK'
    BY <1>1, <2>1, <2>2 DEF PidsOK, Ended
  <2>4. Alone' => \A e \in Ended' \cap shm'[1].pids : Noticed(e)'
    BY <1>1, <2>1, <2>2 DEF Alone, Ended, Noticed
  <2>5. CASE DoSuspend
    <3>1. UNCHANGED note /\ sup' = (IF sup THEN sup ELSE shm[1].pids = {})
      BY <2>2, <2>5 DEF DoSuspend, SetSelfStatus, IsClientPids
    <3>2. Follows'
      BY <1>1, <2>1, <2>2, <3>1 DEF Follows, PidsOK
    <3> QED BY <1>1, <1>2, <2>1, <2>2, <2>3, <2>4, <3>2 DEF Second, Before
  <2>6. CASE \E p \in Proc : PxCltReceiveJoinNotify(p)
    <3>1. UNCHANGED gone /\ sup' = (IF shm[1].pids # {} /\ sup THEN shm[1].pids = {} ELSE sup)
      BY <2>2, <2>6 DEF PxCltReceiveJoinNotify, SetSelfStatus, IsClientPids
    <3>2. Follows'
      BY <1>1, <2>1, <2>2, <3>1 DEF Follows, PidsOK
    <3> QED BY <1>1, <1>2, <2>1, <2>2, <2>3, <2>4, <3>2 DEF Second, Before
  <2> QED BY <1>5, <2>5, <2>6
<1>6. CASE PxClean \/ PxCrash
  <2>1. pxs # "down" /\ pxs' = "down"
    BY <1>6 DEF PxClean, PxCrash, UnlockChmpxPid
  <2>2. k # 0
    BY <2>1 DEF First, FileThere
  <2> QED BY <1>1, <1>2, <2>1, <2>2 DEF Second, Before
<1> QED BY <1>3, <1>4, <1>5, <1>6

\* The thread looks for the process that has ended until it finds it, and takes its
\* pid out of the list.
LEMMA SecondChk ==
  ASSUME ~Linger, First, Second, ChkStep
  PROVE  Second'
<1>1. pxs = "run" /\ UNCHANGED <<k, pxs, cl, note, sup>>
  BY DEF ChkStep, CheckNotifyEvent, GiveUpLooking, FreeDown, RemovePids, CheckClients, Looking, pxvars
<1>2. /\ k = 1 /\ PidsOK /\ Follows /\ (Alone => \A e \in Ended \cap shm[1].pids : Noticed(e))
      /\ ~Before' /\ (chk.pc = "pids" => \A p \in chk.list : cl[p].pc = "gone")
  BY <1>1, RunIs DEF First, Second, Before
<1>3. chk.list \subseteq Proc /\ shm[1].pids \subseteq Proc /\ Ended' = Ended /\ (Alone' <=> Alone)
  BY <1>1, StartIs, Ids DEF First, Types, CheckType, ShmType, Ended, Alone
<1>4. CASE CheckNotifyEvent
  <2>1. /\ chk.pc = "idle" /\ UNCHANGED <<shm, gone>>
        /\ chk' = IF shm[1].pids # {} THEN [pc |-> "look", list |-> shm[1].pids] ELSE IdleCheck
    BY <1>2, <1>4 DEF CheckNotifyEvent, IsClientPids
  <2>2. chk'.pc # "pids" /\ (shm[1].pids # {} => chk'.pc = "look" /\ chk'.list = shm[1].pids)
    BY <2>1 DEF IdleCheck
  <2>3. PidsOK' /\ Follows'
    BY <1>1, <1>2, <1>3, <2>1 DEF PidsOK, Follows
  <2>4. \A e \in Ended' \cap shm'[1].pids : Noticed(e)'
    BY <2>1, <2>2 DEF Noticed
  <2> QED BY <1>2, <2>2, <2>3, <2>4 DEF Second
<1>5. CASE GiveUpLooking
  <2>1. /\ chk.pc = "look" /\ UNCHANGED <<shm, gone, ev>> /\ chk' = IdleCheck
        /\ Down(chk.list) = {} /\ Ending(chk.list) = {}
    BY <1>5 DEF GiveUpLooking, Looking
  <2>2. PidsOK' /\ Follows' /\ chk'.pc = "idle"
    BY <1>1, <1>2, <1>3, <2>1 DEF PidsOK, Follows, IdleCheck
  <2>3. \A e \in Ended : e \notin chk.list
    BY <2>1 DEF Ended, Down, Ending
  <2>4. Alone' => \A e \in Ended' \cap shm'[1].pids : Noticed(e)'
    BY <1>2, <1>3, <2>1, <2>3 DEF Noticed
  <2> QED BY <1>2, <2>2, <2>4 DEF Second
<1>6. CASE FreeDown
  <2>1. PICK D : D = Down(chk.list)
    OBVIOUS
  <2>2. chk.pc = "look" /\ UNCHANGED <<gone, ev>> /\ chk' = [pc |-> "pids", list |-> D] /\ D # {}
    BY <1>6, <2>1 DEF FreeDown, Looking
  <2>3. shm'[1].pids = shm[1].pids
    BY <1>6, <2>2, ThreadSteps
  <2>4. chk'.pc = "pids" /\ chk'.list = D /\ \A p \in D : p \in Ended /\ p \in chk.list /\ cl[p].pc = "gone"
    BY <1>3, <2>1, <2>2 DEF Down, Ended
  <2>5. PidsOK' /\ Follows'
    BY <1>1, <1>2, <1>3, <2>2, <2>3 DEF PidsOK, Follows
  <2>6. ASSUME Alone, NEW e \in Ended
        PROVE  e \in D
    BY <2>2, <2>4, <2>6 DEF Alone
  <2>7. Alone' => \A e \in Ended' \cap shm'[1].pids : Noticed(e)'
    BY <1>3, <2>4, <2>6 DEF Noticed
  <2> QED BY <1>1, <1>2, <2>4, <2>5, <2>7 DEF Second
<1>7. CASE RemovePids
  <2>1. chk.pc = "pids" /\ UNCHANGED <<gone, ev>> /\ chk'.pc = "clients"
    BY <1>7 DEF RemovePids, First, Types, CheckType
  <2>2. shm'[1].pids = shm[1].pids \ chk.list
    BY <1>7, <2>1, ThreadSteps
  <2>3. PidsOK' /\ Follows'
    BY <1>1, <1>2, <1>3, <2>1, <2>2 DEF PidsOK, Follows
  <2>4. Alone' => \A e \in Ended' \cap shm'[1].pids : Noticed(e)'
    BY <1>2, <1>3, <2>1, <2>2 DEF Noticed
  <2> QED BY <1>2, <2>1, <2>3, <2>4 DEF Second
<1>8. CASE CheckClients
  <2>1. /\ chk.pc = "clients" /\ UNCHANGED <<shm, ev>> /\ chk'.pc = "idle"
        /\ gone' = (gone \/ shm[1].pids = {})
    BY <1>2, <1>8 DEF CheckClients, IdleCheck, IsClientPids
  <2>2. PidsOK' /\ Follows'
    BY <1>1, <1>2, <1>3, <2>1 DEF PidsOK, Follows
  <2>3. Alone' => \A e \in Ended' \cap shm'[1].pids : Noticed(e)'
    BY <1>2, <1>3, <2>1 DEF Noticed
  <2> QED BY <1>2, <2>1, <2>2, <2>3 DEF Second
<1> QED BY <1>4, <1>5, <1>6, <1>7, <1>8 DEF ChkStep

LEMMA SecondAtFirst == Init => SuspendInv
<1> SUFFICES ASSUME Init PROVE Second
  BY DEF SuspendInv
<1>1. NobodyYet
  BY Ids DEF Init, NobodyYet, Unattached, FreshShm
<1>2. pxs = "down" /\ chk.pc = "idle"
  BY DEF Init, IdleCheck
<1> QED BY <1>1, <1>2 DEF Second

LEMMA SecondStep ==
  ASSUME ~EarlyAttach, ~Linger, FirstInv, SuspendInv, [Next]_vars
  PROVE  SuspendInv'
<1> SUFFICES ASSUME k' <= 1 PROVE Second'
  BY DEF SuspendInv
<1>1. k \in Nat /\ (k' = k \/ (InitializeShm /\ k' = k + 1))
  BY StartsGrow DEF FirstInv
<1>2. First /\ Second /\ k <= 1
  BY <1>1 DEF FirstInv, SuspendInv
<1>3. CASE UNCHANGED vars
  <2>1. UNCHANGED <<k, pxs, shm, cl, note, sup, gone, ev, chk>>
    BY <1>3 DEF vars
  <2> QED BY <1>2, <2>1
      DEF Second, Before, NobodyYet, PidsOK, Follows, Alone, Noticed, Ended
<1>4. CASE InitializeShm
  <2>1. k = 0 /\ k' = 1 /\ pxs' = "shm"
    BY <1>1, <1>4 DEF InitializeShm, NewFiles, LockChmpxPid
  <2>2. /\ note' = {} /\ sup' = TRUE /\ gone' = FALSE /\ ev' = FALSE /\ chk' = IdleCheck
        /\ UNCHANGED <<shm, cl>>
    BY <1>4 DEF InitializeShm
  <2>3. NobodyYet'
    BY <1>2, <2>1, <2>2 DEF Second, Before, NobodyYet
  <2>4. chk'.pc = "idle"
    BY <2>2 DEF IdleCheck
  <2> QED BY <2>1, <2>3, <2>4 DEF Second
<1>5. CASE PxStep /\ ~InitializeShm
  BY <1>2, <1>5, SecondPx DEF PxStep
<1>6. CASE PxClean \/ PxCrash
  BY <1>2, <1>6, SecondPx
<1>7. CASE ChkStep
  BY <1>2, <1>7, SecondChk
<1>8. ASSUME NEW p \in Proc, Attach(p) \/ Leave(p) \/ Die(p) \/ Exit(p)
      PROVE  Second'
  BY <1>2, <1>8, SecondMoves
<1> QED BY <1>3, <1>4, <1>5, <1>6, <1>7, <1>8 DEF Next

LEMMA OneEnded == Cardinality(Ended) <= 1 => Alone
<1> SUFFICES ASSUME Cardinality(Ended) <= 1, NEW d \in Ended, NEW e \in Ended, d # e PROVE FALSE
  BY DEF Alone
<1>1. IsFiniteSet(Proc) /\ Ended \subseteq Proc
  BY AttachAssumption DEF Ended
<1>2. IsFiniteSet(Ended)
  BY <1>1, FS_Subset
<1>3. Cardinality({d, e}) = 2
  <2>1. IsFiniteSet({d}) /\ Cardinality({d}) = 1
    BY FS_Singleton
  <2>2. Cardinality({d} \cup {e}) = 2
    BY <2>1, FS_AddElement
  <2> QED BY <2>2
<1>4. Cardinality({d, e}) <= Cardinality(Ended) /\ Cardinality(Ended) \in Nat
  BY <1>2, FS_Subset, FS_CardinalityType
<1> QED BY <1>3, <1>4

\* When nothing is under way a server is SUSPEND exactly when it has no client:
\* the notice of a join, the flag of the last close and SetSelfStatus agree, whatever
\* order they come in, when clients attach after the chmpx process has its queue and
\* the entry of a dead process in /proc goes while the thread looks for it.
THEOREM SuspendSettles ==
  ASSUME ~EarlyAttach, ~Linger
  PROVE  Spec => []SuspendSettled
<1>1. Init => FirstInv /\ SuspendInv
  BY FirstAtFirst, SecondAtFirst
<1>2. FirstInv /\ SuspendInv /\ [Next]_vars => (FirstInv /\ SuspendInv)'
  BY FirstStep, SecondStep
<1>3. FirstInv /\ SuspendInv => SuspendSettled
  <2> SUFFICES ASSUME FirstInv, SuspendInv, AtRest
               PROVE  sup <=> ~\E p \in Proc : cl[p].pc = "up" /\ cl[p].start = k
    BY DEF SuspendSettled
  <2>1. k = 1 /\ pxs = "run" /\ First /\ Second /\ Alone /\ chk.pc = "idle" /\ ~gone /\ ~ev /\ note = {}
    BY OneEnded DEF AtRest, FirstInv, SuspendInv
  <2>2. PidsOK /\ Follows /\ \A e \in Ended \cap shm[1].pids : Noticed(e)
    BY <2>1 DEF Second
  <2>3. \A p \in Proc : cl[p].pc = "up" => cl[p].start = 1 /\ ~sup
    BY <2>1, <2>2, StartIs DEF Follows
  <2>4. Ended \cap shm[1].pids = {}
    BY <2>1, <2>2 DEF Noticed
  <2>5. \A p \in shm[1].pids : p \in Proc /\ cl[p].pc = "up"
    BY <2>1, <2>2, <2>4, Ids DEF PidsOK, AtRest, Attaching, First, Types, ShmType
  <2>6. ~sup => shm[1].pids # {}
    BY <2>1, <2>2 DEF Follows
  <2>7. sup \in BOOLEAN
    BY <2>1 DEF First, Types
  <2> QED BY <2>1, <2>3, <2>5, <2>6, <2>7
<1> QED BY <1>1, <1>2, <1>3, PTL DEF Spec
=============================================================================
