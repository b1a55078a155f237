-------------------------- MODULE ChmMsgBoxProofs --------------------------
(***************************************************************************)
(* Proofs about ChmMsgBox, for any pool, processes, threads and bounds:    *)
(* what FreeMsg and AssignMsg do to the pool, that no msgid is lost or     *)
(* doubled; for processes with one thread, that an open msgid belongs to   *)
(* the one who opened it; and, where the chmpx process has one msgid, that *)
(* an answer goes into the queue its receiver waits on.                    *)
(***************************************************************************)
EXTENDS ChmMsgBox, ChmMsgPoolProofs

-----------------------------------------------------------------------------
(* The pool as a sequence.                                                 *)

LEMMA IdsAre == Id \in SUBSET Int /\ IsFiniteSet(Id)
<1>1. MaxId \in Int
  BY MsgBoxAssumption
<1>2. IsFiniteSet(1 .. MaxId)
  BY <1>1, FS_Interval
<1> QED BY <1>1, <1>2 DEF Id

\* A set of numbers has a least one.
LEMMA LeastOf ==
  ASSUME NEW S \in SUBSET Int, IsFiniteSet(S), S # {}
  PROVE  Min(S) \in S
<1> DEFINE n == Cardinality(S)
<1>1. n \in Nat /\ n # 0
  BY FS_EmptySet, FS_CardinalityType
<1>2. PICK i \in S : Above(S, i) = n - 1
  BY <1>1, AboveOneToOne
<1> DEFINE R == {j \in S : j > i}
<1>3. R \in SUBSET (S \ {i})
  OBVIOUS
<1>4. IsFiniteSet(S \ {i}) /\ Cardinality(S \ {i}) = n - 1 /\ Cardinality(R) = n - 1
  BY <1>1, <1>2, FS_RemoveElement DEF Above
<1> HIDE DEF R
<1>5. R = S \ {i}
  BY <1>3, <1>4, FS_Subset
<1>6. \A j \in S : i <= j
  BY <1>5 DEF R
<1> QED BY <1>6 DEF Min

LEMMA MinOf == ASSUME NEW S \in SUBSET Id, S # {} PROVE Min(S) \in S
<1>1. IsFiniteSet(S) /\ S \in SUBSET Int
  BY AboveRange, IdsAre
<1> QED BY <1>1, LeastOf

\* AssignMsg, k times: the first k msgids leave the pool.
LEMMA Remaining ==
  ASSUME free \in Seq(Id), IsInjective(free), NEW k \in Nat, k <= Len(free)
  PROVE  LET g == SubSeq(free, k + 1, Len(free))
         IN  /\ g \in Seq(Id) /\ IsInjective(g)
             /\ ToSet(g) = ToSet(free) \ NextIds(k)
             /\ NextIds(k) \subseteq ToSet(free) /\ NextIds(k) \subseteq Id
<1> DEFINE n == Len(free)
           g == SubSeq(free, k + 1, n)
<1>1. n \in Nat /\ DOMAIN free = 1 .. n /\ \A i \in 1 .. n : free[i] \in Id
  OBVIOUS
<1>2. g \in Seq(Id) /\ Len(g) = n - k /\ \A i \in 1 .. n - k : g[i] = free[k + i]
  <2>1. k + 1 \in Int /\ n \in Int /\ \A i \in k + 1 .. n : free[i] \in Id
    BY <1>1
  <2>2. /\ g \in Seq(Id) /\ Len(g) = IF k + 1 <= n THEN n - (k + 1) + 1 ELSE 0
        /\ \A i \in 1 .. n - (k + 1) + 1 : g[i] = free[k + 1 + i - 1]
    BY <2>1, SubSeqProperties
  <2> HIDE DEF g
  <2>3. n - (k + 1) + 1 = n - k /\ \A i \in Int : k + 1 + i - 1 = k + i
    BY <1>1
  <2>4. Len(g) = n - k
    <3>1. Len(g) = IF k + 1 <= n THEN n - (k + 1) + 1 ELSE 0
      BY <2>2
    <3>2. k <= n
      OBVIOUS
    <3> HIDE DEF n
    <3> QED BY <1>1, <3>1, <3>2
  <2>5. ASSUME NEW i \in 1 .. n - k PROVE g[i] = free[k + i]
    <3>1. g[i] = free[k + 1 + i - 1]
      BY <2>2, <2>3
    <3>2. k + 1 + i - 1 = k + i
      BY <1>1
    <3> QED BY <3>1, <3>2
  <2> QED BY <2>2, <2>4, <2>5
<1> HIDE DEF g
<1>3. DOMAIN g = 1 .. n - k
  BY <1>2
<1>4. \A i \in 1 .. n - k : k + i \in 1 .. n /\ k + i \notin 1 .. k
  BY <1>1
<1>5. IsInjective(g)
  <2> SUFFICES ASSUME NEW a \in 1 .. n - k, NEW b \in 1 .. n - k, g[a] = g[b] PROVE a = b
    BY <1>3 DEF IsInjective
  <2>1. k + a = k + b
    BY <1>1, <1>2, <1>4 DEF IsInjective
  <2> QED BY <1>1, <2>1
<1>6. \A j \in 1 .. k : j \in 1 .. n
  BY <1>1
<1>7. NextIds(k) \subseteq ToSet(free) /\ NextIds(k) \subseteq Id
  BY <1>1, <1>6 DEF NextIds, ToSet
<1>8. ToSet(g) \subseteq ToSet(free) \ NextIds(k)
  <2> SUFFICES ASSUME NEW i \in 1 .. n - k PROVE g[i] \in ToSet(free) \ NextIds(k)
    BY <1>3 DEF ToSet
  <2>1. g[i] = free[k + i] /\ k + i \in 1 .. n /\ k + i \notin 1 .. k
    BY <1>2, <1>4
  <2> QED BY <1>1, <1>6, <2>1 DEF ToSet, NextIds, IsInjective
<1>9. ToSet(free) \ NextIds(k) \subseteq ToSet(g)
  <2> SUFFICES ASSUME NEW j \in 1 .. n, j \notin 1 .. k PROVE free[j] \in ToSet(g)
    BY <1>1 DEF ToSet, NextIds
  <2>1. j - k \in 1 .. n - k /\ g[j - k] = free[j]
    <3>1. j - k \in 1 .. n - k /\ k + (j - k) = j
      BY <1>1
    <3> QED BY <1>2, <3>1
  <2> QED BY <1>3, <2>1 DEF ToSet
<1> QED BY <1>2, <1>5, <1>7, <1>8, <1>9 DEF g

-----------------------------------------------------------------------------
(* The inductive invariant of the pool.                                    *)

ClientType == [on : {"off", "join", "on", "notify"}, recv : SUBSET Id, resv : SUBSET Id,
               real : SUBSET Id, dest : SUBSET Box]
ThreadType == [pc : {"idle", "activate", "erase", "open", "wait", "close", "notify", "joined"},
               id : Id \cup {NoId}, note : SUBSET Id, sent : Nat]

UsesId == {"activate", "erase", "open", "wait", "close"}
ThreadTypes ==
  /\ th \in [Thread -> ThreadType]
  /\ \A t \in Thread : th[t].pc \in UsesId => th[t].id \in Id

PoolTypes ==
  /\ free \in Seq(Id) /\ IsInjective(free)
  /\ st \in [Id -> {"no", "assigned", "activated"}]
  /\ own \in [Id -> Proc \cup {"nobody"}]
  /\ cl \in [Proc -> ClientType]
  /\ ThreadTypes

\* Process p has msgid i in its maps and has not given it back.
Has(p, i) == cl[p].on # "notify" /\ i \in cl[p].recv

\* Where a msgid is, and the process it is assigned to.
Exact(i) ==
  /\ st[i] = "no" <=> i \in ToSet(free)
  /\ st[i] = "no" => own[i] = "nobody"
  /\ st[i] # "no" => own[i] \in Proc
  /\ \A p \in Proc : Has(p, i) <=> st[i] # "no" /\ own[i] = p

\* FreeReserveMsgIds gives back msgids whose queue is in the maps of the process.
RealOnes(p) == cl[p].real \subseteq cl[p].recv /\ (cl[p].on = "notify" => cl[p].real = {})

PoolInv ==
  /\ PoolTypes
  /\ \A i \in Id : Exact(i)
  /\ \A p \in Proc : RealOnes(p)

LEMMA InvExact == PoolInv => PoolExact
<1> SUFFICES ASSUME PoolInv, NEW i \in Id
             PROVE  /\ IsInjective(free)
                    /\ IF st[i] = "no" THEN i \in ToSet(free) /\ own[i] = "nobody"
                       ELSE /\ i \notin ToSet(free)
                            /\ {p \in Proc : cl[p].on # "notify" /\ i \in cl[p].recv} = {own[i]}
  BY DEF PoolExact, PoolInv, PoolTypes
<1>1. Exact(i) /\ IsInjective(free)
  BY DEF PoolInv, PoolTypes
<1> QED BY <1>1 DEF Exact, Has

\* A process takes the next k msgids.
LEMMA TakesFromPool ==
  ASSUME PoolInv, NEW p \in Proc, NEW k \in Nat, AssignMsg(p, k),
         NEW c \in ClientType, cl' = [cl EXCEPT ![p] = c],
         cl[p].on # "notify", c.on # "notify", c.recv = cl[p].recv \cup NextIds(k)
  PROVE  /\ free' \in Seq(Id) /\ IsInjective(free')
         /\ st' \in [Id -> {"no", "assigned", "activated"}]
         /\ own' \in [Id -> Proc \cup {"nobody"}]
         /\ cl' \in [Proc -> ClientType]
         /\ \A i \in Id : Exact(i)'
<1>1. free \in Seq(Id) /\ IsInjective(free) /\ k <= Len(free) /\ free' = SubSeq(free, k + 1, Len(free))
  BY DEF PoolInv, PoolTypes, AssignMsg
<1>2. /\ free' \in Seq(Id) /\ IsInjective(free')
      /\ ToSet(free') = ToSet(free) \ NextIds(k)
      /\ NextIds(k) \subseteq ToSet(free) /\ NextIds(k) \subseteq Id
  BY <1>1, Remaining
<1>3. /\ st' = [i \in Id |-> IF i \in NextIds(k) THEN "assigned" ELSE st[i]]
      /\ own' = [i \in Id |-> IF i \in NextIds(k) THEN p ELSE own[i]]
  BY DEF AssignMsg
<1>4. /\ st' \in [Id -> {"no", "assigned", "activated"}] /\ own' \in [Id -> Proc \cup {"nobody"}]
      /\ cl' \in [Proc -> ClientType]
  BY <1>3 DEF PoolInv, PoolTypes
<1>5. cl'[p] = c /\ \A r \in Proc \ {p} : cl'[r] = cl[r]
  BY DEF PoolInv, PoolTypes
<1>6. ASSUME NEW i \in Id PROVE Exact(i)'
  <2>1. Exact(i)
    BY DEF PoolInv
  <2>2. Has(p, i)' <=> Has(p, i) \/ i \in NextIds(k)
    BY <1>5 DEF Has
  <2>3. \A r \in Proc \ {p} : Has(r, i)' <=> Has(r, i)
    BY <1>5 DEF Has
  <2>4. CASE i \in NextIds(k)
    <3>1. st[i] = "no" /\ i \notin ToSet(free') /\ st'[i] = "assigned" /\ own'[i] = p
      BY <1>2, <1>3, <2>1, <2>4 DEF Exact
    <3> QED BY <2>1, <2>2, <2>3, <2>4, <3>1 DEF Exact
  <2>5. CASE i \notin NextIds(k)
    <3>1. st'[i] = st[i] /\ own'[i] = own[i] /\ (i \in ToSet(free') <=> i \in ToSet(free))
      BY <1>2, <1>3, <2>5
    <3> QED BY <2>1, <2>2, <2>3, <2>5, <3>1 DEF Exact
  <2> QED BY <2>4, <2>5
<1> QED BY <1>2, <1>4, <1>6

\* A process gives back the msgids of S.
LEMMA GivesBack ==
  ASSUME PoolInv, NEW p \in Proc, NEW S \in SUBSET Id, \A i \in S : Has(p, i),
         free' = Descending(S) \o free,
         st' \in [Id -> {"no", "assigned", "activated"}],
         \A i \in Id : st'[i] = "no" <=> st[i] = "no" \/ i \in S,
         own' = [i \in Id |-> IF i \in S THEN "nobody" ELSE own[i]],
         NEW c \in ClientType, cl' = [cl EXCEPT ![p] = c],
         \A i \in Id : (c.on # "notify" /\ i \in c.recv) <=> Has(p, i) /\ i \notin S
  PROVE  /\ free' \in Seq(Id) /\ IsInjective(free')
         /\ own' \in [Id -> Proc \cup {"nobody"}]
         /\ cl' \in [Proc -> ClientType]
         /\ \A i \in Id : Exact(i)'
<1>1. S \cap ToSet(free) = {}
  BY DEF PoolInv, Exact
<1>2. free' \in Seq(Id) /\ IsInjective(free') /\ ToSet(free') = S \cup ToSet(free)
  BY <1>1, Prepended, IdsAre DEF PoolInv, PoolTypes
<1>3. own' \in [Id -> Proc \cup {"nobody"}] /\ cl' \in [Proc -> ClientType]
  BY DEF PoolInv, PoolTypes
<1>4. cl'[p] = c /\ \A r \in Proc \ {p} : cl'[r] = cl[r]
  BY DEF PoolInv, PoolTypes
<1>5. ASSUME NEW i \in Id PROVE Exact(i)'
  <2>1. Exact(i)
    BY DEF PoolInv
  <2>2. Has(p, i)' <=> Has(p, i) /\ i \notin S
    BY <1>4 DEF Has
  <2>3. \A r \in Proc \ {p} : Has(r, i)' <=> Has(r, i)
    BY <1>4 DEF Has
  <2>4. st'[i] = "no" <=> st[i] = "no" \/ i \in S
    OBVIOUS
  <2>5. CASE i \in S
    <3>1. own[i] = p /\ st[i] # "no" /\ own'[i] = "nobody" /\ i \in ToSet(free')
      BY <1>2, <2>1, <2>5 DEF Exact
    <3> QED BY <2>1, <2>2, <2>3, <2>4, <2>5, <3>1 DEF Exact
  <2>6. CASE i \notin S
    <3>1. own'[i] = own[i] /\ (i \in ToSet(free') <=> i \in ToSet(free))
      BY <1>2, <2>6
    <3> QED BY <2>1, <2>2, <2>3, <2>4, <2>6, <3>1 DEF Exact
  <2> QED BY <2>5, <2>6
<1> QED BY <1>2, <1>3, <1>5

\* Nothing is taken or given back.
LEMMA SamePool ==
  ASSUME PoolInv, UNCHANGED <<free, own>>,
         st' \in [Id -> {"no", "assigned", "activated"}],
         \A i \in Id : st'[i] = "no" <=> st[i] = "no",
         \A p \in Proc, i \in Id : Has(p, i)' <=> Has(p, i)
  PROVE  \A i \in Id : Exact(i)'
BY DEF PoolInv, Exact

\* Go and the other ways a thread moves.
LEMMA MovedTypes ==
  ASSUME ThreadTypes, NEW t \in Thread, NEW r \in ThreadType, r.pc \in UsesId => r.id \in Id,
         th' = [th EXCEPT ![t] = r]
  PROVE  ThreadTypes'
BY DEF ThreadTypes

LEMMA GoTypes ==
  ASSUME ThreadTypes, NEW t \in Thread, NEW i \in Id \cup {NoId},
         NEW pc \in {"idle", "activate", "erase", "open", "wait", "close", "notify", "joined"},
         pc \in UsesId => i \in Id, Go(t, pc, i)
  PROVE  ThreadTypes'
<1>1. PICK r : r = [th[t] EXCEPT !.pc = pc, !.id = i]
  OBVIOUS
<1>2. th' = [th EXCEPT ![t] = r]
  BY <1>1 DEF Go
<1>3. r \in ThreadType /\ r.pc = pc /\ r.id = i
  BY <1>1 DEF ThreadTypes, ThreadType
<1> QED BY <1>2, <1>3, MovedTypes

LEMMA AssignedIs ==
  ASSUME free \in Seq(Id)
  PROVE  Assigned \in Nat /\ Assigned <= Len(free)
<1>1. PICK n : n = Len(free)
  OBVIOUS
<1>2. n \in Nat /\ PerAttach \in Nat
  BY <1>1, MsgBoxAssumption
<1>3. \E x \in {PerAttach, n} : \A y \in {PerAttach, n} : x <= y
  BY <1>2
<1>4. Assigned \in {PerAttach, n} /\ Assigned <= n
  BY <1>1, <1>3 DEF Assigned, Min
<1> QED BY <1>1, <1>2, <1>4

LEMMA InitPool == Init => PoolInv
<1> SUFFICES ASSUME Init PROVE PoolInv
  OBVIOUS
<1>1. /\ free = [i \in Id |-> i] /\ st = [i \in Id |-> "no"] /\ own = [i \in Id |-> "nobody"]
      /\ cl = [p \in Proc |-> Detached] /\ th = [t \in Thread |-> Idle]
  BY DEF Init
<1>2. Detached \in ClientType /\ Idle \in ThreadType /\ Idle.pc \notin UsesId
  BY DEF Detached, Idle, ClientType, ThreadType, UsesId, NoId
<1>3. free \in Seq(Id) /\ IsInjective(free) /\ ToSet(free) = Id
  BY <1>1, MsgBoxAssumption DEF Id, IsInjective, ToSet
<1>4. PoolTypes
  BY <1>1, <1>2, <1>3 DEF PoolTypes, ThreadTypes
<1>5. \A i \in Id : Exact(i)
  BY <1>1, <1>3 DEF Exact, Has, Detached
<1>6. \A p \in Proc : RealOnes(p)
  BY <1>1 DEF RealOnes, Detached
<1> QED BY <1>4, <1>5, <1>6 DEF PoolInv

LEMMA InitializeStep == ASSUME PoolInv, NEW p \in Proc, Initialize(p) PROVE PoolInv'
<1>1. PICK c : c = [Attached(cl[p], NextIds(PerAttach)) EXCEPT !.on = "join"]
  OBVIOUS
<1>2. /\ AssignMsg(p, PerAttach) /\ cl' = [cl EXCEPT ![p] = c] /\ cl[p].on = "off"
      /\ th' = th /\ PerAttach \in Nat
  BY <1>1, MsgBoxAssumption DEF Initialize
<1>3. NextIds(PerAttach) \subseteq Id
  BY <1>2, Remaining DEF PoolInv, PoolTypes, AssignMsg
<1>4. /\ c \in ClientType /\ c.on = "join" /\ c.recv = cl[p].recv \cup NextIds(PerAttach)
      /\ c.real = cl[p].real \cup NextIds(PerAttach)
  BY <1>1, <1>3 DEF PoolInv, PoolTypes, ClientType, Attached
<1>5. /\ free' \in Seq(Id) /\ IsInjective(free')
      /\ st' \in [Id -> {"no", "assigned", "activated"}]
      /\ own' \in [Id -> Proc \cup {"nobody"}]
      /\ cl' \in [Proc -> ClientType]
      /\ \A i \in Id : Exact(i)'
  BY <1>2, <1>4, TakesFromPool
<1>6. \A r \in Proc : RealOnes(r)'
  <2>1. cl'[p] = c /\ \A r \in Proc \ {p} : cl'[r] = cl[r]
    BY <1>2 DEF PoolInv, PoolTypes
  <2> QED BY <1>4, <2>1 DEF PoolInv, RealOnes
<1>7. ThreadTypes'
  BY <1>2 DEF PoolInv, PoolTypes, ThreadTypes
<1> QED BY <1>5, <1>6, <1>7 DEF PoolInv, PoolTypes

LEMMA PickNewStep == ASSUME PoolInv, NEW t \in Thread, PickNew(t) PROVE PoolInv'
<1>1. PICK p, k, c : p = ProcOf(t) /\ k = Assigned /\ c = Attached(cl[p], NextIds(k))
  OBVIOUS
<1>2. /\ AssignMsg(p, k) /\ cl' = [cl EXCEPT ![p] = c] /\ cl[p].on \in {"on", "join"}
      /\ p \in Proc /\ k \in Nat
  BY <1>1, AssignedIs DEF PickNew, MayRun, ProcOf, Thread, PoolInv, PoolTypes
<1>3. NextIds(k) \subseteq Id
  BY <1>2, Remaining DEF PoolInv, PoolTypes, AssignMsg
<1>4. /\ c \in ClientType /\ c.on = cl[p].on /\ c.recv = cl[p].recv \cup NextIds(k)
      /\ c.real = cl[p].real \cup NextIds(k)
  <2>1. cl[p] \in ClientType
    BY <1>2 DEF PoolInv, PoolTypes
  <2> QED BY <1>1, <1>3, <2>1 DEF ClientType, Attached
<1>5. /\ free' \in Seq(Id) /\ IsInjective(free')
      /\ st' \in [Id -> {"no", "assigned", "activated"}]
      /\ own' \in [Id -> Proc \cup {"nobody"}]
      /\ cl' \in [Proc -> ClientType]
      /\ \A i \in Id : Exact(i)'
  BY <1>2, <1>4, TakesFromPool
<1>6. \A r \in Proc : RealOnes(r)'
  <2>1. cl'[p] = c /\ \A r \in Proc \ {p} : cl'[r] = cl[r]
    BY <1>2 DEF PoolInv, PoolTypes
  <2> QED BY <1>2, <1>4, <2>1 DEF PoolInv, RealOnes
<1>7. ThreadTypes'
  <2>1. CASE SetEventQueueOK
    <3>1. free[1] \in NextIds(k)
      BY <1>1, <1>2, <2>1, MsgBoxAssumption DEF SetEventQueueOK, NextIds
    <3>2. Min(NextIds(k)) \in Id
      BY <1>3, <3>1, MinOf
    <3>3. Go(t, "activate", Min(NextIds(k)))
      BY <1>1, <2>1 DEF PickNew
    <3> QED BY <3>2, <3>3, GoTypes DEF PoolInv, PoolTypes
  <2>2. CASE ~SetEventQueueOK
    <3>1. Go(t, IF cl[p].on = "join" THEN "joined" ELSE "idle", NoId)
      BY <1>1, <2>2 DEF PickNew
    <3> QED BY <3>1, GoTypes DEF PoolInv, PoolTypes, UsesId
  <2> QED BY <2>1, <2>2
<1> QED BY <1>5, <1>6, <1>7 DEF PoolInv, PoolTypes

\* Steps of a thread that leave the pool alone.
LEMMA CallSteps ==
  ASSUME PoolInv, NEW t \in Thread,
         \/ PickReserved(t) \/ ActivateMsg(t) \/ EraseReserve(t) \/ ReceiveTimeout(t)
         \/ PxCltSendCloseNotify(t)
         \/ \E b \in Box : PxCltSendJoinNotify(t, b) \/ Send(t, b)
  PROVE  PoolInv'
<1>1. ProcOf(t) \in Proc /\ ThreadTypes /\ th[t] \in ThreadType /\ cl[ProcOf(t)] \in ClientType
  BY DEF PoolInv, PoolTypes, ThreadTypes, ProcOf, Thread
<1>2. ThreadTypes'
  <2>1. CASE PickReserved(t)
    <3>1. Min(cl[ProcOf(t)].resv) \in Id
      BY <1>1, <2>1, MinOf DEF PickReserved, ClientType
    <3> QED BY <1>1, <2>1, <3>1, GoTypes DEF PickReserved
  <2>2. CASE ActivateMsg(t)
    <3>1. th[t].id \in Id
      BY <1>1, <2>2 DEF ActivateMsg, ThreadTypes, UsesId
    <3>2. CASE st[th[t].id] # "no"
      BY <1>1, <2>2, <3>1, <3>2, GoTypes DEF ActivateMsg
    <3>3. CASE st[th[t].id] = "no"
      <4>1. Go(t, IF cl[ProcOf(t)].on = "join" THEN "joined" ELSE "idle", NoId)
        BY <2>2, <3>3 DEF ActivateMsg
      <4> QED BY <1>1, <4>1, GoTypes DEF UsesId
    <3> QED BY <3>2, <3>3
  <2>3. CASE EraseReserve(t)
    BY <1>1, <2>3, GoTypes DEF EraseReserve, ThreadTypes, UsesId
  <2>4. CASE ReceiveTimeout(t)
    BY <1>1, <2>4, GoTypes DEF ReceiveTimeout, ThreadTypes, UsesId
  <2>5. CASE PxCltSendCloseNotify(t)
    BY <1>1, <2>5 DEF PxCltSendCloseNotify, ThreadTypes, ThreadType, UsesId, AfterClose
  <2>6. ASSUME NEW b \in Box, PxCltSendJoinNotify(t, b) PROVE ThreadTypes'
    BY <1>1, <2>6, GoTypes DEF PxCltSendJoinNotify, ThreadTypes, UsesId
  <2>7. ASSUME NEW b \in Box, Send(t, b) PROVE ThreadTypes'
    BY <1>1, <2>7 DEF Send, ThreadTypes, ThreadType, UsesId
  <2> QED BY <2>1, <2>2, <2>3, <2>4, <2>5, <2>6, <2>7
<1>3. /\ UNCHANGED <<free, own>> /\ st' \in [Id -> {"no", "assigned", "activated"}]
      /\ \A i \in Id : st'[i] = "no" <=> st[i] = "no"
  BY DEF shm, PickReserved, ActivateMsg, EraseReserve, ReceiveTimeout, PxCltSendCloseNotify,
         PxCltSendJoinNotify, Send, PoolInv, PoolTypes
<1>4. /\ cl' \in [Proc -> ClientType]
      /\ \A p \in Proc : /\ cl'[p].recv = cl[p].recv /\ cl'[p].on = cl[p].on
                         /\ cl'[p].real \subseteq cl[p].real
  <2>1. CASE EraseReserve(t)
    BY <1>1, <2>1 DEF EraseReserve, PoolInv, PoolTypes, ClientType
  <2>2. CASE \E b \in Box : PxCltSendJoinNotify(t, b) \/ Send(t, b)
    <3>1. PICK b \in Box : cl' = [cl EXCEPT ![ProcOf(t)].dest = @ \cup {b}]
      BY <2>2 DEF PxCltSendJoinNotify, Send, SendTo
    <3> QED BY <1>1, <3>1 DEF PoolInv, PoolTypes, ClientType
  <2>3. CASE cl' = cl
    BY <2>3 DEF PoolInv, PoolTypes
  <2> QED BY <2>1, <2>2, <2>3 DEF PickReserved, ActivateMsg, ReceiveTimeout, PxCltSendCloseNotify
<1>5. \A i \in Id : Exact(i)'
  <2>1. \A p \in Proc, i \in Id : Has(p, i)' <=> Has(p, i)
    BY <1>4 DEF Has
  <2> QED BY <1>3, <2>1, SamePool
<1>6. \A p \in Proc : RealOnes(p)'
  BY <1>4 DEF PoolInv, RealOnes
<1> QED BY <1>2, <1>3, <1>4, <1>5, <1>6 DEF PoolInv, PoolTypes

\* Close gives back only what the maps of the process hold.
LEMMA CloseStep == ASSUME PoolInv, NEW t \in Thread, Close(t) PROVE PoolInv'
<1>1. PICK p, i, c : p = ProcOf(t) /\ i = th[t].id /\ c = Reserve(cl[p], i)
  OBVIOUS
<1>2. /\ p \in Proc /\ i \in Id /\ ThreadTypes /\ th[t] \in ThreadType /\ cl[p] \in ClientType
      /\ c \in ClientType /\ c.recv = cl[p].recv /\ c.on = cl[p].on /\ c.real = cl[p].real \ {i}
  <2>1. p \in Proc /\ ThreadTypes
    BY <1>1 DEF PoolInv, PoolTypes, ProcOf, Thread
  <2>2. th[t] \in ThreadType /\ cl[p] \in ClientType
    BY <2>1 DEF PoolInv, PoolTypes, ThreadTypes
  <2>3. i \in Id
    BY <1>1, <2>1 DEF Close, ThreadTypes, UsesId
  <2> QED BY <1>1, <2>1, <2>2, <2>3 DEF Reserve, FoundFd, ClientType
<1>3. CASE st[i] = "no"
  <2>1. Go(t, AfterClose(p), NoId) /\ UNCHANGED <<free, st, own, cl>>
    BY <1>1, <1>3 DEF Close, shm
  <2>2. ThreadTypes'
    BY <1>2, <2>1, GoTypes DEF AfterClose, UsesId
  <2> QED BY <2>1, <2>2 DEF PoolInv, PoolTypes, Exact, Has, RealOnes
<1>4. CASE st[i] # "no"
  <2>1. PICK S, d : S = Freed(c) /\ d = FreeReserveMsgIds(c)
    OBVIOUS
  <2>2. /\ cl' = [cl EXCEPT ![p] = d]
        /\ free' = Descending(S) \o free
        /\ st' = [j \in Id |-> IF j \in S THEN "no" ELSE IF j = i THEN "assigned" ELSE st[j]]
        /\ own' = [j \in Id |-> IF j \in S THEN "nobody" ELSE own[j]]
        /\ th' = [th EXCEPT ![t].pc = "notify", ![t].note = Closed(c)]
    BY <1>1, <1>4, <2>1 DEF Close
  <2>3. S \subseteq c.real /\ S \subseteq Closed(c) /\ Closed(c) \subseteq c.resv
    BY <2>1 DEF Freed, Closed
  <2>4. S \in SUBSET Id /\ Closed(c) \subseteq Id /\ c.real \subseteq Id
    BY <1>2, <2>3 DEF ClientType
  <2>5. /\ d \in ClientType /\ d.on = cl[p].on /\ d.recv = cl[p].recv \ S
        /\ d.real \subseteq c.real \ S
    BY <1>2, <2>1, <2>3 DEF FreeReserveMsgIds, ClientType
  <2>6. \A j \in S : Has(p, j)
    BY <1>2, <2>3 DEF PoolInv, RealOnes, Has
  <2>7. /\ st' \in [Id -> {"no", "assigned", "activated"}]
        /\ \A j \in Id : st'[j] = "no" <=> st[j] = "no" \/ j \in S
    BY <1>4, <2>2 DEF PoolInv, PoolTypes
  <2>8. /\ free' \in Seq(Id) /\ IsInjective(free')
        /\ own' \in [Id -> Proc \cup {"nobody"}]
        /\ cl' \in [Proc -> ClientType]
        /\ \A j \in Id : Exact(j)'
    <3>1. \A j \in Id : (d.on # "notify" /\ j \in d.recv) <=> Has(p, j) /\ j \notin S
      BY <2>5 DEF Has
    <3> QED BY <1>2, <2>2, <2>4, <2>5, <2>6, <2>7, <3>1, GivesBack
  <2>9. \A r \in Proc : RealOnes(r)'
    <3>1. cl'[p] = d /\ \A r \in Proc \ {p} : cl'[r] = cl[r]
      BY <1>2, <2>2 DEF PoolInv, PoolTypes
    <3>2. RealOnes(p)'
      BY <1>2, <2>5, <3>1 DEF PoolInv, RealOnes
    <3> QED BY <3>1, <3>2 DEF PoolInv, RealOnes
  <2>10. ThreadTypes'
    BY <1>2, <2>2, <2>4 DEF ThreadTypes, ThreadType, UsesId
  <2> QED BY <2>7, <2>8, <2>9, <2>10 DEF PoolInv, PoolTypes
<1> QED BY <1>3, <1>4

\* Clean gives back everything.
LEMMA CleanStep == ASSUME PoolInv, NEW p \in Proc, Clean(p) PROVE PoolInv'
<1>1. PICK S, d : /\ S = cl[p].recv
                  /\ d = [Detached EXCEPT !.on = "notify", !.recv = cl[p].recv, !.dest = cl[p].dest]
  OBVIOUS
<1>2. cl[p] \in ClientType /\ cl[p].on = "on" /\ ThreadTypes
  BY DEF Clean, PoolInv, PoolTypes
<1>3. d \in ClientType /\ d.on = "notify" /\ d.real = {} /\ S \in SUBSET Id
  BY <1>1, <1>2 DEF Detached, ClientType
<1>4. /\ cl' = [cl EXCEPT ![p] = d] /\ free' = Descending(S) \o free
      /\ st' = [i \in Id |-> IF i \in S THEN "no" ELSE st[i]]
      /\ own' = [i \in Id |-> IF i \in S THEN "nobody" ELSE own[i]]
      /\ th' = [t \in Thread |-> IF ProcOf(t) = p THEN Idle ELSE th[t]]
  BY <1>1 DEF Clean, FreeMsgIds, FreeMsg
<1>5. /\ st' \in [Id -> {"no", "assigned", "activated"}]
      /\ \A i \in Id : st'[i] = "no" <=> st[i] = "no" \/ i \in S
  BY <1>4 DEF PoolInv, PoolTypes
<1>6. /\ free' \in Seq(Id) /\ IsInjective(free')
      /\ own' \in [Id -> Proc \cup {"nobody"}]
      /\ cl' \in [Proc -> ClientType]
      /\ \A i \in Id : Exact(i)'
  <2>1. \A i \in S : Has(p, i)
    BY <1>1, <1>2 DEF Has
  <2>2. \A i \in Id : (d.on # "notify" /\ i \in d.recv) <=> Has(p, i) /\ i \notin S
    BY <1>1, <1>3 DEF Has
  <2> QED BY <1>3, <1>4, <1>5, <2>1, <2>2, GivesBack
<1>7. \A r \in Proc : RealOnes(r)'
  <2>1. cl'[p] = d /\ \A r \in Proc \ {p} : cl'[r] = cl[r]
    BY <1>4 DEF PoolInv, PoolTypes
  <2> QED BY <1>3, <2>1 DEF PoolInv, RealOnes
<1>8. ThreadTypes'
  <2>1. Idle \in ThreadType /\ Idle.pc \notin UsesId
    BY DEF Idle, ThreadType, UsesId, NoId
  <2> QED BY <1>2, <1>4, <2>1 DEF ThreadTypes
<1> QED BY <1>5, <1>6, <1>7, <1>8 DEF PoolInv, PoolTypes

\* The other steps of a process.
LEMMA ProcSteps ==
  ASSUME PoolInv, NEW p \in Proc, JoinDone(p) \/ CleanNotify(p)
  PROVE  PoolInv'
<1>1. cl[p] \in ClientType /\ Detached \in ClientType /\ ThreadTypes
  BY DEF PoolInv, PoolTypes, Detached, ClientType
<1>2. /\ UNCHANGED <<free, own, st>> /\ cl' \in [Proc -> ClientType]
      /\ \A r \in Proc \ {p} : cl'[r] = cl[r]
  <2>1. cl \in [Proc -> ClientType] /\ UNCHANGED <<free, own, st>>
    BY DEF JoinDone, CleanNotify, shm, PoolInv, PoolTypes
  <2>2. CASE JoinDone(p)
    BY <1>1, <2>1, <2>2 DEF JoinDone, ClientType
  <2>3. CASE CleanNotify(p)
    BY <1>1, <2>1, <2>3 DEF CleanNotify
  <2> QED BY <2>1, <2>2, <2>3
<1>3. \A i \in Id : Has(p, i)' <=> Has(p, i)
  <2>1. CASE JoinDone(p)
    <3>1. cl'[p].recv = cl[p].recv /\ cl'[p].on = "on" /\ cl[p].on = "join"
      BY <1>1, <2>1 DEF JoinDone, PoolInv, PoolTypes, ClientType
    <3> QED BY <3>1 DEF Has
  <2>2. CASE CleanNotify(p)
    <3>1. cl'[p].recv = {} /\ cl[p].on = "notify"
      BY <2>2 DEF CleanNotify, PoolInv, PoolTypes, Detached
    <3> QED BY <3>1 DEF Has
  <2> QED BY <2>1, <2>2
<1>4. RealOnes(p)'
  <2>1. CASE JoinDone(p)
    <3>1. cl'[p].recv = cl[p].recv /\ cl'[p].real = cl[p].real /\ cl'[p].on = "on"
      BY <1>1, <2>1 DEF JoinDone, PoolInv, PoolTypes, ClientType
    <3> QED BY <3>1 DEF PoolInv, RealOnes
  <2>2. CASE CleanNotify(p)
    <3>1. cl'[p].recv = {} /\ cl'[p].real = {}
      BY <2>2 DEF CleanNotify, PoolInv, PoolTypes, Detached
    <3> QED BY <3>1 DEF RealOnes
  <2> QED BY <2>1, <2>2
<1>5. ThreadTypes'
  <2>1. CASE JoinDone(p)
    <3>1. Idle \in ThreadType /\ Idle.pc \notin UsesId
      BY DEF Idle, ThreadType, UsesId, NoId
    <3> QED BY <1>1, <2>1, <3>1 DEF JoinDone, ThreadTypes
  <2>2. CASE CleanNotify(p)
    BY <1>1, <2>2 DEF CleanNotify, ThreadTypes
  <2> QED BY <2>1, <2>2
<1>6. \A i \in Id : Exact(i)'
  <2>1. \A r \in Proc, i \in Id : Has(r, i)' <=> Has(r, i)
    BY <1>2, <1>3 DEF Has
  <2>2. /\ st' \in [Id -> {"no", "assigned", "activated"}]
        /\ \A i \in Id : st'[i] = "no" <=> st[i] = "no"
    BY <1>2 DEF PoolInv, PoolTypes
  <2> QED BY <1>2, <2>1, <2>2, SamePool
<1> QED BY <1>2, <1>4, <1>5, <1>6 DEF PoolInv, PoolTypes, RealOnes

\* The chmpx process has no hand in the pool.
LEMMA BoxSteps ==
  ASSUME PoolInv, UNCHANGED <<free, st, own, cl>>,
         \/ UNCHANGED th
         \/ \E b \in Box : ReplySend(b)
  PROVE  PoolInv'
<1>1. ThreadTypes
  BY DEF PoolInv, PoolTypes
<1>2. ThreadTypes'
  <2>1. CASE UNCHANGED th
    BY <1>1, <2>1 DEF ThreadTypes
  <2>2. ASSUME NEW b \in Box, ReplySend(b) PROVE ThreadTypes'
    <3>1. \A t \in Thread :
            th[t] \in ThreadType /\ (th[t].pc \in UsesId => th[t].id \in Id)
      BY <1>1 DEF ThreadTypes
    <3>2. th' = [t \in Thread |-> th'[t]]
      BY <2>2 DEF ReplySend
    <3>3. ASSUME NEW t \in Thread
          PROVE  th'[t] \in ThreadType /\ (th'[t].pc \in UsesId => th'[t].id \in Id)
      <4>1. CASE th'[t] = th[t]
        BY <3>1, <4>1
      <4>2. CASE th[t].pc = "wait" /\ th'[t] = [th[t] EXCEPT !.pc = "open"]
        BY <3>1, <4>2 DEF ThreadType, UsesId
      <4> QED BY <2>2, <4>1, <4>2 DEF ReplySend, Gets
    <3> QED BY <3>2, <3>3 DEF ThreadTypes
  <2> QED BY <2>1, <2>2
<1> QED BY <1>2 DEF PoolInv, PoolTypes, Exact, Has, RealOnes

LEMMA PoolStep == PoolInv /\ [Next]_vars => PoolInv'
<1> SUFFICES ASSUME PoolInv, [Next]_vars PROVE PoolInv'
  OBVIOUS
<1>1. CASE UNCHANGED vars
  BY <1>1, BoxSteps DEF vars
<1>2. ASSUME NEW p \in Proc, Initialize(p) \/ JoinDone(p) \/ Clean(p) \/ CleanNotify(p)
      PROVE  PoolInv'
  BY <1>2, InitializeStep, CleanStep, ProcSteps
<1>3. ASSUME NEW t \in Thread, ThreadStep(t) PROVE PoolInv'
  BY <1>3, PickNewStep, CallSteps, CloseStep DEF ThreadStep
<1>4. ASSUME NEW b \in Box, \/ PxCltReceiveCloseNotify(b) \/ PxCltReceiveJoinNotify(b)
                            \/ ReplyOpen(b) \/ ReplySend(b)
      PROVE  PoolInv'
  BY <1>4, BoxSteps DEF PxCltReceiveCloseNotify, PxCltReceiveJoinNotify, ReplyOpen, ReplySend, shm
<1> QED BY <1>1, <1>2, <1>3, <1>4 DEF Next

\* No msgid is lost or doubled, whatever the threads of the client processes do to one
\* another: closing a msgid that is no longer their own included.
THEOREM PoolIsExact == Spec => []PoolExact
<1>1. Init => PoolInv
  BY InitPool
<1>2. PoolInv /\ [Next]_vars => PoolInv'
  BY PoolStep
<1> QED BY <1>1, <1>2, InvExact, PTL DEF Spec

-----------------------------------------------------------------------------
(* Processes with one thread.                                              *)

\* What process p knows of the msgid its thread works with.
Only(p) == <<p, 1>>
OwnCall(p) ==
  /\ cl[p].resv \subseteq cl[p].recv
  /\ cl[p].on \in {"off", "notify"} => th[Only(p)].pc = "idle"
  /\ th[Only(p)].pc \in {"activate", "erase"} => th[Only(p)].id \in cl[p].resv
  /\ th[Only(p)].pc = "erase" => st[th[Only(p)].id] = "activated"
  /\ Held(Only(p)) => /\ st[th[Only(p)].id] = "activated"
                      /\ th[Only(p)].id \in cl[p].recv \ cl[p].resv

OwnInv == PoolInv /\ \A p \in Proc : OwnCall(p)

LEMMA OneThread ==
  ASSUME ThreadsPer = 1
  PROVE  /\ \A p \in Proc : Only(p) \in Thread /\ ProcOf(Only(p)) = p
         /\ \A t \in Thread : ProcOf(t) \in Proc /\ t = Only(ProcOf(t))
BY DEF Thread, Only, ProcOf

LEMMA InvOwned ==
  ASSUME ThreadsPer = 1, OwnInv
  PROVE  OpenIsOwned
<1>1. ASSUME NEW p \in Proc, Held(Only(p))
      PROVE  /\ th[Only(p)].id \in Id /\ own[th[Only(p)].id] = p
             /\ st[th[Only(p)].id] = "activated"
             /\ th[Only(p)].id \in cl[p].recv \ cl[p].resv
  <2>1. OwnCall(p) /\ PoolInv /\ Only(p) \in Thread
    BY OneThread DEF OwnInv
  <2>2. th[Only(p)].id \in Id
    BY <1>1, <2>1 DEF PoolInv, PoolTypes, ThreadTypes, UsesId, Held
  <2>3. cl[p].on # "notify"
    BY <1>1, <2>1 DEF OwnCall, Held
  <2>4. Has(p, th[Only(p)].id)
    BY <1>1, <2>1, <2>3 DEF OwnCall, Has
  <2> QED BY <1>1, <2>1, <2>2, <2>4 DEF OwnCall, PoolInv, Exact
<1>2. ASSUME NEW t \in Thread, Held(t)
      PROVE  /\ own[th[t].id] = ProcOf(t) /\ st[th[t].id] = "activated"
             /\ th[t].id \in cl[ProcOf(t)].recv \ cl[ProcOf(t)].resv
  BY <1>1, <1>2, OneThread
<1>3. ASSUME NEW t \in Thread, NEW u \in Thread \ {t}, Held(t), Held(u), th[u].id = th[t].id
      PROVE  FALSE
  <2>1. ProcOf(t) = ProcOf(u)
    BY <1>2, <1>3
  <2> QED BY <2>1, OneThread
<1> QED BY <1>2, <1>3 DEF OpenIsOwned

\* A process whose thread, maps and msgids are left alone; the chmpx process may have
\* answered it.
LEMMA CallKept ==
  ASSUME ThreadsPer = 1, NEW p \in Proc, OwnCall(p), PoolInv,
         cl'[p] = cl[p], \A i \in Id : Has(p, i) => st'[i] = st[i],
         \/ th'[Only(p)] = th[Only(p)]
         \/ th[Only(p)].pc = "wait" /\ th'[Only(p)] = [th[Only(p)] EXCEPT !.pc = "open"]
  PROVE  OwnCall(p)'
<1>1. Only(p) \in Thread /\ th[Only(p)] \in ThreadType /\ cl[p] \in ClientType
  BY OneThread DEF PoolInv, PoolTypes, ThreadTypes
<1>2. th[Only(p)].pc = "erase" \/ Held(Only(p)) =>
        /\ Has(p, th[Only(p)].id) /\ th[Only(p)].id \in Id
  BY <1>1 DEF OwnCall, Has, Held, PoolInv, PoolTypes, ThreadTypes, UsesId
<1>3. CASE th'[Only(p)] = th[Only(p)]
  BY <1>2, <1>3 DEF OwnCall, Held
<1>4. CASE th[Only(p)].pc = "wait" /\ th'[Only(p)] = [th[Only(p)] EXCEPT !.pc = "open"]
  <2>1. th'[Only(p)].pc = "open" /\ th'[Only(p)].id = th[Only(p)].id /\ Held(Only(p))
    BY <1>1, <1>4 DEF ThreadType, Held
  <2> QED BY <1>2, <2>1 DEF OwnCall, Held
<1> QED BY <1>3, <1>4

\* What one process does does not concern the others.
Alone(p) ==
  \A r \in Proc \ {p} : /\ cl'[r] = cl[r] /\ th'[Only(r)] = th[Only(r)]
                        /\ \A i \in Id : Has(r, i) => st'[i] = st[i]

LEMMA OthersKept ==
  ASSUME ThreadsPer = 1, OwnInv, NEW p \in Proc, Alone(p), OwnCall(p)'
  PROVE  \A r \in Proc : OwnCall(r)'
BY CallKept DEF Alone, OwnInv

\* The msgids in the pool, and those of a process, are not those of another one.
LEMMA Apart ==
  ASSUME PoolInv, NEW p \in Proc, NEW i \in Id, i \in ToSet(free) \/ Has(p, i)
  PROVE  \A r \in Proc \ {p} : ~Has(r, i)
BY DEF PoolInv, Exact

\* Msgids are taken from the pool by process p.
LEMMA TakesAlone ==
  ASSUME PoolInv, NEW p \in Proc, NEW k \in Nat, AssignMsg(p, k)
  PROVE  \A r \in Proc, i \in Id : Has(r, i) => st'[i] = st[i]
<1>1. NextIds(k) \subseteq ToSet(free) /\ st' = [i \in Id |-> IF i \in NextIds(k) THEN "assigned" ELSE st[i]]
  BY Remaining DEF PoolInv, PoolTypes, AssignMsg
<1> QED BY <1>1 DEF PoolInv, Exact

LEMMA InitializeOwn ==
  ASSUME ThreadsPer = 1, OwnInv, NEW p \in Proc, Initialize(p)
  PROVE  \A r \in Proc : OwnCall(r)'
<1>1. /\ OwnCall(p) /\ cl[p] \in ClientType /\ p \in Proc /\ th' = th /\ cl[p].on = "off"
      /\ AssignMsg(p, PerAttach) /\ PerAttach \in Nat /\ PoolInv
  BY MsgBoxAssumption DEF OwnInv, PoolInv, PoolTypes, Initialize
<1>2. /\ cl'[p] = [Attached(cl[p], NextIds(PerAttach)) EXCEPT !.on = "join"]
      /\ \A r \in Proc \ {p} : cl'[r] = cl[r]
  BY <1>1 DEF Initialize, PoolInv, PoolTypes
<1>3. cl'[p].resv = cl[p].resv \cup NextIds(PerAttach) /\ cl'[p].recv = cl[p].recv \cup NextIds(PerAttach)
  BY <1>1, <1>2 DEF Attached, ClientType
<1>4. OwnCall(p)'
  BY <1>1, <1>3 DEF OwnCall, Held
<1>5. Alone(p)
  BY <1>1, <1>2, TakesAlone DEF Alone
<1> QED BY <1>4, <1>5, OthersKept

\* The thread of process p moves on, and nothing else of p changes.
LEMMA GoesOn ==
  ASSUME OwnInv, ThreadsPer = 1, NEW p \in Proc, NEW pc, NEW i, Go(Only(p), pc, i)
  PROVE  /\ th'[Only(p)].pc = pc /\ th'[Only(p)].id = i
         /\ \A r \in Proc \ {p} : th'[Only(r)] = th[Only(r)]
<1>1. th \in [Thread -> ThreadType] /\ Only(p) \in Thread
  BY OneThread DEF OwnInv, PoolInv, PoolTypes, ThreadTypes
<1>2. \A r \in Proc \ {p} : Only(r) # Only(p) /\ Only(r) \in Thread
  BY OneThread DEF Only
<1> QED BY <1>1, <1>2 DEF Go, ThreadType

LEMMA PickNewOwn ==
  ASSUME ThreadsPer = 1, OwnInv, NEW p \in Proc, PickNew(Only(p))
  PROVE  \A r \in Proc : OwnCall(r)'
<1>1. PICK k, c : k = Assigned /\ c = Attached(cl[p], NextIds(k))
  OBVIOUS
<1>2. ProcOf(Only(p)) = p /\ PoolInv /\ OwnCall(p) /\ cl[p] \in ClientType
  BY OneThread DEF OwnInv, PoolInv, PoolTypes
<1>3. /\ AssignMsg(p, k) /\ cl' = [cl EXCEPT ![p] = c] /\ cl[p].on \in {"on", "join"} /\ k \in Nat
  BY <1>1, <1>2, AssignedIs DEF PickNew, MayRun, PoolInv, PoolTypes
<1>4. NextIds(k) \subseteq Id
  BY <1>2, <1>3, Remaining DEF PoolInv, PoolTypes, AssignMsg
<1>5. /\ c.resv = cl[p].resv \cup NextIds(k) /\ c.recv = cl[p].recv \cup NextIds(k) /\ c.on = cl[p].on
  BY <1>1, <1>2 DEF Attached, ClientType
<1>6. cl'[p] = c /\ \A r \in Proc \ {p} : cl'[r] = cl[r]
  BY <1>3 DEF OwnInv, PoolInv, PoolTypes
<1>7. PICK pc, i : Go(Only(p), pc, i)
                   /\ (\/ pc = "activate" /\ i = Min(NextIds(k)) /\ SetEventQueueOK
                       \/ pc \in {"idle", "joined"})
  BY <1>1, <1>2 DEF PickNew
<1>8. /\ th'[Only(p)].pc = pc /\ th'[Only(p)].id = i
      /\ \A r \in Proc \ {p} : th'[Only(r)] = th[Only(r)]
  BY <1>7, GoesOn
<1>9. pc = "activate" => i \in NextIds(k)
  <2>1. SetEventQueueOK => free[1] \in NextIds(k)
    BY <1>1, <1>3, MsgBoxAssumption DEF SetEventQueueOK, NextIds
  <2> QED BY <1>4, <1>7, <2>1, MinOf
<1>10. OwnCall(p)'
  BY <1>2, <1>3, <1>5, <1>6, <1>7, <1>8, <1>9 DEF OwnCall, Held
<1>11. Alone(p)
  BY <1>2, <1>3, <1>6, <1>8, TakesAlone DEF Alone
<1> QED BY <1>10, <1>11, OthersKept

\* The steps of a call that leave the pool alone.
LEMMA CallOwn ==
  ASSUME ThreadsPer = 1, OwnInv, NEW p \in Proc,
         \/ PickReserved(Only(p)) \/ ActivateMsg(Only(p)) \/ EraseReserve(Only(p))
         \/ ReceiveTimeout(Only(p)) \/ PxCltSendCloseNotify(Only(p))
         \/ \E b \in Box : PxCltSendJoinNotify(Only(p), b) \/ Send(Only(p), b)
  PROVE  \A r \in Proc : OwnCall(r)'
<1>1. PICK t : t = Only(p)
  OBVIOUS
<1>2. /\ ProcOf(t) = p /\ PoolInv /\ OwnCall(p) /\ cl[p] \in ClientType /\ t \in Thread
      /\ th[t] \in ThreadType /\ th \in [Thread -> ThreadType] /\ st \in [Id -> {"no", "assigned", "activated"}]
      /\ cl \in [Proc -> ClientType]
  BY <1>1, OneThread DEF OwnInv, PoolInv, PoolTypes, ThreadTypes
<1>3. \A r \in Proc \ {p} : Only(r) # t /\ Only(r) \in Thread
  BY <1>1, OneThread DEF Only
<1>4. th[t].pc \in UsesId => th[t].id \in Id
  BY <1>2 DEF PoolInv, PoolTypes, ThreadTypes
<1>5. CASE PickReserved(t)
  <2>1. /\ Go(t, "activate", Min(cl[p].resv)) /\ cl[p].resv # {} /\ UNCHANGED <<cl, st>>
        /\ cl[p].on \in {"on", "join"}
    BY <1>2, <1>5 DEF PickReserved, shm, MayRun
  <2>2. Min(cl[p].resv) \in cl[p].resv
    BY <1>2, <2>1, MinOf DEF ClientType
  <2>3. /\ th'[t].pc = "activate" /\ th'[t].id = Min(cl[p].resv)
        /\ \A r \in Proc \ {p} : th'[Only(r)] = th[Only(r)]
    BY <1>1, <2>1, GoesOn
  <2>4. OwnCall(p)'
    BY <1>1, <1>2, <2>1, <2>2, <2>3 DEF OwnCall, Held
  <2> QED BY <2>1, <2>3, <2>4, OthersKept DEF Alone
<1>6. CASE ActivateMsg(t)
  <2>1. th[t].pc = "activate" /\ th[t].id \in Id /\ UNCHANGED cl
    BY <1>4, <1>6 DEF ActivateMsg, UsesId
  <2>2. Has(p, th[t].id) /\ cl[p].on \notin {"off", "notify"}
    BY <1>1, <1>2, <2>1 DEF OwnCall, Has
  <2>3. st[th[t].id] # "no"
    BY <1>2, <2>1, <2>2 DEF PoolInv, Exact
  <2>4. st' = [st EXCEPT ![th[t].id] = "activated"] /\ Go(t, "erase", th[t].id)
    BY <1>6, <2>3 DEF ActivateMsg
  <2>5. /\ th'[t].pc = "erase" /\ th'[t].id = th[t].id
        /\ \A r \in Proc \ {p} : th'[Only(r)] = th[Only(r)]
    BY <1>1, <2>4, GoesOn
  <2>6. st'[th[t].id] = "activated" /\ \A i \in Id \ {th[t].id} : st'[i] = st[i]
    BY <1>2, <2>1, <2>4
  <2>7. OwnCall(p)'
    BY <1>1, <1>2, <2>1, <2>2, <2>5, <2>6 DEF OwnCall, Held
  <2>8. \A r \in Proc \ {p} : ~Has(r, th[t].id)
    BY <1>2, <2>1, <2>2, Apart
  <2> QED BY <2>1, <2>5, <2>6, <2>7, <2>8, OthersKept DEF Alone
<1>7. CASE EraseReserve(t)
  <2>1. th[t].pc = "erase" /\ Go(t, "open", th[t].id) /\ UNCHANGED st
    BY <1>7 DEF EraseReserve, shm
  <2>2. /\ cl'[p].resv = cl[p].resv \ {th[t].id} /\ cl'[p].recv = cl[p].recv /\ cl'[p].on = cl[p].on
        /\ \A r \in Proc \ {p} : cl'[r] = cl[r]
    BY <1>2, <1>7 DEF EraseReserve, ClientType
  <2>3. /\ th'[t].pc = "open" /\ th'[t].id = th[t].id
        /\ \A r \in Proc \ {p} : th'[Only(r)] = th[Only(r)]
    BY <1>1, <2>1, GoesOn
  <2>4. OwnCall(p)'
    BY <1>1, <1>2, <2>1, <2>2, <2>3 DEF OwnCall, Held
  <2> QED BY <2>1, <2>2, <2>3, <2>4, OthersKept DEF Alone
<1>8. CASE ReceiveTimeout(t) \/ \E b \in Box : PxCltSendJoinNotify(t, b) \/ Send(t, b)
  <2>1. Held(t) /\ UNCHANGED st
    BY <1>8 DEF ReceiveTimeout, PxCltSendJoinNotify, Send, shm, Held
  <2>2. /\ cl'[p].resv = cl[p].resv /\ cl'[p].recv = cl[p].recv /\ cl'[p].on = cl[p].on
        /\ \A r \in Proc \ {p} : cl'[r] = cl[r]
    <3>1. CASE UNCHANGED cl
      BY <3>1
    <3>2. CASE \E b \in Box : cl' = [cl EXCEPT ![p].dest = @ \cup {b}]
      BY <1>2, <3>2 DEF ClientType
    <3> QED BY <1>2, <1>8, <3>1, <3>2 DEF ReceiveTimeout, PxCltSendJoinNotify, Send, SendTo
  <2>3. /\ th'[t].pc \in {"open", "wait", "close"} /\ th'[t].id = th[t].id
        /\ \A r \in Proc \ {p} : th'[Only(r)] = th[Only(r)]
    BY <1>2, <1>3, <1>8 DEF ReceiveTimeout, PxCltSendJoinNotify, Send, Go, ThreadType
  <2>4. OwnCall(p)'
    BY <1>1, <1>2, <2>1, <2>2, <2>3 DEF OwnCall, Held
  <2> QED BY <2>1, <2>2, <2>3, <2>4, OthersKept DEF Alone
<1>9. CASE PxCltSendCloseNotify(t)
  <2>1. UNCHANGED <<cl, st>>
    BY <1>9 DEF PxCltSendCloseNotify, shm
  <2>2. th'[t].pc \in {"joined", "idle"} /\ \A r \in Proc \ {p} : th'[Only(r)] = th[Only(r)]
    BY <1>2, <1>3, <1>9 DEF PxCltSendCloseNotify, AfterClose, ThreadType
  <2>3. th'[t].pc = "joined" => cl[p].on = "join"
    BY <1>2, <1>9 DEF PxCltSendCloseNotify, AfterClose, ThreadType
  <2>4. OwnCall(p)'
    BY <1>1, <1>2, <2>1, <2>2, <2>3 DEF OwnCall, Held
  <2> QED BY <2>1, <2>2, <2>4, OthersKept DEF Alone
<1> QED BY <1>1, <1>5, <1>6, <1>7, <1>8, <1>9

LEMMA CloseOwn ==
  ASSUME ThreadsPer = 1, OwnInv, NEW p \in Proc, Close(Only(p))
  PROVE  \A r \in Proc : OwnCall(r)'
<1>1. PICK t, i, c : t = Only(p) /\ i = th[t].id /\ c = Reserve(cl[p], i)
  OBVIOUS
<1>2. /\ ProcOf(t) = p /\ PoolInv /\ OwnCall(p) /\ cl[p] \in ClientType /\ t \in Thread
      /\ th[t] \in ThreadType /\ th \in [Thread -> ThreadType]
      /\ st \in [Id -> {"no", "assigned", "activated"}] /\ cl \in [Proc -> ClientType]
  BY <1>1, OneThread DEF OwnInv, PoolInv, PoolTypes, ThreadTypes
<1>3. \A r \in Proc \ {p} : Only(r) # t /\ Only(r) \in Thread
  BY <1>1, OneThread DEF Only
<1>4. Held(t) /\ i \in Id
  BY <1>1, <1>2 DEF Close, Held, PoolInv, PoolTypes, ThreadTypes, UsesId
<1>5. st[i] = "activated" /\ i \in cl[p].recv /\ cl[p].on \notin {"off", "notify"} /\ Has(p, i)
  BY <1>1, <1>2, <1>4 DEF OwnCall, Held, Has
<1>6. PICK S, d : S = Freed(c) /\ d = FreeReserveMsgIds(c)
  OBVIOUS
<1>7. /\ cl' = [cl EXCEPT ![p] = d]
      /\ st' = [j \in Id |-> IF j \in S THEN "no" ELSE IF j = i THEN "assigned" ELSE st[j]]
      /\ th' = [th EXCEPT ![t].pc = "notify", ![t].note = Closed(c)]
  BY <1>1, <1>2, <1>5, <1>6 DEF Close
<1>8. /\ c.recv = cl[p].recv /\ c.resv = cl[p].resv \cup {i} /\ c.real \subseteq cl[p].real
      /\ c.on = cl[p].on
  BY <1>1, <1>2 DEF Reserve, FoundFd, ClientType
<1>9. d.on = cl[p].on /\ d.recv = cl[p].recv \ S /\ d.resv = c.resv \ Closed(c)
  BY <1>1, <1>2, <1>6, <1>8 DEF FreeReserveMsgIds, Reserve, ClientType
<1>10. S \subseteq Closed(c) /\ S \subseteq cl[p].recv
  BY <1>2, <1>6, <1>8 DEF Freed, PoolInv, RealOnes
<1>11. cl'[p] = d /\ \A r \in Proc \ {p} : cl'[r] = cl[r]
  BY <1>2, <1>7
<1>12. th'[t].pc = "notify" /\ \A r \in Proc \ {p} : th'[Only(r)] = th[Only(r)]
  BY <1>2, <1>3, <1>7 DEF ThreadType
<1>13. d.resv \subseteq d.recv
  BY <1>2, <1>5, <1>8, <1>9, <1>10 DEF OwnCall
<1>14. OwnCall(p)'
  BY <1>1, <1>5, <1>9, <1>11, <1>12, <1>13 DEF OwnCall, Held
<1>15. ASSUME NEW r \in Proc \ {p}, NEW j \in Id, Has(r, j) PROVE st'[j] = st[j]
  <2>1. ~Has(p, j)
    BY <1>2, <1>15 DEF PoolInv, Exact
  <2>2. j \notin S /\ j # i
    BY <1>5, <1>10, <2>1 DEF Has
  <2> QED BY <1>7, <2>2
<1> QED BY <1>11, <1>12, <1>14, <1>15, OthersKept DEF Alone

LEMMA CleanOwn ==
  ASSUME ThreadsPer = 1, OwnInv, NEW p \in Proc, Clean(p)
  PROVE  \A r \in Proc : OwnCall(r)'
<1>1. /\ PoolInv /\ cl \in [Proc -> ClientType] /\ Only(p) \in Thread
      /\ cl[p].on = "on" /\ st \in [Id -> {"no", "assigned", "activated"}]
  BY OneThread DEF Clean, OwnInv, PoolInv, PoolTypes
<1>2. cl'[p].resv = {} /\ \A r \in Proc \ {p} : cl'[r] = cl[r]
  BY <1>1 DEF Clean, Detached
<1>3. /\ th' = [t \in Thread |-> IF ProcOf(t) = p THEN Idle ELSE th[t]]
      /\ st' = [i \in Id |-> IF i \in cl[p].recv THEN "no" ELSE st[i]]
  BY DEF Clean, FreeMsgIds, FreeMsg
<1>4. th'[Only(p)] = Idle /\ \A r \in Proc \ {p} : th'[Only(r)] = th[Only(r)]
  BY <1>3, OneThread
<1>5. OwnCall(p)'
  BY <1>2, <1>4 DEF OwnCall, Held, Idle
<1>6. \A r \in Proc \ {p}, i \in Id : Has(r, i) => i \notin cl[p].recv
  BY <1>1 DEF PoolInv, Exact, Has
<1>7. Alone(p)
  BY <1>2, <1>3, <1>4, <1>6 DEF Alone
<1> QED BY <1>5, <1>7, OthersKept

LEMMA ProcOwn ==
  ASSUME ThreadsPer = 1, OwnInv, NEW p \in Proc, JoinDone(p) \/ CleanNotify(p)
  PROVE  \A r \in Proc : OwnCall(r)'
<1>1. /\ PoolInv /\ OwnCall(p) /\ cl \in [Proc -> ClientType] /\ cl[p] \in ClientType
      /\ Only(p) \in Thread /\ th \in [Thread -> ThreadType]
  BY OneThread DEF OwnInv, PoolInv, PoolTypes, ThreadTypes
<1>2. /\ UNCHANGED st /\ \A r \in Proc \ {p} : cl'[r] = cl[r] /\ th'[Only(r)] = th[Only(r)]
  <2>1. \A r \in Proc \ {p} : Only(r) # Only(p) /\ Only(r) \in Thread
    BY OneThread DEF Only
  <2> QED BY <1>1, <2>1 DEF JoinDone, CleanNotify, shm, Only
<1>3. th'[Only(p)].pc = "idle"
  BY <1>1 DEF JoinDone, CleanNotify, Idle, Only, OwnCall
<1>4. cl'[p].resv \subseteq cl'[p].recv
  <2>1. CASE JoinDone(p)
    BY <1>1, <2>1 DEF JoinDone, OwnCall, ClientType
  <2>2. CASE CleanNotify(p)
    BY <1>1, <2>2 DEF CleanNotify, Detached
  <2> QED BY <2>1, <2>2
<1>5. OwnCall(p)'
  BY <1>3, <1>4 DEF OwnCall, Held
<1> QED BY <1>2, <1>5, OthersKept DEF Alone

\* Steps of the chmpx process.
LEMMA BoxOwn ==
  ASSUME ThreadsPer = 1, OwnInv, UNCHANGED <<st, cl>>,
         \/ UNCHANGED th
         \/ \E b \in Box : ReplySend(b)
  PROVE  \A r \in Proc : OwnCall(r)'
<1> SUFFICES ASSUME NEW r \in Proc PROVE OwnCall(r)'
  OBVIOUS
<1>1. OwnCall(r) /\ PoolInv /\ Only(r) \in Thread
  BY OneThread DEF OwnInv
<1>2. \/ th'[Only(r)] = th[Only(r)]
      \/ th[Only(r)].pc = "wait" /\ th'[Only(r)] = [th[Only(r)] EXCEPT !.pc = "open"]
  BY <1>1 DEF ReplySend, Gets
<1> QED BY <1>1, <1>2, CallKept

LEMMA OwnStep == ASSUME ThreadsPer = 1, OwnInv, [Next]_vars PROVE OwnInv'
<1>1. PoolInv'
  BY PoolStep DEF OwnInv
<1>2. CASE UNCHANGED vars
  BY <1>2, <1>1, BoxOwn DEF vars, OwnInv
<1>3. ASSUME NEW p \in Proc, Initialize(p) \/ JoinDone(p) \/ Clean(p) \/ CleanNotify(p)
      PROVE  OwnInv'
  BY <1>1, <1>3, InitializeOwn, CleanOwn, ProcOwn DEF OwnInv
<1>4. ASSUME NEW t \in Thread, ThreadStep(t) PROVE OwnInv'
  <2>1. PICK p \in Proc : t = Only(p)
    BY OneThread
  <2> QED BY <1>1, <1>4, <2>1, PickNewOwn, CallOwn, CloseOwn DEF ThreadStep, OwnInv
<1>5. ASSUME NEW b \in Box, \/ PxCltReceiveCloseNotify(b) \/ PxCltReceiveJoinNotify(b)
                            \/ ReplyOpen(b) \/ ReplySend(b)
      PROVE  OwnInv'
  BY <1>1, <1>5, BoxOwn
  DEF PxCltReceiveCloseNotify, PxCltReceiveJoinNotify, ReplyOpen, ReplySend, shm, OwnInv
<1> QED BY <1>2, <1>3, <1>4, <1>5 DEF Next

\* In processes with one thread, an open msgid belongs to the thread that opened it: no
\* other process is given it, and it is not in the reserve.  (With two threads
\* FreeReserveMsgIds of one can free the msgid the other is activating.)
THEOREM OpenMsgIdIsOwned == ASSUME ThreadsPer = 1 PROVE Spec => []OpenIsOwned
<1>1. Init => OwnInv
  <2>1. Init => \A p \in Proc : OwnCall(p)
    BY OneThread DEF Init, OwnCall, Detached, Idle, Held
  <2> QED BY <2>1, InitPool DEF OwnInv
<1>2. OwnInv /\ [Next]_vars => OwnInv'
  BY OwnStep
<1>3. OwnInv => OpenIsOwned
  BY InvOwned
<1> QED BY <1>1, <1>2, <1>3, PTL DEF Spec

-----------------------------------------------------------------------------
(* Answers, where each process has one thread and the chmpx process one    *)
(* msgid.                                                                  *)

Mail == [kind : {"req", "join", "close"}, ids : SUBSET Id, gen : Nat]

\* A descriptor in the cache is that of a queue of its msgid, an open descriptor is
\* in the cache, and the one an answer is sent to still is.
FdsExact ==
  /\ \A i \in Id : cache[i] # 0 => fdt[cache[i]].id = i
  /\ \A f \in 1 .. MaxFd : fdt[f] # NoQueue => \E i \in Id : cache[i] = f
  /\ \A b \in Box : rep[b] # NoReply =>
       rep[b].id \in Id /\ rep[b].fd # 0 /\ cache[rep[b].id] = rep[b].fd

QueueInv ==
  /\ gen \in [Id -> Nat] /\ path \in [Id -> Nat]
  /\ box \in [Box -> Seq(Mail)]
  /\ cache \in [Id -> 0 .. MaxFd]
  /\ DOMAIN fdt = 1 .. MaxFd /\ DOMAIN rep = Box
  /\ FdsExact

\* The process has closed msgid i and will say so (it knows where to).
Coming(p, i) ==
  /\ cl[p].dest # {}
  /\ (cl[p].on = "notify" /\ i \in cl[p].recv) \/ i \in th[Only(p)].note

\* The process has msgid i and, when it closes it, will say so.
Served(p, i) == Has(p, i) /\ cl[p].dest # {}

\* There is a notice that i is closed behind the n-th message.
Closes(m, i) == m.kind = "close" /\ i \in m.ids
InMail(i, n) ==
  \E b \in Box : \E j \in DOMAIN box[b] : j > n /\ Closes(box[b][j], i)
Told(i, n) == InMail(i, n) \/ \E p \in Proc : Coming(p, i)

NoteKept(p) == th[Only(p)].note # {} => th[Only(p)].pc = "notify"

\* A descriptor in the cache is that of the queue the path of its msgid names, unless
\* a notice is under way; and a request whose msgid is closed before it is read is
\* followed by a notice.
CacheServed ==
  \A i \in Id : cache[i] # 0 =>
    Told(i, 0) \/ (fdt[cache[i]].gen = path[i] /\ \E p \in Proc : Served(p, i))
MailServed ==
  \A b \in Box : \A n \in DOMAIN box[b] : box[b][n].kind = "req" =>
    \E i \in Id : box[b][n].ids = {i} /\ (Told(i, n) \/ \E p \in Proc : Served(p, i))

AnswerInv ==
  QueueInv /\ (\A p \in Proc : NoteKept(p)) /\ CacheServed /\ MailServed

\* Process p adds m to the messages.
Posts(b, m) == box' = [box EXCEPT ![b] = Append(@, m)]

LEMMA PostedIs ==
  ASSUME NEW b, Box = {b}, QueueInv, NEW m \in Mail, Posts(b, m)
  PROVE  /\ box' \in [Box -> Seq(Mail)]
         /\ DOMAIN box[b] = 1 .. Len(box[b]) /\ Len(box[b]) \in Nat
         /\ DOMAIN box'[b] = 1 .. (Len(box[b]) + 1)
         /\ \A n \in DOMAIN box[b] : box'[b][n] = box[b][n]
         /\ box'[b][Len(box[b]) + 1] = m
<1>1. box \in [Box -> Seq(Mail)] /\ box[b] \in Seq(Mail) /\ b \in Box
  BY DEF QueueInv
<1>2. box'[b] = Append(box[b], m) /\ box' \in [Box -> Seq(Mail)]
  BY <1>1, AppendProperties DEF Posts
<1> QED BY <1>1, <1>2, AppendProperties

\* A step of process p keeps what the chmpx process relies on, when p does not drop a
\* notice, gives nothing back without one and sends requests of its own msgids only.
LEMMA ClientKeeps ==
  ASSUME ThreadsPer = 1, NEW b, Box = {b}, OwnInv, AnswerInv, NEW p \in Proc,
         \A r \in Proc \ {p} : cl'[r] = cl[r] /\ th'[Only(r)] = th[Only(r)],
         NoteKept(p)', UNCHANGED <<cache, fdt, rep>>,
         gen' \in [Id -> Nat], path' \in [Id -> Nat],
         \A r \in Proc \ {p}, i \in Id : Has(r, i) => path'[i] = path[i],
         \/ UNCHANGED box
         \/ \E m \in Mail : /\ Posts(b, m)
                            /\ m.kind = "req" => \E i \in Id : m.ids = {i} /\ Served(p, i)',
         \A i \in Id : Coming(p, i) =>
           Coming(p, i)' \/ \E m \in Mail : Posts(b, m) /\ Closes(m, i),
         \A i \in Id : Served(p, i) =>
           Coming(p, i)' \/ (Served(p, i)' /\ path'[i] = path[i])
  PROVE  AnswerInv'
<1>1. b \in Box /\ box \in [Box -> Seq(Mail)] /\ box[b] \in Seq(Mail)
  BY DEF AnswerInv, QueueInv
<1>2. QueueInv'
  <2>1. box' \in [Box -> Seq(Mail)]
    BY <1>1, PostedIs DEF AnswerInv
  <2> QED BY <2>1 DEF AnswerInv, QueueInv, FdsExact
<1>3. \A r \in Proc : NoteKept(r)'
  BY DEF AnswerInv, NoteKept
<1>4. /\ DOMAIN box[b] = 1 .. Len(box[b]) /\ Len(box[b]) \in Nat
      /\ DOMAIN box[b] \subseteq DOMAIN box'[b]
      /\ \A n \in DOMAIN box[b] : box'[b][n] = box[b][n]
  <2>1. CASE UNCHANGED box
    BY <1>1, <2>1
  <2>2. ASSUME NEW m \in Mail, Posts(b, m)
        PROVE  /\ DOMAIN box[b] = 1 .. Len(box[b]) /\ Len(box[b]) \in Nat
               /\ DOMAIN box[b] \subseteq DOMAIN box'[b]
               /\ \A n \in DOMAIN box[b] : box'[b][n] = box[b][n]
    BY <2>2, PostedIs DEF AnswerInv
  <2> QED BY <2>1, <2>2
<1>5. ASSUME NEW i \in Id, NEW n \in 0 .. Len(box[b]), Told(i, n) PROVE Told(i, n)'
  <2>1. CASE InMail(i, n)
    <3>1. PICK j \in DOMAIN box[b] : j > n /\ Closes(box[b][j], i)
      BY <2>1 DEF InMail
    <3>2. j \in DOMAIN box'[b] /\ box'[b][j] = box[b][j]
      BY <1>4
    <3>3. InMail(i, n)'
      BY <1>1, <3>1, <3>2 DEF InMail, Closes
    <3> QED BY <3>3 DEF Told
  <2>2. ASSUME NEW r \in Proc \ {p}, Coming(r, i) PROVE Told(i, n)'
    BY <2>2 DEF Told, Coming
  <2>3. CASE Coming(p, i)
    <3>1. CASE Coming(p, i)'
      BY <3>1 DEF Told
    <3>2. ASSUME NEW m \in Mail, Posts(b, m), Closes(m, i) PROVE Told(i, n)'
      <4>1. /\ Len(box[b]) + 1 \in DOMAIN box'[b] /\ box'[b][Len(box[b]) + 1] = m
            /\ Len(box[b]) + 1 > n
        BY <1>4, <3>2, PostedIs DEF AnswerInv
      <4>2. InMail(i, n)'
        BY <1>1, <3>2, <4>1 DEF InMail, Closes
      <4> QED BY <4>2 DEF Told
    <3> QED BY <2>3, <3>1, <3>2
  <2> QED BY <1>5, <2>1, <2>2, <2>3 DEF Told
<1>6. ASSUME NEW i \in Id, NEW n \in 0 .. Len(box[b]), NEW r \in Proc, Served(r, i)
      PROVE  Told(i, n)' \/ (path'[i] = path[i] /\ Served(r, i)')
  <2>1. CASE r = p
    BY <1>6, <2>1 DEF Told
  <2>2. CASE r # p
    BY <1>6, <2>2 DEF Served, Has
  <2> QED BY <2>1, <2>2
<1>7. CacheServed'
  <2> SUFFICES ASSUME NEW i \in Id, cache[i] # 0
               PROVE  \/ Told(i, 0)'
                      \/ fdt[cache[i]].gen = path'[i] /\ \E r \in Proc : Served(r, i)'
    BY DEF CacheServed
  <2>1. 0 \in 0 .. Len(box[b])
    BY <1>4
  <2>2. CASE Told(i, 0)
    BY <1>5, <2>1, <2>2
  <2>3. CASE fdt[cache[i]].gen = path[i] /\ \E r \in Proc : Served(r, i)
    BY <1>6, <2>1, <2>3
  <2> QED BY <2>2, <2>3 DEF AnswerInv, CacheServed
<1>8. MailServed'
  <2> SUFFICES ASSUME NEW n \in DOMAIN box'[b], box'[b][n].kind = "req"
               PROVE  \E i \in Id : /\ box'[b][n].ids = {i}
                                    /\ (Told(i, n)' \/ \E r \in Proc : Served(r, i)')
    BY DEF MailServed
  <2>1. CASE n \in DOMAIN box[b]
    <3>1. box'[b][n] = box[b][n] /\ n \in 0 .. Len(box[b])
      BY <1>4, <2>1
    <3>2. PICK i \in Id : box[b][n].ids = {i} /\ (Told(i, n) \/ \E r \in Proc : Served(r, i))
      BY <1>1, <2>1, <3>1 DEF AnswerInv, MailServed
    <3> QED BY <1>5, <1>6, <3>1, <3>2
  <2>2. CASE n \notin DOMAIN box[b]
    <3>1. PICK m \in Mail : /\ Posts(b, m)
                            /\ m.kind = "req" => \E i \in Id : m.ids = {i} /\ Served(p, i)'
      BY <2>2
    <3>2. n = Len(box[b]) + 1 /\ box'[b][n] = m
      BY <2>2, <3>1, PostedIs DEF AnswerInv
    <3> QED BY <3>1, <3>2
  <2> QED BY <2>1, <2>2
<1> QED BY <1>2, <1>3, <1>7, <1>8 DEF AnswerInv

\* Msgids are taken: their queues are new, nobody had them.
LEMMA TakesPath ==
  ASSUME PoolInv, gen \in [Id -> Nat], path \in [Id -> Nat],
         NEW p \in Proc, NEW k \in Nat, AssignMsg(p, k)
  PROVE  /\ gen' \in [Id -> Nat] /\ path' \in [Id -> Nat]
         /\ \A r \in Proc, i \in Id : Has(r, i) => path'[i] = path[i]
<1>1. /\ NextIds(k) \subseteq ToSet(free)
      /\ gen' = [i \in Id |-> IF i \in NextIds(k) THEN gen[i] + 1 ELSE gen[i]]
      /\ path' = [i \in Id |-> IF i \in NextIds(k) THEN gen[i] + 1 ELSE path[i]]
  BY Remaining DEF PoolInv, PoolTypes, AssignMsg
<1> QED BY <1>1 DEF PoolInv, Exact

\* What is known of a process and its thread.
LEMMA ClientIs ==
  ASSUME ThreadsPer = 1, OwnInv, AnswerInv, NEW p \in Proc
  PROVE  /\ PoolInv /\ OwnCall(p) /\ Only(p) \in Thread /\ ProcOf(Only(p)) = p
         /\ cl \in [Proc -> ClientType] /\ cl[p] \in ClientType
         /\ th \in [Thread -> ThreadType] /\ th[Only(p)] \in ThreadType
         /\ NoteKept(p) /\ gen \in [Id -> Nat] /\ path \in [Id -> Nat]
         /\ \A r \in Proc \ {p} : Only(r) # Only(p) /\ Only(r) \in Thread
<1>1. \A r \in Proc \ {p} : Only(r) # Only(p)
  BY DEF Only
<1> QED BY <1>1, OneThread DEF OwnInv, PoolInv, PoolTypes, ThreadTypes, AnswerInv, QueueInv

LEMMA InitializeAnswer ==
  ASSUME ThreadsPer = 1, NEW b, Box = {b}, OwnInv, AnswerInv, NEW p \in Proc, Initialize(p)
  PROVE  AnswerInv'
<1>1. /\ AssignMsg(p, PerAttach) /\ PerAttach \in Nat /\ cl[p].on = "off"
      /\ UNCHANGED <<th, box, cache, fdt, rep>>
      /\ cl' = [cl EXCEPT ![p] = [Attached(@, NextIds(PerAttach)) EXCEPT !.on = "join"]]
  BY MsgBoxAssumption DEF Initialize, px
<1>2. /\ PoolInv /\ OwnCall(p) /\ NoteKept(p) /\ cl \in [Proc -> ClientType] /\ cl[p] \in ClientType
      /\ gen \in [Id -> Nat] /\ path \in [Id -> Nat]
  BY ClientIs
<1>3. /\ \A r \in Proc \ {p} : cl'[r] = cl[r]
      /\ cl'[p].dest = cl[p].dest /\ cl'[p].on = "join" /\ cl[p].recv \subseteq cl'[p].recv
  BY <1>1, <1>2 DEF Attached, ClientType
<1>4. th[Only(p)].note = {}
  BY <1>1, <1>2 DEF OwnCall, NoteKept
<1>5. NoteKept(p)'
  BY <1>1, <1>2 DEF NoteKept
<1>6. \A i \in Id : Coming(p, i) => Coming(p, i)'
  BY <1>1, <1>4 DEF Coming
<1>7. /\ gen' \in [Id -> Nat] /\ path' \in [Id -> Nat]
      /\ \A r \in Proc, i \in Id : Has(r, i) => path'[i] = path[i]
  BY <1>1, <1>2, TakesPath
<1>8. \A i \in Id : Served(p, i) => Served(p, i)' /\ path'[i] = path[i]
  BY <1>3, <1>7 DEF Served, Has
<1> QED BY <1>1, <1>3, <1>5, <1>6, <1>7, <1>8, ClientKeeps

\* Steps of a call that move the thread on and may take msgids.
LEMMA GoAnswer ==
  ASSUME ThreadsPer = 1, NEW b, Box = {b}, OwnInv, AnswerInv, NEW p \in Proc,
         \/ PickReserved(Only(p)) \/ PickNew(Only(p)) \/ ActivateMsg(Only(p))
         \/ EraseReserve(Only(p)) \/ ReceiveTimeout(Only(p))
  PROVE  AnswerInv'
<1>1. PICK t : t = Only(p)
  OBVIOUS
<1>2. /\ PoolInv /\ OwnCall(p) /\ NoteKept(p) /\ cl \in [Proc -> ClientType] /\ cl[p] \in ClientType
      /\ gen \in [Id -> Nat] /\ path \in [Id -> Nat] /\ ProcOf(t) = p /\ t \in Thread
      /\ th \in [Thread -> ThreadType] /\ th[t] \in ThreadType
      /\ \A r \in Proc \ {p} : Only(r) # t /\ Only(r) \in Thread
  BY <1>1, ClientIs
<1>3. /\ th[t].pc # "notify" /\ UNCHANGED <<box, cache, fdt, rep>>
      /\ \E pc, i : Go(t, pc, i)
  BY <1>1 DEF PickReserved, PickNew, ActivateMsg, EraseReserve, ReceiveTimeout, px
<1>4. th[t].note = {} /\ th'[t].note = {} /\ \A r \in Proc \ {p} : th'[Only(r)] = th[Only(r)]
  BY <1>1, <1>2, <1>3 DEF NoteKept, Go, ThreadType
<1>5. /\ \A r \in Proc \ {p} : cl'[r] = cl[r]
      /\ cl'[p].dest = cl[p].dest /\ cl'[p].on = cl[p].on /\ cl[p].recv \subseteq cl'[p].recv
  <2>1. CASE UNCHANGED cl
    BY <2>1
  <2>2. CASE PickNew(t)
    <3>1. cl' = [cl EXCEPT ![p] = Attached(@, NextIds(Assigned))]
      BY <1>2, <2>2 DEF PickNew
    <3> QED BY <1>2, <3>1 DEF Attached, ClientType
  <2>3. CASE EraseReserve(t)
    <3>1. cl' = [cl EXCEPT ![p].resv = @ \ {th[t].id}, ![p].real = @ \ {th[t].id}]
      BY <1>2, <2>3 DEF EraseReserve
    <3> QED BY <1>2, <3>1 DEF ClientType
  <2> QED BY <1>1, <2>1, <2>2, <2>3 DEF PickReserved, ActivateMsg, ReceiveTimeout
<1>6. /\ gen' \in [Id -> Nat] /\ path' \in [Id -> Nat]
      /\ \A r \in Proc, i \in Id : Has(r, i) => path'[i] = path[i]
  <2>1. CASE PickNew(t)
    <3>1. AssignMsg(p, Assigned) /\ Assigned \in Nat
      BY <1>2, <2>1, AssignedIs DEF PickNew, PoolInv, PoolTypes
    <3> QED BY <1>2, <3>1, TakesPath
  <2>2. CASE UNCHANGED <<gen, path>>
    BY <1>2, <2>2
  <2> QED BY <1>1, <2>1, <2>2 DEF PickReserved, ActivateMsg, EraseReserve, ReceiveTimeout, shm
<1>7. NoteKept(p)'
  BY <1>1, <1>4 DEF NoteKept
<1>8. \A i \in Id : Coming(p, i) => Coming(p, i)'
  BY <1>1, <1>4, <1>5 DEF Coming
<1>9. \A i \in Id : Served(p, i) => Served(p, i)' /\ path'[i] = path[i]
  BY <1>5, <1>6 DEF Served, Has
<1> QED BY <1>3, <1>4, <1>5, <1>6, <1>7, <1>8, <1>9, ClientKeeps

\* The process now knows where to send a notice to.
LEMMA SendAnswer ==
  ASSUME ThreadsPer = 1, NEW b, Box = {b}, OwnInv, AnswerInv, NEW p \in Proc,
         PxCltSendJoinNotify(Only(p), b) \/ Send(Only(p), b)
  PROVE  AnswerInv'
<1>1. PICK t, i, m : t = Only(p) /\ i = th[t].id
                     /\ m = IF cl[p].on = "join" THEN JoinNotice(i) ELSE Request(i)
  OBVIOUS
<1>2. /\ PoolInv /\ OwnCall(p) /\ NoteKept(p) /\ cl \in [Proc -> ClientType] /\ cl[p] \in ClientType
      /\ gen \in [Id -> Nat] /\ path \in [Id -> Nat] /\ ProcOf(t) = p /\ t \in Thread
      /\ th \in [Thread -> ThreadType] /\ th[t] \in ThreadType
      /\ \A r \in Proc \ {p} : Only(r) # t /\ Only(r) \in Thread
  BY <1>1, ClientIs
<1>3. /\ Held(t) /\ th[t].pc = "open" /\ UNCHANGED <<gen, path, cache, fdt, rep>>
      /\ cl[p].on \in {"join", "on"} /\ SendTo(t, b, m)
  BY <1>1, <1>2 DEF PxCltSendJoinNotify, Send, Held, shm, px
<1>4. i \in Id /\ i \in cl[p].recv
  BY <1>1, <1>2, <1>3 DEF OwnCall, PoolInv, PoolTypes, ThreadTypes, UsesId, Held
<1>5. /\ m \in Mail /\ (m.kind = "req" => m.ids = {i})
  BY <1>1, <1>2, <1>4 DEF JoinNotice, Request, Mail
<1>6. /\ \A r \in Proc \ {p} : cl'[r] = cl[r]
      /\ cl'[p].dest = cl[p].dest \cup {b} /\ cl'[p].on = cl[p].on /\ cl'[p].recv = cl[p].recv
      /\ Posts(b, m)
  BY <1>2, <1>3 DEF SendTo, Posts, ClientType
<1>7. th[t].note = {} /\ th'[t].note = {} /\ \A r \in Proc \ {p} : th'[Only(r)] = th[Only(r)]
  <2>1. th[t].note = {}
    BY <1>1, <1>2, <1>3 DEF NoteKept
  <2>2. CASE PxCltSendJoinNotify(t, b)
    BY <1>2, <2>1, <2>2 DEF PxCltSendJoinNotify, Go, ThreadType
  <2>3. CASE Send(t, b)
    BY <1>2, <2>1, <2>3 DEF Send, ThreadType
  <2> QED BY <1>1, <2>1, <2>2, <2>3
<1>8. NoteKept(p)'
  BY <1>1, <1>7 DEF NoteKept
<1>9. \A j \in Id : Coming(p, j) => Coming(p, j)'
  BY <1>1, <1>6, <1>7 DEF Coming
<1>10. \A j \in Id : Served(p, j) => Served(p, j)' /\ path'[j] = path[j]
  BY <1>3, <1>6 DEF Served, Has
<1>11. m.kind = "req" => \E j \in Id : m.ids = {j} /\ Served(p, j)'
  <2>1. Served(p, i)'
    BY <1>3, <1>4, <1>6 DEF Served, Has
  <2> QED BY <1>4, <1>5, <2>1
<1> QED BY <1>2, <1>3, <1>5, <1>6, <1>7, <1>8, <1>9, <1>10, <1>11, ClientKeeps

\* The notice goes to the first msgid of the chmpx process the process knows.
LEMMA NotifiedIs ==
  ASSUME NEW b, Box = {b}, QueueInv, NEW c \in ClientType, NEW S \in SUBSET Id,
         box' = Notified(c, S)
  PROVE  \/ UNCHANGED box /\ (c.dest = {} \/ S = {})
         \/ c.dest # {} /\ CloseNotice(S) \in Mail /\ Posts(b, CloseNotice(S))
<1>1. CASE c.dest = {} \/ S = {}
  BY <1>1 DEF Notified
<1>2. CASE ~(c.dest = {} \/ S = {})
  <2>1. c.dest = {b} /\ b \in Nat
    BY <1>2, MsgBoxAssumption DEF ClientType
  <2>2. Min(c.dest) = b
    BY <2>1 DEF Min
  <2> QED BY <1>2, <2>2 DEF Notified, Posts, CloseNotice, Mail
<1> QED BY <1>1, <1>2

LEMMA NotifyAnswer ==
  ASSUME ThreadsPer = 1, NEW b, Box = {b}, OwnInv, AnswerInv, NEW p \in Proc,
         PxCltSendCloseNotify(Only(p))
  PROVE  AnswerInv'
<1>1. PICK t, S : t = Only(p) /\ S = th[t].note
  OBVIOUS
<1>2. /\ PoolInv /\ OwnCall(p) /\ cl[p] \in ClientType
      /\ gen \in [Id -> Nat] /\ path \in [Id -> Nat] /\ ProcOf(t) = p /\ t \in Thread
      /\ th \in [Thread -> ThreadType] /\ th[t] \in ThreadType
      /\ \A r \in Proc \ {p} : Only(r) # t /\ Only(r) \in Thread
  BY <1>1, ClientIs
<1>3. /\ box' = Notified(cl[p], S) /\ S \in SUBSET Id /\ th[t].pc = "notify"
      /\ UNCHANGED <<gen, path, cl, cache, fdt, rep>>
  BY <1>1, <1>2 DEF PxCltSendCloseNotify, ThreadType, shm, px
<1>4. th'[t].note = {} /\ \A r \in Proc \ {p} : th'[Only(r)] = th[Only(r)]
  BY <1>1, <1>2 DEF PxCltSendCloseNotify, ThreadType
<1>5. \/ UNCHANGED box /\ (cl[p].dest = {} \/ S = {})
      \/ cl[p].dest # {} /\ CloseNotice(S) \in Mail /\ Posts(b, CloseNotice(S))
  BY <1>2, <1>3, NotifiedIs DEF AnswerInv
<1>6. cl[p].on # "notify"
  BY <1>1, <1>2, <1>3 DEF OwnCall
<1>7. ASSUME NEW i \in Id, Coming(p, i)
      PROVE  \E m \in Mail : Posts(b, m) /\ Closes(m, i)
  BY <1>1, <1>5, <1>6, <1>7 DEF Coming, Closes, CloseNotice
<1>8. NoteKept(p)'
  BY <1>1, <1>4 DEF NoteKept
<1>9. \A i \in Id : Served(p, i) => Served(p, i)' /\ path'[i] = path[i]
  BY <1>3 DEF Served, Has
<1>10. CloseNotice(S).kind # "req"
  BY DEF CloseNotice
<1> QED BY <1>2, <1>3, <1>4, <1>5, <1>7, <1>8, <1>9, <1>10, ClientKeeps

\* Close: what is given back is named in the notice.
LEMMA CloseAnswer ==
  ASSUME ThreadsPer = 1, NEW b, Box = {b}, OwnInv, AnswerInv, NEW p \in Proc, Close(Only(p))
  PROVE  AnswerInv'
<1>1. PICK t, i, c : t = Only(p) /\ i = th[t].id /\ c = Reserve(cl[p], i)
  OBVIOUS
<1>2. /\ PoolInv /\ OwnCall(p) /\ NoteKept(p) /\ cl \in [Proc -> ClientType] /\ cl[p] \in ClientType
      /\ gen \in [Id -> Nat] /\ path \in [Id -> Nat] /\ ProcOf(t) = p /\ t \in Thread
      /\ th \in [Thread -> ThreadType] /\ th[t] \in ThreadType
      /\ \A r \in Proc \ {p} : Only(r) # t /\ Only(r) \in Thread
  BY <1>1, ClientIs
<1>3. Held(t) /\ UNCHANGED <<gen, box, cache, fdt, rep>>
  BY <1>1 DEF Close, Held, shm, px
<1>4. st[i] = "activated" /\ cl[p].on \notin {"off", "notify"}
  BY <1>1, <1>2, <1>3 DEF OwnCall, Held
<1>5. PICK S, d : S = Freed(c) /\ d = FreeReserveMsgIds(c)
  OBVIOUS
<1>6. /\ cl' = [cl EXCEPT ![p] = d]
      /\ path' = [j \in Id |-> IF j \in S THEN 0 ELSE path[j]]
      /\ th' = [th EXCEPT ![t].pc = "notify", ![t].note = Closed(c)]
  BY <1>1, <1>2, <1>4, <1>5 DEF Close
<1>7. /\ c.recv = cl[p].recv /\ c.on = cl[p].on /\ c.dest = cl[p].dest
      /\ c.real \subseteq cl[p].real
  BY <1>1, <1>2 DEF Reserve, FoundFd, ClientType
<1>8. d.on = cl[p].on /\ d.dest = cl[p].dest /\ d.recv = cl[p].recv \ S
  BY <1>1, <1>2, <1>5, <1>7 DEF FreeReserveMsgIds, Reserve, ClientType
<1>9. S \subseteq Closed(c) /\ S \subseteq cl[p].recv
  BY <1>2, <1>5, <1>7 DEF Freed, PoolInv, RealOnes
<1>10. cl'[p] = d /\ \A r \in Proc \ {p} : cl'[r] = cl[r]
  BY <1>2, <1>6
<1>11. /\ th'[t].pc = "notify" /\ th'[t].note = Closed(c)
       /\ \A r \in Proc \ {p} : th'[Only(r)] = th[Only(r)]
  BY <1>2, <1>6 DEF ThreadType
<1>12. path' \in [Id -> Nat] /\ gen' \in [Id -> Nat]
  BY <1>2, <1>3, <1>6
<1>13. ASSUME NEW r \in Proc \ {p}, NEW j \in Id, Has(r, j) PROVE path'[j] = path[j]
  <2>1. ~Has(p, j)
    BY <1>2, <1>13 DEF PoolInv, Exact
  <2>2. j \notin S
    BY <1>4, <1>9, <2>1 DEF Has
  <2> QED BY <1>6, <2>2
<1>14. NoteKept(p)'
  BY <1>1, <1>11 DEF NoteKept
<1>15. \A j \in Id : ~Coming(p, j)
  <2>1. th[t].note = {}
    BY <1>1, <1>2, <1>3 DEF NoteKept, Held
  <2> QED BY <1>1, <1>4, <2>1 DEF Coming
<1>16. ASSUME NEW j \in Id, Served(p, j)
       PROVE  Coming(p, j)' \/ (Served(p, j)' /\ path'[j] = path[j])
  <2>1. CASE j \in S
    BY <1>1, <1>8, <1>9, <1>10, <1>11, <1>16, <2>1 DEF Served, Coming
  <2>2. CASE j \notin S
    BY <1>6, <1>8, <1>10, <1>16, <2>2 DEF Served, Has
  <2> QED BY <2>1, <2>2
<1> QED BY <1>3, <1>10, <1>11, <1>12, <1>13, <1>14, <1>15, <1>16, ClientKeeps

\* Clean gives back everything and will say so.
LEMMA CleanAnswer ==
  ASSUME ThreadsPer = 1, NEW b, Box = {b}, OwnInv, AnswerInv, NEW p \in Proc, Clean(p)
  PROVE  AnswerInv'
<1>1. /\ PoolInv /\ NoteKept(p) /\ cl \in [Proc -> ClientType] /\ Only(p) \in Thread
      /\ gen \in [Id -> Nat] /\ path \in [Id -> Nat] /\ ProcOf(Only(p)) = p
  BY ClientIs
<1>2. /\ cl[p].on = "on" /\ th[Only(p)].pc \in {"idle", "open"}
      /\ cl' = [cl EXCEPT ![p] = [Detached EXCEPT !.on = "notify", !.recv = cl[p].recv, !.dest = cl[p].dest]]
      /\ path' = [i \in Id |-> IF i \in cl[p].recv THEN 0 ELSE path[i]]
      /\ th' = [t \in Thread |-> IF ProcOf(t) = p THEN Idle ELSE th[t]]
      /\ UNCHANGED <<gen, box, cache, fdt, rep>>
  BY <1>1 DEF Clean, FreeMsgIds, FreeMsg, Of, px
<1>3. /\ \A r \in Proc \ {p} : cl'[r] = cl[r]
      /\ cl'[p].on = "notify" /\ cl'[p].recv = cl[p].recv /\ cl'[p].dest = cl[p].dest
  BY <1>1, <1>2 DEF Detached
<1>4. th'[Only(p)] = Idle /\ \A r \in Proc \ {p} : th'[Only(r)] = th[Only(r)]
  BY <1>2, OneThread
<1>5. NoteKept(p)'
  BY <1>4 DEF NoteKept, Idle
<1>6. \A i \in Id : ~Coming(p, i)
  BY <1>1, <1>2 DEF Coming, NoteKept
<1>7. \A i \in Id : Served(p, i) => Coming(p, i)'
  BY <1>3 DEF Served, Has, Coming
<1>8. ASSUME NEW r \in Proc \ {p}, NEW i \in Id, Has(r, i) PROVE path'[i] = path[i]
  <2>1. ~Has(p, i)
    BY <1>1, <1>8 DEF PoolInv, Exact
  <2> QED BY <1>2, <2>1 DEF Has
<1>9. path' \in [Id -> Nat] /\ gen' \in [Id -> Nat]
  BY <1>1, <1>2
<1> QED BY <1>2, <1>3, <1>4, <1>5, <1>6, <1>7, <1>8, <1>9, ClientKeeps

LEMMA ProcAnswer ==
  ASSUME ThreadsPer = 1, NEW b, Box = {b}, OwnInv, AnswerInv, NEW p \in Proc,
         JoinDone(p) \/ CleanNotify(p)
  PROVE  AnswerInv'
<1>1. /\ OwnCall(p) /\ NoteKept(p) /\ cl \in [Proc -> ClientType] /\ cl[p] \in ClientType
      /\ gen \in [Id -> Nat] /\ path \in [Id -> Nat] /\ Only(p) \in Thread
      /\ th \in [Thread -> ThreadType]
      /\ \A r \in Proc \ {p} : Only(r) # Only(p) /\ Only(r) \in Thread
  BY ClientIs
<1>2. th[Only(p)].note = {} /\ UNCHANGED <<gen, path, cache, fdt, rep>>
  BY <1>1 DEF JoinDone, CleanNotify, OwnCall, NoteKept, Only, shm, px
<1>3. th'[Only(p)].note = {} /\ \A r \in Proc \ {p} : th'[Only(r)] = th[Only(r)]
  BY <1>1, <1>2 DEF JoinDone, CleanNotify, Idle, Only
<1>4. NoteKept(p)'
  BY <1>3 DEF NoteKept
<1>5. CASE JoinDone(p)
  <2>1. /\ \A r \in Proc \ {p} : cl'[r] = cl[r]
        /\ cl[p].on = "join" /\ cl'[p].on = "on" /\ cl'[p].recv = cl[p].recv
        /\ cl'[p].dest = cl[p].dest /\ UNCHANGED box
    BY <1>1, <1>5 DEF JoinDone, ClientType
  <2>2. \A i \in Id : ~Coming(p, i)
    BY <1>2, <2>1 DEF Coming
  <2>3. \A i \in Id : Served(p, i) => Served(p, i)' /\ path'[i] = path[i]
    BY <1>2, <2>1 DEF Served, Has
  <2> QED BY <1>1, <1>2, <1>3, <1>4, <2>1, <2>2, <2>3, ClientKeeps
<1>6. CASE CleanNotify(p)
  <2>1. PICK S : S = cl[p].recv
    OBVIOUS
  <2>2. /\ \A r \in Proc \ {p} : cl'[r] = cl[r]
        /\ cl[p].on = "notify" /\ box' = Notified(cl[p], S) /\ S \in SUBSET Id
    BY <1>1, <1>6, <2>1 DEF CleanNotify, ClientType
  <2>3. \/ UNCHANGED box /\ (cl[p].dest = {} \/ S = {})
        \/ cl[p].dest # {} /\ CloseNotice(S) \in Mail /\ Posts(b, CloseNotice(S))
    BY <1>1, <2>2, NotifiedIs DEF AnswerInv
  <2>4. ASSUME NEW i \in Id, Coming(p, i)
        PROVE  \E m \in Mail : Posts(b, m) /\ Closes(m, i)
    BY <1>2, <2>1, <2>3, <2>4 DEF Coming, Closes, CloseNotice
  <2>5. \A i \in Id : ~Served(p, i)
    BY <2>2 DEF Served, Has
  <2>6. CloseNotice(S).kind # "req"
    BY DEF CloseNotice
  <2> QED BY <1>1, <1>2, <1>3, <1>4, <2>2, <2>3, <2>4, <2>5, <2>6, ClientKeeps
<1> QED BY <1>5, <1>6

-----------------------------------------------------------------------------
(* The steps of the chmpx process.                                         *)

\* A message is taken.
LEMMA ReadIs ==
  ASSUME NEW b, Box = {b}, AnswerInv, box[b] # << >>, Taken(b), UNCHANGED <<cl, th>>
  PROVE  /\ box' \in [Box -> Seq(Mail)] /\ box[b][1] = Head(box[b]) /\ Head(box[b]) \in Mail
         /\ 1 \in DOMAIN box[b]
         /\ \A n \in DOMAIN box'[b] : /\ n \in Nat /\ n + 1 \in DOMAIN box[b]
                                      /\ box'[b][n] = box[b][n + 1]
         /\ \A i, n \in Nat : Told(i, n + 1) => Told(i, n)'
         /\ \A i \in Nat : Told(i, 0) => Told(i, 0)' \/ Closes(Head(box[b]), i)
<1>1. b \in Box /\ box \in [Box -> Seq(Mail)] /\ box[b] \in Seq(Mail)
  BY DEF AnswerInv, QueueInv
<1>2. /\ Tail(box[b]) \in Seq(Mail) /\ Head(box[b]) \in Mail
      /\ Len(Tail(box[b])) = Len(box[b]) - 1
      /\ \A j \in 1 .. Len(Tail(box[b])) : Tail(box[b])[j] = box[b][j + 1]
  BY <1>1, HeadTailProperties
<1>3. box'[b] = Tail(box[b]) /\ box' \in [Box -> Seq(Mail)]
  BY <1>1, <1>2 DEF Taken
<1>4. /\ DOMAIN box[b] = 1 .. Len(box[b]) /\ Len(box[b]) \in Nat /\ Len(box[b]) > 0
      /\ DOMAIN box'[b] = 1 .. (Len(box[b]) - 1)
  BY <1>1, <1>2, <1>3
<1>5. \A j \in DOMAIN box[b] \ {1} : /\ j \in Nat /\ j - 1 \in DOMAIN box'[b]
                                     /\ box'[b][j - 1] = box[b][j]
  BY <1>2, <1>3, <1>4
<1>6. \A p \in Proc, i \in Nat : Coming(p, i) => Coming(p, i)'
  BY DEF Coming
<1>7. ASSUME NEW i \in Nat, NEW n \in Nat, Told(i, n + 1) PROVE Told(i, n)'
  <2>1. CASE InMail(i, n + 1)
    <3>1. PICK j \in DOMAIN box[b] : j > n + 1 /\ Closes(box[b][j], i)
      BY <2>1 DEF InMail
    <3>2. j # 1 /\ j - 1 > n
      BY <1>4, <3>1
    <3>3. InMail(i, n)'
      BY <1>1, <1>5, <3>1, <3>2 DEF InMail, Closes
    <3> QED BY <3>3 DEF Told
  <2> QED BY <1>6, <1>7, <2>1 DEF Told
<1>8. ASSUME NEW i \in Nat, Told(i, 0), ~Closes(Head(box[b]), i) PROVE Told(i, 0)'
  <2>1. CASE InMail(i, 0)
    <3>1. PICK j \in DOMAIN box[b] : j > 0 /\ Closes(box[b][j], i)
      BY <2>1 DEF InMail
    <3>2. j # 1 /\ j - 1 > 0
      BY <1>1, <1>4, <1>8, <3>1
    <3>3. InMail(i, 0)'
      BY <1>1, <1>5, <3>1, <3>2 DEF InMail, Closes
    <3> QED BY <3>3 DEF Told
  <2> QED BY <1>6, <1>8, <2>1 DEF Told
<1>9. \A n \in DOMAIN box'[b] : /\ n \in Nat /\ n + 1 \in DOMAIN box[b]
                               /\ box'[b][n] = box[b][n + 1]
  BY <1>2, <1>3, <1>4
<1> QED BY <1>1, <1>2, <1>3, <1>4, <1>7, <1>8, <1>9

\* What was said of the requests behind the message that is taken is still so.
LEMMA MailRead ==
  ASSUME NEW b, Box = {b}, AnswerInv, box[b] # << >>, Taken(b), UNCHANGED <<cl, th>>
  PROVE  MailServed' /\ \A p \in Proc : NoteKept(p)'
<1>1. ASSUME NEW n \in DOMAIN box'[b], box'[b][n].kind = "req"
      PROVE  \E i \in Id : /\ box'[b][n].ids = {i}
                           /\ (Told(i, n)' \/ \E p \in Proc : Served(p, i)')
  <2>1. n \in Nat /\ n + 1 \in DOMAIN box[b] /\ box'[b][n] = box[b][n + 1]
    BY ReadIs
  <2>2. PICK i \in Id : /\ box[b][n + 1].ids = {i}
                       /\ (Told(i, n + 1) \/ \E p \in Proc : Served(p, i))
    BY <1>1, <2>1 DEF AnswerInv, MailServed
  <2>3. CASE Told(i, n + 1)
    <3>1. Told(i, n)'
      BY <2>1, <2>3, ReadIs DEF Id
    <3> QED BY <2>1, <2>2, <3>1
  <2>4. CASE \E p \in Proc : Served(p, i)
    <3>1. \E p \in Proc : Served(p, i)'
      BY <2>4 DEF Served, Has
    <3> QED BY <2>1, <2>2, <3>1
  <2> QED BY <2>2, <2>3, <2>4
<1>2. MailServed'
  BY <1>1 DEF MailServed
<1> QED BY <1>2 DEF AnswerInv, NoteKept

LEMMA CloseNoticeAnswer ==
  ASSUME NEW b, Box = {b}, AnswerInv, PxCltReceiveCloseNotify(b)
  PROVE  AnswerInv'
<1>1. PICK S : S = Head(box[b]).ids
  OBVIOUS
<1>2. /\ box[b] # << >> /\ Taken(b) /\ Head(box[b]).kind = "close" /\ rep[b] = NoReply
      /\ CloseDestMQ(S) /\ UNCHANGED <<gen, path, cl, th, rep>>
  BY <1>1 DEF PxCltReceiveCloseNotify, Ready, shm
<1>3. /\ fdt' = [f \in 1 .. MaxFd |-> IF \E i \in S : cache[i] = f THEN NoQueue ELSE fdt[f]]
      /\ cache' = [i \in Id |-> IF i \in S THEN 0 ELSE cache[i]]
      /\ cache \in [Id -> 0 .. MaxFd] /\ b \in Box /\ FdsExact
  BY <1>2 DEF CloseDestMQ, AnswerInv, QueueInv
<1>4. S \in SUBSET Id /\ box' \in [Box -> Seq(Mail)]
  BY <1>1, <1>2, ReadIs DEF Mail
<1>5. \A i \in Id : Closes(Head(box[b]), i) <=> i \in S
  BY <1>1, <1>2 DEF Closes
<1>6. ASSUME NEW i \in Id, cache'[i] # 0
      PROVE  /\ i \notin S /\ cache'[i] = cache[i] /\ cache[i] \in 1 .. MaxFd
             /\ fdt'[cache[i]] = fdt[cache[i]]
  <2>1. i \notin S /\ cache'[i] = cache[i] /\ cache[i] \in 1 .. MaxFd
    BY <1>3, <1>6, MsgBoxAssumption
  <2>2. ASSUME NEW k \in S, cache[k] = cache[i] PROVE FALSE
    <3>1. cache[k] # 0 /\ k \in Id
      BY <1>4, <1>6, <2>1, <2>2
    <3>2. fdt[cache[k]].id = k /\ fdt[cache[i]].id = i
      BY <1>3, <1>6, <2>1, <3>1 DEF FdsExact
    <3> QED BY <2>1, <2>2, <3>2
  <2> QED BY <1>3, <2>1, <2>2
<1>7. FdsExact'
  <2>1. \A i \in Id : cache'[i] # 0 => fdt'[cache'[i]].id = i
    BY <1>3, <1>6 DEF FdsExact
  <2>2. ASSUME NEW f \in 1 .. MaxFd, fdt'[f] # NoQueue PROVE \E i \in Id : cache'[i] = f
    BY <1>3, <2>2 DEF FdsExact
  <2> QED BY <1>2, <2>1, <2>2 DEF FdsExact
<1>8. QueueInv'
  BY <1>2, <1>3, <1>4, <1>7, MsgBoxAssumption DEF AnswerInv, QueueInv
<1>9. CacheServed'
  <2> SUFFICES ASSUME NEW i \in Id, cache'[i] # 0
               PROVE  \/ Told(i, 0)'
                      \/ fdt'[cache'[i]].gen = path'[i] /\ \E p \in Proc : Served(p, i)'
    BY DEF CacheServed
  <2>1. CASE Told(i, 0)
    BY <1>2, <1>5, <1>6, <2>1, ReadIs DEF Id
  <2>2. CASE fdt[cache[i]].gen = path[i] /\ \E p \in Proc : Served(p, i)
    BY <1>2, <1>6, <2>2 DEF Served, Has
  <2> QED BY <1>6, <2>1, <2>2 DEF AnswerInv, CacheServed
<1> QED BY <1>2, <1>8, <1>9, MailRead DEF AnswerInv

LEMMA JoinNoticeAnswer ==
  ASSUME NEW b, Box = {b}, AnswerInv, PxCltReceiveJoinNotify(b)
  PROVE  AnswerInv'
<1>1. /\ box[b] # << >> /\ Taken(b) /\ Head(box[b]).kind = "join"
      /\ UNCHANGED <<gen, path, cl, th, cache, fdt, rep>>
  BY DEF PxCltReceiveJoinNotify, Ready, shm, px
<1>2. QueueInv'
  <2>1. box' \in [Box -> Seq(Mail)]
    BY <1>1, ReadIs
  <2> QED BY <1>1, <2>1 DEF AnswerInv, QueueInv, FdsExact
<1>3. CacheServed'
  <2>1. \A i \in Id : Told(i, 0) => Told(i, 0)'
    BY <1>1, ReadIs DEF Closes, Id
  <2>2. \A p \in Proc, i \in Id : Served(p, i) => Served(p, i)'
    BY <1>1 DEF Served, Has
  <2> QED BY <1>1, <2>1, <2>2 DEF AnswerInv, CacheServed
<1> QED BY <1>1, <1>2, <1>3, MailRead DEF AnswerInv

\* There are more descriptors than msgids, so a queue that is opened gets one.
LEMMA LowestIs ==
  ASSUME QueueInv, NEW i \in Id, cache[i] = 0
  PROVE  LowestFd \in 1 .. MaxFd /\ fdt[LowestFd] = NoQueue
<1> DEFINE U == {f \in 1 .. MaxFd : fdt[f] # NoQueue}
           F == {f \in 1 .. MaxFd : fdt[f] = NoQueue}
           g == [f \in U |-> fdt[f].id]
<1>1. MaxId \in Nat \ {0} /\ MaxFd \in Nat \ {0} /\ MaxFd >= MaxId /\ Id = 1 .. MaxId
  BY MsgBoxAssumption DEF Id
<1>2. /\ IsFiniteSet(Id) /\ Cardinality(Id) = MaxId
      /\ IsFiniteSet(1 .. MaxFd) /\ Cardinality(1 .. MaxFd) = MaxFd
  <2>1. ASSUME NEW k \in Nat \ {0} PROVE IsFiniteSet(1 .. k) /\ Cardinality(1 .. k) = k
    <3>1. 1 \in Int /\ k \in Int /\ ~(1 > k) /\ k - 1 + 1 = k
      OBVIOUS
    <3> QED BY <3>1, FS_Interval
  <2> QED BY <1>1, <2>1
<1>3. ASSUME NEW f \in U PROVE fdt[f].id \in Id \ {i} /\ cache[fdt[f].id] = f
  <2>1. PICK k \in Id : cache[k] = f
    BY <1>3 DEF QueueInv, FdsExact
  <2>2. f # 0
    BY <1>3
  <2>3. fdt[f].id = k
    BY <2>1, <2>2 DEF QueueInv, FdsExact
  <2> QED BY <2>1, <2>2, <2>3
<1>4. g \in Injection(U, Id \ {i})
  BY <1>3 DEF Injection, IsInjective
<1>5. IsFiniteSet(Id \ {i}) /\ Cardinality(Id \ {i}) = MaxId - 1
  BY <1>2, FS_RemoveElement
<1>6. IsFiniteSet(U) /\ Cardinality(U) <= MaxId - 1
  <2> HIDE DEF U, g
  <2> QED BY <1>4, <1>5, FS_Injection
<1>7. U # 1 .. MaxFd
  <2>1. ~(MaxFd <= MaxId - 1)
    BY <1>1
  <2> HIDE DEF U
  <2> QED BY <1>2, <1>6, <2>1
<1>8. F # {} /\ F \in SUBSET (1 .. MaxFd)
  BY <1>7
<1>9. IsFiniteSet(F) /\ F \in SUBSET Int
  BY <1>1, <1>2, <1>8, FS_Subset
<1>10. Min(F) \in F
  <2> HIDE DEF F
  <2> QED BY <1>8, <1>9, LeastOf
<1>11. LowestFd = Min(F)
  BY DEF LowestFd, QueueInv
<1> QED BY <1>10, <1>11

\* A request is read: its queue is opened by the path of the msgid, which its process
\* still has, or there is a notice behind the request.
LEMMA OpenAnswer ==
  ASSUME NEW b, Box = {b}, AnswerInv, ReplyOpen(b)
  PROVE  AnswerInv'
<1>1. /\ box[b] # << >> /\ Taken(b) /\ Head(box[b]).kind = "req" /\ rep[b] = NoReply
      /\ UNCHANGED <<gen, path, cl, th>> /\ b \in Box
  BY DEF ReplyOpen, Ready, shm
<1>2. /\ box[b][1] = Head(box[b]) /\ 1 \in DOMAIN box[b]
      /\ box' \in [Box -> Seq(Mail)]
  BY <1>1, ReadIs
<1>3. PICK i \in Id : /\ Head(box[b]).ids = {i}
                     /\ (Told(i, 1) \/ \E p \in Proc : Served(p, i))
  BY <1>1, <1>2 DEF AnswerInv, MailServed
<1>4. (CHOOSE j \in Head(box[b]).ids : TRUE) = i
  BY <1>3
<1>5. PICK f \in 0 .. MaxFd :
        /\ OpenDestMQ(i, f)
        /\ rep' = [rep EXCEPT ![b] = IF f = 0 THEN NoReply
                                     ELSE [id |-> i, fd |-> f, gen |-> Head(box[b]).gen]]
  BY <1>4 DEF ReplyOpen
<1>6. /\ rep'[b] = IF f = 0 THEN NoReply ELSE [id |-> i, fd |-> f, gen |-> Head(box[b]).gen]
      /\ DOMAIN rep' = Box
  BY <1>1, <1>5 DEF AnswerInv, QueueInv
<1>7. /\ \A k \in Id : Told(k, 0) => Told(k, 0)'
      /\ Told(i, 1) => Told(i, 0)'
      /\ \A p \in Proc, k \in Id : Served(p, k) => Served(p, k)'
  <2>1. \A k \in Id : ~Closes(Head(box[b]), k)
    BY <1>1 DEF Closes
  <2>2. \A k \in Id : Told(k, 0) => Told(k, 0)'
    BY <1>1, <2>1, ReadIs DEF Id
  <2>3. Told(i, 0 + 1) => Told(i, 0)'
    <3>1. i \in Nat /\ 0 \in Nat
      BY DEF Id
    <3> QED BY <1>1, <3>1, ReadIs
  <2> QED BY <1>1, <2>2, <2>3 DEF Served, Has
<1>8. /\ cache \in [Id -> 0 .. MaxFd] /\ DOMAIN fdt = 1 .. MaxFd /\ FdsExact /\ CacheServed
      /\ \A k \in Id : cache[k] # 0 => cache[k] \in 1 .. MaxFd
  BY MsgBoxAssumption DEF AnswerInv, QueueInv
<1>9. CASE UNCHANGED <<cache, fdt>>
  <2>1. f # 0 => f = cache[i]
    <3>1. CASE cache[i] # 0
      BY <1>5, <3>1 DEF OpenDestMQ
    <3>2. CASE cache[i] = 0 /\ f # 0
      <4>1. cache' = [cache EXCEPT ![i] = f]
        BY <1>5, <3>2 DEF OpenDestMQ
      <4> QED BY <1>8, <1>9, <4>1
    <3> QED BY <3>1, <3>2
  <2>2. FdsExact'
    BY <1>1, <1>6, <1>8, <1>9, <2>1 DEF FdsExact
  <2>3. CacheServed'
    BY <1>1, <1>7, <1>8, <1>9 DEF CacheServed
  <2>4. QueueInv'
    BY <1>1, <1>2, <1>6, <1>8, <1>9, <2>2 DEF AnswerInv, QueueInv
  <2> QED BY <1>1, <2>3, <2>4, MailRead DEF AnswerInv
<1>10. CASE cache[i] = 0 /\ f # 0
  <2>1. /\ f = LowestFd /\ cache' = [cache EXCEPT ![i] = f]
        /\ fdt' = [fdt EXCEPT ![f] = [id |-> i, gen |-> path[i]]]
    BY <1>5, <1>10 DEF OpenDestMQ
  <2>2. f \in 1 .. MaxFd /\ fdt[f] = NoQueue
    BY <1>10, <2>1, LowestIs DEF AnswerInv
  <2>3. /\ cache' \in [Id -> 0 .. MaxFd] /\ DOMAIN fdt' = 1 .. MaxFd
        /\ cache'[i] = f /\ \A k \in Id \ {i} : cache'[k] = cache[k]
        /\ fdt'[f] = [id |-> i, gen |-> path[i]]
        /\ \A e \in (1 .. MaxFd) \ {f} : fdt'[e] = fdt[e]
    BY <1>8, <2>1, <2>2
  <2>4. \A k \in Id : cache[k] # 0 => cache[k] \in (1 .. MaxFd) \ {f}
    <3>1. \A k \in Id : k # NoId
      BY DEF Id, NoId
    <3> QED BY <1>8, <2>2, <3>1 DEF FdsExact, NoQueue
  <2>5. FdsExact'
    <3>1. \A k \in Id : cache'[k] # 0 => fdt'[cache'[k]].id = k
      <4> SUFFICES ASSUME NEW k \in Id, cache'[k] # 0 PROVE fdt'[cache'[k]].id = k
        OBVIOUS
      <4>1. CASE k = i
        BY <2>3, <4>1
      <4>2. CASE k # i
        BY <1>8, <2>3, <2>4, <4>2 DEF FdsExact
      <4> QED BY <4>1, <4>2
    <3>2. ASSUME NEW e \in 1 .. MaxFd, fdt'[e] # NoQueue PROVE \E k \in Id : cache'[k] = e
      <4>1. CASE e = f
        BY <2>3, <4>1
      <4>2. CASE e # f
        <5>1. PICK k \in Id : cache[k] = e
          BY <1>8, <2>3, <3>2, <4>2 DEF FdsExact
        <5>2. k # i
          BY <1>10, <5>1
        <5> QED BY <2>3, <5>1, <5>2
      <4> QED BY <4>1, <4>2
    <3> QED BY <1>6, <1>10, <2>3, <3>1, <3>2 DEF FdsExact
  <2>6. QueueInv'
    BY <1>1, <1>2, <1>6, <2>3, <2>5 DEF AnswerInv, QueueInv
  <2>7. CacheServed'
    <3> SUFFICES ASSUME NEW k \in Id, cache'[k] # 0
                 PROVE  \/ Told(k, 0)'
                        \/ fdt'[cache'[k]].gen = path'[k] /\ \E p \in Proc : Served(p, k)'
      BY DEF CacheServed
    <3>1. CASE k = i
      BY <1>1, <1>3, <1>7, <2>3, <3>1
    <3>2. CASE k # i
      <4>1. cache'[k] = cache[k] /\ cache[k] # 0 /\ fdt'[cache'[k]] = fdt[cache[k]]
        BY <2>3, <2>4, <3>2
      <4> QED BY <1>1, <1>7, <1>8, <4>1 DEF CacheServed
    <3> QED BY <3>1, <3>2
  <2> QED BY <1>1, <2>6, <2>7, MailRead DEF AnswerInv
<1>11. f = 0 \/ cache[i] # 0 => UNCHANGED <<cache, fdt>>
  BY <1>5 DEF OpenDestMQ
<1> QED BY <1>9, <1>10, <1>11

\* What is behind a descriptor and what was said is not touched by an answer, nor by
\* a thread that gets it.
LEMMA SendsAnswer ==
  ASSUME ThreadsPer = 1, OwnInv, AnswerInv,
         UNCHANGED <<gen, path, cl, box, cache, fdt>>,
         \/ UNCHANGED <<th, rep>>
         \/ \E b \in Box : ReplySend(b)
  PROVE  AnswerInv'
<1>1. \A p \in Proc : /\ th'[Only(p)].note = th[Only(p)].note
                      /\ th[Only(p)].pc = "notify" => th'[Only(p)].pc = "notify"
  <2>1. CASE UNCHANGED <<th, rep>>
    BY <2>1
  <2>2. ASSUME NEW b \in Box, ReplySend(b), NEW p \in Proc
        PROVE  /\ th'[Only(p)].note = th[Only(p)].note
               /\ th[Only(p)].pc = "notify" => th'[Only(p)].pc = "notify"
    <3>1. Only(p) \in Thread /\ th[Only(p)] \in ThreadType
      BY ClientIs
    <3> QED BY <2>2, <3>1 DEF ReplySend, Gets, ThreadType
  <2> QED BY <2>1, <2>2
<1>2. DOMAIN rep' = Box /\ \A b \in Box : rep'[b] = rep[b] \/ rep'[b] = NoReply
  BY DEF ReplySend, AnswerInv, QueueInv
<1>3. QueueInv'
  BY <1>2 DEF AnswerInv, QueueInv, FdsExact
<1>4. \A p \in Proc : NoteKept(p)'
  BY <1>1 DEF AnswerInv, NoteKept
<1>5. \A i \in Id, n \in Nat : Told(i, n) => Told(i, n)'
  BY <1>1 DEF Told, InMail, Coming, Closes
<1>6. CacheServed'
  BY <1>5 DEF AnswerInv, CacheServed, Served, Has
<1>7. MailServed'
  <2> SUFFICES ASSUME NEW b \in Box, NEW n \in DOMAIN box[b], box[b][n].kind = "req"
               PROVE  \E i \in Id : /\ box[b][n].ids = {i}
                                    /\ (Told(i, n)' \/ \E p \in Proc : Served(p, i)')
    BY DEF MailServed
  <2>1. PICK i \in Id : box[b][n].ids = {i} /\ (Told(i, n) \/ \E p \in Proc : Served(p, i))
    BY DEF AnswerInv, MailServed
  <2>2. n \in Nat
    BY DEF AnswerInv, QueueInv
  <2> QED BY <1>5, <2>1, <2>2 DEF Served, Has
<1> QED BY <1>3, <1>4, <1>6, <1>7 DEF AnswerInv

LEMMA AnswerInit == ASSUME ThreadsPer = 1, Init PROVE AnswerInv
<1>1. QueueInv
  BY MsgBoxAssumption DEF Init, QueueInv, FdsExact, Mail
<1>2. \A p \in Proc : NoteKept(p)
  BY OneThread DEF Init, NoteKept, Idle
<1> QED BY <1>1, <1>2 DEF Init, AnswerInv, CacheServed, MailServed

LEMMA AnswerStep ==
  ASSUME ThreadsPer = 1, NEW b, Box = {b}, OwnInv, AnswerInv, [Next]_vars
  PROVE  AnswerInv'
<1>1. CASE UNCHANGED vars
  BY <1>1, SendsAnswer DEF vars
<1>2. ASSUME NEW p \in Proc, Initialize(p) \/ JoinDone(p) \/ Clean(p) \/ CleanNotify(p)
      PROVE  AnswerInv'
  BY <1>2, InitializeAnswer, CleanAnswer, ProcAnswer
<1>3. ASSUME NEW t \in Thread, ThreadStep(t) PROVE AnswerInv'
  <2>1. PICK p \in Proc : t = Only(p)
    BY OneThread
  <2> QED BY <1>3, <2>1, GoAnswer, SendAnswer, NotifyAnswer, CloseAnswer DEF ThreadStep
<1>4. CASE PxCltReceiveCloseNotify(b) \/ PxCltReceiveJoinNotify(b) \/ ReplyOpen(b)
  BY <1>4, CloseNoticeAnswer, JoinNoticeAnswer, OpenAnswer
<1>5. CASE ReplySend(b)
  BY <1>5, SendsAnswer DEF ReplySend, shm
<1> QED BY <1>1, <1>2, <1>3, <1>4, <1>5 DEF Next

\* In processes with one thread, and with one msgid of the chmpx process, an answer to
\* a thread that waits for it goes into the queue the thread waits on, unless the
\* notice that the msgid was closed before is still under way: a descriptor kept in
\* the cache is the queue the path names or a notice will remove it.  (With two msgids
\* the notice of the last owner is read while the answer is being sent.)
THEOREM AnswersReach ==
  ASSUME ThreadsPer = 1, \E b : Box = {b}
  PROVE  Spec => ReplyReaches
<1>1. Init => OwnInv /\ AnswerInv
  <2>1. Init => \A p \in Proc : OwnCall(p)
    BY OneThread DEF Init, OwnCall, Detached, Idle, Held
  <2> QED BY <2>1, InitPool, AnswerInit DEF OwnInv
<1>2. OwnInv /\ AnswerInv /\ [Next]_vars => (OwnInv /\ AnswerInv)'
  BY OwnStep, AnswerStep
<1>3. OwnInv /\ AnswerInv /\ [Next]_vars =>
        [\A b \in Box, t \in Thread :
           /\ th[t].pc = "wait" /\ Sending(b, th[t].id)
           /\ rep[b].gen = path[th[t].id] /\ ~CloseUnderWay(th[t].id)
           => Gets(t, fdt[rep[b].fd])]_vars
  <2> SUFFICES ASSUME OwnInv, AnswerInv, [Next]_vars, NEW b \in Box, NEW t \in Thread,
                      th[t].pc = "wait", Sending(b, th[t].id), ~CloseUnderWay(th[t].id)
               PROVE  Gets(t, fdt[rep[b].fd])
    OBVIOUS
  <2>1. PICK i \in Id : th[t].id = i
    BY DEF OwnInv, PoolInv, PoolTypes, ThreadTypes, UsesId
  <2>2. rep[b].id = i /\ rep[b] # NoReply
    BY <2>1 DEF Sending, Id, NoReply, NoId
  <2>3. cache[i] # 0 /\ cache[i] = rep[b].fd /\ fdt[cache[i]].id = i
    BY <2>2 DEF AnswerInv, QueueInv, FdsExact
  <2>4. ~Told(i, 0)
    <3>1. ~InMail(i, 0)
      <4> SUFFICES ASSUME InMail(i, 0) PROVE FALSE
        OBVIOUS
      <4>1. PICK a \in Box : \E j \in DOMAIN box[a] : Closes(box[a][j], i)
        BY DEF InMail
      <4>2. \E m \in ToSet(box[a]) : Closes(m, i)
        BY <4>1 DEF ToSet
      <4> QED BY <2>1, <4>1, <4>2 DEF CloseUnderWay, Closes
    <3>2. \A p \in Proc : ~Coming(p, i)
      BY <2>1, OneThread DEF CloseUnderWay, Coming
    <3> QED BY <3>1, <3>2 DEF Told
  <2>5. fdt[cache[i]].gen = path[i]
    BY <2>3, <2>4 DEF AnswerInv, CacheServed
  <2> QED BY <2>1, <2>3, <2>5 DEF Gets
<1> QED BY <1>1, <1>2, <1>3, PTL DEF Spec, ReplyReaches
=============================================================================
