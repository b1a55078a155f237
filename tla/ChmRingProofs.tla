--------------------------- MODULE ChmRingProofs ---------------------------
(***************************************************************************)
(* Proofs about ChmRing and ChmJoin, which extends it, for every number of *)
(* servers, configuration and bound.                                       *)
(*                                                                         *)
(* TypeOK, CacheOK, StatusOK and SuspendAccurate are proved from one       *)
(* inductive invariant, RingInv.  It says of every process record, given   *)
(* the set D of the servers that are dead: the cached values are right;    *)
(* the table holds only good statuses (a status received is stored without *)
(* IS_SAFE_CHMPXSTS, so what is in flight has to be good too); the own     *)
(* status, and that of every server not dead, is up; of a server that is   *)
(* not dead only that server itself sends a status; and the own suspend    *)
(* bit is right whenever the notice of the last change is handled.  The    *)
(* last but one is what keeps a server from storing a suspend bit that     *)
(* another server made up.                                                 *)
(*                                                                         *)
(* All handlers of ChmRing are functions on process records, and the heart *)
(* of the proof is one lemma per operator: it maps Proc to Proc, the       *)
(* records that besides keep what k says of the client.                    *)
(*                                                                         *)
(* StatusAgreement, where nobody dies and all falls into one second, is    *)
(* proved from ChainInv, which is about the packets themselves: what the   *)
(* next server has stored of somebody else becomes what this one has once  *)
(* it has read what is on the socket between them (see Agreement).         *)
(*                                                                         *)
(* NoOrphanMerge and NoCompleteWhileMerging, where nobody dies and merges  *)
(* are started by commands given to a RING at rest, are proved from        *)
(* MergeInv, about each server's worker and about which packets are never  *)
(* in flight together (see Merges).                                        *)
(*                                                                         *)
(* MembershipKept of ChmJoin, where the operator only switches the suspend *)
(* mode, is proved from OneService: there is one set of servers in service *)
(* that every running server and every packet agrees on (see Membership).  *)
(***************************************************************************)
EXTENDS ChmJoin, TLAPS, FiniteSetTheorems, SequenceTheorems, WellFoundedInduction

GoodStatus == {st \in Status : GoodSt(st)}
GoodEntry  == [st : GoodStatus, bh : Hash, ph : Hash, ts : Nat]
GoodChm    == [id : Server, st : GoodStatus, ts : Nat]

\* A status a server process may have itself.
OwnUp(st) == IsUp(st) /\ st.ring # "SLAVE"

Table(s, D) ==
  {sv \in [Server -> GoodEntry] :
     OwnUp(sv[s].st) /\ \A t \in Server \ D : IsUp(sv[t].st)}

\* A server that is not dead is the only one that sends its status, and nobody
\* says of it that it is down.
GoodPacket(D) ==
  {p \in Packet :
     /\ p.type = "STATUS_CHANGE" =>
          /\ p.chm \in GoodChm
          /\ p.chm.id \notin D => p.dept = p.chm.id /\ IsUp(p.chm.st)
     /\ p.type = "SERVER_DOWN" => p.down \in D}

ProcRec(s, D) ==
  [id : {s}, sv : Table(s, D), bcnt : Nat, oper : BOOLEAN,
   join : BOOLEAN, ok : BOOLEAN, asup : BOOLEAN, sin : BOOLEAN, mdp : BOOLEAN,
   run : BOOLEAN, wk : Nat, wst : {"idle", "wait", "done"},
   cls : BOOLEAN, jn : BOOLEAN,
   link : SUBSET Server, out : [Server -> Seq(GoodPacket(D))]]

Cached(w) == w.bcnt = BaseHashCount(w.sv) /\ w.oper = AnyOperating(w.sv)

\* The own suspend bit says whether a client is attached.
Accurate(w) == (Self(w).sup = "SUSPEND") <=> ~w.join

\* The client's fields, and whether the suspend bit has to be right; and the
\* same with the suspend bit known to be right.
Kept(w, k) ==
  /\ w.join = k.join /\ w.jn = k.jn /\ w.cls = k.cls
  /\ k.acc => Accurate(w)

Sure(k) == [join |-> k.join, jn |-> k.jn, cls |-> k.cls, acc |-> TRUE]

Proc(s, D, k) == {w \in ProcRec(s, D) : Cached(w) /\ Kept(w, k)}

\* The notice of the client's arrival, or of its departure, has been handled.
Informed(w) == IF w.join THEN ~w.jn ELSE ~w.cls

Client(w) == [join |-> w.join, jn |-> w.jn, cls |-> w.cls, acc |-> Informed(w)]

Own(s, D) == {w \in ProcRec(s, D) : Cached(w) /\ (Informed(w) => Accurate(w))}

Dead == {s \in Server : ~up[s]}

\* The inductive invariant.
RingInv ==
  /\ \A s \in Server : node[s] \in Own(s, Dead)
  /\ node \in [Server -> Node]
  /\ up \in [Server -> BOOLEAN]
  /\ ops \in 0 .. MaxOps
  /\ now \in 0 .. MaxTime

-----------------------------------------------------------------------------
(* Status words.                                                           *)

\* Changing the suspend bit changes nothing else.
LEMMA SuspendFlagType ==
  ASSUME NEW st \in Status, NEW b \in BOOLEAN
  PROVE  /\ SuspendFlag(st, b) \in Status
         /\ IsUp(SuspendFlag(st, b)) <=> IsUp(st)
         /\ SuspendFlag(st, b).ring = st.ring
         /\ OwnUp(st) => (SuspendFlag(st, b).sup = "SUSPEND" <=> b)
         /\ IsSafe(SuspendFlag(st, b)) <=> IsSafe(st)
         /\ GoodSt(SuspendFlag(st, b)) <=> IsSafe(st)
BY DEF SuspendFlag, Status, IsUp, IsSafe, GoodSt, Suspend, Live, Ring, Act, Operate,
       IsSrvIn, OwnUp

\* The operators that compute the own status of a server that is up keep it up.
LEMMA OwnStatus ==
  ASSUME NEW st \in Status, OwnUp(st)
  PROVE  /\ CompletedStatus(st) \in Status /\ OwnUp(CompletedStatus(st))
         /\ StartedStatus(st) \in Status   /\ OwnUp(StartedStatus(st))
         /\ AbortedStatus(st) \in Status   /\ OwnUp(AbortedStatus(st))
         /\ SuspendedStatus(st) \in Status /\ OwnUp(SuspendedStatus(st))
         /\ ChangeToSrvIn(st) \in Status   /\ OwnUp(ChangeToSrvIn(st))
         /\ ChangeToSrvOut(st) \in Status  /\ OwnUp(ChangeToSrvOut(st))
         /\ [st EXCEPT !.op = "DONE"] \in Status /\ OwnUp([st EXCEPT !.op = "DONE"])
         /\ [st EXCEPT !.sup = "NOSUP"] \in Status /\ OwnUp([st EXCEPT !.sup = "NOSUP"])
<1>. USE DEF Status, IsUp, OwnUp, Suspend, Live, Ring, Act, Operate, Sts, SuspendFlag
<1>1. CompletedStatus(st) \in Status /\ OwnUp(CompletedStatus(st))
  BY DEF CompletedStatus, SRVIN_UP_NORMAL, SRVOUT_UP_NORMAL
<1>2. StartedStatus(st) \in Status /\ OwnUp(StartedStatus(st))
  BY DEF StartedStatus
<1>3. AbortedStatus(st) \in Status /\ OwnUp(AbortedStatus(st))
  BY DEF AbortedStatus
<1>4. SuspendedStatus(st) \in Status /\ OwnUp(SuspendedStatus(st))
  BY DEF SuspendedStatus
<1>5. ChangeToSrvIn(st) \in Status /\ OwnUp(ChangeToSrvIn(st))
  BY DEF ChangeToSrvIn, SRVIN_UP_PENDING, SRVIN_UP_NORMAL, SRVIN_UP_ADDPENDING
<1>6. ChangeToSrvOut(st) \in Status /\ OwnUp(ChangeToSrvOut(st))
  BY DEF ChangeToSrvOut, SRVIN_UP_DELPENDING, SRVOUT_UP_NORMAL
<1>. QED
  BY <1>1, <1>2, <1>3, <1>4, <1>5, <1>6

\* A server that becomes suspended, or gets a client back, has a safe status.
LEMMA SafeStatuses ==
  ASSUME NEW st \in GoodStatus, OwnUp(st)
  PROVE  IsSafe(SuspendedStatus(st)) /\ IsSafe([st EXCEPT !.sup = "NOSUP"])
BY DEF GoodStatus, GoodSt, Status, IsUp, OwnUp, IsSafe, Suspend, Live, Ring, Act, Operate,
       IsSrvIn, IsSrvOut, SuspendedStatus

\* A server that is declared down, or taken out of service while it is down, is
\* not suspended.
LEMMA OtherStatus ==
  ASSUME NEW st \in GoodStatus
  PROVE  /\ ChangeToDown(st) \in GoodStatus
         /\ ChangeToSrvOut(st) \in GoodStatus
<1>. USE DEF GoodStatus, GoodSt, Status, IsUp, IsSafe, Suspend, Live, Ring, Act,
             Operate, Sts, IsSrvIn, IsSrvOut
<1>1. ChangeToDown(st) \in GoodStatus
  BY DEF ChangeToDown, SRVIN_DOWN_DELETED, SRVIN_DOWN_DELPENDING, SRVOUT_DOWN_NORMAL,
         SRVIN_DOWN_NORMAL
<1>2. ChangeToSrvOut(st) \in GoodStatus
  BY DEF ChangeToSrvOut, SRVIN_UP_DELPENDING, SRVOUT_UP_NORMAL, SRVIN_DOWN_DELPENDING,
         IsOperatingSt
<1>. QED
  BY <1>1, <1>2

\* The statuses the merge gives to servers that are down.
LEMMA DownStatus ==
  /\ {SRVIN_DOWN_DELETED, SRVIN_DOWN_DELPENDING, SRVOUT_DOWN_NORMAL} \subseteq GoodStatus
  /\ ~IsUp(SRVIN_DOWN_DELETED) /\ ~IsUp(SRVIN_DOWN_DELPENDING)
BY DEF GoodStatus, GoodSt, Status, IsUp, IsSafe, Suspend, Live, Ring, Act, Operate, Sts,
       SRVIN_DOWN_DELETED, SRVIN_DOWN_DELPENDING, SRVOUT_DOWN_NORMAL

-----------------------------------------------------------------------------
(* The server table.                                                       *)

\* The record of server s.
LEMMA ProcId ==
  ASSUME NEW D \in SUBSET Server, NEW k, NEW s \in Server, NEW w \in Proc(s, D, k)
  PROVE  w.id = s
BY DEF Proc, ProcRec

\* What is known of it.
LEMMA ProcFacts ==
  ASSUME NEW D \in SUBSET Server, NEW k, NEW s \in Server, NEW w \in Proc(s, D, k)
  PROVE  /\ w.id = s
         /\ w.sv \in Table(s, D)
         /\ \A t \in Server : w.sv[t] \in GoodEntry /\ w.sv[t].st \in GoodStatus
         /\ \A t \in Server \ D : IsUp(w.sv[t].st)
         /\ Self(w) \in GoodStatus /\ IsUp(Self(w)) /\ OwnUp(Self(w))
         /\ w.join \in BOOLEAN /\ w.ok \in BOOLEAN
BY DEF Proc, ProcRec, Table, GoodEntry, Self, OwnUp

\* Nothing is lost by knowing that the suspend bit is right.
LEMMA SureProc ==
  ASSUME NEW D \in SUBSET Server, NEW k, NEW s \in Server
  PROVE  /\ Proc(s, D, Sure(k)) \subseteq Proc(s, D, k)
         /\ \A w \in Proc(s, D, k) : Accurate(w) => w \in Proc(s, D, Sure(k))
BY DEF Proc, Kept, Sure

\* The invariant looks at the table, at what is cached from it and at the
\* fields of the client only.
SameService(v, w) ==
  /\ v.sv = w.sv /\ v.bcnt = w.bcnt /\ v.oper = w.oper
  /\ v.join = w.join /\ v.jn = w.jn /\ v.cls = w.cls

LEMMA SameServiceProc ==
  ASSUME NEW D \in SUBSET Server, NEW k, NEW s \in Server, NEW w \in Proc(s, D, k),
         NEW v \in ProcRec(s, D), SameService(v, w)
  PROVE  v \in Proc(s, D, k)
<1>1. v.id = w.id
  BY DEF Proc, ProcRec
<1>2. Cached(v)
  BY DEF Proc, Cached, SameService
<1>3. Accurate(v) <=> Accurate(w)
  BY <1>1 DEF Accurate, Self, SameService
<1>4. Kept(v, k)
  BY <1>3 DEF Proc, Kept, SameService
<1>. QED
  BY <1>2, <1>4 DEF Proc

\* The result of a method is outside the invariant.
LEMMA GoodFail ==
  ASSUME NEW D \in SUBSET Server, NEW k, NEW s \in Server, NEW w \in Proc(s, D, k)
  PROVE  Good(w) \in Proc(s, D, k) /\ Fail(w) \in Proc(s, D, k)
BY DEF Proc, ProcRec, Cached, Kept, Accurate, Self, Good, Fail

\* A set of servers has a cardinality, at most N.
LEMMA Counts ==
  ASSUME NEW S \in SUBSET Server
  PROVE  IsFiniteSet(S) /\ Cardinality(S) \in Nat /\ Cardinality(S) <= N
<1>1. N \in Nat
  BY NAssumption
<1>2. IsFiniteSet(Server) /\ Cardinality(Server) = N
  BY <1>1, FS_Interval DEF Server
<1>3. IsFiniteSet(S) /\ Cardinality(S) <= N
  BY <1>2, FS_Subset
<1>. QED
  BY <1>3, FS_CardinalityType

\* The cached values have the types of their fields.
LEMMA CachedTypes ==
  ASSUME NEW sv
  PROVE  BaseHashCount(sv) \in Nat /\ AnyOperating(sv) \in BOOLEAN
BY Counts DEF BaseHashCount, AnyOperating

\* A handler may replace the table as a whole, provided it refreshes the cached
\* values and keeps the own suspend bit right ...
LEMMA SetOwnTable ==
  ASSUME NEW D \in SUBSET Server, NEW k, NEW s \in Server,
         NEW w \in Proc(s, D, k), NEW sv \in Table(s, D),
         k.acc => ((sv[s].st.sup = "SUSPEND") <=> ~w.join)
  PROVE  Recount([w EXCEPT !.sv = sv]) \in Proc(s, D, k)
<1>. DEFINE v == Recount([w EXCEPT !.sv = sv])
<1>1. /\ v \in ProcRec(s, D) /\ Cached(v) /\ v.id = s /\ v.sv = sv
      /\ v.join = w.join /\ v.jn = w.jn /\ v.cls = w.cls
  BY CachedTypes DEF Proc, ProcRec, Cached, Recount
<1>. HIDE DEF v
<1>2. Accurate(v) <=> ((sv[s].st.sup = "SUSPEND") <=> ~w.join)
  BY <1>1 DEF Accurate, Self
<1>3. v \in Proc(s, D, k)
  BY <1>1, <1>2 DEF Proc, Kept
<1>. QED
  BY <1>3 DEF v

\* ... or leaves the own status alone ...
LEMMA SetTable ==
  ASSUME NEW D \in SUBSET Server, NEW k, NEW s \in Server,
         NEW w \in Proc(s, D, k), NEW sv \in Table(s, D), sv[s].st = w.sv[s].st
  PROVE  Recount([w EXCEPT !.sv = sv]) \in Proc(s, D, k)
<1>1. k.acc => ((sv[s].st.sup = "SUSPEND") <=> ~w.join)
  BY ProcId DEF Proc, Kept, Accurate, Self
<1>. QED
  BY <1>1, SetOwnTable

\* ... and without refreshing them when no status changes.
LEMMA SameStatuses ==
  ASSUME NEW D \in SUBSET Server, NEW k, NEW s \in Server,
         NEW w \in Proc(s, D, k), NEW sv \in Table(s, D),
         \A t \in Server : sv[t].st = w.sv[t].st
  PROVE  [w EXCEPT !.sv = sv] \in Proc(s, D, k)
<1>. DEFINE v == [w EXCEPT !.sv = sv]
<1>1. BaseHashCount(sv) = BaseHashCount(w.sv) /\ AnyOperating(sv) = AnyOperating(w.sv)
  <2>1. {t \in Server : IsBaseHash(sv[t].st)} = {t \in Server : IsBaseHash(w.sv[t].st)}
    OBVIOUS
  <2>. QED
    BY <2>1 DEF BaseHashCount, AnyOperating
<1>2. /\ v \in ProcRec(s, D) /\ Cached(v)
      /\ v.id = w.id /\ w.id = s /\ v.sv = sv
      /\ v.join = w.join /\ v.jn = w.jn /\ v.cls = w.cls
  BY <1>1 DEF Proc, ProcRec, Cached
<1>. HIDE DEF v
<1>3. Accurate(v) <=> Accurate(w)
  BY <1>2 DEF Accurate, Self
<1>4. v \in Proc(s, D, k)
  BY <1>2, <1>3 DEF Proc, Kept
<1>. QED
  BY <1>4 DEF v

\* A rank is the number of some of the servers before one: below N.
LEMMA RankType ==
  ASSUME NEW t \in Server, NEW S \in SUBSET (1 .. (t - 1))
  PROVE  Cardinality(S) \in 0 .. (N - 1)
<1>1. t \in Int /\ N \in Int /\ 1 <= t /\ t <= N
  BY NAssumption DEF Server
<1>2. IsFiniteSet(1 .. (t - 1)) /\ Cardinality(1 .. (t - 1)) = t - 1
  BY <1>1, FS_Interval
<1>3. IsFiniteSet(S) /\ Cardinality(S) <= t - 1
  BY <1>2, FS_Subset
<1>4. Cardinality(S) \in Nat
  BY <1>3, FS_CardinalityType
<1>. QED
  BY <1>1, <1>3, <1>4

\* The hash values handed out are hash values.
LEMMA UpdateHashTable ==
  ASSUME now \in Nat, NEW D \in SUBSET Server, NEW s \in Server, NEW sv \in Table(s, D)
  PROVE  /\ [t \in Server |->
               [sv[t] EXCEPT !.bh = IF IsBaseHash(sv[t].st) THEN BaseRank(sv, t) ELSE NoHash,
                             !.ts = now]] \in Table(s, D)
         /\ [t \in Server |->
               [sv[t] EXCEPT !.ph = IF IsPendingHash(sv[t].st) THEN PendingRank(sv, t)
                                    ELSE NoHash,
                             !.ts = now]] \in Table(s, D)
<1>1. \A t \in Server : BaseRank(sv, t) \in Hash /\ PendingRank(sv, t) \in Hash
  <2>. SUFFICES ASSUME NEW t \in Server
                PROVE  BaseRank(sv, t) \in Hash /\ PendingRank(sv, t) \in Hash
    OBVIOUS
  <2>1. BaseRank(sv, t) \in 0 .. (N - 1) /\ PendingRank(sv, t) \in 0 .. (N - 1)
    BY RankType DEF BaseRank, PendingRank
  <2>. QED
    BY <2>1, NAssumption DEF Hash
<1>2. NoHash \in Hash
  BY NAssumption DEF NoHash, Hash
<1>. QED
  BY <1>1, <1>2 DEF Table, GoodEntry

\* UpdateHash changes no status, so the cached values stay right.
LEMMA UpdateHashProc ==
  ASSUME now \in Nat, NEW D \in SUBSET Server, NEW k, NEW s \in Server,
         NEW w \in Proc(s, D, k)
  PROVE  UpdatePendingHash(w) \in Proc(s, D, k)
<1>. DEFINE sv == [t \in Server |->
                     [w.sv[t] EXCEPT !.ph = IF IsPendingHash(w.sv[t].st)
                                            THEN PendingRank(w.sv, t) ELSE NoHash,
                                     !.ts = now]]
<1>1. sv \in Table(s, D)
  BY ProcFacts, UpdateHashTable
<1>2. ASSUME NEW t \in Server PROVE sv[t].st = w.sv[t].st
  <2>1. w.sv[t] \in GoodEntry
    BY ProcFacts
  <2>. QED
    BY <2>1 DEF GoodEntry
<1>3. [w EXCEPT !.sv = sv] \in Proc(s, D, k)
  <2>. HIDE DEF sv
  <2>. QED
    BY <1>1, <1>2, SameStatuses
<1>. QED
  BY <1>3 DEF UpdatePendingHash

\* Entries other than the own one may get any good status, one that is up unless
\* the server is dead; the own one stays up.
LEMMA SetEntry ==
  ASSUME NEW D \in SUBSET Server, NEW s \in Server, NEW sv \in Table(s, D),
         NEW t \in Server, NEW e \in GoodEntry,
         t = s => OwnUp(e.st), t \notin D => IsUp(e.st)
  PROVE  [sv EXCEPT ![t] = e] \in Table(s, D)
BY DEF Table, GoodEntry, OwnUp

\* chmpx_lap::SetStatus stores safe statuses only; a caller must not declare the
\* process itself, or a server that is not dead, down, nor a down server suspended.
LEMMA SetStatusProc ==
  ASSUME now \in Nat, NEW D \in SUBSET Server, NEW k, NEW s \in Server,
         NEW w \in Proc(s, D, k), NEW t \in Server, NEW st \in Status,
         t = s => OwnUp(st) /\ (k.acc => ((st.sup = "SUSPEND") <=> ~w.join)),
         t \notin D => IsUp(st), IsUp(st) \/ st.sup = "NOSUP"
  PROVE  SetStatus(w, t, st) \in Proc(s, D, k)
<1>1. CASE ~IsSafe(st)
  BY <1>1, GoodFail DEF SetStatus
<1>2. CASE IsSafe(st)
  <2>. DEFINE e == [w.sv[t] EXCEPT !.st = st, !.ts = now]
              v == [w.sv EXCEPT ![t] = e]
  <2>1. w.sv[t] \in GoodEntry /\ w.sv \in Table(s, D)
    BY ProcFacts
  <2>2. e \in GoodEntry /\ e.st = st
    BY <1>2, <2>1 DEF GoodEntry, GoodStatus, GoodSt
  <2>3. v \in Table(s, D)
    <3>. HIDE DEF e
    <3>. QED
      BY <2>1, <2>2, SetEntry
  <2>4. [w EXCEPT !.sv[t].st = st, !.sv[t].ts = now] = [w EXCEPT !.sv = v]
    BY <2>1 DEF Proc, ProcRec, Table, GoodEntry
  <2>5. v[s].st = IF t = s THEN st ELSE w.sv[s].st
    <3>. HIDE DEF e
    <3>. QED
      BY <2>1, <2>2 DEF Table
  <2>6. Recount([w EXCEPT !.sv = v]) \in Proc(s, D, k)
    <3>. HIDE DEF v
    <3>1. CASE t = s
      BY <2>3, <2>5, <3>1, SetOwnTable
    <3>2. CASE t # s
      BY <2>3, <2>5, <3>2, SetTable
    <3>. QED
      BY <3>1, <3>2
  <2>. QED
    BY <1>2, <2>4, <2>6, GoodFail DEF SetStatus
<1>. QED
  BY <1>1, <1>2

\* chmpxman_lap::SetServerStatus: any good status, for a server that is dead.
LEMMA SetServerStatusProc ==
  ASSUME now \in Nat, NEW D \in SUBSET Server, NEW k, NEW s \in Server,
         NEW w \in Proc(s, D, k), NEW t \in D, t # s, NEW st \in GoodStatus
  PROVE  SetServerStatus(w, t, st) \in Proc(s, D, k)
<1>1. st \in Status /\ (IsUp(st) \/ st.sup = "NOSUP") /\ t \in Server
  BY DEF GoodStatus, GoodSt
<1>. QED
  BY <1>1, ProcId, SetStatusProc DEF SetServerStatus

\* chmpxman_lap::SetSelfStatus: any status that is up; its suspend bit is right.
LEMMA SetSelfStatusProc ==
  ASSUME now \in Nat, NEW D \in SUBSET Server, NEW k, NEW s \in Server,
         NEW w \in Proc(s, D, k), NEW st \in Status, OwnUp(st)
  PROVE  /\ SetSelfStatus(w, st) \in Proc(s, D, k)
         /\ IsSafe(st) => SetSelfStatus(w, st) \in Proc(s, D, Sure(k))
<1>. DEFINE f == SuspendFlag(st, ~w.join)
<1>1. /\ f \in Status /\ IsUp(f) /\ OwnUp(f)
      /\ f.sup = "SUSPEND" <=> ~w.join
      /\ IsSafe(f) <=> IsSafe(st)
  BY ProcFacts, SuspendFlagType DEF OwnUp
<1>2. w.id = s /\ SetSelfStatus(w, st) = SetStatus(w, s, f)
  BY ProcId DEF SetSelfStatus
<1>3. SetStatus(w, s, f) \in Proc(s, D, k)
  <2>. HIDE DEF f
  <2>. QED
    BY <1>1, SetStatusProc
<1>4. ASSUME IsSafe(f) PROVE Accurate(SetStatus(w, s, f))
  <2>. HIDE DEF f
  <2>1. /\ SetStatus(w, s, f).id = s
        /\ SetStatus(w, s, f).join = w.join
        /\ SetStatus(w, s, f).sv[s].st = f
    BY <1>2, <1>4 DEF SetStatus, Good, Recount, Proc, ProcRec, Table, GoodEntry
  <2>. QED
    BY <1>1, <2>1 DEF Accurate, Self
<1>. QED
  BY <1>1, <1>2, <1>3, <1>4, SureProc

\* Stamping an entry, or giving it another hash value, changes no status.
LEMMA StampProc ==
  ASSUME now \in Nat, NEW D \in SUBSET Server, NEW k, NEW s \in Server,
         NEW w \in Proc(s, D, k)
  PROVE  /\ UpdateSelfLastStatusTime(w) \in Proc(s, D, k)
         /\ SetBaseHash(w, w.id, w.sv[w.id].ph) \in Proc(s, D, k)
         /\ Self(SetBaseHash(w, w.id, w.sv[w.id].ph)) = Self(w)
<1>1. w.id = s /\ w.sv[s] \in GoodEntry /\ w.sv \in Table(s, D) /\ OwnUp(w.sv[s].st)
  BY ProcFacts DEF Self
<1>. DEFINE e == [w.sv[s] EXCEPT !.ts = now]
            f == [w.sv[s] EXCEPT !.bh = w.sv[s].ph, !.ts = now]
<1>2. /\ e \in GoodEntry /\ e.st = w.sv[s].st
      /\ f \in GoodEntry /\ f.st = w.sv[s].st
  BY <1>1 DEF GoodEntry
<1>3. [w.sv EXCEPT ![s] = e] \in Table(s, D) /\ [w.sv EXCEPT ![s] = f] \in Table(s, D)
  <2>. HIDE DEF e, f
  <2>. QED
    BY <1>1, <1>2, SetEntry DEF OwnUp
<1>4. \A t \in Server : /\ [w.sv EXCEPT ![s] = e][t].st = w.sv[t].st
                         /\ [w.sv EXCEPT ![s] = f][t].st = w.sv[t].st
  <2>. HIDE DEF e, f
  <2>. QED
    BY <1>1, <1>2 DEF Table
<1>5. /\ [w EXCEPT !.sv = [w.sv EXCEPT ![s] = e]] \in Proc(s, D, k)
      /\ [w EXCEPT !.sv = [w.sv EXCEPT ![s] = f]] \in Proc(s, D, k)
  <2>. HIDE DEF e, f
  <2>. QED
    BY <1>3, <1>4, SameStatuses
<1>6. /\ UpdateSelfLastStatusTime(w) = [w EXCEPT !.sv = [w.sv EXCEPT ![s] = e]]
      /\ SetBaseHash(w, w.id, w.sv[w.id].ph) = [w EXCEPT !.sv = [w.sv EXCEPT ![s] = f]]
  <2>. HIDE DEF e, f
  <2>1. UpdateSelfLastStatusTime(w) = [w EXCEPT !.sv = [w.sv EXCEPT ![s] = e]]
    BY <1>1 DEF UpdateSelfLastStatusTime, Proc, ProcRec, Table, e
  <2>2. SetBaseHash(w, w.id, w.sv[w.id].ph) = [w EXCEPT !.sv = [w.sv EXCEPT ![s] = f]]
    BY <1>1 DEF SetBaseHash, Proc, ProcRec, Table, f
  <2>. QED
    BY <2>1, <2>2
<1>7. Self(SetBaseHash(w, w.id, w.sv[w.id].ph)) = Self(w)
  BY <1>1 DEF SetBaseHash, Self, Proc, ProcRec, Table, GoodEntry
<1>. QED
  BY <1>5, <1>6, <1>7

\* What a server says of itself is stored, and all hash values are computed anew.
LEMMA MergeChmpxSvrsProc ==
  ASSUME now \in Nat, NEW D \in SUBSET Server, NEW k, NEW s \in Server,
         NEW w \in Proc(s, D, k), NEW chm \in GoodChm,
         chm.id # s, chm.id \notin D => IsUp(chm.st)
  PROVE  MergeChmpxSvrs(w, chm) \in Proc(s, D, k)
<1>. DEFINE st == chm.st
            e  == [w.sv[chm.id] EXCEPT !.st = st, !.ts = chm.ts]
            w1 == IF IsLatest(w, chm)
                  THEN [w EXCEPT !.sv[chm.id].st = st, !.sv[chm.id].ts = chm.ts]
                  ELSE w
            v1 == IF IsLatest(w, chm) THEN [w.sv EXCEPT ![chm.id] = e] ELSE w.sv
            v2 == [t \in Server |->
                     [v1[t] EXCEPT !.bh = IF IsBaseHash(v1[t].st)
                                          THEN BaseRank(v1, t) ELSE NoHash,
                                   !.ts = now]]
            v3 == [t \in Server |->
                     [v2[t] EXCEPT !.ph = IF IsPendingHash(v2[t].st)
                                          THEN PendingRank(v2, t) ELSE NoHash,
                                   !.ts = now]]
<1>1. chm.id \in Server /\ chm.st \in GoodStatus /\ chm.ts \in Nat
  BY DEF GoodChm
<1>2. w.id = s /\ w.sv \in Table(s, D) /\ w.sv[chm.id] \in GoodEntry
  BY <1>1, ProcId, ProcFacts
<1>3. st \in GoodStatus /\ (chm.id \notin D => IsUp(st))
  BY <1>1
<1>4. e \in GoodEntry /\ e.st = st
  <2>. HIDE DEF st
  <2>. QED
    BY <1>1, <1>2, <1>3 DEF GoodEntry
<1>5. v1 \in Table(s, D)
  <2>. HIDE DEF e, st
  <2>. QED
    BY <1>1, <1>2, <1>3, <1>4, SetEntry
<1>6. w1 = [w EXCEPT !.sv = v1]
  <2>. HIDE DEF st
  <2>. QED
    BY <1>1, <1>2 DEF Proc, ProcRec, Table, GoodEntry
<1>7. v2 \in Table(s, D)
  <2>. HIDE DEF v1
  <2>. QED
    BY <1>5, UpdateHashTable
<1>8. v3 \in Table(s, D)
  <2>. HIDE DEF v2
  <2>. QED
    BY <1>7, UpdateHashTable
<1>9. UpdatePendingHash(UpdateBaseHash(w1)) = [w EXCEPT !.sv = v3]
  <2>. HIDE DEF v1, w1
  <2>1. UpdateBaseHash(w1) = [w EXCEPT !.sv = v2]
    BY <1>6 DEF UpdateBaseHash, Proc, ProcRec
  <2>. HIDE DEF v2
  <2>. QED
    BY <2>1 DEF UpdatePendingHash, Proc, ProcRec
<1>10. Good(Recount([w EXCEPT !.sv = v3])) \in Proc(s, D, k)
  <2>1. v1[s] = w.sv[s]
    <3>. HIDE DEF e
    <3>. QED
      BY <1>2
  <2>2. v2[s].st = v1[s].st
    <3>. HIDE DEF v1
    <3>. QED
      BY <1>5 DEF Table, GoodEntry
  <2>3. v3[s].st = v2[s].st
    <3>. HIDE DEF v2
    <3>. QED
      BY <1>7 DEF Table, GoodEntry
  <2>. HIDE DEF v3
  <2>. QED
    BY <1>8, <2>1, <2>2, <2>3, SetTable, GoodFail
<1>11. MergeChmpxSvrs(w, chm) = Good(Recount(UpdatePendingHash(UpdateBaseHash(w1))))
  BY <1>2 DEF MergeChmpxSvrs
<1>. QED
  <2>. HIDE DEF v3, w1
  <2>. QED
    BY <1>9, <1>10, <1>11

-----------------------------------------------------------------------------
(* Sockets and packets.                                                    *)

\* Some member of a set of servers comes first on the way around the RING.
LEMMA FirstExists ==
  ASSUME NEW s \in Server, NEW S \in SUBSET Server, S # {}
  PROVE  \E t \in S : \A u \in S : Dist(s, t) <= Dist(s, u)
<1>1. \A t \in Server : Dist(s, t) \in Nat
  BY NAssumption DEF Dist, Server
<1>. DEFINE D == {Dist(s, t) : t \in S}
<1>2. D \subseteq Nat /\ D # {}
  BY <1>1
<1>3. \E x \in D : \A y \in D : ~(<<y, x>> \in OpToRel(<, Nat))
  <2>. HIDE DEF D
  <2>. QED
    BY <1>2, WFMin, NatLessThanWellFounded
<1>4. PICK x \in D : \A y \in D : ~(<<y, x>> \in OpToRel(<, Nat))
  BY <1>3
<1>5. ASSUME NEW y \in D PROVE x <= y
  <2>1. x \in Nat /\ y \in Nat
    BY <1>2
  <2>2. y < x => <<y, x>> \in OpToRel(<, Nat)
    BY <2>1 DEF OpToRel
  <2>3. ~(y < x)
    <3>. HIDE DEF D
    <3>. QED
      BY <1>4, <2>2, Zenon
  <2>. QED
    BY <2>1, <2>3
<1>. QED
  BY <1>5

\* The next server is another server, or none.
LEMMA NextRingType ==
  ASSUME NEW D \in SUBSET Server, NEW k, NEW s \in Server, NEW w \in Proc(s, D, k)
  PROVE  NextRing(w) \in Server \cup {NoServer} /\ NextRing(w) # s
<1>1. CASE UpOthers(w) = {}
  BY <1>1, NAssumption DEF NextRing, NoServer, Server
<1>2. CASE UpOthers(w) # {}
  <2>1. w.id = s
    BY ProcId
  <2>2. UpOthers(w) \subseteq Server /\ s \notin UpOthers(w)
    BY <2>1 DEF UpOthers
  <2>3. \E t \in UpOthers(w) : \A u \in UpOthers(w) : Dist(s, t) <= Dist(s, u)
    BY <1>2, <2>2, FirstExists
  <2>4. NextRing(w) \in UpOthers(w)
    BY <1>2, <2>1, <2>3 DEF NextRing
  <2>. QED
    BY <2>2, <2>4
<1>. QED
  BY <1>1, <1>2

\* A sender has sockets to servers only.
LEMMA LinkedType ==
  ASSUME NEW D \in SUBSET Server, NEW k, NEW s \in Server,
         NEW w \in Proc(s, D, k), NEW d \in Server
  PROVE  Linked(w, d) \in SUBSET Server
<1>1. w.link \in SUBSET Server
  BY DEF Proc, ProcRec
<1>. QED
  BY <1>1 DEF Linked

\* Writing a good packet to a socket.
LEMMA SendProc ==
  ASSUME NEW D \in SUBSET Server, NEW k, NEW s \in Server,
         NEW w \in Proc(s, D, k), NEW d \in Server \cup {NoServer},
         NEW p \in GoodPacket(D)
  PROVE  Send(w, d, p) \in Proc(s, D, k)
<1>1. CASE d = NoServer
  BY <1>1, GoodFail DEF Send
<1>2. CASE d # NoServer /\ ~up[d]
  BY <1>2, GoodFail DEF Send
<1>3. CASE d \in Server /\ d # NoServer /\ up[d]
  <2>1. Append(w.out[d], p) \in Seq(GoodPacket(D))
    BY <1>3 DEF Proc, ProcRec
  <2>2. [w EXCEPT !.out[d] = Append(@, p), !.link = Linked(w, d)] \in Proc(s, D, k)
    <3>. DEFINE v == [w EXCEPT !.out[d] = Append(@, p), !.link = Linked(w, d)]
    <3>1. v \in ProcRec(s, D) /\ SameService(v, w)
      BY <1>3, <2>1, LinkedType DEF Proc, ProcRec, SameService
    <3>2. v \in Proc(s, D, k)
      <4>. HIDE DEF v
      <4>. QED
        BY <3>1, SameServiceProc
    <3>. QED
      BY <3>2
  <2>. QED
    BY <1>3, <2>2, GoodFail DEF Send
<1>. QED
  BY <1>1, <1>2, <1>3

\* ... and to the next server.
LEMMA SendNextProc ==
  ASSUME NEW D \in SUBSET Server, NEW k, NEW s \in Server,
         NEW w \in Proc(s, D, k), NEW p \in GoodPacket(D)
  PROVE  SendNext(w, p) \in Proc(s, D, k)
BY NextRingType, SendProc DEF SendNext

\* The packets a server makes: its own status, or that of a dead server.
LEMMA PacketTypes ==
  ASSUME NEW D \in SUBSET Server, NEW k, NEW s \in Server, NEW w \in Proc(s, D, k)
  PROVE  /\ \A t \in D \cup {s} : StatusChange(w, t) \in GoodPacket(D)
         /\ StatusConfirm(w) \in GoodPacket(D)
         /\ \A t \in D : ServerDown(w, t) \in GoodPacket(D)
         /\ \A c \in Signals : Signal(w, c) \in GoodPacket(D)
<1>7. w.id = s
  BY ProcId
<1>8. \A t \in Server : w.sv[t] \in GoodEntry
  BY ProcFacts
<1>9. IsUp(Self(w))
  BY ProcFacts
<1>1. w.id = s /\ (\A t \in Server : w.sv[t] \in GoodEntry) /\ IsUp(w.sv[s].st)
  BY <1>7, <1>8, <1>9 DEF Self
<1>2. GoodStatus \subseteq Status
  BY DEF GoodStatus
<1>3. ASSUME NEW t \in D \cup {s} PROVE StatusChange(w, t) \in GoodPacket(D)
  <2>1. /\ ChmOf(w, t) \in GoodChm /\ ChmOf(w, t) \in Chm
        /\ ChmOf(w, t).id = t /\ ChmOf(w, t).st = w.sv[t].st
    BY <1>1, <1>2 DEF ChmOf, GoodChm, Chm, GoodEntry
  <2>. QED
    BY <1>1, <2>1 DEF StatusChange, GoodPacket, Packet, Result
<1>4. StatusConfirm(w) \in GoodPacket(D)
  <2>1. ListOf(w) \in [Server -> Slot]
    BY <1>1, <1>2 DEF ListOf, Slot, GoodEntry
  <2>. QED
    BY <1>1, <2>1 DEF StatusConfirm, GoodPacket, Packet, Result
<1>5. ASSUME NEW t \in D PROVE ServerDown(w, t) \in GoodPacket(D)
  BY <1>1 DEF ServerDown, GoodPacket, Packet, Result
<1>6. ASSUME NEW c \in Signals PROVE Signal(w, c) \in GoodPacket(D)
  BY <1>1 DEF Signal, GoodPacket, Packet, Result, Signals
<1>. QED
  BY <1>3, <1>4, <1>5, <1>6

\* A MERGE_* packet of its own to the next server.
LEMMA SignalProc ==
  ASSUME NEW D \in SUBSET Server, NEW k, NEW s \in Server,
         NEW w \in Proc(s, D, k), NEW c \in Signals
  PROVE  SendNext(w, Signal(w, c)) \in Proc(s, D, k)
BY PacketTypes, SendNextProc

\* A packet passed on with another result, or with the status it carries.
LEMMA PassedPacket ==
  ASSUME NEW D \in SUBSET Server, NEW p \in GoodPacket(D)
  PROVE  /\ p.dept \in Server
         /\ \A r \in Result : [p EXCEPT !.res = r] \in GoodPacket(D)
         /\ p.type = "STATUS_CHANGE" =>
              /\ p.chm \in GoodChm
              /\ p.chm.id \notin D => p.dept = p.chm.id /\ IsUp(p.chm.st)
              /\ [p EXCEPT !.chm.st = p.chm.st] \in GoodPacket(D)
         /\ p.type = "SERVER_DOWN" => p.down \in D
BY DEF GoodPacket, Packet, Signals, GoodChm, Chm, GoodStatus

\* Passing a packet on.
LEMMA ForwardProc ==
  ASSUME NEW D \in SUBSET Server, NEW k, NEW s \in Server,
         NEW w \in Proc(s, D, k), NEW p \in GoodPacket(D)
  PROVE  Forward(w, p) \in Proc(s, D, k)
BY GoodFail, SendNextProc DEF Forward

\* The notice of the own status ...
LEMMA NotifyProc ==
  ASSUME NEW D \in SUBSET Server, NEW k, NEW s \in Server, NEW w \in Proc(s, D, k)
  PROVE  Notify(w, s) \in Proc(s, D, k)
BY GoodFail, PacketTypes, SendNextProc DEF Notify

\* The members of a set of servers, in list order, are members of that set: the
\* positions with fewer than i members of S up to them are the first few, and the
\* one after them is a member of S.
LEMMA InOrderType ==
  ASSUME NEW S \in SUBSET Server
  PROVE  InOrder(S) \in Seq(S)
<1>1. N \in Nat /\ N >= 1 /\ N \in Server /\ Cardinality(S) \in Nat
  BY NAssumption, Counts DEF Server
<1>2. ASSUME NEW i \in 1 .. Cardinality(S)
      PROVE  1 + Cardinality({t \in Server : Cardinality(S \cap (1 .. t)) < i}) \in S
  <2>. DEFINE C(t) == Cardinality(S \cap (1 .. t))
              B == {t \in Server : C(t) < i}
  <2>1. \A t \in Nat : IsFiniteSet(S \cap (1 .. t)) /\ C(t) \in Nat
    <3>. SUFFICES ASSUME NEW t \in Nat PROVE IsFiniteSet(S \cap (1 .. t)) /\ C(t) \in Nat
      OBVIOUS
    <3>1. S \cap (1 .. t) \in SUBSET Server
      OBVIOUS
    <3>. QED
      BY <3>1, Counts
  <2>2. N \notin B
    <3>1. S \cap (1 .. N) = S
      BY DEF Server
    <3>. QED
      BY <1>1, <3>1
  <2>3. ASSUME NEW t \in Nat, NEW u \in Nat, t <= u PROVE C(t) <= C(u)
    <3>1. S \cap (1 .. t) \subseteq S \cap (1 .. u)
      BY <2>3
    <3>. QED
      BY <2>1, <3>1, FS_Subset
  <2>4. PICK m \in Server \ B : \A u \in Server \ B : m <= u
    <3>. DEFINE R == Server \ B
    <3>1. R \in SUBSET Server /\ R # {}
      BY <1>1, <2>2
    <3>2. 1 \in Server
      BY <1>1 DEF Server
    <3>3. \A t \in Server : Dist(1, t) = t - 1
      BY <1>1 DEF Dist, Server
    <3>4. \E t \in R : \A u \in R : Dist(1, t) <= Dist(1, u)
      <4>. HIDE DEF R
      <4>. QED
        BY <3>1, <3>2, FirstExists
    <3>5. PICK t \in R : \A u \in R : Dist(1, t) <= Dist(1, u)
      BY <3>4
    <3>6. ASSUME NEW u \in R PROVE t <= u
      <4>1. t \in Server /\ u \in Server /\ Dist(1, t) <= Dist(1, u)
        BY <3>5
      <4>. QED
        BY <3>3, <4>1 DEF Server
    <3>. QED
      BY <3>6
  <2>5. m \in 1 .. N /\ C(m) \in Nat /\ i \in Nat /\ i >= 1 /\ C(m) >= i
    BY <1>1, <2>1, <2>4 DEF Server
  <2>6. B = 1 .. (m - 1)
    <3>1. ASSUME NEW t \in B PROVE t < m
      <4>1. t \in Nat /\ C(t) < i
        BY DEF Server
      <4>2. m \in Nat /\ C(t) \in Nat
        BY <2>1, <2>5, <4>1
      <4>3. m <= t => C(m) <= C(t)
        BY <2>3, <4>1, <4>2
      <4>. QED
        <5>. HIDE DEF C
        <5>. QED
          BY <2>5, <4>1, <4>2, <4>3
    <3>2. ASSUME NEW t \in 1 .. (m - 1) PROVE t \in B
      <4>1. t \in Server /\ t < m
        BY <1>1, <2>5 DEF Server
      <4>. HIDE DEF B
      <4>. QED
        BY <2>4, <2>5, <4>1
    <3>3. \A t \in B : t \in Nat /\ t >= 1
      BY DEF Server
    <3>. HIDE DEF B
    <3>4. m \in Nat
      BY <2>5
    <3>5. B \subseteq 1 .. (m - 1)
      BY <3>1, <3>3, <3>4
    <3>. QED
      BY <3>2, <3>5
  <2>7. Cardinality(B) = m - 1
    <3>1. 1 \in Int /\ m - 1 \in Int /\ (1 > m - 1 => m - 1 = 0)
      BY <2>5
    <3>2. Cardinality(1 .. (m - 1)) = IF 1 > m - 1 THEN 0 ELSE (m - 1) - 1 + 1
      BY <3>1, FS_Interval
    <3>. HIDE DEF B
    <3>. QED
      BY <2>5, <2>6, <3>1, <3>2
  <2>8. m \in S
    <3>. SUFFICES ASSUME m \notin S PROVE FALSE
      OBVIOUS
    <3>1. S \cap (1 .. m) = S \cap (1 .. (m - 1))
      BY <2>5
    <3>2. CASE m = 1
      <4>1. S \cap (1 .. m) = {}
        BY <3>1, <3>2
      <4>. QED
        BY <2>5, <4>1, FS_EmptySet
    <3>3. CASE m # 1
      <4>1. m - 1 \in B
        BY <2>5, <2>6, <3>3
      <4>2. C(m - 1) < i
        BY <4>1
      <4>. QED
        BY <2>5, <3>1, <4>2
    <3>. QED
      BY <3>2, <3>3
  <2>9. 1 + Cardinality(B) = m
    BY <2>5, <2>7
  <2>. QED
    BY <2>8, <2>9
<1>3. InOrder(S) \in [1 .. Cardinality(S) -> S]
  BY <1>2 DEF InOrder
<1>. QED
  BY <1>1, <1>3, SeqDef

\* ... so those of dead servers are dead.
LEMMA InOrderDead ==
  ASSUME NEW D \in SUBSET Server, NEW S \in SUBSET D
  PROVE  InOrder(S) \in Seq(D)
BY InOrderType, SeqMonotonic

\* The notices of the statuses of several servers.
LEMMA NotifyAllProc ==
  ASSUME NEW D \in SUBSET Server, NEW k, NEW s \in Server,
         NEW w \in Proc(s, D, k), NEW q \in Seq(D)
  PROVE  NotifyAll(w, q) \in Proc(s, D, k)
<1>. DEFINE d == NextRing(w)
            c == [i \in DOMAIN q |-> StatusChange(w, q[i])]
<1>1. CASE d = NoServer
  BY <1>1, GoodFail DEF NotifyAll
<1>2. CASE d # NoServer /\ ~up[d]
  BY <1>2, GoodFail DEF NotifyAll
<1>3. CASE d # NoServer /\ up[d]
  <2>1. d \in Server
    BY <1>3, NextRingType
  <2>2. c \in Seq(GoodPacket(D))
    <3>1. DOMAIN q = 1 .. Len(q) /\ Len(q) \in Nat /\ \A i \in 1 .. Len(q) : q[i] \in D
      BY LenProperties, ElementOfSeq
    <3>2. \A i \in 1 .. Len(q) : StatusChange(w, q[i]) \in GoodPacket(D)
      BY <3>1, PacketTypes
    <3>. QED
      BY <3>1, <3>2
  <2>3. w.out[d] \o c \in Seq(GoodPacket(D))
    <3>. HIDE DEF c, d
    <3>1. w.out[d] \in Seq(GoodPacket(D))
      BY <2>1 DEF Proc, ProcRec
    <3>. QED
      BY <2>2, <3>1, ConcatProperties
  <2>4. [w EXCEPT !.out[d] = @ \o c, !.link = Linked(w, d)] \in Proc(s, D, k)
    <3>. DEFINE v == [w EXCEPT !.out[d] = @ \o c, !.link = Linked(w, d)]
    <3>. HIDE DEF c, d
    <3>1. v \in ProcRec(s, D) /\ SameService(v, w)
      BY <2>1, <2>3, LinkedType DEF Proc, ProcRec, SameService
    <3>2. v \in Proc(s, D, k)
      <4>. HIDE DEF v
      <4>. QED
        BY <3>1, SameServiceProc
    <3>. QED
      BY <3>2
  <2>. QED
    BY <1>3, <2>4, GoodFail DEF NotifyAll
<1>. QED
  BY <1>1, <1>2, <1>3

\* Closing every socket but the one to d.
LEMMA RechainProc ==
  ASSUME NEW D \in SUBSET Server, NEW k, NEW s \in Server,
         NEW w \in Proc(s, D, k), NEW d \in Server
  PROVE  RechainRing(w, d) \in Proc(s, D, k)
<1>. DEFINE v == [w EXCEPT !.link = {d}]
<1>1. v \in ProcRec(s, D) /\ SameService(v, w)
  BY DEF Proc, ProcRec, SameService
<1>2. v \in Proc(s, D, k)
  <2>. HIDE DEF v
  <2>. QED
    BY <1>1, SameServiceProc
<1>. QED
  BY <1>2 DEF RechainRing

\* Choosing the server to be chained to.
LEMMA CheckRechainProc ==
  ASSUME NEW D \in SUBSET Server, NEW k, NEW s \in Server,
         NEW w \in Proc(s, D, k), NEW new \in Server \cup {NoServer}
  PROVE  CheckRechainRing(w, new) \in Proc(s, D, k)
<1>. DEFINE cur  == NextRing(w)
            seen == ({cur} \cup {new}) \ {NoServer, w.id}
            d    == CHOOSE t \in seen : \A u \in seen : Dist(w.id, t) <= Dist(w.id, u)
<1>1. CASE seen = {}
  BY <1>1 DEF CheckRechainRing
<1>2. CASE seen # {}
  <2>1. w.id = s /\ seen \in SUBSET Server
    BY ProcId, NextRingType
  <2>2. d \in Server
    <3>. HIDE DEF seen
    <3>1. \E t \in seen : \A u \in seen : Dist(w.id, t) <= Dist(w.id, u)
      BY <1>2, <2>1, FirstExists
    <3>2. d \in seen
      BY <3>1
    <3>. QED
      BY <2>1, <3>2
  <2>3. RechainRing(w, d) \in Proc(s, D, k)
    <3>. HIDE DEF d
    <3>. QED
      BY <2>2, RechainProc
  <2>. QED
    BY <2>3 DEF CheckRechainRing
<1>. QED
  BY <1>1, <1>2

\* Dropping the socket to a server.
LEMMA UnlinkProc ==
  ASSUME NEW D \in SUBSET Server, NEW k, NEW s \in Server,
         NEW w \in Proc(s, D, k), NEW t
  PROVE  [w EXCEPT !.link = @ \ {t}] \in Proc(s, D, k)
<1>. DEFINE v == [w EXCEPT !.link = @ \ {t}]
<1>1. v \in ProcRec(s, D) /\ SameService(v, w)
  BY DEF Proc, ProcRec, SameService
<1>2. v \in Proc(s, D, k)
  <2>. HIDE DEF v
  <2>. QED
    BY <1>1, SameServiceProc
<1>. QED
  BY <1>2

\* The flags a handler sets besides the table.
LEMMA FlagsProc ==
  ASSUME NEW D \in SUBSET Server, NEW k, NEW s \in Server,
         NEW w \in Proc(s, D, k), NEW b \in BOOLEAN
  PROVE  /\ [w EXCEPT !.run = b] \in Proc(s, D, k)
         /\ [w EXCEPT !.mdp = b] \in Proc(s, D, k)
         /\ [w EXCEPT !.sin = b] \in Proc(s, D, k)
         /\ [w EXCEPT !.asup = b] \in Proc(s, D, k)
         /\ [w EXCEPT !.asup = b, !.sin = FALSE] \in Proc(s, D, k)
         /\ w.run \in BOOLEAN /\ w.mdp \in BOOLEAN
<1>. USE DEF Proc, ProcRec, Cached, Kept, Accurate, Self
<1>1. [w EXCEPT !.run = b] \in Proc(s, D, k)
  OBVIOUS
<1>2. [w EXCEPT !.mdp = b] \in Proc(s, D, k)
  OBVIOUS
<1>3. [w EXCEPT !.sin = b] \in Proc(s, D, k)
  OBVIOUS
<1>4. [w EXCEPT !.asup = b] \in Proc(s, D, k)
  OBVIOUS
<1>5. [w EXCEPT !.asup = b, !.sin = FALSE] \in Proc(s, D, k)
  OBVIOUS
<1>6. w.run \in BOOLEAN /\ w.mdp \in BOOLEAN
  OBVIOUS
<1>. HIDE DEF Proc, ProcRec, Cached, Kept, Accurate, Self
<1>. QED
  BY <1>1, <1>2, <1>3, <1>4, <1>5, <1>6

\* The merge worker's counters.
LEMMA WorkProc ==
  ASSUME NEW D \in SUBSET Server, NEW k, NEW s \in Server, NEW w \in Proc(s, D, k)
  PROVE  /\ [w EXCEPT !.run = TRUE, !.wk = @ + 1] \in Proc(s, D, k)
         /\ \A x \in {"idle", "wait", "done"} :
              /\ [w EXCEPT !.wst = x] \in Proc(s, D, k)
              /\ [w EXCEPT !.wst = x, !.run = FALSE] \in Proc(s, D, k)
         /\ w.wk > 0 => /\ [w EXCEPT !.wk = @ - 1, !.run = FALSE] \in Proc(s, D, k)
                        /\ [w EXCEPT !.wk = @ - 1, !.wst = "wait"] \in Proc(s, D, k)
<1>. USE DEF Proc, ProcRec, Cached, Kept, Accurate, Self
<1>1. [w EXCEPT !.run = TRUE, !.wk = @ + 1] \in Proc(s, D, k)
  <2>1. w.wk + 1 \in Nat
    OBVIOUS
  <2>. QED
    BY <2>1
<1>2. ASSUME NEW x \in {"idle", "wait", "done"}
      PROVE  /\ [w EXCEPT !.wst = x] \in Proc(s, D, k)
             /\ [w EXCEPT !.wst = x, !.run = FALSE] \in Proc(s, D, k)
  OBVIOUS
<1>3. ASSUME w.wk > 0
      PROVE  /\ [w EXCEPT !.wk = @ - 1, !.run = FALSE] \in Proc(s, D, k)
             /\ [w EXCEPT !.wk = @ - 1, !.wst = "wait"] \in Proc(s, D, k)
  <2>1. w.wk - 1 \in Nat
    BY <1>3
  <2>. QED
    BY <2>1
<1>. HIDE DEF Proc, ProcRec, Cached, Kept, Accurate, Self
<1>. QED
  BY <1>1, <1>2, <1>3

-----------------------------------------------------------------------------
(* The loops over the servers that are down.                               *)

\* The servers a process believes down are dead; it is not among them itself.
LEMMA WithStatusDown ==
  ASSUME NEW D \in SUBSET Server, NEW k, NEW s \in Server,
         NEW w \in Proc(s, D, k), NEW st, ~IsUp(st)
  PROVE  WithStatus(w, st) \in SUBSET D /\ s \notin WithStatus(w, st)
BY ProcFacts DEF WithStatus, Self

\* The GetChmpxIdByStatus loops.
LEMMA ReplaceDownProc ==
  ASSUME now \in Nat, NEW D \in SUBSET Server, NEW k, NEW s \in Server,
         NEW w \in Proc(s, D, k), NEW old, ~IsUp(old),
         NEW new \in GoodStatus
  PROVE  ReplaceDown(w, old, new) \in Proc(s, D, k)
<1>. DEFINE S  == WithStatus(w, old)
            sv == [t \in Server |-> IF t \in S THEN [w.sv[t] EXCEPT !.st = new, !.ts = now]
                                               ELSE w.sv[t]]
<1>1. S \in SUBSET D /\ s \notin S
  BY WithStatusDown
<1>2. w.sv \in Table(s, D) /\ \A t \in Server : w.sv[t] \in GoodEntry
  BY ProcFacts
<1>3. sv \in Table(s, D) /\ sv[s].st = w.sv[s].st
  <2>. HIDE DEF S
  <2>. QED
    BY <1>1, <1>2 DEF Table, GoodEntry
<1>4. NotifyAll(Recount([w EXCEPT !.sv = sv]), InOrder(S)) \in Proc(s, D, k)
  <2>. HIDE DEF S, sv
  <2>. QED
    BY <1>1, <1>2, <1>3, SetTable, InOrderDead, NotifyAllProc
<1>. QED
  BY <1>4, GoodFail DEF ReplaceDown

\* ChangeDownSvrStatusByMerge.
LEMMA ChangeDownSvrProc ==
  ASSUME now \in Nat, NEW D \in SUBSET Server, NEW k, NEW s \in Server,
         NEW w \in Proc(s, D, k), NEW type
  PROVE  ChangeDownSvr(w, type) \in Proc(s, D, k)
<1>. DEFINE S  == {t \in Server : /\ IsSrvIn(w.sv[t].st)
                                  /\ ~IsUp(w.sv[t].st)
                                  /\ w.sv[t].st.act = "DELETE"
                                  /\ type = "START" => w.sv[t].st.op # "DONE"}
            new == IF type = "START" THEN SRVIN_DOWN_DELETED ELSE SRVOUT_DOWN_NORMAL
            sv == [t \in Server |->
                     IF t \notin S THEN w.sv[t]
                     ELSE [w.sv[t] EXCEPT !.st = new, !.ts = now,
                                          !.bh = IF type = "COMPLETE" THEN NoHash ELSE @]]
            w1 == Recount([w EXCEPT !.sv = sv])
<1>1. S \in SUBSET D /\ s \notin S
  BY ProcFacts DEF Self
<1>2. w.sv \in Table(s, D) /\ \A t \in Server : w.sv[t] \in GoodEntry
  BY ProcFacts
<1>3. new \in GoodStatus /\ NoHash \in Hash
  BY DownStatus, NAssumption DEF NoHash, Hash
<1>4. sv \in Table(s, D) /\ sv[s].st = w.sv[s].st
  <2>. HIDE DEF S, new
  <2>. QED
    BY <1>1, <1>2, <1>3 DEF Table, GoodEntry
<1>5. w1 \in Proc(s, D, k)
  <2>. HIDE DEF sv
  <2>. QED
    BY <1>1, <1>4, SetTable
<1>6. NotifyAll(UpdatePendingHash(w1), InOrder(S)) \in Proc(s, D, k)
  <2>. HIDE DEF S, w1
  <2>. QED
    BY <1>1, <1>5, UpdateHashProc, InOrderDead, NotifyAllProc
<1>7. ChangeDownSvr(w, type) =
        IF S = {} THEN Good(w) ELSE Good(NotifyAll(UpdatePendingHash(w1), InOrder(S)))
  BY DEF ChangeDownSvr
<1>. QED
  <2>. HIDE DEF S, w1
  <2>. QED
    BY <1>6, <1>7, GoodFail

\* The loops at the departure server of MERGE_COMPLETE.
LEMMA ServiceOutDownProc ==
  ASSUME now \in Nat, NEW D \in SUBSET Server, NEW k, NEW s \in Server,
         NEW w \in Proc(s, D, k)
  PROVE  ServiceOutDown(w) \in Proc(s, D, k)
<1>. DEFINE S  == WithStatus(w, SRVIN_DOWN_DELETED)
            T  == WithStatus(w, SRVIN_DOWN_DELPENDING)
            sv == [t \in Server |->
                     IF t \notin S \cup T THEN w.sv[t]
                     ELSE [w.sv[t] EXCEPT !.st = SRVOUT_DOWN_NORMAL, !.bh = NoHash,
                                          !.ts = now]]
<1>1. S \in SUBSET D /\ T \in SUBSET D /\ s \notin S \cup T
  BY WithStatusDown, DownStatus
<1>2. w.sv \in Table(s, D) /\ \A t \in Server : w.sv[t] \in GoodEntry
  BY ProcFacts
<1>3. SRVOUT_DOWN_NORMAL \in GoodStatus /\ NoHash \in Hash
  BY DownStatus, NAssumption DEF NoHash, Hash
<1>4. sv \in Table(s, D) /\ sv[s].st = w.sv[s].st
  <2>. HIDE DEF S, T
  <2>. QED
    BY <1>1, <1>2, <1>3 DEF Table, GoodEntry
<1>5. InOrder(S) \o InOrder(T) \in Seq(D)
  <2>. HIDE DEF S, T
  <2>. QED
    BY <1>1, InOrderDead, ConcatProperties
<1>6. NotifyAll(Recount([w EXCEPT !.sv = sv]), InOrder(S) \o InOrder(T)) \in Proc(s, D, k)
  <2>. HIDE DEF S, T, sv
  <2>. QED
    BY <1>4, <1>5, SetTable, NotifyAllProc
<1>. QED
  BY <1>6, GoodFail DEF ServiceOutDown

-----------------------------------------------------------------------------
(* The steps of a merge.                                                   *)

\* The own status as the handlers rewrite it.
LEMMA OwnStatusProc ==
  ASSUME now \in Nat, NEW D \in SUBSET Server, NEW k, NEW s \in Server,
         NEW w \in Proc(s, D, k)
  PROVE  /\ SetSelfStatus(w, StartedStatus(Self(w))) \in Proc(s, D, k)
         /\ SetSelfStatus(w, AbortedStatus(Self(w))) \in Proc(s, D, k)
         /\ SetSelfStatus(w, SuspendedStatus(Self(w))) \in Proc(s, D, k)
         /\ SetSelfStatus(w, ChangeToSrvIn(Self(w))) \in Proc(s, D, k)
         /\ SetSelfStatus(w, ChangeToSrvOut(Self(w))) \in Proc(s, D, k)
         /\ SetSelfStatus(w, [Self(w) EXCEPT !.op = "DONE"]) \in Proc(s, D, k)
         /\ SetSelfStatus(w, [Self(w) EXCEPT !.sup = "NOSUP"]) \in Proc(s, D, k)
         /\ SetSelfStatus(w, SRVIN_UP_PENDING) \in Proc(s, D, k)
<1>1. Self(w) \in Status /\ OwnUp(Self(w))
  BY ProcFacts DEF GoodStatus
<1>2. SRVIN_UP_PENDING \in Status /\ OwnUp(SRVIN_UP_PENDING)
  BY DEF SRVIN_UP_PENDING, Sts, Status, IsUp, OwnUp, Live, Ring, Act, Operate, Suspend
<1>. QED
  BY <1>1, <1>2, OwnStatus, SetSelfStatusProc

\* A call that is made only after the one before it has succeeded: the operators
\* that send the own status.
LEMMA PublishProc ==
  ASSUME now \in Nat, NEW D \in SUBSET Server, NEW k, NEW s \in Server,
         NEW w \in Proc(s, D, k)
  PROVE  /\ NotifySelf(w) \in Proc(s, D, k)
         /\ Renew(w) \in Proc(s, D, k)
         /\ SendConfirm(w) \in Proc(s, D, k)
         /\ PublishSelf(w) \in Proc(s, D, k)
<1>1. /\ w.id = s
      /\ UpdateSelfLastStatusTime(w) \in Proc(s, D, k)
      /\ UpdatePendingHash(w) \in Proc(s, D, k)
  BY ProcFacts, StampProc, UpdateHashProc
<1>2. \A v \in Proc(s, D, k) : v.id = s /\ NotifySelf(v) \in Proc(s, D, k)
  BY ProcFacts, NotifyProc DEF NotifySelf
<1>3. Renew(w) \in Proc(s, D, k)
  BY <1>1, PacketTypes, SendNextProc DEF Renew
<1>4. SendConfirm(w) \in Proc(s, D, k)
  BY PacketTypes, SendNextProc DEF SendConfirm
<1>5. PublishSelf(w) \in Proc(s, D, k)
  BY <1>1, <1>2 DEF PublishSelf
<1>. QED
  BY <1>2, <1>3, <1>4, <1>5

\* A signal sent after a successful call.
LEMMA ThenSignalProc ==
  ASSUME NEW D \in SUBSET Server, NEW k, NEW s \in Server,
         NEW w \in Proc(s, D, k), NEW c \in Signals
  PROVE  ThenSignal(w, c) \in Proc(s, D, k)
BY SignalProc DEF ThenSignal

\* MergeComplete: new base hash, new own status, notice.
LEMMA MergeCompleteProc ==
  ASSUME now \in Nat, NEW D \in SUBSET Server, NEW k, NEW s \in Server,
         NEW w \in Proc(s, D, k)
  PROVE  MergeComplete(w) \in Proc(s, D, k)
<1>1. ASSUME NEW v \in Proc(s, D, k) PROVE Completed(v) \in Proc(s, D, k)
  BY StampProc, PublishProc DEF Completed
<1>2. ASSUME NEW v \in Proc(s, D, k) PROVE CompleteSelf(v) \in Proc(s, D, k)
  <2>. DEFINE wb == SetBaseHash(v, v.id, v.sv[v.id].ph)
              st == CompletedStatus(Self(v))
  <2>1. wb \in Proc(s, D, k)
    BY StampProc
  <2>2. st \in Status /\ OwnUp(st)
    BY ProcFacts, OwnStatus DEF GoodStatus
  <2>3. SetSelfStatus(wb, st) \in Proc(s, D, k)
    <3>. HIDE DEF wb, st
    <3>. QED
      BY <2>1, <2>2, SetSelfStatusProc
  <2>4. Completed(SetSelfStatus(wb, st)) \in Proc(s, D, k)
    <3>. HIDE DEF wb, st
    <3>. QED
      BY <2>3, <1>1
  <2>. QED
    BY <2>4, GoodFail DEF CompleteSelf
<1>. QED
  BY <1>2, ChangeDownSvrProc DEF MergeComplete

\* RequestMergeComplete, alone or on the RING.
LEMMA RequestMergeCompleteProc ==
  ASSUME now \in Nat, NEW D \in SUBSET Server, NEW k, NEW s \in Server,
         NEW w \in Proc(s, D, k)
  PROVE  SendMergeComplete(w) \in Proc(s, D, k) /\ RequestMergeComplete(w) \in Proc(s, D, k)
<1>1. MergeComplete([w EXCEPT !.mdp = FALSE]) \in Proc(s, D, k)
  BY FlagsProc, MergeCompleteProc
<1>2. "MERGE_COMPLETE" \in Signals
  BY DEF Signals
<1>3. SendMergeComplete(w) \in Proc(s, D, k)
  BY <1>2, PublishProc, ThenSignalProc DEF SendMergeComplete
<1>. QED
  BY <1>1, <1>3, GoodFail DEF RequestMergeComplete

\* is_merge_done_processing.
LEMMA AwaitCompleteProc ==
  ASSUME NEW D \in SUBSET Server, NEW k, NEW s \in Server, NEW w \in Proc(s, D, k)
  PROVE  AwaitComplete(w) \in Proc(s, D, k)
BY DEF AwaitComplete, Proc, ProcRec, Cached, Kept, Accurate, Self

\* MergeDone: the own status becomes DONE.
LEMMA MergeDoneProc ==
  ASSUME now \in Nat, NEW D \in SUBSET Server, NEW k, NEW s \in Server,
         NEW w \in Proc(s, D, k)
  PROVE  MergeDone(w) \in Proc(s, D, k)
<1>1. ASSUME NEW v \in Proc(s, D, k) PROVE CompleteAgain(v) \in Proc(s, D, k)
  BY RequestMergeCompleteProc, GoodFail DEF CompleteAgain
<1>2. ASSUME NEW v \in Proc(s, D, k) PROVE AnnounceDone(v) \in Proc(s, D, k)
  BY <1>1, RequestMergeCompleteProc, PublishProc, AwaitCompleteProc, GoodFail DEF AnnounceDone
<1>3. AnnounceDone(SetSelfStatus(w, [Self(w) EXCEPT !.op = "DONE"])) \in Proc(s, D, k)
  BY <1>2, OwnStatusProc
<1>. QED
  BY <1>3, GoodFail DEF MergeDone

\* MergeStart: the own status becomes DOING.
LEMMA MergeStartProc ==
  ASSUME now \in Nat, NEW D \in SUBSET Server, NEW k, NEW s \in Server,
         NEW w \in Proc(s, D, k)
  PROVE  MergeStart(w) \in Proc(s, D, k)
<1>1. ASSUME NEW v \in Proc(s, D, k) PROVE RunMerge(v) \in Proc(s, D, k)
  BY WorkProc, MergeDoneProc, GoodFail DEF RunMerge
<1>2. ASSUME NEW v \in Proc(s, D, k) PROVE Started(v) \in Proc(s, D, k)
  BY <1>1, PublishProc, ChangeDownSvrProc, GoodFail DEF Started
<1>. QED
  BY <1>2, OwnStatusProc, GoodFail DEF MergeStart

\* RequestMergeStart.
LEMMA RequestMergeStartProc ==
  ASSUME now \in Nat, NEW D \in SUBSET Server, NEW k, NEW s \in Server,
         NEW w \in Proc(s, D, k)
  PROVE  RequestMergeStart(w) \in Proc(s, D, k)
BY GoodFail, MergeStartProc, StampProc, PublishProc DEF RequestMergeStart

\* MergeAbort: the own status is reset.
LEMMA MergeAbortProc ==
  ASSUME now \in Nat, NEW D \in SUBSET Server, NEW k, NEW s \in Server,
         NEW w \in Proc(s, D, k)
  PROVE  MergeAbort(w) \in Proc(s, D, k)
<1>. DEFINE w1 == [w EXCEPT !.run = IF DoMerge THEN FALSE ELSE @]
<1>1. w1 \in Proc(s, D, k)
  <2>1. (IF DoMerge THEN FALSE ELSE w.run) \in BOOLEAN
    BY FlagsProc
  <2>2. w1 = [w EXCEPT !.run = IF DoMerge THEN FALSE ELSE w.run]
    OBVIOUS
  <2>. QED
    BY <2>1, <2>2, FlagsProc
<1>2. AbortDown(PublishSelf(SetSelfStatus(w1, AbortedStatus(Self(w1))))) \in Proc(s, D, k)
  <2>. HIDE DEF w1
  <2>1. PublishSelf(SetSelfStatus(w1, AbortedStatus(Self(w1)))) \in Proc(s, D, k)
    BY <1>1, OwnStatusProc, PublishProc
  <2>. QED
    BY <2>1, ChangeDownSvrProc DEF AbortDown
<1>. QED
  BY <1>2 DEF MergeAbort

\* RequestMergeAbort.
LEMMA RequestMergeAbortProc ==
  ASSUME now \in Nat, NEW D \in SUBSET Server, NEW k, NEW s \in Server,
         NEW w \in Proc(s, D, k)
  PROVE  RequestMergeAbort(w) \in Proc(s, D, k)
<1>1. "MERGE_ABORT" \in Signals
  BY DEF Signals
<1>. QED
  BY <1>1, GoodFail, MergeAbortProc, SignalProc DEF RequestMergeAbort

-----------------------------------------------------------------------------
(* Requests and events.                                                    *)

\* RequestServiceIn.
LEMMA RequestServiceInProc ==
  ASSUME now \in Nat, NEW D \in SUBSET Server, NEW k, NEW s \in Server,
         NEW w \in Proc(s, D, k)
  PROVE  RequestServiceIn(w) \in Proc(s, D, k)
BY OwnStatusProc, PublishProc, GoodFail DEF RequestServiceIn

\* RequestServiceOut, of the process itself or of a dead server.
LEMMA RequestServiceOutProc ==
  ASSUME now \in Nat, NEW D \in SUBSET Server, NEW k, NEW s \in Server,
         NEW w \in Proc(s, D, k), NEW t \in D \cup {s}
  PROVE  RequestServiceOut(w, t) \in Proc(s, D, k)
<1>. DEFINE st == ChangeToSrvOut(w.sv[t].st)
            w1 == IF t = w.id THEN SetSelfStatus(w, st) ELSE SetServerStatus(w, t, st)
<1>1. w1 \in Proc(s, D, k)
  <2>4. t \in Server /\ w.sv[t].st \in GoodStatus
    BY ProcFacts
  <2>1. st \in GoodStatus /\ w.id = s
    BY <2>4, ProcId, OtherStatus
  <2>2. t = s => SetSelfStatus(w, st) \in Proc(s, D, k)
    BY <2>1, OwnStatusProc DEF Self
  <2>3. t # s => SetServerStatus(w, t, st) \in Proc(s, D, k)
    BY <2>1, SetServerStatusProc
  <2>. QED
    BY <2>1, <2>2, <2>3
<1>2. ASSUME NEW v \in Proc(s, D, k) PROVE SendServiceOut(v, t) \in Proc(s, D, k)
  BY PacketTypes, SendNextProc, GoodFail DEF SendServiceOut
<1>3. ASSUME NEW v \in Proc(s, D, k) PROVE AutoComplete(v) \in Proc(s, D, k)
  BY RequestMergeCompleteProc DEF AutoComplete
<1>4. ASSUME NEW v \in Proc(s, D, k) PROVE PublishOut(v, t) \in Proc(s, D, k)
  BY <1>2, <1>3, UpdateHashProc DEF PublishOut
<1>5. PublishOut(w1, t) \in Proc(s, D, k)
  BY <1>1, <1>4
<1>. QED
  BY <1>5, GoodFail DEF RequestServiceOut

\* RequestMergeSuspend and RequestMergeNoSuspend.
LEMMA RequestMergeSuspendProc ==
  ASSUME NEW D \in SUBSET Server, NEW k, NEW s \in Server, NEW w \in Proc(s, D, k)
  PROVE  RequestMergeSuspend(w) \in Proc(s, D, k) /\ RequestMergeNoSuspend(w) \in Proc(s, D, k)
<1>. DEFINE w1 == [w EXCEPT !.asup = TRUE, !.sin = FALSE]
            w2 == [w EXCEPT !.asup = FALSE]
<1>1. w1 \in Proc(s, D, k) /\ w2 \in Proc(s, D, k)
  BY FlagsProc
<1>2. /\ SendNext(w1, Signal(w1, "MERGE_SUSPEND")) \in Proc(s, D, k)
      /\ SendNext(w2, Signal(w2, "MERGE_NOSUSPEND")) \in Proc(s, D, k)
      /\ Good(w1) \in Proc(s, D, k) /\ Good(w2) \in Proc(s, D, k)
  <2>. HIDE DEF w1, w2
  <2>1. "MERGE_SUSPEND" \in Signals /\ "MERGE_NOSUSPEND" \in Signals
    BY DEF Signals
  <2>. QED
    BY <1>1, <2>1, SignalProc, GoodFail
<1>. QED
  BY <1>2 DEF RequestMergeSuspend, RequestMergeNoSuspend

\* ContinuousAutoMerge.
LEMMA ContinuousAutoMergeProc ==
  ASSUME now \in Nat, NEW D \in SUBSET Server, NEW k, NEW s \in Server,
         NEW w \in Proc(s, D, k)
  PROVE  ContinuousAutoMerge(w) \in Proc(s, D, k)
<1>1. ASSUME NEW v \in Proc(s, D, k) PROVE StartupDone(v) \in Proc(s, D, k)
  BY FlagsProc, RequestMergeStartProc, GoodFail DEF StartupDone
<1>. QED
  BY <1>1, RequestServiceInProc, GoodFail DEF ContinuousAutoMerge

\* DoSuspend: the last client is gone.
LEMMA DoSuspendProc ==
  ASSUME now \in Nat, NEW D \in SUBSET Server, NEW k, NEW s \in Server,
         NEW w \in Proc(s, D, k)
  PROVE  DoSuspend(w) \in Proc(s, D, k)
<1>1. ASSUME NEW v \in Proc(s, D, k), NEW b PROVE AbortIf(v, b) \in Proc(s, D, k)
  BY RequestMergeAbortProc DEF AbortIf
<1>2. PublishSelf(SetSelfStatus(w, SuspendedStatus(Self(w)))) \in Proc(s, D, k)
  BY OwnStatusProc, PublishProc
<1>. QED
  BY <1>1, <1>2, GoodFail DEF DoSuspend

\* PxCltReceiveJoinNotify: a client has come.
LEMMA JoinNotifyProc ==
  ASSUME now \in Nat, NEW D \in SUBSET Server, NEW k, NEW s \in Server,
         NEW w \in Proc(s, D, k)
  PROVE  JoinNotify(w) \in Proc(s, D, k)
<1>. DEFINE st == IF Self(w) = SuspendFlag(SRVIN_UP_NORMAL, TRUE)
                  THEN SRVIN_UP_PENDING ELSE [Self(w) EXCEPT !.sup = "NOSUP"]
<1>1. SetSelfStatus(w, st) \in Proc(s, D, k)
  BY OwnStatusProc
<1>2. ThenContinue(PublishSelf(SetSelfStatus(w, st))) \in Proc(s, D, k)
  <2>. HIDE DEF st
  <2>1. PublishSelf(SetSelfStatus(w, st)) \in Proc(s, D, k)
    BY <1>1, PublishProc
  <2>. QED
    BY <2>1, ContinuousAutoMergeProc DEF ThenContinue
<1>. QED
  BY <1>2, GoodFail DEF JoinNotify

\* ServerDownNotifyHup: the status of the dead server, the abort of a merge and
\* the SERVER_DOWN notice.
LEMMA ServerDownNotifyHupProc ==
  ASSUME now \in Nat, NEW D \in SUBSET Server, NEW k, NEW s \in Server,
         NEW w \in Proc(s, D, k), NEW t \in D, t # s
  PROVE  ServerDownNotifyHup(w, t) \in Proc(s, D, k)
<1>1. ASSUME NEW v \in Proc(s, D, k), NEW b PROVE AbortSignal(v, b) \in Proc(s, D, k)
  <2>1. "MERGE_ABORT" \in Signals
    BY DEF Signals
  <2>. QED
    BY <2>1, SignalProc DEF AbortSignal
<1>2. ASSUME NEW v \in Proc(s, D, k) PROVE AutoServiceOut(v, t) \in Proc(s, D, k)
  BY RequestServiceOutProc DEF AutoServiceOut
<1>3. ASSUME NEW v \in Proc(s, D, k), NEW b PROVE PublishDown(v, t, b) \in Proc(s, D, k)
  <2>1. CheckRechainRing(v, NextRing(v)) \in Proc(s, D, k)
    BY NextRingType, CheckRechainProc
  <2>2. AbortSignal(CheckRechainRing(v, NextRing(v)), b) \in Proc(s, D, k)
    BY <1>1, <2>1
  <2>3. SendNext(AbortSignal(CheckRechainRing(v, NextRing(v)), b), ServerDown(v, t))
          \in Proc(s, D, k)
    BY <2>2, PacketTypes, SendNextProc
  <2>4. AutoServiceOut(IF b THEN MergeAbort(v) ELSE Good(v), t) \in Proc(s, D, k)
    BY <1>2, MergeAbortProc, GoodFail
  <2>. QED
    BY <2>3, <2>4 DEF PublishDown
<1>. DEFINE w1 == [w EXCEPT !.link = @ \ {t}]
            st == ChangeToDown(w.sv[t].st)
<1>4. w1 \in Proc(s, D, k) /\ st \in GoodStatus
  BY UnlinkProc, ProcFacts, OtherStatus
<1>5. SetServerStatus(w1, t, st) \in Proc(s, D, k) /\ Good(w1) \in Proc(s, D, k)
  <2>. HIDE DEF w1, st
  <2>. QED
    BY <1>4, SetServerStatusProc, GoodFail
<1>6. PublishDown(SetServerStatus(w1, t, st), t, w.oper) \in Proc(s, D, k)
  <2>. HIDE DEF w1, st
  <2>. QED
    BY <1>3, <1>5
<1>. QED
  BY <1>5, <1>6 DEF ServerDownNotifyHup

-----------------------------------------------------------------------------
(* Received packets.                                                       *)

\* A packet passed on if there is a next server.
LEMMA TransferProc ==
  ASSUME NEW D \in SUBSET Server, NEW k, NEW s \in Server,
         NEW w \in Proc(s, D, k), NEW p \in GoodPacket(D)
  PROVE  Transfer(w, p) \in Proc(s, D, k)
BY GoodFail, ForwardProc DEF Transfer

\* STATUS_CONFIRM.
LEMMA ReceiveStatusConfirmProc ==
  ASSUME now \in Nat, NEW D \in SUBSET Server, NEW k, NEW s \in Server,
         NEW w \in Proc(s, D, k), NEW p \in GoodPacket(D)
  PROVE  ReceiveStatusConfirm(w, p) \in Proc(s, D, k)
<1>. DEFINE same == p.res = "SUCCESS" /\ CompareChmpxSvrs(w, p.list)
            r == IF same THEN "SUCCESS" ELSE "ERROR"
<1>1. "MERGE_START" \in Signals /\ r \in Result
  BY DEF Signals, Result
<1>2. Forward(w, [p EXCEPT !.res = r]) \in Proc(s, D, k)
  <2>. HIDE DEF r
  <2>. QED
    BY <1>1, PassedPacket, ForwardProc
<1>3. RetryConfirm(w) \in Proc(s, D, k)
  <2>1. ConfirmAgain(Renew(w)) \in Proc(s, D, k)
    BY PublishProc DEF ConfirmAgain
  <2>. QED
    BY <2>1 DEF RetryConfirm
<1>4. SendNext(w, Signal(w, "MERGE_START")) \in Proc(s, D, k)
  BY <1>1, SignalProc
<1>. QED
  BY <1>2, <1>3, <1>4, GoodFail DEF ReceiveStatusConfirm

\* STATUS_CHANGE stores the status it carries, which is good.
LEMMA ReceiveStatusChangeProc ==
  ASSUME now \in Nat, NEW D \in SUBSET Server, NEW k, NEW s \in Server,
         NEW w \in Proc(s, D, k), NEW p \in GoodPacket(D),
         p.type = "STATUS_CHANGE", s \notin D
  PROVE  ReceiveStatusChange(w, p) \in Proc(s, D, k)
<1>1. StatusChangeBack(w, p) \in Proc(s, D, k)
  <2>1. ASSUME NEW v \in Proc(s, D, k) PROVE RetryNotice(v, p) \in Proc(s, D, k)
    BY StampProc, PublishProc DEF RetryNotice
  <2>2. /\ RetryNotice(RequestMergeComplete(w), p) \in Proc(s, D, k)
        /\ RetryNotice(Good(w), p) \in Proc(s, D, k)
    BY <2>1, RequestMergeCompleteProc, GoodFail
  <2>3. StatusChangeBack(w, p)
          \in {RetryNotice(RequestMergeComplete(w), p), RetryNotice(Good(w), p)}
    BY DEF StatusChangeBack
  <2>. QED
    BY <2>2, <2>3
<1>2. ASSUME ~IsDept(w, p) PROVE StatusChangePass(w, p) \in Proc(s, D, k)
  <2>. DEFINE w1 == MergeChmpxSvrs(w, p.chm)
              st == IF p.chm.id = w.id THEN CorrectSelf(w, p.chm.st) ELSE p.chm.st
              q  == [p EXCEPT !.chm.st = st]
  <2>1. /\ p.chm \in GoodChm /\ p.chm.id \in Server
        /\ p.chm.id \notin D => p.dept = p.chm.id /\ IsUp(p.chm.st)
        /\ [p EXCEPT !.chm.st = p.chm.st] \in GoodPacket(D)
    BY PassedPacket DEF GoodChm
  <2>7. w.id = s /\ p.chm.id # s
    BY <1>2, <2>1, ProcId DEF IsDept
  <2>2. w1 \in Proc(s, D, k)
    BY <2>1, <2>7, MergeChmpxSvrsProc
  <2>3. CheckRechainRing(w1, p.chm.id) \in Proc(s, D, k)
    <3>. HIDE DEF w1
    <3>. QED
      BY <2>1, <2>2, CheckRechainProc
  <2>4. st = p.chm.st
    BY <2>7
  <2>5. q \in GoodPacket(D)
    <3>. HIDE DEF st
    <3>. QED
      BY <2>1, <2>4
  <2>6. Transfer(CheckRechainRing(w1, p.chm.id), q) \in Proc(s, D, k)
    <3>. HIDE DEF w1, q
    <3>. QED
      BY <2>3, <2>5, TransferProc
  <2>. QED
    BY <2>6 DEF StatusChangePass
<1>. QED
  BY <1>1, <1>2 DEF ReceiveStatusChange

\* MERGE_START.
LEMMA ReceiveMergeStartProc ==
  ASSUME now \in Nat, NEW D \in SUBSET Server, NEW k, NEW s \in Server,
         NEW w \in Proc(s, D, k), NEW p \in GoodPacket(D)
  PROVE  ReceiveMergeStart(w, p) \in Proc(s, D, k)
<1>1. ASSUME NEW v \in Proc(s, D, k) PROVE ThenMergeStart(v) \in Proc(s, D, k)
  BY MergeStartProc DEF ThenMergeStart
<1>2. /\ Transfer(w, p) \in Proc(s, D, k) /\ Good(w) \in Proc(s, D, k)
      /\ ReplaceDown(w, SRVIN_DOWN_DELPENDING, SRVIN_DOWN_DELETED) \in Proc(s, D, k)
  BY DownStatus, GoodFail, TransferProc, ReplaceDownProc
<1>. QED
  BY <1>1, <1>2 DEF ReceiveMergeStart

\* MERGE_ABORT.
LEMMA ReceiveMergeAbortProc ==
  ASSUME now \in Nat, NEW D \in SUBSET Server, NEW k, NEW s \in Server,
         NEW w \in Proc(s, D, k), NEW p \in GoodPacket(D)
  PROVE  ReceiveMergeAbort(w, p) \in Proc(s, D, k)
<1>1. ASSUME NEW v \in Proc(s, D, k) PROVE Aborted(v, p) \in Proc(s, D, k)
  <2>1. ReplaceDown(v, SRVIN_DOWN_DELETED, SRVIN_DOWN_DELPENDING) \in Proc(s, D, k)
    BY DownStatus, ReplaceDownProc
  <2>. QED
    BY <2>1, ContinuousAutoMergeProc DEF Aborted
<1>2. ASSUME NEW v \in Proc(s, D, k) PROVE ThenMergeAbort(v, p) \in Proc(s, D, k)
  BY <1>1, MergeAbortProc DEF ThenMergeAbort
<1>. QED
  BY <1>2, GoodFail, TransferProc DEF ReceiveMergeAbort

\* MERGE_COMPLETE.
LEMMA ReceiveMergeCompleteProc ==
  ASSUME now \in Nat, NEW D \in SUBSET Server, NEW k, NEW s \in Server,
         NEW w \in Proc(s, D, k), NEW p \in GoodPacket(D)
  PROVE  ReceiveMergeComplete(w, p) \in Proc(s, D, k)
<1>1. ASSUME NEW v \in Proc(s, D, k)
      PROVE  DownOut(v, p) \in Proc(s, D, k) /\ RetryComplete(v) \in Proc(s, D, k)
  BY ServiceOutDownProc, RequestMergeCompleteProc, GoodFail DEF DownOut, RetryComplete
<1>2. ASSUME NEW v \in Proc(s, D, k), NEW b PROVE ThenMergeComplete(v, p, b) \in Proc(s, D, k)
  BY <1>1, MergeCompleteProc, ContinuousAutoMergeProc DEF ThenMergeComplete
<1>. DEFINE all == p.res = "SUCCESS" /\ (IsDept(w, p) \/ ~VetoComplete(Self(w)))
            res == IF all THEN "SUCCESS" ELSE "ERROR"
            q   == [p EXCEPT !.res = res]
            w1  == IF ~IsDept(w, p) THEN Transfer(w, q)
                   ELSE IF all THEN ReplaceDown(w, SRVIN_DOWN_DELETED, SRVOUT_DOWN_NORMAL)
                   ELSE Good(w)
            b   == all /\ (IsDept(w, p) \/ IsSafeDept(w, p.dept))
<1>3. q \in GoodPacket(D)
  <2>1. res \in Result
    BY DEF Result
  <2>. HIDE DEF res
  <2>. QED
    BY <2>1, PassedPacket
<1>4. w1 \in Proc(s, D, k)
  <2>. HIDE DEF all, q
  <2>. QED
    BY <1>3, DownStatus, GoodFail, TransferProc, ReplaceDownProc
<1>5. ThenMergeComplete(w1, p, b) \in Proc(s, D, k)
  <2>. HIDE DEF w1, b
  <2>. QED
    BY <1>2, <1>4
<1>. QED
  BY <1>5 DEF ReceiveMergeComplete

\* MERGE_SUSPEND and MERGE_NOSUSPEND.
LEMMA ReceiveSuspendProc ==
  ASSUME NEW D \in SUBSET Server, NEW k, NEW s \in Server,
         NEW w \in Proc(s, D, k), NEW p \in GoodPacket(D)
  PROVE  /\ ReceiveMergeSuspend(w, p) \in Proc(s, D, k)
         /\ ReceiveMergeNoSuspend(w, p) \in Proc(s, D, k)
BY FlagsProc, GoodFail, ForwardProc, TransferProc
   DEF ReceiveMergeSuspend, ReceiveMergeNoSuspend

\* SERVER_DOWN.
LEMMA ReceiveServerDownProc ==
  ASSUME now \in Nat, NEW D \in SUBSET Server, NEW k, NEW s \in Server,
         NEW w \in Proc(s, D, k), NEW p \in GoodPacket(D),
         p.type = "SERVER_DOWN", s \notin D
  PROVE  ReceiveServerDown(w, p) \in Proc(s, D, k)
<1>. DEFINE w1  == [w EXCEPT !.link = @ \ {p.down}]
            st  == ChangeToDown(w1.sv[p.down].st)
            w2  == IF st = w1.sv[p.down].st THEN Good(w1) ELSE SetServerStatus(w1, p.down, st)
            res == IF w2.ok /\ p.res = "SUCCESS" THEN "SUCCESS" ELSE "ERROR"
            q   == [p EXCEPT !.res = res]
<1>1. p.down \in D /\ p.down # s /\ p.down \in Server
  BY PassedPacket
<1>2. w1 \in Proc(s, D, k)
  BY UnlinkProc
<1>3. w2 \in Proc(s, D, k)
  <2>. HIDE DEF w1
  <2>. QED
    BY <1>1, <1>2, ProcFacts, OtherStatus, SetServerStatusProc, GoodFail
<1>4. q \in GoodPacket(D)
  <2>1. res \in Result
    BY DEF Result
  <2>. HIDE DEF res
  <2>. QED
    BY <2>1, PassedPacket
<1>5. RequestServiceOut(w, p.down) \in Proc(s, D, k)
  BY <1>1, RequestServiceOutProc
<1>6. ReceiveServerDown(w, p) \in
        {Fail(w), Good(w), RequestServiceOut(w, p.down), Good(w2), Forward(w2, q)}
  BY DEF ReceiveServerDown
<1>. QED
  <2>. HIDE DEF w2, q
  <2>. QED
    BY <1>3, <1>4, <1>5, <1>6, GoodFail, ForwardProc

-----------------------------------------------------------------------------
(* Commands and the merge worker.                                          *)

\* The control commands that do more than one request.
LEMMA CommandProc ==
  ASSUME now \in Nat, NEW D \in SUBSET Server, NEW k, NEW s \in Server,
         NEW w \in Proc(s, D, k), NEW t \in Server
  PROVE  /\ CtlComServiceIn(w) \in Proc(s, D, k)
         /\ CtlComServiceOut(w, t) \in Proc(s, D, k)
         /\ CtlComUpdateStatus(w) \in Proc(s, D, k)
<1>1. CtlComServiceIn(w) \in Proc(s, D, k)
  BY RequestServiceInProc, RequestMergeStartProc DEF CtlComServiceIn, AutoStart
<1>2. CtlComServiceOut(w, t) \in Proc(s, D, k)
  BY GoodFail, ProcFacts, RequestServiceOutProc DEF CtlComServiceOut
<1>3. CtlComUpdateStatus(w) \in Proc(s, D, k)
  BY GoodFail, PublishProc DEF CtlComUpdateStatus
<1>. QED
  BY <1>1, <1>2, <1>3

\* The steps of the merge worker thread.
LEMMA WorkerProc ==
  ASSUME now \in Nat, NEW D \in SUBSET Server, NEW k, NEW s \in Server,
         NEW w \in Proc(s, D, k)
  PROVE  /\ w.wk > 0 => WorkerBegin(w) \in Proc(s, D, k)
         /\ WorkerFinish(w) \in Proc(s, D, k)
         /\ WorkerClear(w) \in Proc(s, D, k)
         /\ WorkerStop(w) \in Proc(s, D, k)
<1>1. w.wk > 0 => WorkerBegin(w) \in Proc(s, D, k)
  BY WorkProc DEF WorkerBegin
<1>2. WorkerFinish(w) \in Proc(s, D, k)
  BY WorkProc, MergeDoneProc DEF WorkerFinish, Reported
<1>3. WorkerClear(w) \in Proc(s, D, k) /\ WorkerStop(w) \in Proc(s, D, k)
  BY WorkProc DEF WorkerClear, WorkerStop
<1>. QED
  BY <1>1, <1>2, <1>3

-----------------------------------------------------------------------------
(* The client's arrival and departure.                                     *)

\* Between the record of a server and what a handler makes of it the client's
\* fields are the same.
LEMMA OwnProc ==
  ASSUME NEW D \in SUBSET Server, NEW s \in Server
  PROVE  /\ \A w \in Own(s, D) : w \in Proc(s, D, Client(w))
         /\ \A w, v : v \in Proc(s, D, Client(w)) => v \in Own(s, D)
BY DEF Own, Proc, Kept, Client, Informed

\* A client attaches or the last one goes: the notice is queued, so the suspend
\* bit need not be right yet.
LEMMA ClientProc ==
  ASSUME NEW D \in SUBSET Server, NEW s \in Server, NEW w \in Own(s, D)
  PROVE  /\ [w EXCEPT !.join = TRUE, !.jn = TRUE] \in Own(s, D)
         /\ [w EXCEPT !.join = FALSE, !.cls = TRUE] \in Own(s, D)
<1>. USE DEF Own, ProcRec, Cached, Informed
<1>1. [w EXCEPT !.join = TRUE, !.jn = TRUE] \in Own(s, D)
  OBVIOUS
<1>2. [w EXCEPT !.join = FALSE, !.cls = TRUE] \in Own(s, D)
  OBVIOUS
<1>. HIDE DEF Own, ProcRec, Cached, Informed
<1>. QED
  BY <1>1, <1>2

\* The notice of an arrival is handled: with the client still attached the
\* server is not suspended afterwards.
LEMMA JoinHandled ==
  ASSUME now \in Nat, NEW D \in SUBSET Server, NEW s \in Server, NEW w \in Own(s, D)
  PROVE  JoinNotify([w EXCEPT !.jn = FALSE]) \in Own(s, D)
<1>. DEFINE v == [w EXCEPT !.jn = FALSE]
            k == [join |-> w.join, jn |-> FALSE, cls |-> w.cls,
                  acc |-> ~w.join /\ ~w.cls]
            st == IF Self(v) = SuspendFlag(SRVIN_UP_NORMAL, TRUE)
                  THEN SRVIN_UP_PENDING ELSE [Self(v) EXCEPT !.sup = "NOSUP"]
<1>1. v \in Proc(s, D, k) /\ v.join = w.join /\ v.join \in BOOLEAN
  BY DEF Own, Proc, ProcRec, Cached, Kept, Accurate, Self, Informed
<1>2. /\ k.join = w.join /\ k.jn = FALSE /\ k.cls = w.cls
      /\ k.acc = (~w.join /\ ~w.cls)
  OBVIOUS
<1>. HIDE DEF v, k
<1>3. CASE ~w.join
  <2>1. JoinNotify(v) \in Proc(s, D, k)
    BY <1>1, JoinNotifyProc
  <2>. QED
    BY <1>2, <1>3, <2>1 DEF Own, Proc, Kept, Informed, v
<1>4. CASE w.join
  <2>1. JoinNotify(v) \in Proc(s, D, Sure(k))
    <3>1. CASE Self(v).sup = "NOSUP"
      <4>1. Accurate(v)
        BY <1>1, <1>4, <3>1 DEF Accurate
      <4>2. v \in Proc(s, D, Sure(k))
        BY <1>1, <4>1, SureProc
      <4>. QED
        BY <4>2, JoinNotifyProc
    <3>2. CASE Self(v).sup # "NOSUP"
      <4>1. st \in Status /\ OwnUp(st) /\ IsSafe(st)
        <5>1. Self(v) \in GoodStatus /\ OwnUp(Self(v)) /\ Self(v) \in Status
          BY <1>1, ProcFacts DEF GoodStatus
        <5>2. /\ SRVIN_UP_PENDING \in Status /\ OwnUp(SRVIN_UP_PENDING)
              /\ IsSafe(SRVIN_UP_PENDING)
          BY DEF SRVIN_UP_PENDING, Sts, Status, IsUp, OwnUp, IsSafe, Live, Ring, Act,
                 Operate, Suspend
        <5>. QED
          BY <5>1, <5>2, OwnStatus, SafeStatuses
      <4>2. SetSelfStatus(v, st) \in Proc(s, D, Sure(k))
        <5>. HIDE DEF st
        <5>. QED
          BY <1>1, <4>1, SetSelfStatusProc
      <4>3. ThenContinue(PublishSelf(SetSelfStatus(v, st))) \in Proc(s, D, Sure(k))
        <5>. HIDE DEF st
        <5>1. PublishSelf(SetSelfStatus(v, st)) \in Proc(s, D, Sure(k))
          BY <4>2, PublishProc
        <5>. QED
          BY <5>1, ContinuousAutoMergeProc DEF ThenContinue
      <4>4. JoinNotify(v) = ThenContinue(PublishSelf(SetSelfStatus(v, st)))
        BY <1>1, <1>4, <3>2 DEF JoinNotify
      <4>. QED
        BY <4>3, <4>4
    <3>. QED
      BY <3>1, <3>2
  <2>. QED
    BY <2>1 DEF Own, Proc, Kept, Sure, v
<1>. QED
  BY <1>3, <1>4 DEF v

\* The notice of a departure is handled: without a client the server is suspended
\* afterwards.
LEMMA CloseHandled ==
  ASSUME now \in Nat, NEW D \in SUBSET Server, NEW s \in Server, NEW w \in Own(s, D)
  PROVE  DoSuspend([w EXCEPT !.cls = FALSE]) \in Own(s, D)
<1>. DEFINE v == [w EXCEPT !.cls = FALSE]
            k == [join |-> w.join, jn |-> w.jn, cls |-> FALSE,
                  acc |-> w.join /\ ~w.jn]
            st == SuspendedStatus(Self(v))
<1>1. v \in Proc(s, D, k) /\ v.join = w.join /\ v.join \in BOOLEAN
  BY DEF Own, Proc, ProcRec, Cached, Kept, Accurate, Self, Informed
<1>2. /\ k.join = w.join /\ k.jn = w.jn /\ k.cls = FALSE
      /\ k.acc = (w.join /\ ~w.jn)
  OBVIOUS
<1>. HIDE DEF v, k
<1>3. CASE w.join
  <2>1. DoSuspend(v) \in Proc(s, D, k)
    BY <1>1, DoSuspendProc
  <2>. QED
    BY <1>2, <1>3, <2>1 DEF Own, Proc, Kept, Informed, v
<1>4. CASE ~w.join
  <2>0. /\ Self(v) \in GoodStatus /\ OwnUp(Self(v)) /\ Self(v) \in Status
        /\ st.sup = "SUSPEND"
    <3>1. Self(v) \in GoodStatus /\ OwnUp(Self(v)) /\ Self(v) \in Status
      BY <1>1, ProcFacts DEF GoodStatus
    <3>. QED
      BY <3>1 DEF SuspendedStatus, OwnUp, Status
  <2>1. DoSuspend(v) \in Proc(s, D, Sure(k))
    <3>1. CASE st = Self(v)
      <4>1. Accurate(v)
        BY <1>1, <1>4, <2>0, <3>1 DEF Accurate
      <4>2. v \in Proc(s, D, Sure(k))
        BY <1>1, <4>1, SureProc
      <4>. QED
        BY <4>2, DoSuspendProc
    <3>2. CASE st # Self(v)
      <4>1. st \in Status /\ OwnUp(st) /\ IsSafe(st)
        BY <2>0, OwnStatus, SafeStatuses
      <4>. HIDE DEF st
      <4>2. SetSelfStatus(v, st) \in Proc(s, D, Sure(k))
        BY <1>1, <4>1, SetSelfStatusProc
      <4>3. PublishSelf(SetSelfStatus(v, st)) \in Proc(s, D, Sure(k))
        BY <4>2, PublishProc
      <4>4. AbortIf(PublishSelf(SetSelfStatus(v, st)), v.oper) \in Proc(s, D, Sure(k))
        BY <4>3, RequestMergeAbortProc DEF AbortIf
      <4>. QED
        BY <3>2, <4>4 DEF DoSuspend, st
    <3>. QED
      BY <3>1, <3>2
  <2>. QED
    BY <2>1 DEF Own, Proc, Kept, Sure, v
<1>. QED
  BY <1>3, <1>4 DEF v

-----------------------------------------------------------------------------
(* The inductive invariant.                                                *)

\* A good process record is well typed.
LEMMA ProcNode ==
  ASSUME NEW D \in SUBSET Server, NEW s \in Server
  PROVE  Own(s, D) \subseteq Node
<1>1. GoodPacket(D) \subseteq Packet /\ Table(s, D) \subseteq [Server -> Entry]
  BY DEF GoodPacket, Table, GoodEntry, Entry, GoodStatus
<1>2. \A q \in Seq(GoodPacket(D)) : q \in Seq(Packet)
  BY <1>1, SeqMonotonic
<1>. QED
  BY <1>1, <1>2 DEF Own, ProcRec, Node

\* With one more server dead no less is good.
LEMMA MoreDead ==
  ASSUME NEW D \in SUBSET Server, NEW E \in SUBSET Server, D \subseteq E,
         NEW s \in Server
  PROVE  Own(s, D) \subseteq Own(s, E)
<1>1. GoodPacket(D) \subseteq GoodPacket(E) /\ Table(s, D) \subseteq Table(s, E)
  BY DEF GoodPacket, Table
<1>2. \A q \in Seq(GoodPacket(D)) : q \in Seq(GoodPacket(E))
  BY <1>1, SeqMonotonic
<1>. QED
  BY <1>1, <1>2 DEF Own, ProcRec

\* The result of a method is outside the invariant.
LEMMA GoodOwn ==
  ASSUME NEW D \in SUBSET Server, NEW s \in Server, NEW w \in Own(s, D)
  PROVE  Good(w) \in Own(s, D)
BY DEF Own, ProcRec, Cached, Informed, Accurate, Self, Good

\* A packet less on a socket.
LEMMA SocketOwn ==
  ASSUME NEW D \in SUBSET Server, NEW s \in Server, NEW w \in Own(s, D),
         NEW t \in Server, NEW q \in Seq(GoodPacket(D))
  PROVE  [w EXCEPT !.out[t] = q] \in Own(s, D)
BY DEF Own, ProcRec, Cached, Informed, Accurate, Self

\* In a RING at rest every server has the same table of good statuses.
LEMMA InitProc ==
  ASSUME NEW D \in SUBSET Server, NEW s \in Server,
         NEW in \in SUBSET Server, NEW joined \in SUBSET Server
  PROVE  InitNode(s, in, joined) \in Own(s, D)
<1>. DEFINE e == InitEntry(in, joined)
            base(t) == IF t \in in THEN SRVIN_UP_NORMAL ELSE SRVOUT_UP_NORMAL
            st(t) == SuspendFlag(base(t), t \notin joined)
            r(t) == IF t \in in THEN Cardinality(in \cap (1 .. (t - 1))) ELSE NoHash
<1>1. ASSUME NEW t \in Server
      PROVE  /\ st(t) \in GoodStatus /\ OwnUp(st(t))
             /\ (st(t).sup = "SUSPEND") <=> t \notin joined
             /\ IsBaseHash(st(t)) <=> t \in in
             /\ ~IsOperatingSt(st(t))
             /\ r(t) \in Hash
  <2>1. /\ st(t) \in GoodStatus /\ OwnUp(st(t)) /\ ~IsOperatingSt(st(t))
        /\ (st(t).sup = "SUSPEND") <=> t \notin joined
    BY DEF SuspendFlag, SRVIN_UP_NORMAL, SRVOUT_UP_NORMAL, Sts, GoodStatus, GoodSt, Status,
           IsUp, OwnUp, IsSafe, IsOperatingSt, Live, Ring, Act, Operate, Suspend, IsSrvIn
  <2>2. IsBaseHash(st(t)) <=> t \in in
    BY DEF SuspendFlag, SRVIN_UP_NORMAL, SRVOUT_UP_NORMAL, Sts, IsUp, IsSafe, IsBaseHash,
           IsSrvIn
  <2>3. in \cap (1 .. (t - 1)) \in SUBSET (1 .. (t - 1))
    OBVIOUS
  <2>4. Cardinality(in \cap (1 .. (t - 1))) \in 0 .. (N - 1)
    BY <2>3, RankType
  <2>5. r(t) \in Hash
    BY <2>4, NAssumption DEF Hash, NoHash
  <2>. QED
    BY <2>1, <2>2, <2>5
<1>2. e = [t \in Server |-> [st |-> st(t), bh |-> r(t), ph |-> r(t), ts |-> 0]]
  BY DEF InitEntry
<1>. HIDE DEF e, st, r, base
<1>3. e \in Table(s, D) /\ e[s].st = st(s)
  BY <1>1, <1>2 DEF Table, GoodEntry, OwnUp
<1>4. BaseHashCount(e) = Cardinality(in) /\ AnyOperating(e) = FALSE
  <2>1. {t \in Server : IsBaseHash(e[t].st)} = in
    BY <1>1, <1>2
  <2>2. ~(\E t \in Server : IsOperatingSt(e[t].st))
    BY <1>1, <1>2
  <2>. QED
    BY <2>1, <2>2 DEF BaseHashCount, AnyOperating
<1>5. Cardinality(in) \in Nat
  BY Counts
<1>6. {After(s, 1)} \ {s} \in SUBSET Server
  BY NAssumption DEF After, Server
<1>7. [t \in Server |-> << >>] \in [Server -> Seq(GoodPacket(D))]
  OBVIOUS
<1>. DEFINE j == s \in joined
            a == AutoMerge /\ s \notin in \cup joined
            l == {After(s, 1)} \ {s}
            o == [t \in Server |-> << >>]
            n == [id |-> s, sv |-> e, bcnt |-> Cardinality(in), oper |-> FALSE,
                  join |-> j, ok |-> TRUE, asup |-> FALSE, sin |-> a, mdp |-> FALSE,
                  run |-> FALSE, wk |-> 0, wst |-> "idle", cls |-> FALSE, jn |-> FALSE,
                  link |-> l, out |-> o]
<1>8. j \in BOOLEAN /\ a \in BOOLEAN
  BY ConfAssumption
<1>9. InitNode(s, in, joined) = n
  BY DEF InitNode, e
<1>10. n \in Own(s, D)
  <2>. HIDE DEF j, a, l, o
  <2>1. l \in SUBSET Server /\ o \in [Server -> Seq(GoodPacket(D))]
    BY <1>6, <1>7 DEF l, o
  <2>2. n \in ProcRec(s, D)
    BY <1>3, <1>5, <1>8, <2>1 DEF ProcRec
  <2>3. Cached(n)
    BY <1>4 DEF Cached
  <2>4. Accurate(n)
    BY <1>1, <1>3 DEF Accurate, Self, j
  <2>. QED
    BY <2>2, <2>3, <2>4 DEF Own
<1>. QED
  BY <1>9, <1>10

\* The invariant holds of a RING at rest.
LEMMA InitInv == Init => RingInv
<1>. SUFFICES ASSUME Init PROVE RingInv
  OBVIOUS
<1>1. PICK in \in InitIn, joined \in InitJoin :
         node = [s \in Server |-> InitNode(s, in, joined)]
  BY DEF Init
<1>2. in \in SUBSET Server /\ joined \in SUBSET Server
  BY InitAssumption DEF Server
<1>3. \A s \in Server : node[s] \in Own(s, Dead)
  BY <1>1, <1>2, InitProc DEF Dead
<1>4. node \in [Server -> Node]
  BY <1>1, <1>3, ProcNode DEF Dead
<1>. QED
  BY <1>3, <1>4, BoundAssumption DEF RingInv, Init

\* One process record is replaced.
LEMMA OneNode ==
  ASSUME RingInv, NEW s \in Server, NEW n \in Own(s, Dead), node' = [node EXCEPT ![s] = n]
  PROVE  node' \in [Server -> Node] /\ \A t \in Server : node'[t] \in Own(t, Dead)
<1>1. \A t \in Server : node'[t] \in Own(t, Dead)
  BY DEF RingInv
<1>. QED
  BY <1>1, ProcNode DEF RingInv, Dead

\* What server t reads from the socket of server s.
LEMMA UnreadGood ==
  ASSUME RingInv, NEW s \in Server, NEW t \in Server, node[s].out[t] # << >>
  PROVE  /\ Unread(s, t) \in GoodPacket(Dead)
         /\ Tail(node[s].out[t]) \in Seq(GoodPacket(Dead))
<1>1. node[s].out[t] \in Seq(GoodPacket(Dead))
  BY DEF RingInv, Own, ProcRec
<1>. QED
  BY <1>1, HeadTailProperties DEF Unread

\* A handler that keeps the record of server t good keeps the invariant when the
\* packet is taken off the socket of server s.
LEMMA RecvInv ==
  ASSUME RingInv, NEW s \in Server, NEW t \in Server, NEW type, NEW w \in Own(t, Dead),
         Recv(s, t, type, w)
  PROVE  RingInv'
<1>. DEFINE q == Tail(node[s].out[t])
            n == [node[s] EXCEPT !.out[t] = q]
<1>1. q \in Seq(GoodPacket(Dead))
  BY UnreadGood DEF Recv
<1>2. n \in Own(s, Dead)
  <2>. HIDE DEF q
  <2>1. node[s] \in Own(s, Dead)
    BY DEF RingInv
  <2>. QED
    BY <1>1, <2>1, SocketOwn DEF Dead
<1>3. Good(w) \in Own(t, Dead) /\ Dead' = Dead
  BY GoodOwn DEF Recv, Dead
<1>4. node' = [[node EXCEPT ![s] = n] EXCEPT ![t] = Good(w)]
  BY DEF Recv, RingInv
<1>5. \A u \in Server : node'[u] \in Own(u, Dead)
  <2>. HIDE DEF n
  <2>. QED
    BY <1>2, <1>3, <1>4 DEF RingInv
<1>6. node' \in [Server -> Node]
  <2>. HIDE DEF n
  <2>. QED
    BY <1>4, <1>5, ProcNode DEF RingInv, Dead
<1>. QED
  BY <1>3, <1>5, <1>6 DEF RingInv, Recv

\* Every packet handler is such a handler.
LEMMA RecvAnyInv ==
  ASSUME RingInv, NEW s \in Server, NEW t \in Server, RecvAny(s, t)
  PROVE  RingInv'
<1>1. now \in Nat
  BY BoundAssumption DEF RingInv
<1>. DEFINE k == Client(node[t])
<1>2. node[t] \in Proc(t, Dead, k) /\ Dead \in SUBSET Server
  BY OwnProc DEF RingInv, Dead
<1>12. \A v \in Proc(t, Dead, k) : v \in Own(t, Dead)
  BY OwnProc DEF Dead
<1>13. t \notin Dead
  BY DEF Dead, RecvAny, RecvStatusConfirm, RecvStatusChange, RecvMergeStart, RecvMergeAbort,
         RecvMergeComplete, RecvMergeSuspend, RecvMergeNoSuspend, RecvServerDown, Recv
<1>. HIDE DEF k
<1>. DEFINE p == Unread(s, t)
<1>3. ASSUME NEW type, NEW w, Recv(s, t, type, w)
      PROVE  p \in GoodPacket(Dead) /\ p.type = type
  BY <1>3, UnreadGood DEF Recv
<1>. HIDE DEF p
<1>4. CASE RecvStatusConfirm(s, t)
  <2>1. ReceiveStatusConfirm(node[t], p) \in Proc(t, Dead, k)
    BY <1>1, <1>2, <1>3, <1>4, ReceiveStatusConfirmProc DEF RecvStatusConfirm, p
  <2>. QED
    BY <1>4, <2>1, <1>12, RecvInv DEF RecvStatusConfirm, p
<1>5. CASE RecvStatusChange(s, t)
  <2>1. ReceiveStatusChange(node[t], p) \in Proc(t, Dead, k)
    BY <1>1, <1>2, <1>3, <1>5, <1>13, ReceiveStatusChangeProc DEF RecvStatusChange, p
  <2>. QED
    BY <1>5, <2>1, <1>12, RecvInv DEF RecvStatusChange, p
<1>6. CASE RecvMergeStart(s, t)
  <2>1. ReceiveMergeStart(node[t], p) \in Proc(t, Dead, k)
    BY <1>1, <1>2, <1>3, <1>6, ReceiveMergeStartProc DEF RecvMergeStart, p
  <2>. QED
    BY <1>6, <2>1, <1>12, RecvInv DEF RecvMergeStart, p
<1>7. CASE RecvMergeAbort(s, t)
  <2>1. ReceiveMergeAbort(node[t], p) \in Proc(t, Dead, k)
    BY <1>1, <1>2, <1>3, <1>7, ReceiveMergeAbortProc DEF RecvMergeAbort, p
  <2>. QED
    BY <1>7, <2>1, <1>12, RecvInv DEF RecvMergeAbort, p
<1>8. CASE RecvMergeComplete(s, t)
  <2>1. ReceiveMergeComplete(node[t], p) \in Proc(t, Dead, k)
    BY <1>1, <1>2, <1>3, <1>8, ReceiveMergeCompleteProc DEF RecvMergeComplete, p
  <2>. QED
    BY <1>8, <2>1, <1>12, RecvInv DEF RecvMergeComplete, p
<1>9. CASE RecvMergeSuspend(s, t)
  <2>1. ReceiveMergeSuspend(node[t], p) \in Proc(t, Dead, k)
    BY <1>2, <1>3, <1>9, ReceiveSuspendProc DEF RecvMergeSuspend, p
  <2>. QED
    BY <1>9, <2>1, <1>12, RecvInv DEF RecvMergeSuspend, p
<1>10. CASE RecvMergeNoSuspend(s, t)
  <2>1. ReceiveMergeNoSuspend(node[t], p) \in Proc(t, Dead, k)
    BY <1>2, <1>3, <1>10, ReceiveSuspendProc DEF RecvMergeNoSuspend, p
  <2>. QED
    BY <1>10, <2>1, <1>12, RecvInv DEF RecvMergeNoSuspend, p
<1>11. CASE RecvServerDown(s, t)
  <2>1. ReceiveServerDown(node[t], p) \in Proc(t, Dead, k)
    BY <1>1, <1>2, <1>3, <1>11, <1>13, ReceiveServerDownProc DEF RecvServerDown, p
  <2>. QED
    BY <1>11, <2>1, <1>12, RecvInv DEF RecvServerDown, p
<1>. QED
  BY <1>4, <1>5, <1>6, <1>7, <1>8, <1>9, <1>10, <1>11 DEF RecvAny

\* A step of one server that reads no packet.
LEMMA BecomesInv ==
  ASSUME RingInv, NEW s \in Server, NEW w \in Own(s, Dead), Becomes(s, w)
  PROVE  node' \in [Server -> Node] /\ \A t \in Server : node'[t] \in Own(t, Dead)
<1>1. Good(w) \in Own(s, Dead)
  BY GoodOwn DEF Dead
<1>. QED
  BY <1>1, OneNode DEF Becomes

\* A command also counts against the bound.
LEMMA CommandInv ==
  ASSUME RingInv, NEW s \in Server, NEW cmd, NEW w \in Own(s, Dead), Command(s, cmd, w)
  PROVE  RingInv'
<1>1. node' \in [Server -> Node] /\ \A t \in Server : node'[t] \in Own(t, Dead)
  BY BecomesInv DEF Command
<1>2. ops' \in 0 .. MaxOps
  BY BoundAssumption DEF Command, RingInv
<1>. QED
  BY <1>1, <1>2 DEF RingInv, Command, Dead

\* Every command keeps the invariant.
LEMMA CmdAnyInv ==
  ASSUME RingInv, NEW s \in Server, CmdAny(s)
  PROVE  RingInv'
<1>. DEFINE w == node[s]
            k == Client(w)
<1>1. /\ now \in Nat /\ Dead \in SUBSET Server
      /\ w \in Own(s, Dead) /\ w \in Proc(s, Dead, k)
      /\ \A v \in Proc(s, Dead, k) : v \in Own(s, Dead)
      /\ \A t \in Server \ {s} : ~IsUp(w.sv[t].st) => t \in Dead
  BY BoundAssumption, OwnProc, ProcFacts DEF RingInv, Dead
<1>14. /\ CtlComServiceIn(w) \in Proc(s, Dead, k)
       /\ \A t \in Server : CtlComServiceOut(w, t) \in Proc(s, Dead, k)
       /\ RequestMergeStart(w) \in Proc(s, Dead, k)
       /\ RequestMergeAbort(w) \in Proc(s, Dead, k)
       /\ RequestMergeComplete(w) \in Proc(s, Dead, k)
       /\ RequestMergeSuspend(w) \in Proc(s, Dead, k)
       /\ RequestMergeNoSuspend(w) \in Proc(s, Dead, k)
       /\ CtlComUpdateStatus(w) \in Proc(s, Dead, k)
  <2>. HIDE DEF w, k
  <2>. QED
    BY <1>1, CommandProc, RequestMergeStartProc, RequestMergeAbortProc,
       RequestMergeCompleteProc, RequestMergeSuspendProc
<1>2. /\ CtlComServiceIn(w) \in Own(s, Dead)
      /\ \A t \in Server : CtlComServiceOut(w, t) \in Own(s, Dead)
      /\ RequestMergeStart(w) \in Own(s, Dead)
      /\ RequestMergeAbort(w) \in Own(s, Dead)
      /\ RequestMergeComplete(w) \in Own(s, Dead)
      /\ RequestMergeSuspend(w) \in Own(s, Dead)
      /\ RequestMergeNoSuspend(w) \in Own(s, Dead)
      /\ CtlComUpdateStatus(w) \in Own(s, Dead)
      /\ [w EXCEPT !.join = TRUE, !.jn = TRUE] \in Own(s, Dead)
      /\ [w EXCEPT !.join = FALSE, !.cls = TRUE] \in Own(s, Dead)
  <2>. HIDE DEF w, k
  <2>. QED
    BY <1>1, <1>14, ClientProc
<1>3. CASE CmdServiceIn(s)
  BY <1>2, <1>3, CommandInv DEF CmdServiceIn
<1>4. ASSUME NEW t \in Server, CmdServiceOut(s, t) PROVE RingInv'
  BY <1>2, <1>4, CommandInv DEF CmdServiceOut
<1>5. CASE CmdMergeStart(s)
  BY <1>2, <1>5, CommandInv DEF CmdMergeStart
<1>6. CASE CmdMergeAbort(s)
  BY <1>2, <1>6, CommandInv DEF CmdMergeAbort
<1>7. CASE CmdMergeComplete(s)
  BY <1>2, <1>7, CommandInv DEF CmdMergeComplete
<1>8. CASE CmdSuspend(s)
  BY <1>2, <1>8, CommandInv DEF CmdSuspend
<1>9. CASE CmdNoSuspend(s)
  BY <1>2, <1>9, CommandInv DEF CmdNoSuspend
<1>10. CASE CmdUpdateStatus(s)
  BY <1>2, <1>10, CommandInv DEF CmdUpdateStatus
<1>11. CASE ClientJoin(s)
  BY <1>2, <1>11, CommandInv DEF ClientJoin
<1>12. CASE ClientLeave(s)
  BY <1>2, <1>12, CommandInv DEF ClientLeave
<1>. QED
  BY <1>3, <1>4, <1>5, <1>6, <1>7, <1>8, <1>9, <1>10, <1>11, <1>12 DEF CmdAny

\* What was written to a dead server is gone.
LEMMA ClearOutProc ==
  ASSUME NEW D \in SUBSET Server, NEW s \in Server, NEW w \in Own(s, D), NEW t \in Server
  PROVE  [w EXCEPT !.out[t] = << >>] \in Own(s, D)
<1>1. << >> \in Seq(GoodPacket(D))
  OBVIOUS
<1>. QED
  BY <1>1, SocketOwn

\* The other steps of server s; t is the dead server, if one is involved.
LEMMA OtherStepInv ==
  ASSUME RingInv, NEW s \in Server, NEW t \in Server,
         \/ DropStream(s, t) \/ NotifyHup(t, s) \/ RecvJoinNotify(s)
         \/ CloseNotify(s) \/ MergeWorker(s) \/ Crash(s)
  PROVE  RingInv'
<1>1. now \in Nat /\ node[s] \in Own(s, Dead) /\ Dead \in SUBSET Server
  BY BoundAssumption DEF RingInv, Dead
<1>. DEFINE N1 == node' \in [Server -> Node] /\ \A u \in Server : node'[u] \in Own(u, Dead)
            w  == node[s]
            k  == Client(w)
<1>8. /\ w \in Proc(s, Dead, k)
      /\ \A v \in Proc(s, Dead, k) : v \in Own(s, Dead)
  BY <1>1, OwnProc
<1>2. CASE DropStream(s, t)
  <2>. DEFINE n == [node[s] EXCEPT !.out[t] = << >>]
  <2>1. n \in Own(s, Dead)
    BY <1>1, ClearOutProc
  <2>2. node' = [node EXCEPT ![s] = n]
    BY <1>2 DEF DropStream
  <2>3. N1
    <3>. HIDE DEF n
    <3>. QED
      BY <2>1, <2>2, OneNode
  <2>. QED
    BY <1>2, <2>3 DEF DropStream, RingInv, Dead
<1>3. CASE NotifyHup(t, s)
  <2>0. t \in Dead /\ t # s
    BY <1>3 DEF NotifyHup, Dead
  <2>1. ServerDownNotifyHup(w, t) \in Own(s, Dead)
    <3>. HIDE DEF w, k
    <3>. QED
      BY <1>1, <1>8, <2>0, ServerDownNotifyHupProc
  <2>2. N1
    BY <1>3, <2>1, BecomesInv DEF NotifyHup
  <2>. QED
    BY <1>3, <2>2 DEF NotifyHup, RingInv, Dead
<1>4. CASE RecvJoinNotify(s)
  <2>1. JoinNotify([w EXCEPT !.jn = FALSE]) \in Own(s, Dead)
    BY <1>1, JoinHandled
  <2>2. N1
    BY <1>4, <2>1, BecomesInv DEF RecvJoinNotify
  <2>. QED
    BY <1>4, <2>2 DEF RecvJoinNotify, RingInv, Dead
<1>5. CASE CloseNotify(s)
  <2>1. DoSuspend([w EXCEPT !.cls = FALSE]) \in Own(s, Dead)
    BY <1>1, CloseHandled
  <2>2. N1
    BY <1>5, <2>1, BecomesInv DEF CloseNotify
  <2>. QED
    BY <1>5, <2>2 DEF CloseNotify, RingInv, Dead
<1>6. CASE MergeWorker(s)
  <2>1. /\ w.wk > 0 => WorkerBegin(w) \in Own(s, Dead)
        /\ WorkerFinish(w) \in Own(s, Dead)
        /\ WorkerClear(w) \in Own(s, Dead)
        /\ WorkerStop(w) \in Own(s, Dead)
    <3>. HIDE DEF w, k
    <3>. QED
      BY <1>1, <1>8, WorkerProc
  <2>2. PICK n \in Own(s, Dead) : Becomes(s, n)
    BY <1>6, <2>1 DEF MergeWorker
  <2>3. N1
    BY <2>2, BecomesInv
  <2>. QED
    BY <1>6, <2>3 DEF MergeWorker, RingInv, Dead
<1>7. CASE Crash(s)
  <2>1. ASSUME NEW u \in Server PROVE [node[u] EXCEPT !.out[s] = << >>] \in Own(u, Dead)
    <3>1. node[u] \in Own(u, Dead)
      BY DEF RingInv
    <3>. QED
      BY <1>1, <3>1, ClearOutProc
  <2>5. Dead' = Dead \cup {s}
    BY <1>7 DEF Crash, Dead, RingInv
  <2>2. \A u \in Server : node'[u] \in Own(u, Dead')
    BY <1>1, <1>7, <2>1, <2>5, MoreDead DEF Crash
  <2>3. node' \in [Server -> Node]
    BY <1>1, <1>7, <2>2, <2>5, ProcNode DEF Crash
  <2>4. up' \in [Server -> BOOLEAN]
    BY <1>7 DEF Crash, RingInv
  <2>. QED
    BY <1>7, <2>2, <2>3, <2>4 DEF Crash, RingInv
<1>. QED
  BY <1>2, <1>3, <1>4, <1>5, <1>6, <1>7

\* Every step keeps the invariant.
LEMMA NextInv == RingInv /\ [Next]_vars => RingInv'
<1>. SUFFICES ASSUME RingInv, [Next]_vars PROVE RingInv'
  OBVIOUS
<1>1. ASSUME NEW s \in Server, NEW t \in Server,
             RecvAny(s, t) \/ DropStream(s, t) \/ NotifyHup(s, t)
      PROVE  RingInv'
  BY <1>1, RecvAnyInv, OtherStepInv
<1>2. ASSUME NEW s \in Server,
             CmdAny(s) \/ RecvJoinNotify(s) \/ CloseNotify(s) \/ MergeWorker(s) \/ Crash(s)
      PROVE  RingInv'
  BY <1>2, CmdAnyInv, OtherStepInv
<1>3. CASE Tick
  BY <1>3, BoundAssumption DEF Tick, RingInv, Dead
<1>4. CASE UNCHANGED vars
  BY <1>4 DEF vars, RingInv, Dead
<1>. QED
  BY <1>1, <1>2, <1>3, <1>4 DEF Next

\* The invariant holds in every reachable state of a RING of any size.
THEOREM RingInvariant == Spec => []RingInv
BY InitInv, NextInv, PTL DEF Spec

\* Every process record keeps its type, the hash values stay below the number of
\* servers, and what is on a socket is a well-formed packet.
THEOREM TypeCorrect == Spec => []TypeOK
<1>1. RingInv => TypeOK
  BY DEF RingInv, TypeOK
<1>. QED
  BY <1>1, RingInvariant, PTL

\* is_operating and chmpx_bhash_count never differ from what the table says,
\* through any handler, at any number of servers.
THEOREM CacheCorrect == Spec => []CacheOK
<1>1. RingInv => CacheOK
  BY DEF RingInv, CacheOK, Own, Cached
<1>. QED
  BY <1>1, RingInvariant, PTL

\* No table ever holds a status IS_SAFE_CHMPXSTS refuses, a suspended server that
\* is down, or an own status that is down - although a status received from the
\* RING is stored without any of the checks of SetStatus.
THEOREM StatusCorrect == Spec => []StatusOK
<1>1. RingInv => StatusOK
  <2>. SUFFICES ASSUME RingInv, NEW s \in Server
                PROVE  /\ IsUp(node[s].sv[s].st)
                       /\ \A t \in Server : GoodSt(node[s].sv[t].st)
    BY DEF StatusOK
  <2>1. node[s] \in Proc(s, Dead, Client(node[s])) /\ Dead \in SUBSET Server
    BY OwnProc DEF RingInv, Dead
  <2>2. IsUp(Self(node[s])) /\ node[s].id = s
    BY <2>1, ProcFacts
  <2>3. \A t \in Server : node[s].sv[t].st \in GoodStatus
    BY <2>1, ProcFacts
  <2>. QED
    BY <2>2, <2>3 DEF GoodStatus, Self
<1>. QED
  BY <1>1, RingInvariant, PTL

\* A server's suspend bit says whether a client process is attached whenever the
\* notice of the last arrival or departure has been handled, whatever the RING
\* sends meanwhile: the only server that could undo it, one that sends another's
\* status, only ever does so for a dead one.
THEOREM SuspendCorrect == Spec => []SuspendAccurate
<1>1. RingInv => SuspendAccurate
  BY DEF RingInv, SuspendAccurate, Running, Own, Informed, Accurate
<1>. QED
  BY <1>1, RingInvariant, PTL

-----------------------------------------------------------------------------
(* Agreement.  A server tells the next one of every status it changes or   *)
(* stores, in the order it does.  So, nobody dying and no second passing,  *)
(* what the next server has stored of somebody else becomes what this one  *)
(* has once it has read what is on the socket between them (Chain).  Heir  *)
(* says it of the record a handler has reached: Heir(b, k) are the records *)
(* that come of b by telling all that has changed, and one lemma per       *)
(* operator shows that it stays among them.                                *)

\* The next server of the list, up or not.
Succ(s) == After(s, 1)

\* Several servers, all up ...
Whole == N > 1 /\ now \in Nat /\ \A t \in Server : up[t]

\* ... and no second has passed.
Calm == N > 1 /\ now = 0 /\ \A t \in Server : up[t]

LEMMA CalmIsWhole == Calm => Whole
BY DEF Calm, Whole

\* How far t is from s on the way around the RING.
LEMMA DistValue ==
  ASSUME NEW s \in Server, NEW t \in Server
  PROVE  Dist(s, t) = IF t < s THEN t - s + N ELSE t - s
<1>1. N \in Nat /\ N > 0 /\ s \in 1 .. N /\ t \in 1 .. N
  BY NAssumption DEF Server
<1>2. CASE t < s
  <2>1. t - s + N \in 0 .. (N - 1)
    BY <1>1, <1>2
  <2>. QED
    BY <1>1, <1>2, <2>1 DEF Dist
<1>3. CASE t >= s
  <2>1. t - s \in 0 .. (N - 1) /\ t - s + N = 1 * N + (t - s)
    BY <1>1, <1>3
  <2>. QED
    BY <1>1, <1>3, <2>1 DEF Dist
<1>. QED
  BY <1>1, <1>2, <1>3

\* The next server of the list is another one.
LEMMA SuccValue ==
  ASSUME NEW s \in Server, N > 1
  PROVE  Succ(s) = (IF s = N THEN 1 ELSE s + 1) /\ Succ(s) \in Server /\ Succ(s) # s
<1>1. N \in Nat /\ s \in 1 .. N /\ Succ(s) = (s % N) + 1
  BY NAssumption DEF Server, Succ, After
<1>2. CASE s = N
  BY <1>1, <1>2 DEF Server
<1>3. CASE s < N
  BY <1>1, <1>3 DEF Server
<1>. QED
  BY <1>1, <1>2, <1>3

\* ... and the nearest.
LEMMA SuccNearest ==
  ASSUME NEW s \in Server, N > 1, NEW t \in Server \ {s}
  PROVE  /\ Dist(s, Succ(s)) = 1 /\ Dist(s, t) >= 1
         /\ t # Succ(s) => Dist(s, t) > 1
<1>1. N \in Nat /\ s \in 1 .. N /\ t \in 1 .. N
  BY NAssumption DEF Server
<1>. QED
  BY <1>1, SuccValue, DistValue

\* The process record when nobody is dead.
LEMMA CalmFacts ==
  ASSUME NEW k, NEW s \in Server, NEW w \in Proc(s, {}, k)
  PROVE  /\ w.id = s /\ w.sv \in Table(s, {})
         /\ \A t \in Server : IsUp(w.sv[t].st) /\ w.sv[t] \in GoodEntry
         /\ OwnUp(Self(w)) /\ Self(w) \in Status
         /\ w.out \in [Server -> Seq(GoodPacket({}))]
<1>. DEFINE D == {}
<1>1. D \in SUBSET Server /\ Server \ D = Server
  OBVIOUS
<1>2. /\ w.id = s /\ w.sv \in Table(s, D)
      /\ \A t \in Server \ D : IsUp(w.sv[t].st)
      /\ \A t \in Server : w.sv[t] \in GoodEntry
      /\ OwnUp(Self(w)) /\ Self(w) \in GoodStatus
      /\ w.out \in [Server -> Seq(GoodPacket(D))]
  <2>1. w \in Proc(s, D, k)
    OBVIOUS
  <2>. HIDE DEF D
  <2>2. w.out \in [Server -> Seq(GoodPacket(D))]
    BY <2>1 DEF Proc, ProcRec
  <2>3. w.id = s /\ w.sv \in Table(s, D)
    BY <1>1, <2>1, ProcFacts
  <2>4. \A t \in Server \ D : IsUp(w.sv[t].st)
    BY <1>1, <2>1, ProcFacts
  <2>5. \A t \in Server : w.sv[t] \in GoodEntry
    BY <1>1, <2>1, ProcFacts
  <2>6. OwnUp(Self(w)) /\ Self(w) \in GoodStatus
    BY <1>1, <2>1, ProcFacts
  <2>. QED
    BY <2>2, <2>3, <2>4, <2>5, <2>6
<1>. QED
  BY <1>1, <1>2 DEF GoodStatus

\* As nobody is down, a packet goes to the next server of the list.
LEMMA NextIsSucc ==
  ASSUME Whole, NEW k, NEW s \in Server, NEW w \in Proc(s, {}, k)
  PROVE  NextRing(w) = Succ(s) /\ NextRing(w) # NoServer /\ Succ(s) \in Server /\ Succ(s) # s
<1>1. w.id = s /\ UpOthers(w) = Server \ {s}
  BY CalmFacts DEF UpOthers
<1>2. Succ(s) \in Server \ {s} /\ Succ(s) # NoServer
  BY SuccValue DEF Whole, Server, NoServer
<1>3. \A t \in Server \ {s} : Dist(s, Succ(s)) <= Dist(s, t)
  BY SuccNearest DEF Whole
<1>. DEFINE P(t) == t \in Server \ {s} /\ \A u \in Server \ {s} : Dist(s, t) <= Dist(s, u)
<1>4. ASSUME NEW t, P(t) PROVE t = Succ(s)
  <2>1. Dist(s, t) <= 1 /\ Dist(s, t) \in Nat
    BY <1>2, <1>4, SuccNearest, DistValue, NAssumption DEF Whole, Server
  <2>. QED
    BY <1>4, <2>1, SuccNearest DEF Whole
<1>5. (CHOOSE t \in Server \ {s} : \A u \in Server \ {s} : Dist(s, t) <= Dist(s, u)) = Succ(s)
  BY <1>2, <1>3, <1>4
<1>. QED
  BY <1>1, <1>2, <1>5 DEF NextRing

-----------------------------------------------------------------------------
\* p is a notice of the status of x.
About(p, x) == p.type = "STATUS_CHANGE" /\ p.chm.id = x

\* Who reads q after having stored old as the status of x has stored new.
Says(q, x, old, new) ==
  IF \E i \in DOMAIN q : About(q[i], x)
  THEN \E i \in DOMAIN q : /\ About(q[i], x) /\ q[i].chm.st = new
                           /\ \A j \in DOMAIN q : j > i => ~About(q[j], x)
  ELSE new = old

\* w comes of b by writing q to the next server and by changing no status but the
\* own one.
Told(b, w, q) ==
  /\ w.out = [b.out EXCEPT ![Succ(b.id)] = @ \o q]
  /\ \A i \in DOMAIN q : q[i].type = "STATUS_CHANGE" =>
       q[i].chm.id = b.id /\ q[i].chm.ts = 0
  /\ \A x \in Server : w.sv[x].ts = 0 /\ (x # b.id => w.sv[x].st = b.sv[x].st)

\* ... and, for Heir, by telling of every change of the own status.
Owes(b, k) ==
  {w \in Proc(b.id, {}, k) : \E q \in Seq(GoodPacket({})) : Told(b, w, q)}

Heir(b, k) ==
  {w \in Proc(b.id, {}, k) :
     \E q \in Seq(GoodPacket({})) : Told(b, w, q) /\ Says(q, b.id, Self(b), Self(w))}

\* Who has told everything may still change its own status.
LEMMA HeirOwes ==
  ASSUME NEW b, NEW k
  PROVE  Heir(b, k) \subseteq Owes(b, k) /\ Owes(b, k) \subseteq Proc(b.id, {}, k)
BY DEF Heir, Owes

\* A record comes of itself, nothing having happened.
LEMMA FirstHeir ==
  ASSUME NEW k, NEW s \in Server, NEW b \in Proc(s, {}, k), N > 1,
         \A x \in Server : b.sv[x].ts = 0
  PROVE  b \in Heir(b, k)
<1>1. b.id = s /\ Succ(s) \in Server /\ b.out \in [Server -> Seq(GoodPacket({}))]
  BY SuccValue DEF Proc, ProcRec
<1>. DEFINE q == << >>
<1>2. q \in Seq(GoodPacket({})) /\ DOMAIN q = {}
  OBVIOUS
<1>3. b.out[Succ(s)] \o q = b.out[Succ(s)]
  BY <1>1
<1>4. [b.out EXCEPT ![Succ(s)] = @ \o q] = b.out
  BY <1>1, <1>3
<1>5. Told(b, b, q) /\ Says(q, s, Self(b), Self(b))
  <2>. HIDE DEF q
  <2>. QED
    BY <1>1, <1>2, <1>4 DEF Told, Says
<1>. QED
  BY <1>1, <1>2, <1>5 DEF Heir

\* Steps that write nothing and change no status.
LEMMA SameHeir ==
  ASSUME NEW k, NEW b, NEW w, NEW v \in Proc(b.id, {}, k), v.out = w.out,
         b.id \in Server,
         \A x \in Server : v.sv[x].st = w.sv[x].st /\ v.sv[x].ts = 0
  PROVE  /\ w \in Heir(b, k) => v \in Heir(b, k)
         /\ w \in Owes(b, k) => v \in Owes(b, k)
<1>1. \A q : Told(b, w, q) => Told(b, v, q)
  BY DEF Told
<1>2. w \in Proc(b.id, {}, k) => Self(v) = Self(w)
  BY ProcId DEF Self, Proc, ProcRec
<1>. QED
  BY <1>1, <1>2 DEF Heir, Owes

\* ... and steps that change the own status, which they owe the RING.
LEMMA OwnOwes ==
  ASSUME NEW k, NEW b, NEW w \in Owes(b, k), NEW v \in Proc(b.id, {}, k), v.out = w.out,
         \A x \in Server : v.sv[x].ts = 0 /\ (x # b.id => v.sv[x].st = w.sv[x].st)
  PROVE  v \in Owes(b, k)
<1>1. \A q : Told(b, w, q) => Told(b, v, q)
  BY DEF Told
<1>. QED
  BY <1>1 DEF Owes

-----------------------------------------------------------------------------
\* Writing q and then p to a socket is writing Append(q, p).
LEMMA AppendLast ==
  ASSUME NEW S, NEW o \in [Server -> Seq(S)], NEW n \in Server, NEW q \in Seq(S), NEW p \in S
  PROVE  [[o EXCEPT ![n] = @ \o q] EXCEPT ![n] = Append(@, p)]
           = [o EXCEPT ![n] = @ \o Append(q, p)]
<1>. DEFINE x == o[n]
<1>0. x \in Seq(S)
  OBVIOUS
<1>1. <<p>> \in Seq(S) /\ x \o q \in Seq(S)
  OBVIOUS
<1>2. (x \o q) \o <<p>> = x \o (q \o <<p>>)
  BY <1>1, ConcatAssociative
<1>3. Append(x \o q, p) = x \o Append(q, p)
  BY <1>1, <1>2, AppendIsConcat
<1>. QED
  BY <1>3

\* What one more packet says.
LEMMA SaysAppend ==
  ASSUME NEW S, NEW q \in Seq(S), NEW p \in S, NEW x, NEW old, NEW new
  PROVE  /\ ~About(p, x) /\ Says(q, x, old, new) => Says(Append(q, p), x, old, new)
         /\ About(p, x) => Says(Append(q, p), x, old, p.chm.st)
<1>. DEFINE r == Append(q, p)
            m == Len(q)
<1>1. /\ m \in Nat /\ DOMAIN q = 1 .. m /\ DOMAIN r = 1 .. (m + 1)
      /\ \A i \in 1 .. m : r[i] = q[i]
      /\ r[m + 1] = p
  BY AppendProperties, LenProperties
<1>. HIDE DEF r, m
<1>2. ASSUME About(p, x) PROVE Says(r, x, old, p.chm.st)
  <2>1. m + 1 \in DOMAIN r /\ \A j \in DOMAIN r : ~(j > m + 1)
    BY <1>1
  <2>. QED
    BY <1>1, <1>2, <2>1 DEF Says
<1>3. ASSUME ~About(p, x), Says(q, x, old, new) PROVE Says(r, x, old, new)
  <2>1. CASE \E i \in DOMAIN q : About(q[i], x)
    <3>1. PICK i \in DOMAIN q : /\ About(q[i], x) /\ q[i].chm.st = new
                                /\ \A j \in DOMAIN q : j > i => ~About(q[j], x)
      BY <1>3, <2>1 DEF Says
    <3>2. i \in DOMAIN r /\ About(r[i], x) /\ r[i].chm.st = new
      BY <1>1, <3>1
    <3>3. \A j \in DOMAIN r : j > i => ~About(r[j], x)
      BY <1>1, <1>3, <3>1
    <3>. QED
      BY <3>2, <3>3 DEF Says
  <2>2. CASE ~ \E i \in DOMAIN q : About(q[i], x)
    <3>1. new = old
      BY <1>3, <2>2 DEF Says
    <3>2. \A i \in DOMAIN r : ~About(r[i], x)
      BY <1>1, <1>3, <2>2
    <3>. QED
      BY <3>1, <3>2 DEF Says
  <2>. QED
    BY <2>1, <2>2
<1>. QED
  BY <1>2, <1>3 DEF r

\* v comes of w by writing p to the next server.
Sent(w, v, p) ==
  v.sv = w.sv /\ v.out = [w.out EXCEPT ![Succ(w.id)] = Append(@, p)] /\ v.ok

\* A packet sent to the next server.
LEMMA SendNextIs ==
  ASSUME Whole, NEW k, NEW s \in Server, NEW w \in Proc(s, {}, k),
         NEW p \in GoodPacket({})
  PROVE  SendNext(w, p) \in Proc(s, {}, k) /\ Sent(w, SendNext(w, p), p)
<1>. DEFINE D == {}
<1>1. SendNext(w, p) \in Proc(s, D, k)
  <2>1. D \in SUBSET Server /\ w \in Proc(s, D, k) /\ p \in GoodPacket(D)
    OBVIOUS
  <2>. HIDE DEF D
  <2>. QED
    BY <2>1, SendNextProc
<1>2. SendNext(w, p) = Good([w EXCEPT !.out[Succ(s)] = Append(@, p),
                                      !.link = Linked(w, Succ(s))])
  BY NextIsSucc DEF SendNext, Send, Whole
<1>3. w.out \in [Server -> Seq(GoodPacket(D))] /\ Succ(s) \in Server
  BY CalmFacts, NextIsSucc
<1>4. w \in ProcRec(s, {})
  BY DEF Proc
<1>. QED
  BY <1>1, <1>2, <1>3, <1>4 DEF Good, ProcRec, Sent

\* The records a step may start from.
Base(b) == /\ b.id \in Server
           /\ b.out \in [Server -> Seq(GoodPacket({}))]

\* One more packet written.
LEMMA ToldAppend ==
  ASSUME Calm, NEW b, Base(b), NEW w, NEW v, NEW q \in Seq(GoodPacket({})), Told(b, w, q),
         NEW p \in GoodPacket({}),
         p.type = "STATUS_CHANGE" => p.chm.id = b.id /\ p.chm.ts = 0,
         v.sv = w.sv, v.out = [w.out EXCEPT ![Succ(b.id)] = Append(@, p)]
  PROVE  Told(b, v, Append(q, p)) /\ Append(q, p) \in Seq(GoodPacket({}))
<1>. DEFINE S == GoodPacket({})
            n == Succ(b.id)
            o == b.out
<1>1. n \in Server /\ o \in [Server -> Seq(S)] /\ q \in Seq(S) /\ p \in S
  BY SuccValue DEF Calm, Base
<1>2. w.out = [o EXCEPT ![n] = @ \o q]
  BY DEF Told
<1>3. v.out = [o EXCEPT ![n] = @ \o Append(q, p)]
  <2>1. v.out = [w.out EXCEPT ![n] = Append(@, p)]
    OBVIOUS
  <2>. HIDE DEF S, n, o
  <2>2. [[o EXCEPT ![n] = @ \o q] EXCEPT ![n] = Append(@, p)] = [o EXCEPT ![n] = @ \o Append(q, p)]
    BY <1>1, AppendLast
  <2>. QED
    BY <1>2, <2>1, <2>2
<1>4. /\ Append(q, p) \in Seq(S)
      /\ \A i \in DOMAIN Append(q, p) :
           Append(q, p)[i].type = "STATUS_CHANGE" =>
             Append(q, p)[i].chm.id = b.id /\ Append(q, p)[i].chm.ts = 0
  <2>1. /\ Append(q, p) \in Seq(S) /\ Len(q) \in Nat
        /\ DOMAIN q = 1 .. Len(q) /\ DOMAIN Append(q, p) = 1 .. (Len(q) + 1)
        /\ \A i \in 1 .. Len(q) : Append(q, p)[i] = q[i]
        /\ Append(q, p)[Len(q) + 1] = p
    <3>. HIDE DEF S
    <3>. QED
      BY <1>1, AppendProperties, LenProperties
  <2>2. \A i \in DOMAIN q : q[i].type = "STATUS_CHANGE" => q[i].chm.id = b.id /\ q[i].chm.ts = 0
    BY DEF Told
  <2>. HIDE DEF S
  <2>. QED
    BY <2>1, <2>2
<1>. QED
  BY <1>3, <1>4 DEF Told

\* A packet that says nothing of a status, and the notice of the own status.
LEMMA SendHeir ==
  ASSUME Calm, NEW k, NEW b, Base(b), NEW w, NEW p \in GoodPacket({})
  PROVE  /\ w \in Heir(b, k) /\ p.type # "STATUS_CHANGE" => SendNext(w, p) \in Heir(b, k)
         /\ w \in Owes(b, k) /\ p.type # "STATUS_CHANGE" => SendNext(w, p) \in Owes(b, k)
         /\ w \in Owes(b, k) /\ About(p, b.id) /\ p.chm.ts = 0 /\ p.chm.st = Self(w)
              => SendNext(w, p) \in Heir(b, k)
<1>. DEFINE s == b.id
            v == SendNext(w, p)
<1>0. s \in Server
  BY DEF Base
<1>1. ASSUME w \in Proc(s, {}, k)
      PROVE  /\ v \in Proc(s, {}, k) /\ v.sv = w.sv
             /\ v.out = [w.out EXCEPT ![Succ(s)] = Append(@, p)]
             /\ Self(v) = Self(w)
  <2>1. v \in Proc(s, {}, k) /\ Sent(w, v, p)
    BY <1>0, <1>1, CalmIsWhole, SendNextIs
  <2>2. v.id = s /\ w.id = s
    <3>. HIDE DEF v
    <3>. QED
      BY <1>0, <1>1, <2>1, CalmFacts
  <2>. HIDE DEF v
  <2>. QED
    BY <2>1, <2>2 DEF Self, Sent
<1>. HIDE DEF v
<1>2. ASSUME NEW q \in Seq(GoodPacket({})), Told(b, w, q), w \in Proc(s, {}, k),
             p.type = "STATUS_CHANGE" => p.chm.id = s /\ p.chm.ts = 0
      PROVE  Told(b, v, Append(q, p)) /\ Append(q, p) \in Seq(GoodPacket({}))
  BY <1>1, <1>2, ToldAppend
<1>3. ASSUME w \in Heir(b, k), p.type # "STATUS_CHANGE" PROVE v \in Heir(b, k)
  <2>1. PICK q \in Seq(GoodPacket({})) : Told(b, w, q) /\ Says(q, s, Self(b), Self(w))
    BY <1>3 DEF Heir
  <2>2. Says(Append(q, p), s, Self(b), Self(w))
    BY <1>3, <2>1, SaysAppend DEF About
  <2>3. w \in Proc(s, {}, k)
    BY <1>3 DEF Heir
  <2>4. Told(b, v, Append(q, p)) /\ Append(q, p) \in Seq(GoodPacket({}))
    BY <1>2, <1>3, <2>1, <2>3
  <2>. QED
    BY <1>1, <2>2, <2>3, <2>4 DEF Heir
<1>4. ASSUME w \in Owes(b, k), p.type # "STATUS_CHANGE" PROVE v \in Owes(b, k)
  <2>1. PICK q \in Seq(GoodPacket({})) : Told(b, w, q)
    BY <1>4 DEF Owes
  <2>2. w \in Proc(s, {}, k)
    BY <1>4 DEF Owes
  <2>. QED
    BY <1>1, <1>2, <1>4, <2>1, <2>2 DEF Owes
<1>5. ASSUME w \in Owes(b, k), About(p, s), p.chm.ts = 0, p.chm.st = Self(w)
      PROVE  v \in Heir(b, k)
  <2>1. PICK q \in Seq(GoodPacket({})) : Told(b, w, q)
    BY <1>5 DEF Owes
  <2>2. w \in Proc(s, {}, k)
    BY <1>5 DEF Owes
  <2>3. Says(Append(q, p), s, Self(b), Self(w))
    BY <1>5, <2>1, SaysAppend
  <2>4. Told(b, v, Append(q, p)) /\ Append(q, p) \in Seq(GoodPacket({}))
    BY <1>2, <1>5, <2>1, <2>2 DEF About
  <2>. QED
    BY <1>1, <2>2, <2>3, <2>4 DEF Heir
<1>. QED
  BY <1>3, <1>4, <1>5 DEF v

\* The packets a server makes.
LEMMA CalmPackets ==
  ASSUME NEW k, NEW s \in Server, NEW w \in Proc(s, {}, k)
  PROVE  /\ StatusChange(w, s) \in GoodPacket({}) /\ About(StatusChange(w, s), s)
         /\ StatusChange(w, s).chm.ts = w.sv[s].ts /\ StatusChange(w, s).chm.st = Self(w)
         /\ StatusConfirm(w) \in GoodPacket({}) /\ StatusConfirm(w).type # "STATUS_CHANGE"
         /\ \A c \in Signals : /\ Signal(w, c) \in GoodPacket({})
                               /\ Signal(w, c).type # "STATUS_CHANGE"
<1>. DEFINE D == {}
<1>1. /\ StatusChange(w, s) \in GoodPacket(D)
      /\ StatusConfirm(w) \in GoodPacket(D)
      /\ \A c \in Signals : Signal(w, c) \in GoodPacket(D)
  <2>1. D \in SUBSET Server /\ w \in Proc(s, D, k)
    OBVIOUS
  <2>. HIDE DEF D
  <2>. QED
    BY <2>1, PacketTypes
<1>2. w.id = s
  BY CalmFacts
<1>. QED
  BY <1>1, <1>2 DEF About, StatusChange, ChmOf, StatusConfirm, Signal, Signals, Self

\* The own status is sent.
LEMMA NotifyHeir ==
  ASSUME Calm, NEW k, NEW b, Base(b), NEW w \in Owes(b, k)
  PROVE  NotifySelf(w) \in Heir(b, k)
<1>1. b.id \in Server /\ w \in Proc(b.id, {}, k) /\ w.sv[b.id].ts = 0
  BY DEF Base, Owes, Told
<1>2. NotifySelf(w) = SendNext(w, StatusChange(w, b.id))
  BY <1>1, CalmIsWhole, NextIsSucc, CalmFacts DEF NotifySelf, Notify
<1>. QED
  BY <1>1, <1>2, CalmPackets, SendHeir

-----------------------------------------------------------------------------
\* The methods that write nothing, when nobody is dead.
LEMMA CalmProc ==
  ASSUME Whole, NEW k, NEW s \in Server, NEW w \in Proc(s, {}, k)
  PROVE  /\ Good(w) \in Proc(s, {}, k) /\ Fail(w) \in Proc(s, {}, k)
         /\ \A c \in BOOLEAN : /\ [w EXCEPT !.run = c] \in Proc(s, {}, k)
                               /\ [w EXCEPT !.mdp = c] \in Proc(s, {}, k)
                               /\ [w EXCEPT !.sin = c] \in Proc(s, {}, k)
                               /\ [w EXCEPT !.asup = c] \in Proc(s, {}, k)
                               /\ [w EXCEPT !.asup = c, !.sin = FALSE] \in Proc(s, {}, k)
         /\ w.run \in BOOLEAN /\ w.mdp \in BOOLEAN
         /\ [w EXCEPT !.run = TRUE, !.wk = @ + 1] \in Proc(s, {}, k)
         /\ \A x \in {"idle", "wait", "done"} :
              /\ [w EXCEPT !.wst = x] \in Proc(s, {}, k)
              /\ [w EXCEPT !.wst = x, !.run = FALSE] \in Proc(s, {}, k)
         /\ w.wk > 0 => /\ [w EXCEPT !.wk = @ - 1, !.run = FALSE] \in Proc(s, {}, k)
                        /\ [w EXCEPT !.wk = @ - 1, !.wst = "wait"] \in Proc(s, {}, k)
         /\ \A d \in Server \cup {NoServer} : CheckRechainRing(w, d) \in Proc(s, {}, k)
         /\ UpdateSelfLastStatusTime(w) \in Proc(s, {}, k)
         /\ UpdatePendingHash(w) \in Proc(s, {}, k)
         /\ SetBaseHash(w, w.id, w.sv[w.id].ph) \in Proc(s, {}, k)
         /\ \A st \in Status : OwnUp(st) => SetSelfStatus(w, st) \in Proc(s, {}, k)
<1>. DEFINE D == {}
<1>1. D \in SUBSET Server /\ w \in Proc(s, D, k) /\ now \in Nat
  BY DEF Whole
<1>2. /\ Good(w) \in Proc(s, D, k) /\ Fail(w) \in Proc(s, D, k)
      /\ \A c \in BOOLEAN : /\ [w EXCEPT !.run = c] \in Proc(s, D, k)
                            /\ [w EXCEPT !.mdp = c] \in Proc(s, D, k)
                            /\ [w EXCEPT !.sin = c] \in Proc(s, D, k)
                            /\ [w EXCEPT !.asup = c] \in Proc(s, D, k)
                            /\ [w EXCEPT !.asup = c, !.sin = FALSE] \in Proc(s, D, k)
      /\ w.run \in BOOLEAN /\ w.mdp \in BOOLEAN
  <2>. HIDE DEF D
  <2>1. w.run \in BOOLEAN /\ w.mdp \in BOOLEAN
    BY <1>1, FlagsProc
  <2>. QED
    BY <1>1, <2>1, GoodFail, FlagsProc
<1>3. /\ [w EXCEPT !.run = TRUE, !.wk = @ + 1] \in Proc(s, D, k)
      /\ \A x \in {"idle", "wait", "done"} :
           /\ [w EXCEPT !.wst = x] \in Proc(s, D, k)
           /\ [w EXCEPT !.wst = x, !.run = FALSE] \in Proc(s, D, k)
      /\ w.wk > 0 => /\ [w EXCEPT !.wk = @ - 1, !.run = FALSE] \in Proc(s, D, k)
                     /\ [w EXCEPT !.wk = @ - 1, !.wst = "wait"] \in Proc(s, D, k)
  <2>. HIDE DEF D
  <2>. QED
    BY <1>1, WorkProc
<1>4. /\ \A d \in Server \cup {NoServer} : CheckRechainRing(w, d) \in Proc(s, D, k)
      /\ UpdateSelfLastStatusTime(w) \in Proc(s, D, k)
      /\ UpdatePendingHash(w) \in Proc(s, D, k)
      /\ SetBaseHash(w, w.id, w.sv[w.id].ph) \in Proc(s, D, k)
      /\ \A st \in Status : OwnUp(st) => SetSelfStatus(w, st) \in Proc(s, D, k)
  <2>. HIDE DEF D
  <2>1. \A d \in Server \cup {NoServer} : CheckRechainRing(w, d) \in Proc(s, D, k)
    BY <1>1, CheckRechainProc
  <2>2. /\ UpdateSelfLastStatusTime(w) \in Proc(s, D, k)
        /\ SetBaseHash(w, w.id, w.sv[w.id].ph) \in Proc(s, D, k)
    BY <1>1, StampProc
  <2>3. UpdatePendingHash(w) \in Proc(s, D, k)
    BY <1>1, UpdateHashProc
  <2>4. \A st \in Status : OwnUp(st) => SetSelfStatus(w, st) \in Proc(s, D, k)
    BY <1>1, SetSelfStatusProc
  <2>. QED
    BY <2>1, <2>2, <2>3, <2>4
<1>. QED
  BY <1>2, <1>3, <1>4

\* What w owes or has told, v does.
Follows(b, k, w, v) == /\ w \in Heir(b, k) => v \in Heir(b, k)
                       /\ w \in Owes(b, k) => v \in Owes(b, k)

\* Fields outside the table and the sockets.
LEMMA SameFollows ==
  ASSUME NEW k, NEW b, Base(b), NEW w \in Owes(b, k), NEW v \in Proc(b.id, {}, k),
         v.sv = w.sv, v.out = w.out
  PROVE  Follows(b, k, w, v)
<1>1. \A x \in Server : v.sv[x].st = w.sv[x].st /\ v.sv[x].ts = 0
  BY DEF Owes, Told
<1>. QED
  BY <1>1, SameHeir DEF Follows, Base

\* The result, the flags, the works of the merge worker and the chain of sockets.
LEMMA FieldsFollow ==
  ASSUME Calm, NEW k, NEW b, Base(b), NEW w \in Owes(b, k)
  PROVE  /\ Follows(b, k, w, Good(w)) /\ Follows(b, k, w, Fail(w))
         /\ \A c \in BOOLEAN : /\ Follows(b, k, w, [w EXCEPT !.run = c])
                               /\ Follows(b, k, w, [w EXCEPT !.mdp = c])
                               /\ Follows(b, k, w, [w EXCEPT !.sin = c])
                               /\ Follows(b, k, w, [w EXCEPT !.asup = c])
                               /\ Follows(b, k, w, [w EXCEPT !.asup = c, !.sin = FALSE])
         /\ Follows(b, k, w, [w EXCEPT !.run = TRUE, !.wk = @ + 1])
         /\ \A x \in {"idle", "wait", "done"} :
              /\ Follows(b, k, w, [w EXCEPT !.wst = x])
              /\ Follows(b, k, w, [w EXCEPT !.wst = x, !.run = FALSE])
         /\ w.wk > 0 => /\ Follows(b, k, w, [w EXCEPT !.wk = @ - 1, !.run = FALSE])
                        /\ Follows(b, k, w, [w EXCEPT !.wk = @ - 1, !.wst = "wait"])
         /\ \A d \in Server \cup {NoServer} : Follows(b, k, w, CheckRechainRing(w, d))
<1>. DEFINE s == b.id
<1>1. s \in Server /\ w \in Proc(s, {}, k)
  BY DEF Base, Owes
<1>2. w \in ProcRec(s, {})
  BY <1>1 DEF Proc
<1>3. \A v \in Proc(s, {}, k) : v.sv = w.sv /\ v.out = w.out => Follows(b, k, w, v)
  BY SameFollows
<1>4. ASSUME NEW d \in Server \cup {NoServer} PROVE Follows(b, k, w, CheckRechainRing(w, d))
  <2>. DEFINE v == CheckRechainRing(w, d)
  <2>1. v \in Proc(s, {}, k)
    BY <1>1, CalmIsWhole, CalmProc
  <2>2. v.sv = w.sv /\ v.out = w.out
    BY <1>2 DEF CheckRechainRing, RechainRing, ProcRec
  <2>. HIDE DEF v
  <2>3. Follows(b, k, w, v)
    BY <1>3, <2>1, <2>2
  <2>. QED
    BY <2>3 DEF v
<1>5. Follows(b, k, w, Good(w)) /\ Follows(b, k, w, Fail(w))
  <2>1. Good(w) \in Proc(s, {}, k) /\ Fail(w) \in Proc(s, {}, k)
    BY <1>1, CalmIsWhole, CalmProc
  <2>2. Good(w).sv = w.sv /\ Good(w).out = w.out /\ Fail(w).sv = w.sv /\ Fail(w).out = w.out
    BY <1>2 DEF Good, Fail, ProcRec
  <2>. QED
    BY <1>3, <2>1, <2>2
<1>6. ASSUME NEW c \in BOOLEAN
      PROVE  /\ Follows(b, k, w, [w EXCEPT !.run = c])
             /\ Follows(b, k, w, [w EXCEPT !.mdp = c])
             /\ Follows(b, k, w, [w EXCEPT !.sin = c])
             /\ Follows(b, k, w, [w EXCEPT !.asup = c])
             /\ Follows(b, k, w, [w EXCEPT !.asup = c, !.sin = FALSE])
  <2>1. /\ [w EXCEPT !.run = c] \in Proc(s, {}, k)
        /\ [w EXCEPT !.mdp = c] \in Proc(s, {}, k)
        /\ [w EXCEPT !.sin = c] \in Proc(s, {}, k)
        /\ [w EXCEPT !.asup = c] \in Proc(s, {}, k)
        /\ [w EXCEPT !.asup = c, !.sin = FALSE] \in Proc(s, {}, k)
    BY <1>1, CalmIsWhole, CalmProc
  <2>. QED
    BY <1>2, <1>3, <2>1 DEF ProcRec
<1>7. Follows(b, k, w, [w EXCEPT !.run = TRUE, !.wk = @ + 1])
  <2>1. [w EXCEPT !.run = TRUE, !.wk = @ + 1] \in Proc(s, {}, k)
    BY <1>1, CalmIsWhole, CalmProc
  <2>. QED
    BY <1>2, <1>3, <2>1 DEF ProcRec
<1>8. ASSUME NEW x \in {"idle", "wait", "done"}
      PROVE  /\ Follows(b, k, w, [w EXCEPT !.wst = x])
             /\ Follows(b, k, w, [w EXCEPT !.wst = x, !.run = FALSE])
  <2>1. /\ [w EXCEPT !.wst = x] \in Proc(s, {}, k)
        /\ [w EXCEPT !.wst = x, !.run = FALSE] \in Proc(s, {}, k)
    BY <1>1, CalmIsWhole, CalmProc
  <2>. QED
    BY <1>2, <1>3, <2>1 DEF ProcRec
<1>9. ASSUME w.wk > 0
      PROVE  /\ Follows(b, k, w, [w EXCEPT !.wk = @ - 1, !.run = FALSE])
             /\ Follows(b, k, w, [w EXCEPT !.wk = @ - 1, !.wst = "wait"])
  <2>1. /\ [w EXCEPT !.wk = @ - 1, !.run = FALSE] \in Proc(s, {}, k)
        /\ [w EXCEPT !.wk = @ - 1, !.wst = "wait"] \in Proc(s, {}, k)
    BY <1>1, <1>9, CalmIsWhole, CalmProc
  <2>. QED
    BY <1>2, <1>3, <2>1 DEF ProcRec
<1>. QED
  BY <1>4, <1>5, <1>6, <1>7, <1>8, <1>9

\* Stamping, and new hash values.
LEMMA StampFollows ==
  ASSUME Calm, NEW k, NEW b, Base(b), NEW w \in Owes(b, k)
  PROVE  /\ Follows(b, k, w, UpdateSelfLastStatusTime(w))
         /\ Follows(b, k, w, UpdatePendingHash(w))
         /\ Follows(b, k, w, SetBaseHash(w, w.id, w.sv[w.id].ph))
         /\ Self(UpdateSelfLastStatusTime(w)) = Self(w)
         /\ Self(SetBaseHash(w, w.id, w.sv[w.id].ph)) = Self(w)
<1>. DEFINE s == b.id
            u == UpdateSelfLastStatusTime(w)
            v == UpdatePendingHash(w)
            x == SetBaseHash(w, w.id, w.sv[w.id].ph)
<1>1. s \in Server /\ w \in Proc(s, {}, k) /\ now = 0
  BY DEF Base, Owes, Calm
<1>2. w.id = s /\ w.sv \in [Server -> Entry] /\ w \in ProcRec(s, {})
  BY <1>1 DEF Proc, ProcRec, Table, GoodEntry, GoodStatus, Entry
<1>3. \A t \in Server : w.sv[t].ts = 0 /\ w.sv[t] \in Entry
  BY <1>2 DEF Owes, Told
<1>4. u \in Proc(s, {}, k) /\ v \in Proc(s, {}, k) /\ x \in Proc(s, {}, k)
  BY <1>1, CalmIsWhole, CalmProc
<1>5. /\ u.out = w.out /\ u.id = s
      /\ \A t \in Server : u.sv[t].st = w.sv[t].st /\ u.sv[t].ts = 0
  BY <1>1, <1>2, <1>3 DEF UpdateSelfLastStatusTime, ProcRec, Entry
<1>6. v.out = w.out /\ \A t \in Server : v.sv[t].st = w.sv[t].st /\ v.sv[t].ts = 0
  BY <1>1, <1>2, <1>3 DEF UpdatePendingHash, ProcRec, Entry
<1>7. /\ x.out = w.out /\ x.id = s
      /\ \A t \in Server : x.sv[t].st = w.sv[t].st /\ x.sv[t].ts = 0
  BY <1>1, <1>2, <1>3 DEF SetBaseHash, ProcRec, Entry
<1>. HIDE DEF u, v, x
<1>8. Follows(b, k, w, u)
  BY <1>1, <1>4, <1>5, SameHeir DEF Follows
<1>9. Follows(b, k, w, v)
  BY <1>1, <1>4, <1>6, SameHeir DEF Follows
<1>10. Follows(b, k, w, x)
  BY <1>1, <1>4, <1>7, SameHeir DEF Follows
<1>11. Self(u) = Self(w) /\ Self(x) = Self(w)
  BY <1>1, <1>2, <1>5, <1>7 DEF Self
<1>. QED
  BY <1>8, <1>9, <1>10, <1>11 DEF u, v, x

\* A new own status: refused, or owed to the RING.
LEMMA SelfOwes ==
  ASSUME Calm, NEW k, NEW b, Base(b), NEW w \in Owes(b, k), NEW st \in Status, OwnUp(st)
  PROVE  /\ SetSelfStatus(w, st) \in Owes(b, k)
         /\ w \in Heir(b, k) /\ ~SetSelfStatus(w, st).ok => SetSelfStatus(w, st) \in Heir(b, k)
<1>. DEFINE s == b.id
            f == SuspendFlag(st, ~w.join)
            v == SetSelfStatus(w, st)
<1>1. s \in Server /\ w \in Proc(s, {}, k) /\ now = 0
  BY DEF Base, Owes, Calm
<1>2. w.id = s /\ w.sv \in [Server -> Entry] /\ w \in ProcRec(s, {})
  BY <1>1 DEF Proc, ProcRec, Table, GoodEntry, GoodStatus, Entry
<1>3. \A t \in Server : w.sv[t].ts = 0 /\ w.sv[t] \in Entry
  BY <1>2 DEF Owes, Told
<1>4. v \in Proc(s, {}, k)
  BY <1>1, CalmIsWhole, CalmProc
<1>5. CASE IsSafe(f)
  <2>1. v = Good(Recount([w EXCEPT !.sv[s].st = f, !.sv[s].ts = now]))
    BY <1>2, <1>5 DEF SetSelfStatus, SetStatus
  <2>2. /\ v.ok /\ v.out = w.out
        /\ \A t \in Server : v.sv[t].ts = 0 /\ (t # s => v.sv[t].st = w.sv[t].st)
    <3>. HIDE DEF f, v
    <3>. QED
      BY <1>1, <1>2, <1>3, <2>1 DEF Good, Recount, ProcRec, Entry
  <2>3. v \in Owes(b, k)
    <3>. HIDE DEF v
    <3>. QED
      BY <1>4, <2>2, OwnOwes
  <2>. QED
    BY <2>2, <2>3
<1>6. CASE ~IsSafe(f)
  <2>1. v = Fail(w)
    BY <1>2, <1>6 DEF SetSelfStatus, SetStatus
  <2>. QED
    BY <2>1, FieldsFollow DEF Follows
<1>. QED
  BY <1>5, <1>6

\* The outcome of setting the own status.
Due(b, k) == {w \in Owes(b, k) : ~w.ok => w \in Heir(b, k)}

\* Any status the process gives itself.
LEMMA SelfDue ==
  ASSUME Calm, NEW k, NEW b, Base(b), NEW w \in Heir(b, k)
  PROVE  /\ SetSelfStatus(w, StartedStatus(Self(w))) \in Due(b, k)
         /\ SetSelfStatus(w, AbortedStatus(Self(w))) \in Due(b, k)
         /\ SetSelfStatus(w, SuspendedStatus(Self(w))) \in Due(b, k)
         /\ SetSelfStatus(w, ChangeToSrvIn(Self(w))) \in Due(b, k)
         /\ SetSelfStatus(w, ChangeToSrvOut(Self(w))) \in Due(b, k)
         /\ SetSelfStatus(w, CompletedStatus(Self(w))) \in Due(b, k)
         /\ SetSelfStatus(w, [Self(w) EXCEPT !.op = "DONE"]) \in Due(b, k)
         /\ SetSelfStatus(w, [Self(w) EXCEPT !.sup = "NOSUP"]) \in Due(b, k)
         /\ SetSelfStatus(w, SRVIN_UP_PENDING) \in Due(b, k)
<1>1. w \in Owes(b, k) /\ w \in Proc(b.id, {}, k) /\ b.id \in Server
  BY HeirOwes DEF Base
<1>2. Self(w) \in Status /\ OwnUp(Self(w))
  BY <1>1, CalmFacts
<1>3. SRVIN_UP_PENDING \in Status /\ OwnUp(SRVIN_UP_PENDING)
  BY DEF SRVIN_UP_PENDING, Sts, Status, OwnUp, IsUp, Live, Ring, Act, Operate, Suspend
<1>4. \A st \in Status : OwnUp(st) => SetSelfStatus(w, st) \in Due(b, k)
  BY <1>1, SelfOwes DEF Due
<1>. QED
  BY <1>2, <1>3, <1>4, OwnStatus

\* The own status is stamped and sent, and signals are: all is told.
LEMMA PublishHeir ==
  ASSUME Calm, NEW k, NEW b, Base(b)
  PROVE  /\ \A w \in Owes(b, k) : Renew(w) \in Heir(b, k) /\ Renew(w).ok
         /\ \A w \in Due(b, k) : PublishSelf(w) \in Heir(b, k)
         /\ \A w \in Heir(b, k) : SendConfirm(w) \in Heir(b, k)
         /\ \A w \in Heir(b, k), c \in Signals :
              /\ SendNext(w, Signal(w, c)) \in Heir(b, k)
              /\ ThenSignal(w, c) \in Heir(b, k)
<1>. DEFINE s == b.id
<1>1. s \in Server /\ \A w \in Owes(b, k) : w \in Proc(s, {}, k)
  BY DEF Base, Owes
<1>2. Heir(b, k) \subseteq Owes(b, k)
  BY HeirOwes
<1>3. ASSUME NEW w \in Owes(b, k) PROVE Renew(w) \in Heir(b, k) /\ Renew(w).ok
  <2>. DEFINE u == UpdateSelfLastStatusTime(w)
  <2>1. u \in Owes(b, k) /\ w.id = s
    BY <1>1, StampFollows, CalmFacts DEF Follows
  <2>. HIDE DEF u
  <2>2. u \in Proc(s, {}, k) /\ u.sv[s].ts = 0
    BY <1>1, <2>1 DEF Owes, Told
  <2>3. /\ StatusChange(u, s) \in GoodPacket({}) /\ About(StatusChange(u, s), s)
        /\ StatusChange(u, s).chm.ts = 0 /\ StatusChange(u, s).chm.st = Self(u)
    BY <1>1, <2>2, CalmPackets
  <2>4. SendNext(u, StatusChange(u, s)) \in Heir(b, k)
    BY <2>1, <2>3, SendHeir
  <2>5. SendNext(u, StatusChange(u, s)).ok
    BY <1>1, <2>2, <2>3, CalmIsWhole, SendNextIs DEF Sent
  <2>6. Renew(w) = SendNext(u, StatusChange(u, s))
    BY <2>1 DEF Renew, u
  <2>. QED
    BY <2>4, <2>5, <2>6
<1>4. ASSUME NEW w \in Due(b, k) PROVE PublishSelf(w) \in Heir(b, k)
  <2>1. w \in Owes(b, k) /\ (~w.ok => w \in Heir(b, k))
    BY DEF Due
  <2>2. UpdatePendingHash(w) \in Owes(b, k)
    BY <2>1, StampFollows DEF Follows
  <2>. QED
    BY <2>1, <2>2, NotifyHeir DEF PublishSelf
<1>5. ASSUME NEW w \in Heir(b, k) PROVE SendConfirm(w) \in Heir(b, k)
  <2>1. StatusConfirm(w) \in GoodPacket({}) /\ StatusConfirm(w).type # "STATUS_CHANGE"
    BY <1>1, <1>2, CalmPackets
  <2>. QED
    BY <2>1, SendHeir DEF SendConfirm
<1>6. ASSUME NEW w \in Heir(b, k), NEW c \in Signals
      PROVE  SendNext(w, Signal(w, c)) \in Heir(b, k) /\ ThenSignal(w, c) \in Heir(b, k)
  <2>1. Signal(w, c) \in GoodPacket({}) /\ Signal(w, c).type # "STATUS_CHANGE"
    BY <1>1, <1>2, CalmPackets
  <2>. QED
    BY <2>1, SendHeir DEF ThenSignal
<1>. QED
  BY <1>3, <1>4, <1>5, <1>6

\* There is a next server, and nobody to act for.
LEMMA AllAreUp ==
  ASSUME Whole, NEW k, NEW s \in Server, NEW w \in Proc(s, {}, k)
  PROVE  /\ NextRing(w) # NoServer
         /\ \A type : ChangeDownSvr(w, type) = Good(w)
         /\ ServiceOutDown(w) = Good(w)
         /\ \A old, new : ~IsUp(old) => ReplaceDown(w, old, new) = Good(w)
<1>1. \A t \in Server : IsUp(w.sv[t].st)
  BY CalmFacts
<1>2. NextRing(w) # NoServer
  BY NextIsSucc
<1>3. ASSUME NEW type PROVE ChangeDownSvr(w, type) = Good(w)
  <2>1. {t \in Server : /\ IsSrvIn(w.sv[t].st)
                        /\ ~IsUp(w.sv[t].st)
                        /\ w.sv[t].st.act = "DELETE"
                        /\ type = "START" => w.sv[t].st.op # "DONE"} = {}
    BY <1>1
  <2>. QED
    BY <2>1 DEF ChangeDownSvr
<1>4. ASSUME NEW old, ~IsUp(old) PROVE WithStatus(w, old) = {}
  BY <1>1, <1>4 DEF WithStatus
<1>5. ServiceOutDown(w) = Good(w)
  BY <1>4, DownStatus DEF ServiceOutDown
<1>6. ASSUME NEW old, NEW new, ~IsUp(old) PROVE ReplaceDown(w, old, new) = Good(w)
  BY <1>4, <1>6 DEF ReplaceDown
<1>. QED
  BY <1>2, <1>3, <1>5, <1>6

LEMMA NobodyDown ==
  ASSUME Calm, NEW k, NEW b, Base(b), NEW w \in Owes(b, k)
  PROVE  /\ NextRing(w) # NoServer
         /\ \A type : ChangeDownSvr(w, type) = Good(w)
         /\ ServiceOutDown(w) = Good(w)
         /\ \A old, new : ~IsUp(old) => ReplaceDown(w, old, new) = Good(w)
<1>1. b.id \in Server /\ w \in Proc(b.id, {}, k)
  BY DEF Base, Owes
<1>. QED
  BY <1>1, CalmIsWhole, AllAreUp

-----------------------------------------------------------------------------
\* MergeComplete and RequestMergeComplete tell what they change.
LEMMA MergeCompleteHeir ==
  ASSUME Calm, NEW k, NEW b, Base(b), NEW w \in Heir(b, k)
  PROVE  MergeComplete(w) \in Heir(b, k) /\ RequestMergeComplete(w) \in Heir(b, k)
         /\ SendMergeComplete(w) \in Heir(b, k)
<1>1. Heir(b, k) \subseteq Owes(b, k)
  BY HeirOwes
<1>2. ASSUME NEW v \in Due(b, k) PROVE Completed(v) \in Heir(b, k)
  <2>1. v \in Owes(b, k) /\ (~v.ok => v \in Heir(b, k))
    BY DEF Due
  <2>2. UpdateSelfLastStatusTime(v) \in Owes(b, k)
    BY <2>1, StampFollows DEF Follows
  <2>. QED
    BY <2>1, <2>2, NotifyHeir DEF Completed
<1>3. ASSUME NEW v \in Heir(b, k) PROVE CompleteSelf(v) \in Heir(b, k)
  <2>. DEFINE u == SetBaseHash(v, v.id, v.sv[v.id].ph)
  <2>1. u \in Heir(b, k) /\ Self(u) = Self(v)
    BY <1>1, StampFollows DEF Follows
  <2>. HIDE DEF u
  <2>2. SetSelfStatus(u, CompletedStatus(Self(u))) \in Due(b, k)
    BY <2>1, SelfDue
  <2>3. Fail(v) \in Heir(b, k)
    BY <1>1, FieldsFollow DEF Follows
  <2>. QED
    BY <1>2, <2>1, <2>2, <2>3 DEF CompleteSelf, u
<1>4. MergeComplete(w) \in Heir(b, k)
  BY <1>1, <1>3, NobodyDown, FieldsFollow DEF MergeComplete, Follows
<1>5. SendMergeComplete(w) \in Heir(b, k)
  BY <1>1, PublishHeir DEF SendMergeComplete, Signals
<1>6. RequestMergeComplete(w) \in Heir(b, k)
  BY <1>1, <1>5, NobodyDown, FieldsFollow DEF RequestMergeComplete, Follows
<1>. QED
  BY <1>4, <1>5, <1>6

\* ... and so do MergeDone, MergeStart and RequestMergeStart,
LEMMA MergeStartHeir ==
  ASSUME Calm, NEW k, NEW b, Base(b), NEW w \in Heir(b, k)
  PROVE  /\ MergeDone(w) \in Heir(b, k)
         /\ MergeStart(w) \in Heir(b, k)
         /\ RequestMergeStart(w) \in Heir(b, k)
<1>1. Heir(b, k) \subseteq Owes(b, k)
  BY HeirOwes
<1>2. \A v \in Heir(b, k) : Good(v) \in Heir(b, k) /\ Fail(v) \in Heir(b, k)
  BY <1>1, FieldsFollow DEF Follows
<1>3. ASSUME NEW v \in Heir(b, k) PROVE AwaitComplete(v) \in Heir(b, k)
  <2>1. v.mdp \in BOOLEAN
    BY <1>1, CalmIsWhole, CalmProc DEF Owes, Base
  <2>2. \A c \in BOOLEAN : [v EXCEPT !.mdp = c] \in Heir(b, k)
    BY <1>1, FieldsFollow DEF Follows
  <2>3. (IF IsAutoMerge(v) THEN TRUE ELSE v.mdp) \in BOOLEAN
    BY <2>1
  <2>. QED
    BY <2>2, <2>3 DEF AwaitComplete
<1>4. ASSUME NEW v \in Due(b, k) PROVE AnnounceDone(v) \in Heir(b, k)
  <2>1. v \in Owes(b, k) /\ (~v.ok => v \in Heir(b, k))
    BY DEF Due
  <2>2. NextRing(v) # NoServer
    BY <2>1, NobodyDown
  <2>3. NotifySelf(v) \in Heir(b, k)
    BY <2>1, NotifyHeir
  <2>. QED
    BY <1>2, <1>3, <2>1, <2>2, <2>3 DEF AnnounceDone
<1>5. ASSUME NEW v \in Heir(b, k) PROVE MergeDone(v) \in Heir(b, k)
  <2>1. SetSelfStatus(v, [Self(v) EXCEPT !.op = "DONE"]) \in Due(b, k)
    BY SelfDue
  <2>. QED
    BY <1>2, <1>4, <2>1 DEF MergeDone
<1>6. ASSUME NEW v \in Heir(b, k) PROVE RunMerge(v) \in Heir(b, k)
  <2>1. [v EXCEPT !.run = TRUE, !.wk = @ + 1] \in Heir(b, k)
    BY <1>1, FieldsFollow DEF Follows
  <2>. QED
    BY <1>2, <1>5, <2>1 DEF RunMerge
<1>7. ASSUME NEW v \in Due(b, k) PROVE Started(v) \in Heir(b, k)
  <2>1. v \in Owes(b, k) /\ (~v.ok => v \in Heir(b, k))
    BY DEF Due
  <2>2. NotifySelf(v) \in Heir(b, k)
    BY <2>1, NotifyHeir
  <2>3. ChangeDownSvr(NotifySelf(v), "START") \in Heir(b, k)
    BY <1>1, <1>2, <2>2, NobodyDown
  <2>. QED
    BY <1>2, <1>6, <2>1, <2>3 DEF Started
<1>8. MergeStart(w) \in Heir(b, k)
  BY <1>2, <1>7, SelfDue DEF MergeStart
<1>9. RequestMergeStart(w) \in Heir(b, k)
  <2>1. UpdateSelfLastStatusTime(w) \in Heir(b, k)
    BY <1>1, StampFollows DEF Follows
  <2>2. SendConfirm(UpdateSelfLastStatusTime(w)) \in Heir(b, k)
    BY <2>1, PublishHeir
  <2>. QED
    BY <1>1, <1>2, <2>2, NobodyDown DEF RequestMergeStart
<1>. QED
  BY <1>5, <1>8, <1>9

\* ... MergeAbort and RequestMergeAbort,
LEMMA MergeAbortHeir ==
  ASSUME Calm, NEW k, NEW b, Base(b), NEW w \in Heir(b, k)
  PROVE  MergeAbort(w) \in Heir(b, k) /\ RequestMergeAbort(w) \in Heir(b, k)
<1>1. Heir(b, k) \subseteq Owes(b, k)
  BY HeirOwes
<1>2. ASSUME NEW v \in Heir(b, k) PROVE AbortDown(v) \in Heir(b, k)
  <2>1. Good(v) \in Heir(b, k) /\ ChangeDownSvr(v, "ABORT") = Good(v)
    BY <1>1, NobodyDown, FieldsFollow DEF Follows
  <2>. QED
    BY <2>1 DEF AbortDown
<1>3. MergeAbort(w) \in Heir(b, k)
  <2>. DEFINE u == [w EXCEPT !.run = IF DoMerge THEN FALSE ELSE @]
  <2>1. w.run \in BOOLEAN
    BY <1>1, CalmIsWhole, CalmProc DEF Owes, Base
  <2>2. u \in Heir(b, k)
    <3>1. (IF DoMerge THEN FALSE ELSE w.run) \in BOOLEAN
      BY <2>1
    <3>. QED
      BY <1>1, <3>1, FieldsFollow DEF Follows
  <2>. HIDE DEF u
  <2>3. PublishSelf(SetSelfStatus(u, AbortedStatus(Self(u)))) \in Heir(b, k)
    BY <2>2, SelfDue, PublishHeir
  <2>. QED
    BY <1>2, <2>3 DEF MergeAbort, u
<1>4. RequestMergeAbort(w) \in Heir(b, k)
  BY <1>1, NobodyDown, PublishHeir DEF RequestMergeAbort, Signals
<1>. QED
  BY <1>3, <1>4

\* ... the requests of operators and clients,
LEMMA RequestHeir ==
  ASSUME Calm, NEW k, NEW b, Base(b), NEW w \in Heir(b, k)
  PROVE  /\ RequestServiceIn(w) \in Heir(b, k)
         /\ RequestServiceOut(w, b.id) \in Heir(b, k)
         /\ RequestMergeSuspend(w) \in Heir(b, k)
         /\ RequestMergeNoSuspend(w) \in Heir(b, k)
         /\ ContinuousAutoMerge(w) \in Heir(b, k)
         /\ DoSuspend(w) \in Heir(b, k)
         /\ JoinNotify(w) \in Heir(b, k)
<1>. DEFINE s == b.id
<1>1. Heir(b, k) \subseteq Owes(b, k)
  BY HeirOwes
<1>2. \A v \in Heir(b, k) : Good(v) \in Heir(b, k) /\ Fail(v) \in Heir(b, k)
  BY <1>1, FieldsFollow DEF Follows
<1>3. s \in Server /\ \A v \in Owes(b, k) : v \in Proc(s, {}, k) /\ v.id = s
  BY CalmFacts DEF Base, Owes
<1>4. \A v \in Heir(b, k) : RequestServiceIn(v) \in Heir(b, k)
  BY <1>2, SelfDue, PublishHeir DEF RequestServiceIn
<1>5. RequestServiceOut(w, s) \in Heir(b, k)
  <2>1. ASSUME NEW v \in Owes(b, k) PROVE SendServiceOut(v, s) \in Heir(b, k)
    <3>1. /\ StatusChange(v, s) \in GoodPacket({}) /\ About(StatusChange(v, s), s)
          /\ StatusChange(v, s).chm.ts = v.sv[s].ts /\ StatusChange(v, s).chm.st = Self(v)
      BY <1>3, CalmPackets
    <3>2. v.sv[s].ts = 0
      BY <1>3 DEF Owes, Told
    <3>3. SendNext(v, StatusChange(v, s)) \in Heir(b, k)
      BY <3>1, <3>2, SendHeir
    <3>. QED
      BY <1>3, <3>3 DEF SendServiceOut
  <2>2. ASSUME NEW v \in Heir(b, k) PROVE AutoComplete(v) \in Heir(b, k)
    BY <2>2, MergeCompleteHeir DEF AutoComplete
  <2>3. ASSUME NEW v \in Due(b, k) PROVE PublishOut(v, s) \in Heir(b, k)
    <3>1. v \in Owes(b, k) /\ (~v.ok => v \in Heir(b, k))
      BY DEF Due
    <3>2. UpdatePendingHash(v) \in Owes(b, k)
      BY <3>1, StampFollows DEF Follows
    <3>. QED
      BY <2>1, <2>2, <3>1, <3>2 DEF PublishOut
  <2>4. w.id = s /\ w.sv[s].st = Self(w)
    BY <1>1, <1>3 DEF Self
  <2>5. SetSelfStatus(w, ChangeToSrvOut(Self(w))) \in Due(b, k)
    BY SelfDue
  <2>. QED
    BY <1>2, <2>3, <2>4, <2>5 DEF RequestServiceOut
<1>6. RequestMergeSuspend(w) \in Heir(b, k) /\ RequestMergeNoSuspend(w) \in Heir(b, k)
  <2>. DEFINE u == [w EXCEPT !.asup = TRUE, !.sin = FALSE]
              v == [w EXCEPT !.asup = FALSE]
  <2>1. u \in Heir(b, k) /\ v \in Heir(b, k)
    BY <1>1, FieldsFollow DEF Follows
  <2>. HIDE DEF u, v
  <2>2. /\ SendNext(u, Signal(u, "MERGE_SUSPEND")) \in Heir(b, k)
        /\ SendNext(v, Signal(v, "MERGE_NOSUSPEND")) \in Heir(b, k)
        /\ NextRing(w) # NoServer
    BY <1>1, <2>1, PublishHeir, NobodyDown DEF Signals
  <2>. QED
    BY <2>2 DEF RequestMergeSuspend, RequestMergeNoSuspend, u, v
<1>7. ASSUME NEW v \in Heir(b, k) PROVE ContinuousAutoMerge(v) \in Heir(b, k)
  <2>1. ASSUME NEW u \in Heir(b, k) PROVE StartupDone(u) \in Heir(b, k)
    <3>1. [u EXCEPT !.sin = FALSE] \in Heir(b, k)
      BY <1>1, <2>1, FieldsFollow DEF Follows
    <3>. QED
      BY <1>2, <3>1, MergeStartHeir DEF StartupDone
  <2>2. Good(v) \in Heir(b, k) /\ RequestServiceIn(v) \in Heir(b, k)
    BY <1>2, <1>4
  <2>. QED
    BY <2>1, <2>2 DEF ContinuousAutoMerge
<1>8. DoSuspend(w) \in Heir(b, k)
  <2>1. ASSUME NEW v \in Heir(b, k), NEW c PROVE AbortIf(v, c) \in Heir(b, k)
    BY <2>1, MergeAbortHeir DEF AbortIf
  <2>2. PublishSelf(SetSelfStatus(w, SuspendedStatus(Self(w)))) \in Heir(b, k)
    BY SelfDue, PublishHeir
  <2>. QED
    BY <1>2, <2>1, <2>2 DEF DoSuspend
<1>9. JoinNotify(w) \in Heir(b, k)
  <2>1. ASSUME NEW v \in Heir(b, k) PROVE ThenContinue(v) \in Heir(b, k)
    BY <1>7 DEF ThenContinue
  <2>2. /\ PublishSelf(SetSelfStatus(w, SRVIN_UP_PENDING)) \in Heir(b, k)
        /\ PublishSelf(SetSelfStatus(w, [Self(w) EXCEPT !.sup = "NOSUP"])) \in Heir(b, k)
    BY SelfDue, PublishHeir
  <2>. QED
    BY <1>2, <2>1, <2>2 DEF JoinNotify
<1>. QED
  BY <1>4, <1>5, <1>6, <1>7, <1>8, <1>9

\* Packets passed on.
LEMMA TransferHeir ==
  ASSUME Calm, NEW k, NEW b, Base(b), NEW w \in Heir(b, k), NEW p \in GoodPacket({}),
         p.type # "STATUS_CHANGE", NEW r \in Result
  PROVE  /\ Forward(w, p) \in Heir(b, k) /\ Transfer(w, p) \in Heir(b, k)
         /\ Forward(w, [p EXCEPT !.res = r]) \in Heir(b, k)
         /\ Transfer(w, [p EXCEPT !.res = r]) \in Heir(b, k)
<1>1. Good(w) \in Heir(b, k) /\ Fail(w) \in Heir(b, k)
  BY HeirOwes, FieldsFollow DEF Follows
<1>2. [p EXCEPT !.res = r] \in GoodPacket({})
  BY PassedPacket
<1>3. [p EXCEPT !.res = r].type # "STATUS_CHANGE"
  BY DEF GoodPacket, Packet
<1>4. ASSUME NEW x \in GoodPacket({}), x.type # "STATUS_CHANGE"
      PROVE  Forward(w, x) \in Heir(b, k) /\ Transfer(w, x) \in Heir(b, k)
  <2>1. SendNext(w, x) \in Heir(b, k)
    BY <1>4, SendHeir
  <2>. QED
    BY <1>1, <2>1 DEF Forward, Transfer
<1>. QED
  BY <1>2, <1>3, <1>4

\* ... and the handlers of packets, but for another server's status.
LEMMA ReceiveHeir ==
  ASSUME Calm, NEW k, NEW b, Base(b), NEW w \in Heir(b, k), NEW p \in GoodPacket({})
  PROVE  /\ p.type # "STATUS_CHANGE" =>
              /\ ReceiveStatusConfirm(w, p) \in Heir(b, k)
              /\ ReceiveMergeStart(w, p) \in Heir(b, k)
              /\ ReceiveMergeAbort(w, p) \in Heir(b, k)
              /\ ReceiveMergeComplete(w, p) \in Heir(b, k)
              /\ ReceiveMergeSuspend(w, p) \in Heir(b, k)
              /\ ReceiveMergeNoSuspend(w, p) \in Heir(b, k)
         /\ StatusChangeBack(w, p) \in Heir(b, k)
<1>. DEFINE H == Heir(b, k)
<1>1. H \subseteq Owes(b, k)
  BY HeirOwes
<1>2. \A v \in H : Good(v) \in H /\ Fail(v) \in H
  BY <1>1, FieldsFollow DEF Follows
<1>3. \A v \in H : /\ NextRing(v) # NoServer
                   /\ ServiceOutDown(v) = Good(v)
                   /\ \A old, new : ~IsUp(old) => ReplaceDown(v, old, new) = Good(v)
  BY <1>1, NobodyDown
<1>4. "SUCCESS" \in Result /\ "ERROR" \in Result
  BY DEF Result
<1>5. ASSUME p.type # "STATUS_CHANGE", NEW v \in H
      PROVE  /\ Forward(v, p) \in H /\ Transfer(v, p) \in H
             /\ \A r \in Result : /\ Forward(v, [p EXCEPT !.res = r]) \in H
                                  /\ Transfer(v, [p EXCEPT !.res = r]) \in H
  BY <1>4, <1>5, TransferHeir
<1>6. ASSUME p.type # "STATUS_CHANGE" PROVE ReceiveStatusConfirm(w, p) \in H
  <2>1. ASSUME NEW v \in H PROVE ConfirmAgain(v) \in H
    BY PublishHeir DEF ConfirmAgain
  <2>2. RetryConfirm(w) \in H
    BY <1>1, <2>1, PublishHeir DEF RetryConfirm
  <2>3. SendNext(w, Signal(w, "MERGE_START")) \in H
    BY PublishHeir DEF Signals
  <2>. QED
    BY <1>2, <1>4, <1>5, <1>6, <2>2, <2>3 DEF ReceiveStatusConfirm
<1>7. ASSUME p.type # "STATUS_CHANGE" PROVE ReceiveMergeStart(w, p) \in H
  <2>1. ASSUME NEW v \in H PROVE ThenMergeStart(v) \in H
    BY MergeStartHeir DEF ThenMergeStart
  <2>2. ReplaceDown(w, SRVIN_DOWN_DELPENDING, SRVIN_DOWN_DELETED) \in H
    BY <1>2, <1>3, DownStatus
  <2>. QED
    BY <1>2, <1>5, <1>7, <2>1, <2>2 DEF ReceiveMergeStart
<1>8. ASSUME p.type # "STATUS_CHANGE" PROVE ReceiveMergeAbort(w, p) \in H
  <2>1. ASSUME NEW v \in H PROVE Aborted(v, p) \in H
    <3>1. ReplaceDown(v, SRVIN_DOWN_DELETED, SRVIN_DOWN_DELPENDING) \in H
      BY <1>2, <1>3, DownStatus
    <3>2. \A u \in H : ContinuousAutoMerge(u) \in H
      BY RequestHeir
    <3>. QED
      BY <3>1, <3>2 DEF Aborted
  <2>2. ASSUME NEW v \in H PROVE ThenMergeAbort(v, p) \in H
    BY <2>1, MergeAbortHeir DEF ThenMergeAbort
  <2>. QED
    BY <1>2, <1>5, <1>8, <2>2 DEF ReceiveMergeAbort
<1>9. ASSUME p.type # "STATUS_CHANGE" PROVE ReceiveMergeComplete(w, p) \in H
  <2>1. \A v \in H : /\ MergeComplete(v) \in H /\ SendMergeComplete(v) \in H
                     /\ ContinuousAutoMerge(v) \in H
    BY MergeCompleteHeir, RequestHeir
  <2>2. ASSUME NEW v \in H PROVE RetryComplete(v) \in H /\ DownOut(v, p) \in H
    BY <1>2, <1>3, <2>1 DEF RetryComplete, DownOut
  <2>3. ASSUME NEW v \in H, NEW all PROVE ThenMergeComplete(v, p, all) \in H
    BY <2>1, <2>2 DEF ThenMergeComplete
  <2>4. ReplaceDown(w, SRVIN_DOWN_DELETED, SRVOUT_DOWN_NORMAL) \in H
    BY <1>2, <1>3, DownStatus
  <2>5. \A r \in Result : Transfer(w, [p EXCEPT !.res = r]) \in H
    BY <1>5, <1>9
  <2>. QED
    BY <1>2, <1>4, <2>3, <2>4, <2>5 DEF ReceiveMergeComplete
<1>10. ASSUME p.type # "STATUS_CHANGE"
       PROVE  ReceiveMergeSuspend(w, p) \in H /\ ReceiveMergeNoSuspend(w, p) \in H
  <2>1. [w EXCEPT !.asup = TRUE, !.sin = FALSE] \in H /\ [w EXCEPT !.asup = FALSE] \in H
    BY <1>1, FieldsFollow DEF Follows
  <2>2. /\ Forward([w EXCEPT !.asup = TRUE, !.sin = FALSE], p) \in H
        /\ Forward([w EXCEPT !.asup = FALSE], p) \in H
        /\ Transfer(w, p) \in H /\ Good(w) \in H
    BY <1>2, <1>5, <1>10, <2>1
  <2>. QED
    BY <2>2 DEF ReceiveMergeSuspend, ReceiveMergeNoSuspend
<1>11. StatusChangeBack(w, p) \in H
  <2>1. ASSUME NEW v \in H PROVE RetryNotice(v, p) \in H
    <3>1. UpdateSelfLastStatusTime(v) \in Owes(b, k)
      BY <1>1, StampFollows DEF Follows
    <3>2. NotifySelf(UpdateSelfLastStatusTime(v)) \in H
      BY <3>1, NotifyHeir
    <3>. QED
      BY <3>2 DEF RetryNotice
  <2>2. RequestMergeComplete(w) \in H /\ Good(w) \in H
    BY <1>2, MergeCompleteHeir
  <2>. QED
    BY <2>1, <2>2 DEF StatusChangeBack
<1>. QED
  BY <1>6, <1>7, <1>8, <1>9, <1>10, <1>11

\* Commands and the steps of the merge worker.
LEMMA CommandHeir ==
  ASSUME Calm, NEW k, NEW b, Base(b), NEW w \in Heir(b, k), NEW t \in Server
  PROVE  /\ CtlComServiceIn(w) \in Heir(b, k)
         /\ CtlComServiceOut(w, t) \in Heir(b, k)
         /\ CtlComUpdateStatus(w) \in Heir(b, k)
         /\ w.wk > 0 => WorkerBegin(w) \in Heir(b, k)
         /\ WorkerFinish(w) \in Heir(b, k)
         /\ WorkerStop(w) \in Heir(b, k)
         /\ WorkerClear(w) \in Heir(b, k)
<1>. DEFINE H == Heir(b, k)
<1>1. H \subseteq Owes(b, k)
  BY HeirOwes
<1>2. \A v \in H : Good(v) \in H /\ Fail(v) \in H
  BY <1>1, FieldsFollow DEF Follows
<1>3. CtlComServiceIn(w) \in H
  <2>1. \A v \in H : AutoStart(v) \in H
    BY MergeStartHeir DEF AutoStart
  <2>. QED
    BY <2>1, RequestHeir DEF CtlComServiceIn
<1>4. CtlComServiceOut(w, t) \in H
  <2>1. w.id = b.id /\ IsUp(w.sv[t].st)
    BY <1>1, CalmFacts DEF Owes, Base
  <2>. QED
    BY <1>2, <2>1, RequestHeir DEF CtlComServiceOut
<1>5. CtlComUpdateStatus(w) \in H
  BY <1>1, <1>2, PublishHeir DEF CtlComUpdateStatus
<1>6. ASSUME w.wk > 0 PROVE WorkerBegin(w) \in H
  BY <1>1, <1>6, FieldsFollow DEF Follows, WorkerBegin
<1>7. \A v \in H, x \in {"idle", "wait", "done"} :
        [v EXCEPT !.wst = x] \in H /\ [v EXCEPT !.wst = x, !.run = FALSE] \in H
  BY <1>1, FieldsFollow DEF Follows
<1>8. WorkerFinish(w) \in H
  <2>1. MergeDone(w) \in H
    BY MergeStartHeir
  <2>. QED
    BY <1>7, <2>1 DEF WorkerFinish, Reported
<1>9. WorkerStop(w) \in H /\ WorkerClear(w) \in H
  BY <1>7 DEF WorkerStop, WorkerClear
<1>. QED
  BY <1>3, <1>4, <1>5, <1>6, <1>8, <1>9

-----------------------------------------------------------------------------
\* What two writes in a row say, and what is left once the first packet is read.
LEMMA SaysConcat ==
  ASSUME NEW S, NEW q \in Seq(S), NEW r \in Seq(S), NEW x, NEW old, NEW mid, NEW new,
         Says(q, x, old, mid), Says(r, x, mid, new)
  PROVE  Says(q \o r, x, old, new)
<1>. DEFINE c == q \o r
            m == Len(q)
            n == Len(r)
<1>1. /\ m \in Nat /\ n \in Nat /\ DOMAIN q = 1 .. m /\ DOMAIN r = 1 .. n
      /\ DOMAIN c = 1 .. (m + n)
      /\ \A i \in 1 .. m : c[i] = q[i]
      /\ \A i \in 1 .. n : c[m + i] = r[i]
  <2>1. /\ m \in Nat /\ n \in Nat /\ DOMAIN q = 1 .. m /\ DOMAIN r = 1 .. n
    BY LenProperties
  <2>2. c \in Seq(S) /\ Len(c) = m + n
    BY ConcatProperties
  <2>3. \A i \in 1 .. (m + n) : c[i] = IF i <= m THEN q[i] ELSE r[i - m]
    BY ConcatProperties
  <2>4. DOMAIN c = 1 .. (m + n)
    BY <2>2, LenProperties
  <2>. HIDE DEF c, m, n
  <2>5. \A i \in 1 .. m : c[i] = q[i]
    BY <2>1, <2>3
  <2>6. ASSUME NEW i \in 1 .. n PROVE c[m + i] = r[i]
    <3>1. m + i \in 1 .. (m + n) /\ ~(m + i <= m) /\ (m + i) - m = i
      BY <2>1
    <3>. QED
      BY <2>3, <3>1
  <2>. QED
    BY <2>1, <2>4, <2>5, <2>6
<1>. HIDE DEF c, m, n
<1>2. \A j \in 1 .. (m + n) : j > m => j - m \in 1 .. n /\ c[j] = r[j - m]
  <2>. SUFFICES ASSUME NEW j \in 1 .. (m + n), j > m
                PROVE  j - m \in 1 .. n /\ c[j] = r[j - m]
    OBVIOUS
  <2>1. j - m \in 1 .. n /\ m + (j - m) = j
    BY <1>1
  <2>. QED
    BY <1>1, <2>1
<1>3. CASE \E i \in DOMAIN r : About(r[i], x)
  <2>1. PICK i \in DOMAIN r : /\ About(r[i], x) /\ r[i].chm.st = new
                              /\ \A j \in DOMAIN r : j > i => ~About(r[j], x)
    BY <1>3 DEF Says
  <2>2. m + i \in DOMAIN c /\ About(c[m + i], x) /\ c[m + i].chm.st = new
    BY <1>1, <2>1
  <2>3. ASSUME NEW j \in DOMAIN c, j > m + i PROVE ~About(c[j], x)
    <3>1. j - m \in 1 .. n /\ c[j] = r[j - m] /\ j - m > i
      BY <1>1, <1>2, <2>1, <2>3
    <3>. QED
      BY <1>1, <2>1, <3>1
  <2>. QED
    BY <2>2, <2>3 DEF Says, c
<1>4. CASE ~ \E i \in DOMAIN r : About(r[i], x)
  <2>1. mid = new
    BY <1>4 DEF Says
  <2>2. CASE \E i \in DOMAIN q : About(q[i], x)
    <3>1. PICK i \in DOMAIN q : /\ About(q[i], x) /\ q[i].chm.st = new
                                /\ \A j \in DOMAIN q : j > i => ~About(q[j], x)
      BY <2>1, <2>2 DEF Says
    <3>2. i \in DOMAIN c /\ About(c[i], x) /\ c[i].chm.st = new
      BY <1>1, <3>1
    <3>3. ASSUME NEW j \in DOMAIN c, j > i PROVE ~About(c[j], x)
      <4>1. CASE j <= m
        <5>1. j \in DOMAIN q /\ c[j] = q[j]
          BY <1>1, <4>1
        <5>. QED
          BY <3>1, <3>3, <5>1
      <4>2. CASE j > m
        <5>1. j - m \in DOMAIN r /\ c[j] = r[j - m]
          BY <1>1, <1>2, <4>2
        <5>. QED
          BY <1>4, <5>1
      <4>. QED
        BY <1>1, <4>1, <4>2
    <3>. QED
      BY <3>2, <3>3 DEF Says, c
  <2>3. CASE ~ \E i \in DOMAIN q : About(q[i], x)
    <3>1. old = new
      BY <2>1, <2>3 DEF Says
    <3>2. ASSUME NEW j \in DOMAIN c PROVE ~About(c[j], x)
      <4>1. CASE j <= m
        <5>1. j \in DOMAIN q /\ c[j] = q[j]
          BY <1>1, <4>1
        <5>. QED
          BY <2>3, <5>1
      <4>2. CASE j > m
        <5>1. j - m \in DOMAIN r /\ c[j] = r[j - m]
          BY <1>1, <1>2, <4>2
        <5>. QED
          BY <1>4, <5>1
      <4>. QED
        BY <1>1, <4>1, <4>2
    <3>. QED
      BY <3>1, <3>2 DEF Says, c
  <2>. QED
    BY <2>2, <2>3
<1>. QED
  BY <1>3, <1>4

\* What stands in q \o r stands in q or in r.
LEMMA ConcatElement ==
  ASSUME NEW S, NEW q \in Seq(S), NEW r \in Seq(S), NEW i \in DOMAIN (q \o r)
  PROVE  (q \o r)[i] \in {q[j] : j \in DOMAIN q} \cup {r[j] : j \in DOMAIN r}
<1>. DEFINE m == Len(q)
            n == Len(r)
<1>1. m \in Nat /\ n \in Nat /\ DOMAIN q = 1 .. m /\ DOMAIN r = 1 .. n
  BY LenProperties
<1>2. q \o r \in Seq(S) /\ Len(q \o r) = m + n
  BY ConcatProperties
<1>3. i \in 1 .. (m + n)
  BY <1>2, LenProperties
<1>4. (q \o r)[i] = IF i <= m THEN q[i] ELSE r[i - m]
  BY <1>3, ConcatProperties
<1>. HIDE DEF m, n
<1>5. IF i <= m THEN i \in DOMAIN q ELSE i - m \in DOMAIN r
  BY <1>1, <1>3
<1>. QED
  BY <1>4, <1>5

\* The first packet has been read, and stored.
LEMMA SaysTail ==
  ASSUME NEW S, NEW q \in Seq(S), q # << >>, NEW x, NEW old, NEW new, Says(q, x, old, new)
  PROVE  /\ About(Head(q), x) => Says(Tail(q), x, Head(q).chm.st, new)
         /\ ~About(Head(q), x) => Says(Tail(q), x, old, new)
<1>. DEFINE r == Tail(q)
            n == Len(q)
<1>1. /\ n \in Nat /\ n > 0 /\ DOMAIN q = 1 .. n /\ DOMAIN r = 1 .. (n - 1)
      /\ \A i \in 1 .. (n - 1) : r[i] = q[i + 1]
      /\ Head(q) = q[1]
  <2>1. n \in Nat /\ DOMAIN q = 1 .. n /\ n # 0
    BY LenProperties, EmptySeq
  <2>2. r \in Seq(S) /\ Len(r) = n - 1 /\ \A i \in 1 .. (n - 1) : r[i] = q[i + 1]
    BY HeadTailProperties
  <2>3. DOMAIN r = 1 .. (n - 1)
    BY <2>2, LenProperties
  <2>. QED
    BY <2>1, <2>2, <2>3
<1>. HIDE DEF r, n
<1>2. \A i \in 2 .. n : i - 1 \in DOMAIN r /\ r[i - 1] = q[i]
  <2>. SUFFICES ASSUME NEW i \in 2 .. n PROVE i - 1 \in DOMAIN r /\ r[i - 1] = q[i]
    OBVIOUS
  <2>1. i - 1 \in 1 .. (n - 1) /\ (i - 1) + 1 = i
    BY <1>1
  <2>. QED
    BY <1>1, <2>1
<1>3. \A j \in DOMAIN r : j + 1 \in DOMAIN q /\ j + 1 \in 2 .. n /\ r[j] = q[j + 1]
  BY <1>1
<1>4. CASE \E i \in 2 .. n : About(q[i], x)
  <2>1. \E i \in DOMAIN q : About(q[i], x)
    BY <1>1, <1>4
  <2>2. PICK i \in DOMAIN q : /\ About(q[i], x) /\ q[i].chm.st = new
                              /\ \A j \in DOMAIN q : j > i => ~About(q[j], x)
    BY <2>1 DEF Says
  <2>3. i \in 2 .. n
    BY <1>1, <1>4, <2>2
  <2>4. i - 1 \in DOMAIN r /\ About(r[i - 1], x) /\ r[i - 1].chm.st = new
    BY <1>2, <2>2, <2>3
  <2>5. ASSUME NEW j \in DOMAIN r, j > i - 1 PROVE ~About(r[j], x)
    <3>1. j + 1 \in DOMAIN q /\ r[j] = q[j + 1] /\ j + 1 > i
      BY <1>1, <1>3, <2>3, <2>5
    <3>. QED
      BY <2>2, <3>1
  <2>. QED
    BY <2>4, <2>5 DEF Says, r
<1>5. CASE ~ \E i \in 2 .. n : About(q[i], x)
  <2>1. \A j \in DOMAIN r : ~About(r[j], x)
    BY <1>3, <1>5
  <2>2. About(q[1], x) => q[1].chm.st = new
    <3>1. ASSUME About(q[1], x) PROVE q[1].chm.st = new
      <4>1. 1 \in DOMAIN q /\ \A i \in DOMAIN q : i # 1 => i \in 2 .. n
        BY <1>1
      <4>2. \E i \in DOMAIN q : About(q[i], x) /\ q[i].chm.st = new
        BY <3>1, <4>1 DEF Says
      <4>. QED
        BY <1>5, <4>1, <4>2
    <3>. QED
      BY <3>1
  <2>3. ~About(q[1], x) => new = old
    <3>1. ASSUME ~About(q[1], x) PROVE new = old
      <4>1. \A i \in DOMAIN q : i = 1 \/ i \in 2 .. n
        BY <1>1
      <4>2. ~ \E i \in DOMAIN q : About(q[i], x)
        BY <1>5, <3>1, <4>1
      <4>. QED
        BY <4>2 DEF Says
    <3>. QED
      BY <3>1
  <2>. QED
    BY <1>1, <2>1, <2>2, <2>3 DEF Says, r
<1>. QED
  BY <1>4, <1>5

-----------------------------------------------------------------------------
\* What the server makes of its record b: v.  The next server hears of every
\* status that changes.
Passes(b, v) ==
  \E q \in Seq(GoodPacket({})) :
    /\ v.out = [b.out EXCEPT ![Succ(b.id)] = @ \o q]
    /\ \A i \in DOMAIN q : q[i].type = "STATUS_CHANGE" => q[i].chm.ts = 0
    /\ \A x \in Server : v.sv[x].ts = 0 /\ Says(q, x, b.sv[x].st, v.sv[x].st)

\* Who has told every change of the own status, and changed no other, passes on all.
LEMMA HeirPasses ==
  ASSUME Calm, NEW k, NEW b, Base(b), NEW v \in Heir(b, k)
  PROVE  Passes(b, v) /\ \A x \in Server : x # b.id => v.sv[x].st = b.sv[x].st
<1>. DEFINE s == b.id
<1>1. PICK q \in Seq(GoodPacket({})) : Told(b, v, q) /\ Says(q, s, Self(b), Self(v))
  BY DEF Heir
<1>2. v.id = s /\ s \in Server
  BY CalmFacts DEF Heir, Base
<1>3. ASSUME NEW x \in Server PROVE Says(q, x, b.sv[x].st, v.sv[x].st)
  <2>1. CASE x = s
    BY <1>1, <1>2, <2>1 DEF Self
  <2>2. CASE x # s
    <3>1. \A i \in DOMAIN q : ~About(q[i], x)
      BY <1>1, <2>2 DEF Told, About
    <3>2. v.sv[x].st = b.sv[x].st
      BY <1>1, <2>2 DEF Told
    <3>. QED
      BY <3>1, <3>2 DEF Says
  <2>. QED
    BY <2>1, <2>2
<1>. QED
  BY <1>1, <1>3 DEF Passes, Told

\* Another server's status is stored and passed on.
LEMMA PassPasses ==
  ASSUME Calm, NEW k, NEW s \in Server, NEW b \in Proc(s, {}, k),
         \A x \in Server : b.sv[x].ts = 0,
         NEW p \in GoodPacket({}), p.type = "STATUS_CHANGE", p.chm.ts = 0, p.dept # s
  PROVE  /\ Passes(b, StatusChangePass(b, p))
         /\ StatusChangePass(b, p) \in Proc(s, {}, k)
         /\ \A x \in Server : StatusChangePass(b, p).sv[x].st =
                                IF x = p.chm.id THEN p.chm.st ELSE b.sv[x].st
<1>. DEFINE c == p.chm
            y == p.chm.id
            w1 == [b EXCEPT !.sv[y].st = c.st, !.sv[y].ts = c.ts]
            w2 == MergeChmpxSvrs(b, c)
            w3 == CheckRechainRing(w2, y)
            v == SendNext(w3, p)
<1>1. /\ b.id = s /\ b.sv \in [Server -> Entry] /\ b \in ProcRec(s, {}) /\ now = 0
      /\ b.out \in [Server -> Seq(GoodPacket({}))]
  BY CalmFacts DEF Calm, Proc, ProcRec, Table, GoodEntry, GoodStatus, Entry
<1>2. c \in GoodChm /\ y = p.dept /\ y # s /\ y \in Server /\ IsUp(c.st) /\ c.ts = 0
  <2>. DEFINE D == {}
  <2>1. D \in SUBSET Server /\ p \in GoodPacket(D) /\ y \notin D
    OBVIOUS
  <2>. HIDE DEF D
  <2>2. c \in GoodChm /\ p.dept = y /\ IsUp(c.st)
    BY <2>1, PassedPacket
  <2>. QED
    BY <2>2 DEF GoodChm
<1>3. IsLatest(b, c)
  BY <1>2 DEF IsLatest
<1>4. w2 = Good(Recount(UpdatePendingHash(UpdateBaseHash(w1))))
  BY <1>1, <1>2, <1>3 DEF MergeChmpxSvrs
<1>5. /\ w2.out = b.out
      /\ \A x \in Server : /\ w2.sv[x].st = IF x = y THEN c.st ELSE b.sv[x].st
                           /\ w2.sv[x].ts = 0
  <2>. DEFINE e == [b.sv[y] EXCEPT !.st = c.st, !.ts = c.ts]
              u == [b.sv EXCEPT ![y] = e]
  <2>1. c.st \in Status
    BY <1>2 DEF GoodChm, GoodStatus
  <2>2. e \in Entry /\ e.st = c.st
    BY <1>1, <1>2, <2>1 DEF Entry
  <2>3. w1 = [b EXCEPT !.sv = u]
    BY <1>1, <1>2 DEF ProcRec
  <2>. HIDE DEF e
  <2>4. u \in [Server -> Entry] /\ \A x \in Server : u[x].st = IF x = y THEN c.st ELSE b.sv[x].st
    BY <1>1, <1>2, <2>2
  <2>. HIDE DEF u
  <2>5. w1.out = b.out /\ w1.sv = u /\ {"sv", "out", "bcnt", "oper", "ok"} \subseteq DOMAIN w1
    BY <1>1, <2>3 DEF ProcRec
  <2>. HIDE DEF w1
  <2>. DEFINE w5 == UpdateBaseHash(w1)
              w6 == UpdatePendingHash(w5)
  <2>. DEFINE g(x) == IF IsBaseHash(u[x].st) THEN BaseRank(u, x) ELSE NoHash
              h(x) == IF IsPendingHash(w5.sv[x].st) THEN PendingRank(w5.sv, x) ELSE NoHash
  <2>6. /\ w5.out = b.out /\ {"sv", "out", "bcnt", "oper", "ok"} \subseteq DOMAIN w5
        /\ w5.sv = [x \in Server |-> [u[x] EXCEPT !.bh = g(x), !.ts = now]]
    BY <2>5 DEF UpdateBaseHash
  <2>. HIDE DEF w5, g
  <2>7. \A x \in Server : w5.sv[x] = [st |-> u[x].st, bh |-> g(x), ph |-> u[x].ph, ts |-> 0]
    <3>. SUFFICES ASSUME NEW x \in Server
                  PROVE  w5.sv[x] = [st |-> u[x].st, bh |-> g(x), ph |-> u[x].ph, ts |-> 0]
      OBVIOUS
    <3>1. u[x] \in [st : Status, bh : Hash, ph : Hash, ts : Nat]
      BY <2>4 DEF Entry
    <3>2. w5.sv[x] = [u[x] EXCEPT !.bh = g(x), !.ts = 0]
      BY <1>1, <2>6
    <3>. QED
      BY <3>1, <3>2
  <2>8. /\ w6.out = b.out /\ {"sv", "out", "bcnt", "oper", "ok"} \subseteq DOMAIN w6
        /\ w6.sv = [x \in Server |-> [w5.sv[x] EXCEPT !.ph = h(x), !.ts = now]]
    BY <2>6 DEF UpdatePendingHash
  <2>. HIDE DEF w6, h
  <2>9. \A x \in Server : w6.sv[x].st = u[x].st /\ w6.sv[x].ts = 0
    <3>. SUFFICES ASSUME NEW x \in Server PROVE w6.sv[x].st = u[x].st /\ w6.sv[x].ts = 0
      OBVIOUS
    <3>1. w6.sv[x] = [w5.sv[x] EXCEPT !.ph = h(x), !.ts = 0]
      BY <1>1, <2>8
    <3>2. w5.sv[x] = [st |-> u[x].st, bh |-> g(x), ph |-> u[x].ph, ts |-> 0]
      BY <2>7
    <3>3. w5.sv[x] \in [st : {u[x].st}, bh : {g(x)}, ph : {u[x].ph}, ts : {0}]
      BY <3>2
    <3>. QED
      BY <3>1, <3>3
  <2>10. w2 = Good(Recount(w6))
    BY <1>4 DEF w5, w6
  <2>. HIDE DEF w2
  <2>11. w2.out = b.out /\ w2.sv = w6.sv
    BY <2>8, <2>10 DEF Good, Recount
  <2>. QED
    BY <2>4, <2>9, <2>11
<1>6. w2 \in Proc(s, {}, k)
  <2>. DEFINE D == {}
  <2>1. D \in SUBSET Server /\ b \in Proc(s, D, k) /\ now \in Nat
    BY <1>1
  <2>2. w2 \in Proc(s, D, k)
    <3>. HIDE DEF D
    <3>. QED
      BY <1>2, <2>1, MergeChmpxSvrsProc
  <2>. QED
    BY <2>2
<1>. HIDE DEF w2
<1>7. w3 \in Proc(s, {}, k)
  BY <1>2, <1>6, CalmIsWhole, CalmProc
<1>8. w3.sv = w2.sv /\ w3.out = w2.out
  <2>1. w2 \in ProcRec(s, {})
    BY <1>6 DEF Proc
  <2>. QED
    BY <2>1 DEF CheckRechainRing, RechainRing, ProcRec
<1>. HIDE DEF w3
<1>9. NextRing(w3) = Succ(s) /\ NextRing(w3) # NoServer /\ Succ(s) \in Server
  BY <1>7, CalmIsWhole, NextIsSucc
<1>10. IsSafeDept(w3, p.dept)
  <2>1. w3.id = s
    BY <1>7, CalmFacts
  <2>2. p.dept \in Server \ {s} /\ Dist(s, Succ(s)) = 1
    BY <1>2, SuccNearest DEF Calm
  <2>3. p.dept # Succ(s) => Dist(s, p.dept) > 1
    BY <2>2, SuccNearest DEF Calm
  <2>. QED
    BY <1>9, <2>1, <2>2, <2>3 DEF IsSafeDept
<1>11. StatusChangePass(b, p) = v
  <2>1. [p EXCEPT !.chm.st = c.st] = p
    BY <1>2 DEF GoodPacket, Packet, Chm
  <2>2. StatusChangePass(b, p) = Transfer(w3, [p EXCEPT !.chm.st = c.st])
    BY <1>1, <1>2 DEF StatusChangePass, w2, w3
  <2>. QED
    BY <1>9, <1>10, <2>1, <2>2 DEF Transfer, Forward
<1>12. v \in Proc(s, {}, k) /\ Sent(w3, v, p) /\ w3.id = s
  BY <1>7, CalmIsWhole, SendNextIs, CalmFacts
<1>. HIDE DEF v
<1>13. v.out = [b.out EXCEPT ![Succ(s)] = @ \o <<p>>]
  <2>1. v.out = [b.out EXCEPT ![Succ(s)] = Append(@, p)]
    BY <1>5, <1>8, <1>12 DEF Sent
  <2>2. Append(b.out[Succ(s)], p) = b.out[Succ(s)] \o <<p>>
    BY <1>1, <1>9, AppendIsConcat
  <2>. QED
    BY <2>1, <2>2
<1>14. \A x \in Server : /\ v.sv[x].st = IF x = y THEN c.st ELSE b.sv[x].st
                         /\ v.sv[x].ts = 0
  BY <1>5, <1>8, <1>12 DEF Sent
<1>15. Passes(b, v)
  <2>. DEFINE q == <<p>>
  <2>1. q \in Seq(GoodPacket({})) /\ DOMAIN q = {1} /\ q[1] = p
    OBVIOUS
  <2>2. About(p, y) /\ \A x : x # y => ~About(p, x)
    BY DEF About
  <2>. HIDE DEF q
  <2>3. ASSUME NEW x \in Server PROVE Says(q, x, b.sv[x].st, v.sv[x].st)
    <3>1. CASE x = y
      <4>1. About(q[1], x) /\ q[1].chm.st = v.sv[x].st
        BY <1>14, <2>1, <2>2, <3>1
      <4>. QED
        BY <2>1, <4>1 DEF Says
    <3>2. CASE x # y
      <4>1. ~About(q[1], x) /\ v.sv[x].st = b.sv[x].st
        BY <1>14, <2>1, <2>2, <3>2
      <4>. QED
        BY <2>1, <4>1 DEF Says
    <3>. QED
      BY <3>1, <3>2
  <2>4. v.out = [b.out EXCEPT ![Succ(b.id)] = @ \o q]
    BY <1>1, <1>13 DEF q
  <2>. QED
    BY <1>2, <1>14, <2>1, <2>3, <2>4 DEF Passes
<1>. QED
  BY <1>11, <1>12, <1>14, <1>15

-----------------------------------------------------------------------------
\* The inductive invariant of StatusAgrees: whatever a server sends is on the way
\* to the next one, which has the status of everybody but itself as this server
\* has it, or will have it once it has read what is under way.
Chain(s) ==
  /\ \A x \in Server : node[s].sv[x].ts = 0
  /\ \A t \in Server \ {Succ(s)} : node[s].out[t] = << >>
  /\ \A i \in DOMAIN node[s].out[Succ(s)] :
       node[s].out[Succ(s)][i].type = "STATUS_CHANGE" =>
         node[s].out[Succ(s)][i].chm.ts = 0
  /\ \A x \in Server \ {Succ(s)} :
       Says(node[s].out[Succ(s)], x, node[Succ(s)].sv[x].st, node[s].sv[x].st)

AllUp == \A t \in Server : up[t]

ChainInv == N > 1 /\ AllUp => \A s \in Server : Chain(s)

\* Two servers do not have the same next one.
LEMMA SuccInjective ==
  ASSUME N > 1, NEW r \in Server, NEW s \in Server, Succ(r) = Succ(s)
  PROVE  r = s
<1>1. N \in Nat /\ r \in 1 .. N /\ s \in 1 .. N
  BY NAssumption DEF Server
<1>. QED
  BY <1>1, SuccValue

\* The records of a RING on which nobody is dead.
LEMMA CalmNode ==
  ASSUME RingInv, AllUp, NEW s \in Server
  PROVE  /\ node[s] \in Proc(s, {}, Client(node[s])) /\ node[s].id = s /\ Base(node[s])
         /\ Dead = {}
<1>1. Dead = {} /\ {} \in SUBSET Server
  BY DEF Dead, AllUp
<1>2. node[s] \in Proc(s, Dead, Client(node[s])) /\ Dead \in SUBSET Server
  BY <1>1, OwnProc DEF RingInv
<1>3. node[s] \in Proc(s, {}, Client(node[s]))
  BY <1>1, <1>2
<1>4. node[s].id = s /\ node[s].out \in [Server -> Seq(GoodPacket({}))]
  BY <1>3, CalmFacts
<1>. QED
  BY <1>1, <1>3, <1>4 DEF Base

\* What one server does: it may read a packet of the server before it, which then
\* is what it stores of the others; else it changes only its own status.
Reads(s, t, v) ==
  /\ node[t].out[s] # << >>
  /\ node'[t].out = [node[t].out EXCEPT ![s] = Tail(@)]
  /\ \A x \in Server \ {s} :
       v.sv[x].st = IF About(Head(node[t].out[s]), x) THEN Head(node[t].out[s]).chm.st
                                                      ELSE node[s].sv[x].st

Turn(s, v) ==
  /\ Passes(node[s], v)
  /\ node'[s].sv = v.sv /\ node'[s].out = v.out
  /\ \A t \in Server \ {s} :
       /\ node'[t].sv = node[t].sv
       /\ Reads(s, t, v) \/ node'[t].out = node[t].out
  /\ \/ \E t \in Server \ {s} : Reads(s, t, v)
     \/ \A x \in Server \ {s} : v.sv[x].st = node[s].sv[x].st

\* Whatever one server does, its neighbours stay chained to it.
LEMMA TurnChain ==
  ASSUME RingInv, AllUp, N > 1, \A s \in Server : Chain(s),
         NEW s \in Server, NEW v, Turn(s, v)
  PROVE  \A t \in Server : Chain(t)'
<1>. SUFFICES ASSUME NEW t \in Server PROVE Chain(t)'
  OBVIOUS
<1>. DEFINE S == GoodPacket({})
            n == Succ(t)
            o == node[t].out
<1>1. /\ n \in Server /\ n # t /\ o \in [Server -> Seq(S)] /\ node[t].id = t
      /\ node[s].id = s
  BY SuccValue, CalmNode DEF Base
<1>2. Chain(t)
  OBVIOUS
<1>3. CASE t = s
  <2>1. PICK q \in Seq(S) :
          /\ v.out = [o EXCEPT ![n] = @ \o q]
          /\ \A i \in DOMAIN q : q[i].type = "STATUS_CHANGE" => q[i].chm.ts = 0
          /\ \A x \in Server : v.sv[x].ts = 0 /\ Says(q, x, node[s].sv[x].st, v.sv[x].st)
    BY <1>1, <1>3 DEF Turn, Passes
  <2>2. node'[n].sv = node[n].sv /\ node'[t].sv = v.sv /\ node'[t].out = v.out
    BY <1>1, <1>3 DEF Turn
  <2>3. o[n] \in Seq(S) /\ node'[t].out[n] = o[n] \o q
    BY <1>1, <2>1, <2>2
  <2>4. \A u \in Server \ {n} : node'[t].out[u] = << >>
    BY <1>1, <1>2, <2>1, <2>2 DEF Chain
  <2>5. \A x \in Server \ {n} : Says(node'[t].out[n], x, node'[n].sv[x].st, node'[t].sv[x].st)
    <3>. SUFFICES ASSUME NEW x \in Server \ {n}
                  PROVE  Says(node'[t].out[n], x, node'[n].sv[x].st, node'[t].sv[x].st)
      OBVIOUS
    <3>1. Says(o[n], x, node[n].sv[x].st, node[t].sv[x].st)
      BY <1>2 DEF Chain
    <3>2. Says(q, x, node[t].sv[x].st, v.sv[x].st)
      BY <1>3, <2>1
    <3>. HIDE DEF S, o, n
    <3>3. Says(o[n] \o q, x, node[n].sv[x].st, v.sv[x].st)
      BY <2>3, <3>1, <3>2, SaysConcat
    <3>. QED
      BY <2>2, <2>3, <3>3
  <2>6. ASSUME NEW i \in DOMAIN node'[t].out[n], node'[t].out[n][i].type = "STATUS_CHANGE"
        PROVE  node'[t].out[n][i].chm.ts = 0
    <3>. DEFINE a == o[n]
    <3>1. /\ \A j \in DOMAIN a : a[j].type = "STATUS_CHANGE" => a[j].chm.ts = 0
          /\ \A j \in DOMAIN q : q[j].type = "STATUS_CHANGE" => q[j].chm.ts = 0
      BY <1>2, <2>1 DEF Chain
    <3>. HIDE DEF S, a
    <3>2. a \in Seq(S) /\ node'[t].out[n] = a \o q
      BY <2>3 DEF a
    <3>3. (a \o q)[i] \in {a[j] : j \in DOMAIN a} \cup {q[j] : j \in DOMAIN q}
      BY <2>6, <3>2, ConcatElement
    <3>. QED
      BY <2>6, <3>1, <3>2, <3>3
  <2>. QED
    BY <2>1, <2>2, <2>4, <2>5, <2>6 DEF Chain
<1>4. CASE t # s
  <2>1. node'[t].sv = node[t].sv /\ (Reads(s, t, v) \/ node'[t].out = o)
    BY <1>4 DEF Turn
  <2>2. CASE n = s
    <3>1. node'[n].sv = v.sv
      BY <2>2 DEF Turn
    <3>2. CASE Reads(s, t, v)
      <4>1. o[n] # << >> /\ node'[t].out = [o EXCEPT ![n] = Tail(@)] /\ o[n] \in Seq(S)
        BY <1>1, <2>2, <3>2 DEF Reads
      <4>2. node'[t].out[n] = Tail(o[n]) /\ \A u \in Server \ {n} : node'[t].out[u] = << >>
        BY <1>1, <1>2, <4>1 DEF Chain
      <4>3. ASSUME NEW x \in Server \ {n}
            PROVE  Says(node'[t].out[n], x, node'[n].sv[x].st, node'[t].sv[x].st)
        <5>. DEFINE a == o[n]
        <5>1. Says(a, x, node[n].sv[x].st, node[t].sv[x].st)
          BY <1>2, <4>3 DEF Chain
        <5>2. v.sv[x].st = IF About(Head(a), x) THEN Head(a).chm.st ELSE node[n].sv[x].st
          BY <2>2, <3>2, <4>3 DEF Reads
        <5>3. a \in Seq(S) /\ a # << >>
          BY <4>1
        <5>. HIDE DEF a, S
        <5>4. Says(Tail(a), x, v.sv[x].st, node[t].sv[x].st)
          BY <5>1, <5>2, <5>3, SaysTail
        <5>. QED
          BY <2>1, <3>1, <4>2, <5>4 DEF a
      <4>4. ASSUME NEW i \in DOMAIN node'[t].out[n],
                   node'[t].out[n][i].type = "STATUS_CHANGE"
            PROVE  node'[t].out[n][i].chm.ts = 0
        <5>. DEFINE a == o[n]
        <5>1. \A j \in DOMAIN a : a[j].type = "STATUS_CHANGE" => a[j].chm.ts = 0
          BY <1>2 DEF Chain
        <5>2. a \in Seq(S) /\ a # << >>
          BY <4>1
        <5>. HIDE DEF a, S
        <5>3. i \in DOMAIN Tail(a) /\ node'[t].out[n][i] = Tail(a)[i]
          BY <4>2, <4>4 DEF a
        <5>4. i + 1 \in DOMAIN a /\ Tail(a)[i] = a[i + 1]
          BY <5>2, <5>3, HeadTailProperties, LenProperties
        <5>. QED
          BY <4>4, <5>1, <5>3, <5>4
      <4>5. \A x \in Server : node'[t].sv[x].ts = 0
        BY <1>2, <2>1 DEF Chain
      <4>. QED
        BY <4>2, <4>3, <4>4, <4>5 DEF Chain
    <3>3. CASE ~Reads(s, t, v)
      <4>1. node'[t].out = o
        BY <2>1, <3>3
      <4>2. \A u \in Server \ {s} : ~Reads(s, u, v)
        <5>. SUFFICES ASSUME NEW u \in Server \ {s}, Reads(s, u, v) PROVE FALSE
          OBVIOUS
        <5>1. node[u].out[s] # << >>
          BY DEF Reads
        <5>2. Succ(u) = s
          BY <5>1 DEF Chain
        <5>3. u = t
          BY <2>2, <5>2, SuccInjective
        <5>. QED
          BY <3>3, <5>3
      <4>3. \A x \in Server \ {s} : v.sv[x].st = node[s].sv[x].st
        BY <4>2 DEF Turn
      <4>. QED
        BY <1>2, <2>1, <2>2, <3>1, <4>1, <4>3 DEF Chain
    <3>. QED
      BY <3>2, <3>3
  <2>3. CASE n # s
    <3>1. node'[n].sv = node[n].sv
      BY <1>1, <2>3 DEF Turn
    <3>2. ~Reads(s, t, v)
      BY <1>2, <2>3 DEF Reads, Chain
    <3>. QED
      BY <1>2, <2>1, <3>1, <3>2 DEF Chain
  <2>. QED
    BY <2>2, <2>3
<1>. QED
  BY <1>3, <1>4

\* The record a handler starts from: that of the server, but for what it has just
\* taken note of.
Fresh(s, b, k) == b \in Proc(s, {}, k) /\ b.sv = node[s].sv /\ b.out = node[s].out

\* A handler that starts from such a record and tells its changes keeps the chain.
LEMMA OwnTurn ==
  ASSUME RingInv, Calm, \A s \in Server : Chain(s), NEW s \in Server, NEW k, NEW b, Fresh(s, b, k)
  PROVE  /\ Base(b) /\ b \in Heir(b, k)
         /\ \A v \in Heir(b, k) :
              node' = [node EXCEPT ![s] = Good(v)] => \A t \in Server : Chain(t)'
<1>1. AllUp /\ N > 1
  BY DEF Calm, AllUp
<1>2. b.id = s /\ Base(b) /\ node[s].id = s /\ node \in [Server -> Node]
  BY <1>1, CalmFacts, CalmNode DEF Fresh, Base, RingInv
<1>3. b \in Heir(b, k)
  BY <1>1, FirstHeir DEF Fresh, Chain
<1>4. ASSUME NEW v \in Heir(b, k), node' = [node EXCEPT ![s] = Good(v)]
      PROVE  \A t \in Server : Chain(t)'
  <2>1. Passes(b, v) /\ \A x \in Server : x # s => v.sv[x].st = b.sv[x].st
    BY <1>2, HeirPasses
  <2>2. Passes(node[s], v)
    BY <1>2, <2>1 DEF Passes, Fresh
  <2>3. v \in ProcRec(s, {})
    BY <1>2 DEF Heir, Proc
  <2>4. Good(v).sv = v.sv /\ Good(v).out = v.out
    BY <2>3 DEF Good, ProcRec
  <2>5. node'[s] = Good(v) /\ \A t \in Server \ {s} : node'[t] = node[t]
    BY <1>2, <1>4
  <2>6. Turn(s, v)
    BY <2>1, <2>2, <2>4, <2>5 DEF Turn, Fresh
  <2>. QED
    BY <1>1, <2>6, TurnChain
<1>. QED
  BY <1>2, <1>3, <1>4

\* A packet read.
LEMMA RecvChain ==
  ASSUME RingInv, Calm, \A s \in Server : Chain(s), NEW s \in Server, NEW t \in Server,
         NEW type, NEW w, Recv(s, t, type, w), NEW k, w \in Proc(t, {}, k),
         Passes(node[t], w),
         \A x \in Server \ {t} :
           w.sv[x].st = IF About(Unread(s, t), x) THEN Unread(s, t).chm.st
                                                  ELSE node[t].sv[x].st
  PROVE  \A u \in Server : Chain(u)'
<1>1. AllUp /\ N > 1 /\ node \in [Server -> Node]
  BY DEF Calm, AllUp, RingInv
<1>2. node[s].out[t] # << >> /\ node' = [node EXCEPT ![s].out[t] = Tail(@), ![t] = Good(w)]
  BY DEF Recv
<1>3. t = Succ(s) /\ t # s
  BY <1>1, <1>2, SuccValue DEF Chain
<1>4. node[s] \in Node
  BY <1>1
<1>5. /\ node'[t] = Good(w)
      /\ node'[s] = [node[s] EXCEPT !.out[t] = Tail(@)]
      /\ \A u \in Server \ {s, t} : node'[u] = node[u]
  BY <1>1, <1>2, <1>3
<1>6. node'[s].sv = node[s].sv /\ node'[s].out = [node[s].out EXCEPT ![t] = Tail(@)]
  BY <1>4, <1>5 DEF Node
<1>7. Good(w).sv = w.sv /\ Good(w).out = w.out
  BY DEF Good, Proc, ProcRec
<1>8. Reads(t, s, w)
  BY <1>2, <1>6 DEF Reads, Unread
<1>9. Turn(t, w)
  BY <1>3, <1>5, <1>6, <1>7, <1>8 DEF Turn
<1>. QED
  BY <1>1, <1>9, TurnChain

\* Every handler of a packet keeps the chain.
LEMMA RecvAnyChain ==
  ASSUME RingInv, Calm, \A s \in Server : Chain(s), NEW s \in Server, NEW t \in Server,
         RecvAny(s, t)
  PROVE  \A u \in Server : Chain(u)'
<1>. DEFINE b == node[t]
            k == Client(node[t])
            p == Unread(s, t)
            H == Heir(b, k)
<1>1. AllUp /\ N > 1
  BY DEF Calm, AllUp
<1>2. b \in Proc(t, {}, k) /\ b.id = t /\ Base(b) /\ Dead = {}
  BY <1>1, CalmNode
<1>3. b \in H /\ \A x \in Server : b.sv[x].ts = 0
  BY <1>1, <1>2, FirstHeir DEF Chain
<1>4. node[s].out[t] # << >>
  BY DEF RecvAny, RecvStatusConfirm, RecvStatusChange, RecvMergeStart, RecvMergeAbort,
         RecvMergeComplete, RecvMergeSuspend, RecvMergeNoSuspend, RecvServerDown, Recv
<1>5. p \in GoodPacket({})
  BY <1>2, <1>4, UnreadGood
<1>6. t = Succ(s) /\ t # s
  BY <1>1, <1>4, SuccValue DEF Chain
<1>7. p.type = "STATUS_CHANGE" => p.chm.ts = 0 /\ p.chm.id = p.dept
  <2>1. ASSUME p.type = "STATUS_CHANGE" PROVE p.chm.ts = 0
    <3>. DEFINE o == node[s].out[t]
    <3>1. node[s].out \in [Server -> Seq(GoodPacket({}))]
      BY <1>1, CalmNode DEF Base
    <3>2. o \in Seq(GoodPacket({})) /\ o # << >> /\ p = Head(o)
      BY <1>4, <3>1 DEF Unread
    <3>3. \A i \in DOMAIN o : o[i].type = "STATUS_CHANGE" => o[i].chm.ts = 0
      BY <1>6 DEF Chain
    <3>. HIDE DEF o, p
    <3>4. 1 \in DOMAIN o /\ p = o[1]
      BY <3>2, EmptySeq, LenProperties, HeadTailProperties
    <3>. QED
      BY <2>1, <3>3, <3>4
  <2>2. p.type = "STATUS_CHANGE" => p.chm.id = p.dept
    <3>. DEFINE D == {}
    <3>1. D \in SUBSET Server /\ p \in GoodPacket(D) /\ p.chm.id \notin D
      BY <1>5
    <3>. HIDE DEF D, p
    <3>. QED
      BY <3>1, PassedPacket
  <2>. QED
    BY <2>1, <2>2
<1>. HIDE DEF b, k, p, H
<1>8. ASSUME NEW type, NEW w \in H, Recv(s, t, type, w), \A x \in Server \ {t} : ~About(p, x)
      PROVE  \A u \in Server : Chain(u)'
  <2>1. w \in Proc(t, {}, k)
    BY <1>2 DEF H, Heir
  <2>2. Passes(b, w) /\ \A x \in Server : x # t => w.sv[x].st = b.sv[x].st
    BY <1>2, HeirPasses DEF H
  <2>. QED
    BY <1>8, <2>1, <2>2, RecvChain DEF b, p
<1>9. ASSUME p.type # "STATUS_CHANGE"
      PROVE  /\ ReceiveStatusConfirm(b, p) \in H /\ ReceiveMergeStart(b, p) \in H
             /\ ReceiveMergeAbort(b, p) \in H /\ ReceiveMergeComplete(b, p) \in H
             /\ ReceiveMergeSuspend(b, p) \in H /\ ReceiveMergeNoSuspend(b, p) \in H
             /\ \A x \in Server \ {t} : ~About(p, x)
  BY <1>2, <1>3, <1>5, <1>9, ReceiveHeir DEF H, About
<1>10. CASE RecvStatusConfirm(s, t)
  <2>1. Recv(s, t, "STATUS_CONFIRM", ReceiveStatusConfirm(b, p)) /\ p.type # "STATUS_CHANGE"
    BY <1>10 DEF RecvStatusConfirm, Recv, b, p
  <2>. QED
    BY <1>8, <1>9, <2>1
<1>11. CASE RecvMergeStart(s, t)
  <2>1. Recv(s, t, "MERGE_START", ReceiveMergeStart(b, p)) /\ p.type # "STATUS_CHANGE"
    BY <1>11 DEF RecvMergeStart, Recv, b, p
  <2>. QED
    BY <1>8, <1>9, <2>1
<1>12. CASE RecvMergeAbort(s, t)
  <2>1. Recv(s, t, "MERGE_ABORT", ReceiveMergeAbort(b, p)) /\ p.type # "STATUS_CHANGE"
    BY <1>12 DEF RecvMergeAbort, Recv, b, p
  <2>. QED
    BY <1>8, <1>9, <2>1
<1>13. CASE RecvMergeComplete(s, t)
  <2>1. Recv(s, t, "MERGE_COMPLETE", ReceiveMergeComplete(b, p)) /\ p.type # "STATUS_CHANGE"
    BY <1>13 DEF RecvMergeComplete, Recv, b, p
  <2>. QED
    BY <1>8, <1>9, <2>1
<1>14. CASE RecvMergeSuspend(s, t)
  <2>1. Recv(s, t, "MERGE_SUSPEND", ReceiveMergeSuspend(b, p)) /\ p.type # "STATUS_CHANGE"
    BY <1>14 DEF RecvMergeSuspend, Recv, b, p
  <2>. QED
    BY <1>8, <1>9, <2>1
<1>15. CASE RecvMergeNoSuspend(s, t)
  <2>1. /\ Recv(s, t, "MERGE_NOSUSPEND", ReceiveMergeNoSuspend(b, p))
        /\ p.type # "STATUS_CHANGE"
    BY <1>15 DEF RecvMergeNoSuspend, Recv, b, p
  <2>. QED
    BY <1>8, <1>9, <2>1
<1>16. CASE RecvServerDown(s, t)
  <2>1. p.type = "SERVER_DOWN"
    BY <1>16 DEF RecvServerDown, Recv, p
  <2>2. p.down \in {}
    BY <1>5, <2>1 DEF GoodPacket
  <2>. QED
    BY <2>2
<1>17. CASE RecvStatusChange(s, t)
  <2>1. /\ Recv(s, t, "STATUS_CHANGE", ReceiveStatusChange(b, p))
        /\ p.type = "STATUS_CHANGE"
    BY <1>17 DEF RecvStatusChange, Recv, b, p
  <2>2. CASE p.dept = t
    <3>1. ReceiveStatusChange(b, p) \in H
      BY <1>2, <1>3, <1>5, <2>2, ReceiveHeir DEF H, ReceiveStatusChange, IsDept
    <3>2. \A x \in Server \ {t} : ~About(p, x)
      BY <1>7, <2>1, <2>2 DEF About
    <3>. QED
      BY <1>8, <2>1, <3>1, <3>2
  <2>3. CASE p.dept # t
    <3>. DEFINE v == StatusChangePass(b, p)
    <3>1. ReceiveStatusChange(b, p) = v
      BY <1>2, <2>3 DEF ReceiveStatusChange, IsDept
    <3>2. /\ Passes(b, v) /\ v \in Proc(t, {}, k)
          /\ \A x \in Server : v.sv[x].st = IF x = p.chm.id THEN p.chm.st ELSE b.sv[x].st
      BY <1>2, <1>3, <1>5, <1>7, <2>1, <2>3, PassPasses
    <3>. HIDE DEF v
    <3>3. \A x \in Server \ {t} :
            v.sv[x].st = IF About(p, x) THEN p.chm.st ELSE b.sv[x].st
      BY <2>1, <3>2 DEF About
    <3>. QED
      BY <2>1, <3>1, <3>2, <3>3, RecvChain DEF b, p
  <2>. QED
    BY <2>2, <2>3
<1>. QED
  BY <1>10, <1>11, <1>12, <1>13, <1>14, <1>15, <1>16, <1>17 DEF RecvAny

\* Everything else a server does.
LEMMA OwnStepChain ==
  ASSUME RingInv, Calm, \A s \in Server : Chain(s), NEW s \in Server,
         CmdAny(s) \/ RecvJoinNotify(s) \/ CloseNotify(s) \/ MergeWorker(s)
  PROVE  \A t \in Server : Chain(t)'
<1>. DEFINE b == node[s]
            k == Client(b)
            H == Heir(b, k)
            c(x, y, z) == [join |-> x, jn |-> y, cls |-> z, acc |-> FALSE]
<1>1. AllUp /\ N > 1
  BY DEF Calm, AllUp
<1>2. b \in Proc(s, {}, k) /\ b.id = s /\ Base(b)
  BY <1>1, CalmNode
<1>3. Fresh(s, b, k)
  BY <1>2 DEF Fresh
<1>4. b \in H /\ \A v \in H : node' = [node EXCEPT ![s] = Good(v)] => \A t \in Server : Chain(t)'
  <2>. HIDE DEF b, k
  <2>. QED
    BY <1>3, OwnTurn
<1>5. b \in ProcRec(s, {}) /\ Cached(b)
  BY <1>2 DEF Proc
<1>6. ASSUME NEW v, NEW kk, Fresh(s, v, kk), NEW w \in Heir(v, kk), Becomes(s, w)
      PROVE  \A t \in Server : Chain(t)'
  BY <1>6, OwnTurn DEF Becomes
<1>7. ASSUME NEW v \in H, Becomes(s, v) PROVE \A t \in Server : Chain(t)'
  BY <1>4, <1>7 DEF Becomes
<1>. HIDE DEF b, k, H
<1>8. \A t \in Server : CtlComServiceIn(b) \in H /\ CtlComServiceOut(b, t) \in H
  BY <1>2, <1>4, CommandHeir DEF H
<1>9. /\ RequestMergeStart(b) \in H /\ RequestMergeAbort(b) \in H
      /\ RequestMergeComplete(b) \in H
  BY <1>2, <1>4, MergeStartHeir, MergeAbortHeir, MergeCompleteHeir DEF H
<1>10. RequestMergeSuspend(b) \in H /\ RequestMergeNoSuspend(b) \in H
  BY <1>2, <1>4, RequestHeir DEF H
<1>11. /\ CtlComUpdateStatus(b) \in H
       /\ b.wk > 0 => WorkerBegin(b) \in H
       /\ WorkerFinish(b) \in H /\ WorkerStop(b) \in H /\ WorkerClear(b) \in H
  <2>1. Calm /\ Base(b) /\ b \in Heir(b, k)
    BY <1>2, <1>4 DEF H
  <2>2. CtlComUpdateStatus(b) \in Heir(b, k) /\ (b.wk > 0 => WorkerBegin(b) \in Heir(b, k))
    BY <2>1, CommandHeir
  <2>3. WorkerFinish(b) \in Heir(b, k) /\ WorkerStop(b) \in Heir(b, k)
    BY <2>1, CommandHeir
  <2>4. WorkerClear(b) \in Heir(b, k)
    BY <2>1, CommandHeir
  <2>. QED
    BY <2>2, <2>3, <2>4 DEF H
<1>12. ASSUME NEW x \in BOOLEAN, NEW y \in BOOLEAN, NEW z \in BOOLEAN,
              NEW v, v = [b EXCEPT !.join = x, !.jn = y, !.cls = z]
       PROVE  Fresh(s, v, c(x, y, z)) /\ v \in Heir(v, c(x, y, z)) /\ Base(v)
  <2>1. v \in ProcRec(s, {})
    <3>1. [b EXCEPT !.join = x, !.jn = y] \in ProcRec(s, {})
      <4>1. [b EXCEPT !.join = x] \in ProcRec(s, {})
        BY <1>5 DEF ProcRec
      <4>. QED
        BY <4>1 DEF ProcRec
    <3>. QED
      BY <1>12, <3>1 DEF ProcRec
  <2>2. v.sv = b.sv /\ v.out = b.out /\ v.bcnt = b.bcnt /\ v.oper = b.oper
    BY <1>5, <1>12 DEF ProcRec
  <2>3. v.join = x /\ v.jn = y /\ v.cls = z
    BY <1>5, <1>12 DEF ProcRec
  <2>4. Cached(v)
    BY <1>5, <2>2 DEF Cached
  <2>5. Kept(v, c(x, y, z))
    BY <2>3 DEF Kept
  <2>. HIDE DEF c
  <2>6. Fresh(s, v, c(x, y, z))
    BY <2>1, <2>2, <2>4, <2>5 DEF Fresh, Proc, b
  <2>. QED
    BY <2>6, OwnTurn
<1>13. b.join \in BOOLEAN /\ b.jn \in BOOLEAN /\ b.cls \in BOOLEAN
  BY <1>5 DEF ProcRec
<1>14. CASE CmdAny(s)
  <2>1. ASSUME ClientJoin(s) PROVE \A t \in Server : Chain(t)'
    <3>. DEFINE v == [b EXCEPT !.join = TRUE, !.jn = TRUE]
    <3>1. Becomes(s, v)
      BY <2>1 DEF ClientJoin, Command, b
    <3>2. v = [b EXCEPT !.join = TRUE, !.jn = TRUE, !.cls = b.cls]
      BY <1>5 DEF ProcRec
    <3>. DEFINE kk == c(TRUE, TRUE, b.cls)
    <3>. HIDE DEF v, c
    <3>3. Fresh(s, v, kk) /\ v \in Heir(v, kk)
      BY <1>12, <1>13, <3>2
    <3>. HIDE DEF kk
    <3>. QED
      BY <1>6, <3>1, <3>3
  <2>2. ASSUME ClientLeave(s) PROVE \A t \in Server : Chain(t)'
    <3>. DEFINE v == [b EXCEPT !.join = FALSE, !.cls = TRUE]
    <3>1. Becomes(s, v)
      BY <2>2 DEF ClientLeave, Command, b
    <3>2. v = [b EXCEPT !.join = FALSE, !.jn = b.jn, !.cls = TRUE]
      BY <1>5 DEF ProcRec
    <3>. DEFINE kk == c(FALSE, b.jn, TRUE)
    <3>. HIDE DEF v, c
    <3>3. Fresh(s, v, kk) /\ v \in Heir(v, kk)
      BY <1>12, <1>13, <3>2
    <3>. HIDE DEF kk
    <3>. QED
      BY <1>6, <3>1, <3>3
  <2>3. CASE \/ CmdServiceIn(s) \/ \E t \in Server : CmdServiceOut(s, t)
             \/ CmdMergeStart(s) \/ CmdMergeAbort(s) \/ CmdMergeComplete(s)
             \/ CmdSuspend(s) \/ CmdNoSuspend(s) \/ CmdUpdateStatus(s)
    <3>1. \E v \in H : Becomes(s, v)
      BY <1>8, <1>9, <1>10, <1>11, <2>3
      DEF CmdServiceIn, CmdServiceOut, CmdMergeStart, CmdMergeAbort, CmdMergeComplete,
          CmdSuspend, CmdNoSuspend, CmdUpdateStatus, Command, b
    <3>. QED
      BY <1>7, <3>1
  <2>. QED
    BY <1>14, <2>1, <2>2, <2>3 DEF CmdAny
<1>15. CASE RecvJoinNotify(s)
  <2>. DEFINE v == [b EXCEPT !.jn = FALSE]
              kk == c(b.join, FALSE, b.cls)
  <2>1. Becomes(s, JoinNotify(v))
    BY <1>15 DEF RecvJoinNotify, b
  <2>2. v = [b EXCEPT !.join = b.join, !.jn = FALSE, !.cls = b.cls]
    BY <1>5 DEF ProcRec
  <2>. HIDE DEF v, c
  <2>3. Fresh(s, v, kk) /\ v \in Heir(v, kk) /\ Base(v)
    BY <1>12, <1>13, <2>2
  <2>. HIDE DEF kk
  <2>4. JoinNotify(v) \in Heir(v, kk)
    BY <2>3, RequestHeir
  <2>. QED
    BY <1>6, <2>1, <2>3, <2>4
<1>16. CASE CloseNotify(s)
  <2>. DEFINE v == [b EXCEPT !.cls = FALSE]
              kk == c(b.join, b.jn, FALSE)
  <2>1. Becomes(s, DoSuspend(v))
    BY <1>16 DEF CloseNotify, b
  <2>2. v = [b EXCEPT !.join = b.join, !.jn = b.jn, !.cls = FALSE]
    BY <1>5 DEF ProcRec
  <2>. HIDE DEF v, c
  <2>3. Fresh(s, v, kk) /\ v \in Heir(v, kk) /\ Base(v)
    BY <1>12, <1>13, <2>2
  <2>. HIDE DEF kk
  <2>4. DoSuspend(v) \in Heir(v, kk)
    BY <2>3, RequestHeir
  <2>. QED
    BY <1>6, <2>1, <2>3, <2>4
<1>17. CASE MergeWorker(s)
  <2>1. \E v \in H : Becomes(s, v)
    BY <1>11, <1>17 DEF MergeWorker, b
  <2>. QED
    BY <1>7, <2>1
<1>. QED
  BY <1>14, <1>15, <1>16, <1>17

\* Nobody but the one that dies leaves, and nobody comes back.
LEMMA OnlyCrash ==
  ASSUME [Next]_vars
  PROVE  up' = up \/ \E s \in Server : Crash(s)
<1>1. ASSUME NEW s, NEW t, RecvAny(s, t) \/ DropStream(s, t) \/ NotifyHup(s, t)
      PROVE  up' = up
  BY <1>1
  DEF RecvAny, RecvStatusConfirm, RecvStatusChange, RecvMergeStart, RecvMergeAbort,
      RecvMergeComplete, RecvMergeSuspend, RecvMergeNoSuspend, RecvServerDown, Recv,
      DropStream, NotifyHup
<1>2. ASSUME NEW s, CmdAny(s)
      PROVE  up' = up
  BY <1>2
  DEF CmdAny, CmdServiceIn, CmdServiceOut, CmdMergeStart, CmdMergeAbort, CmdMergeComplete,
      CmdSuspend, CmdNoSuspend, CmdUpdateStatus, ClientJoin, ClientLeave, Command
<1>3. ASSUME NEW s, RecvJoinNotify(s) \/ CloseNotify(s) \/ MergeWorker(s)
      PROVE  up' = up
  BY <1>3 DEF RecvJoinNotify, CloseNotify, MergeWorker
<1>4. Tick \/ UNCHANGED vars => up' = up
  BY DEF Tick, vars
<1>. QED
  BY <1>1, <1>2, <1>3, <1>4 DEF Next

\* Where nobody may crash nobody leaves.
LEMMA NobodyDies ==
  ASSUME MaxCrash = 0, AllUp, [Next]_vars
  PROVE  AllUp'
<1>1. up' = up \/ \E s \in Server : Crash(s)
  BY OnlyCrash
<1>2. {t \in Server : ~up[t]} = {}
  BY DEF AllUp
<1>3. \A s \in Server : ~Crash(s)
  <2>1. Cardinality({t \in Server : ~up[t]}) = 0
    BY <1>2, FS_EmptySet
  <2>. QED
    BY <2>1 DEF Crash
<1>. QED
  BY <1>1, <1>3 DEF AllUp

\* A RING at rest.
LEMMA ChainInit == Init => ChainInv
<1>. SUFFICES ASSUME Init, N > 1, NEW s \in Server PROVE Chain(s)
  BY DEF ChainInv
<1>1. PICK in \in InitIn, joined \in InitJoin :
         node = [t \in Server |-> InitNode(t, in, joined)]
  BY DEF Init
<1>. DEFINE e == InitEntry(in, joined)
<1>2. \A t \in Server : node[t].sv = e /\ node[t].out = [u \in Server |-> << >>]
  BY <1>1 DEF InitNode
<1>3. \A x \in Server : e[x].ts = 0
  BY DEF InitEntry
<1>. HIDE DEF e
<1>4. Succ(s) \in Server
  BY SuccValue
<1>5. \A x, old : Says(<< >>, x, old, old)
  BY DEF Says
<1>6. \A u \in Server : node[s].out[u] = << >>
  BY <1>2
<1>. QED
  BY <1>2, <1>3, <1>4, <1>5, <1>6 DEF Chain

\* Every step keeps the chain.
LEMMA ChainNext ==
  ASSUME MaxTime = 0, RingInv, ChainInv, [Next]_vars
  PROVE  ChainInv'
<1>. SUFFICES ASSUME N > 1, AllUp' PROVE \A s \in Server : Chain(s)'
  BY DEF ChainInv
<1>1. now = 0 /\ up \in [Server -> BOOLEAN]
  BY BoundAssumption DEF RingInv
<1>2. up' = up \/ \E s \in Server : Crash(s)
  BY OnlyCrash
<1>3. \A s \in Server : ~Crash(s)
  <2>. SUFFICES ASSUME NEW s \in Server, Crash(s) PROVE FALSE
    OBVIOUS
  <2>1. up'[s] = FALSE
    BY <1>1 DEF Crash
  <2>. QED
    BY <2>1 DEF AllUp
<1>4. Calm /\ AllUp
  BY <1>1, <1>2, <1>3 DEF Calm, AllUp
<1>5. \A s \in Server : Chain(s)
  BY <1>4 DEF ChainInv
<1>6. \A s, t \in Server : ~DropStream(s, t) /\ ~NotifyHup(s, t)
  BY <1>4 DEF DropStream, NotifyHup, AllUp
<1>7. ~Tick
  BY <1>1 DEF Tick
<1>8. CASE UNCHANGED vars
  BY <1>5, <1>8 DEF vars, Chain
<1>9. CASE \E s, t \in Server : RecvAny(s, t)
  BY <1>4, <1>5, <1>9, RecvAnyChain
<1>10. CASE \E s \in Server : \/ CmdAny(s) \/ RecvJoinNotify(s)
                              \/ CloseNotify(s) \/ MergeWorker(s)
  BY <1>4, <1>5, <1>10, OwnStepChain
<1>. QED
  BY <1>3, <1>6, <1>7, <1>8, <1>9, <1>10 DEF Next

\* At rest neighbours agree on everybody else, and so, going around the RING, all
\* agree with the server itself.
LEMMA ChainAgrees ==
  ASSUME N > 1, AllUp, \A s \in Server : Chain(s), Settled,
         NEW x \in Server, NEW s \in Server
  PROVE  node[s].sv[x].st = node[x].sv[x].st
<1>1. ASSUME NEW r \in Server, x # Succ(r)
      PROVE  node[r].sv[x].st = node[Succ(r)].sv[x].st
  <2>1. Succ(r) \in Server /\ up[Succ(r)]
    BY SuccValue DEF AllUp
  <2>2. node[r].out[Succ(r)] = << >>
    BY <2>1 DEF Settled, Running
  <2>3. Says(<< >>, x, node[Succ(r)].sv[x].st, node[r].sv[x].st)
    BY <1>1, <2>2 DEF Chain
  <2>. QED
    BY <2>3 DEF Says
<1>. DEFINE S == {t \in Server : node[t].sv[x].st # node[x].sv[x].st}
<1>2. ASSUME S # {} PROVE FALSE
  <2>1. PICK t \in S : \A u \in S : Dist(x, t) <= Dist(x, u)
    BY <1>2, FirstExists
  <2>2. t \in Server /\ t # x
    BY <2>1
  <2>. DEFINE r == IF t = 1 THEN N ELSE t - 1
  <2>3. N \in Nat /\ t \in 1 .. N /\ x \in 1 .. N
    BY <2>2, NAssumption DEF Server
  <2>4. r \in Server /\ Succ(r) = t
    <3>1. r \in 1 .. N /\ (IF r = N THEN 1 ELSE r + 1) = t
      BY <2>3
    <3>2. r \in Server
      BY <3>1 DEF Server
    <3>. QED
      BY <3>1, <3>2, SuccValue
  <2>5. Dist(x, r) < Dist(x, t)
    <3>1. /\ Dist(x, r) = IF r < x THEN r - x + N ELSE r - x
          /\ Dist(x, t) = IF t < x THEN t - x + N ELSE t - x
      BY <2>2, <2>4, DistValue
    <3>. QED
      BY <2>2, <2>3, <3>1
  <2>6. Dist(x, r) \in Int /\ Dist(x, t) \in Int
    BY <2>2, <2>3, <2>4, DistValue DEF Server
  <2>7. r \notin S
    <3>. HIDE DEF S, r
    <3>. QED
      BY <2>1, <2>5, <2>6
  <2>8. node[r].sv[x].st = node[t].sv[x].st
    BY <1>1, <2>2, <2>4
  <2>. QED
    BY <2>1, <2>4, <2>7, <2>8
<1>. QED
  BY <1>2

\* As long as nobody dies and all falls into one second, every server has, once
\* the packets are read, the status every server has itself: whatever the number
\* of servers, the commands, the client changes and the merges, overlapping as
\* they will.  With two servers one may die.
THEOREM StatusAgrees ==
  ASSUME MaxTime = 0, MaxCrash = 0 \/ N <= 2
  PROVE  Spec => []StatusAgreement
<1>. DEFINE Known == MaxCrash = 0 => AllUp
<1>1. Init => Known
  BY DEF Init, AllUp
<1>2. RingInv /\ Known /\ [Next]_vars => Known'
  BY NobodyDies
<1>3. RingInv /\ Known /\ ChainInv => StatusAgreement
  <2>. SUFFICES ASSUME RingInv, Known, ChainInv, Quiet, NEW s \in Running, NEW t \in Running
                PROVE  node[s].sv[t].st = node[t].sv[t].st
    BY DEF StatusAgreement
  <2>1. s \in Server /\ t \in Server /\ up[s] /\ up[t]
    BY DEF Running
  <2>2. CASE s = t
    BY <2>2
  <2>3. CASE s # t
    <3>1. N \in Nat /\ s \in 1 .. N /\ t \in 1 .. N
      BY <2>1, NAssumption DEF Server
    <3>2. N > 1
      BY <2>3, <3>1
    <3>3. AllUp
      <4>1. CASE MaxCrash = 0
        BY <4>1
      <4>2. CASE N <= 2
        <5>1. Server = {s, t}
          BY <2>3, <3>1, <3>2, <4>2 DEF Server
        <5>. QED
          BY <2>1, <5>1 DEF AllUp
      <4>. QED
        BY <4>1, <4>2
    <3>. QED
      BY <2>1, <3>2, <3>3, ChainAgrees DEF ChainInv, Quiet
  <2>. QED
    BY <2>2, <2>3
<1>4. RingInv /\ ChainInv /\ [Next]_vars => ChainInv'
  BY ChainNext
<1>. HIDE DEF Known
<1>. QED
  BY <1>1, <1>2, <1>3, <1>4, ChainInit, RingInvariant, PTL DEF Spec

-----------------------------------------------------------------------------
(* Merges.                                                                 *)

\* The packets on a server's sockets.
Held(o) == UNION {{o[t][i] : i \in DOMAIN o[t]} : t \in Server}
On(w)   == Held(w.out)

\* What the merge worker has to do, and the start-up request.
Work(w) == [run |-> w.run, wk |-> w.wk, wst |-> w.wst, sin |-> w.sin]

\* v comes of b by writing packets of the types T.
Adds(b, v, T) == /\ \A p : p \in On(b) => p \in On(v)
                 /\ \A p : p \in On(v) => p \in On(b) \/ p.type \in T

\* ... and then has the own status st and the work x.
At(b, k, T, st, x) ==
  {w \in Proc(b.id, {}, k) : Adds(b, w, T) /\ Self(w) = st /\ Work(w) = x}

\* A packet more on the socket to n, or one less.
Wrote(o, q, n, p) == q[n] = Append(o[n], p) /\ \A t \in Server \ {n} : q[t] = o[t]
Read(o, q, n)     == q[n] = Tail(o[n]) /\ \A t \in Server \ {n} : q[t] = o[t]

LEMMA HeldAppend ==
  ASSUME NEW S, NEW o \in [Server -> Seq(S)], NEW q \in [Server -> Seq(S)],
         NEW n \in Server, NEW p \in S,
         Wrote(o, q, n, p)
  PROVE  \A x : x \in Held(q) <=> x \in Held(o) \/ x = p
<1>. DEFINE a == Append(o[n], p)
<1>1. /\ o[n] \in Seq(S) /\ q[n] = a
      /\ \A t \in Server \ {n} : q[t] = o[t]
  BY DEF Wrote
<1>2. /\ Len(o[n]) \in Nat /\ DOMAIN o[n] = 1 .. Len(o[n])
      /\ DOMAIN a = 1 .. (Len(o[n]) + 1)
      /\ \A i \in 1 .. Len(o[n]) : a[i] = o[n][i]
      /\ a[Len(o[n]) + 1] = p
  BY <1>1, AppendProperties, LenProperties
<1>. HIDE DEF a
<1>3. ASSUME NEW x \in Held(o) \cup {p} PROVE x \in Held(q)
  <2>1. CASE x = p
    BY <1>1, <1>2, <2>1 DEF Held
  <2>2. CASE x \in Held(o)
    <3>1. PICK t \in Server : \E i \in DOMAIN o[t] : x = o[t][i]
      BY <2>2 DEF Held
    <3>2. \E i \in DOMAIN q[t] : x = q[t][i]
      <4>1. PICK i \in DOMAIN o[t] : x = o[t][i]
        BY <3>1
      <4>2. i \in DOMAIN q[t] /\ x = q[t][i]
        <5>1. CASE t = n
          <6>1. i \in 1 .. Len(o[n]) /\ x = o[n][i]
            BY <1>2, <4>1, <5>1
          <6>2. i \in DOMAIN a /\ x = a[i]
            BY <1>2, <6>1
          <6>. QED
            BY <1>1, <5>1, <6>2
        <5>2. CASE t # n
          BY <1>1, <4>1, <5>2
        <5>. QED
          BY <5>1, <5>2
      <4>. QED
        BY <4>2
    <3>. QED
      BY <3>2 DEF Held
  <2>. QED
    BY <2>1, <2>2
<1>4. ASSUME NEW x \in Held(q) PROVE x \in Held(o) \cup {p}
  <2>1. PICK t \in Server : \E i \in DOMAIN q[t] : x = q[t][i]
    BY DEF Held
  <2>2. CASE t = n
    <3>1. PICK i \in DOMAIN a : x = a[i]
      BY <1>1, <2>1, <2>2
    <3>2. CASE i = Len(o[n]) + 1
      BY <1>2, <3>1, <3>2
    <3>3. CASE i # Len(o[n]) + 1
      <4>1. i \in DOMAIN o[n] /\ x = o[n][i]
        BY <1>2, <3>1, <3>3
      <4>. QED
        BY <4>1 DEF Held
    <3>. QED
      BY <3>2, <3>3
  <2>3. CASE t # n
    BY <1>1, <2>1, <2>3 DEF Held
  <2>. QED
    BY <2>2, <2>3
<1>. QED
  BY <1>3, <1>4

HeldLess(o, q, n) ==
  /\ \A x : x \in Held(q) => x \in Held(o)
  /\ \A x : x \in Held(o) => x \in Held(q) \/ x = Head(o[n])

LEMMA HeldTail ==
  ASSUME NEW S, NEW o \in [Server -> Seq(S)], NEW q \in [Server -> Seq(S)],
         NEW n \in Server, o[n] # << >>,
         Read(o, q, n)
  PROVE  HeldLess(o, q, n)
<1>. DEFINE a == Tail(o[n])
<1>1. /\ o[n] \in Seq(S) /\ q[n] = a
      /\ \A t \in Server \ {n} : q[t] = o[t]
  BY DEF Read
<1>2. /\ Len(o[n]) \in Nat /\ Len(o[n]) > 0 /\ DOMAIN o[n] = 1 .. Len(o[n])
      /\ DOMAIN a = 1 .. (Len(o[n]) - 1)
      /\ \A i \in 1 .. (Len(o[n]) - 1) : a[i] = o[n][i + 1]
      /\ o[n][1] = Head(o[n])
  BY <1>1, HeadTailProperties, EmptySeq, LenProperties
<1>. HIDE DEF a
<1>3. ASSUME NEW x \in Held(q) PROVE x \in Held(o)
  <2>1. PICK t \in Server : \E i \in DOMAIN q[t] : x = q[t][i]
    BY DEF Held
  <2>2. CASE t = n
    <3>1. PICK i \in DOMAIN a : x = a[i]
      BY <1>1, <2>1, <2>2
    <3>2. i + 1 \in DOMAIN o[n] /\ x = o[n][i + 1]
      BY <1>2, <3>1
    <3>. QED
      BY <3>2 DEF Held
  <2>3. CASE t # n
    BY <1>1, <2>1, <2>3 DEF Held
  <2>. QED
    BY <2>2, <2>3
<1>4. ASSUME NEW x \in Held(o), x # Head(o[n]) PROVE x \in Held(q)
  <2>1. PICK t \in Server : \E i \in DOMAIN o[t] : x = o[t][i]
    BY DEF Held
  <2>2. CASE t = n
    <3>1. PICK i \in DOMAIN o[n] : x = o[n][i]
      BY <2>1, <2>2
    <3>2. i - 1 \in DOMAIN a /\ x = a[i - 1]
      BY <1>2, <1>4, <3>1
    <3>3. i - 1 \in DOMAIN q[n] /\ x = q[n][i - 1]
      BY <1>1, <3>2
    <3>. QED
      BY <3>3 DEF Held
  <2>3. CASE t # n
    BY <1>1, <2>1, <2>3 DEF Held
  <2>. QED
    BY <2>2, <2>3
<1>. QED
  BY <1>3, <1>4 DEF HeldLess

\* A record comes of itself.
LEMMA AtSelf ==
  ASSUME NEW k, NEW s \in Server, NEW b \in Proc(s, {}, k), NEW T
  PROVE  b \in At(b, k, T, Self(b), Work(b)) /\ b.id = s
BY CalmFacts DEF At, Adds

\* What is known of a record.
LEMMA AtFacts ==
  ASSUME NEW b, b.id \in Server, NEW k, NEW T, NEW st, NEW x, NEW w \in At(b, k, T, st, x)
  PROVE  /\ w \in Proc(b.id, {}, k) /\ w \in ProcRec(b.id, {}) /\ w.id = b.id
         /\ Self(w) = st /\ w.sv[b.id].st = st
         /\ st \in Status /\ OwnUp(st) /\ IsSafe(st)
         /\ w.run = x.run /\ w.wk = x.wk /\ w.wst = x.wst /\ w.sin = x.sin
         /\ x = [run |-> w.run, wk |-> w.wk, wst |-> w.wst, sin |-> w.sin]
         /\ w.join = k.join
         /\ w.out \in [Server -> Seq(GoodPacket({}))]
<1>1. w \in Proc(b.id, {}, k) /\ Self(w) = st /\ Work(w) = x
  BY DEF At
<1>2. w.id = b.id /\ OwnUp(st) /\ st \in Status /\ w.out \in [Server -> Seq(GoodPacket({}))]
  BY <1>1, CalmFacts
<1>3. IsSafe(st)
  <2>1. w.sv[b.id] \in GoodEntry
    BY <1>1, CalmFacts
  <2>. QED
    BY <1>1, <1>2, <2>1 DEF Self, GoodEntry, GoodStatus, GoodSt
<1>4. w \in ProcRec(b.id, {}) /\ w.join = k.join
  BY <1>1 DEF Proc, Kept
<1>5. x = [run |-> w.run, wk |-> w.wk, wst |-> w.wst, sin |-> w.sin]
  BY <1>1 DEF Work
<1>. QED
  BY <1>1, <1>2, <1>3, <1>4, <1>5 DEF Self

\* Steps that write nothing.
LEMMA AtMove ==
  ASSUME NEW b, NEW k, NEW T, NEW st, NEW x, NEW w \in At(b, k, T, st, x),
         NEW v \in Proc(b.id, {}, k), v.out = w.out
  PROVE  v \in At(b, k, T, Self(v), Work(v))
<1>1. On(v) = On(w)
  BY DEF On
<1>. QED
  BY <1>1 DEF At, Adds

\* Steps on fields other than the table and the sockets.
LEMMA AtFields ==
  ASSUME NEW b, b.id \in Server, NEW k, NEW T, NEW st, NEW x,
         NEW w \in At(b, k, T, st, x), NEW v \in Proc(b.id, {}, k),
         v.out = w.out, v.sv = w.sv
  PROVE  v \in At(b, k, T, st, Work(v))
<1>1. v.id = b.id /\ w.id = b.id /\ Self(w) = st
  BY AtFacts, CalmFacts
<1>2. Self(v) = st
  BY <1>1 DEF Self
<1>. QED
  BY <1>2, AtMove

\* ... of which the worker reads none.
LEMMA AtFlags ==
  ASSUME Whole, NEW b, b.id \in Server, NEW k, NEW T, NEW st, NEW x,
         NEW w \in At(b, k, T, st, x)
  PROVE  /\ Good(w) \in At(b, k, T, st, x) /\ Fail(w) \in At(b, k, T, st, x)
         /\ \A c \in BOOLEAN : /\ [w EXCEPT !.mdp = c] \in At(b, k, T, st, x)
                               /\ [w EXCEPT !.asup = c] \in At(b, k, T, st, x)
<1>1. w \in Proc(b.id, {}, k) /\ w \in ProcRec(b.id, {})
  BY AtFacts
<1>2. Work(w) = x
  BY DEF At
<1>3. ASSUME NEW v \in Proc(b.id, {}, k), v.out = w.out, v.sv = w.sv, Work(v) = Work(w)
      PROVE  v \in At(b, k, T, st, x)
  BY <1>2, <1>3, AtFields
<1>4. /\ Good(w) \in Proc(b.id, {}, k) /\ Good(w).out = w.out /\ Good(w).sv = w.sv
      /\ Work(Good(w)) = Work(w)
      /\ Fail(w) \in Proc(b.id, {}, k) /\ Fail(w).out = w.out /\ Fail(w).sv = w.sv
      /\ Work(Fail(w)) = Work(w)
  BY <1>1, CalmProc DEF Good, Fail, Work, ProcRec
<1>5. ASSUME NEW c \in BOOLEAN
      PROVE  /\ [w EXCEPT !.mdp = c] \in At(b, k, T, st, x)
             /\ [w EXCEPT !.asup = c] \in At(b, k, T, st, x)
  <2>. DEFINE u == [w EXCEPT !.mdp = c]
              v == [w EXCEPT !.asup = c]
  <2>1. u \in Proc(b.id, {}, k) /\ v \in Proc(b.id, {}, k)
    BY <1>1, CalmProc
  <2>2. u.out = w.out /\ u.sv = w.sv /\ Work(u) = Work(w)
    BY <1>1 DEF Work, ProcRec
  <2>3. v.out = w.out /\ v.sv = w.sv /\ Work(v) = Work(w)
    BY <1>1 DEF Work, ProcRec
  <2>4. u \in At(b, k, T, st, x)
    BY <1>3, <2>1, <2>2
  <2>5. v \in At(b, k, T, st, x)
    BY <1>3, <2>1, <2>3
  <2>. QED
    BY <2>4, <2>5
<1>. QED
  BY <1>3, <1>4, <1>5

\* Stamping, new hash values and the chain of sockets.
LEMMA AtStamp ==
  ASSUME Whole, NEW b, b.id \in Server, NEW k, NEW T, NEW st, NEW x,
         NEW w \in At(b, k, T, st, x)
  PROVE  /\ UpdateSelfLastStatusTime(w) \in At(b, k, T, st, x)
         /\ UpdatePendingHash(w) \in At(b, k, T, st, x)
         /\ SetBaseHash(w, w.id, w.sv[w.id].ph) \in At(b, k, T, st, x)
         /\ \A d \in Server : CheckRechainRing(w, d) \in At(b, k, T, st, x)
<1>. DEFINE s == b.id
            u == UpdateSelfLastStatusTime(w)
            v == UpdatePendingHash(w)
            y == SetBaseHash(w, w.id, w.sv[w.id].ph)
<1>1. /\ w \in Proc(s, {}, k) /\ w \in ProcRec(s, {}) /\ w.id = s /\ s \in Server
      /\ Self(w) = st
  BY AtFacts
<1>0. Work(w) = x
  BY DEF At
<1>2. w.sv \in [Server -> Entry]
  BY <1>1 DEF ProcRec, Table, GoodEntry, GoodStatus, Entry
<1>3. u \in Proc(s, {}, k) /\ v \in Proc(s, {}, k) /\ y \in Proc(s, {}, k)
  BY <1>1, CalmProc
<1>4. u.out = w.out /\ u.id = s /\ Work(u) = Work(w) /\ u.sv[s].st = w.sv[s].st
  BY <1>1, <1>2 DEF UpdateSelfLastStatusTime, ProcRec, Entry, Work
<1>5. v.out = w.out /\ v.id = s /\ Work(v) = Work(w) /\ v.sv[s].st = w.sv[s].st
  BY <1>1, <1>2 DEF UpdatePendingHash, ProcRec, Entry, Work
<1>6. y.out = w.out /\ y.id = s /\ Work(y) = Work(w) /\ y.sv[s].st = w.sv[s].st
  BY <1>1, <1>2 DEF SetBaseHash, ProcRec, Entry, Work
<1>. HIDE DEF u, v, y
<1>7. Self(u) = st /\ Self(v) = st /\ Self(y) = st
  BY <1>1, <1>4, <1>5, <1>6 DEF Self
<1>8. ASSUME NEW d \in Server PROVE CheckRechainRing(w, d) \in At(b, k, T, st, x)
  <2>. DEFINE z == CheckRechainRing(w, d)
  <2>1. z \in Proc(s, {}, k)
    BY <1>1, CalmProc
  <2>2. z.out = w.out /\ z.id = w.id /\ z.sv = w.sv /\ Work(z) = Work(w)
    BY <1>1 DEF CheckRechainRing, RechainRing, ProcRec, Work
  <2>. HIDE DEF z
  <2>3. Self(z) = st
    BY <1>1, <2>2 DEF Self
  <2>4. z \in At(b, k, T, st, x)
    BY <1>0, <2>1, <2>2, <2>3, AtMove
  <2>. QED
    BY <2>4 DEF z
<1>9. u \in At(b, k, T, st, x)
  BY <1>0, <1>3, <1>4, <1>7, AtMove
<1>10. v \in At(b, k, T, st, x)
  BY <1>0, <1>3, <1>5, <1>7, AtMove
<1>11. y \in At(b, k, T, st, x)
  BY <1>0, <1>3, <1>6, <1>7, AtMove
<1>. QED
  BY <1>8, <1>9, <1>10, <1>11 DEF u, v, y

\* A packet written.
LEMMA AtSend ==
  ASSUME Whole, NEW b, b.id \in Server, NEW k, NEW T, NEW st, NEW x,
         NEW w \in At(b, k, T, st, x), NEW p \in GoodPacket({}), p.type \in T
  PROVE  /\ SendNext(w, p) \in At(b, k, T, st, x) /\ SendNext(w, p).ok
         /\ p \in On(SendNext(w, p))
<1>. DEFINE s == b.id
            v == SendNext(w, p)
<1>1. /\ w \in Proc(s, {}, k) /\ w \in ProcRec(s, {}) /\ w.id = s /\ s \in Server
      /\ Self(w) = st /\ w.out \in [Server -> Seq(GoodPacket({}))]
  BY AtFacts
<1>0. Work(w) = x /\ Adds(b, w, T)
  BY DEF At
<1>2. NextRing(w) = Succ(s) /\ NextRing(w) # NoServer /\ Succ(s) \in Server
  BY <1>1, NextIsSucc
<1>3. v = Good([w EXCEPT !.out[Succ(s)] = Append(@, p), !.link = Linked(w, Succ(s))])
  BY <1>2 DEF SendNext, Send, Whole
<1>4. v.id = w.id /\ v.sv = w.sv /\ Work(v) = Work(w)
  BY <1>1, <1>3 DEF Good, ProcRec, Work
<1>5. v \in Proc(s, {}, k) /\ Sent(w, v, p)
  BY <1>1, SendNextIs
<1>6. v.out = [w.out EXCEPT ![Succ(s)] = Append(@, p)] /\ v.ok
  BY <1>1, <1>5 DEF Sent
<1>. HIDE DEF v
<1>7. \A y : y \in On(v) <=> y \in On(w) \/ y = p
  <2>. DEFINE S == GoodPacket({})
  <2>1. w.out \in [Server -> Seq(S)] /\ p \in S
    BY <1>1
  <2>2. v.out \in [Server -> Seq(S)] /\ Wrote(w.out, v.out, Succ(s), p)
    BY <1>1, <1>2, <1>5, <1>6, CalmFacts DEF Wrote
  <2>3. \A y : y \in Held(v.out) <=> y \in Held(w.out) \/ y = p
    <3>. DEFINE o == w.out
                q == v.out
                n == Succ(s)
    <3>1. /\ o \in [Server -> Seq(S)] /\ q \in [Server -> Seq(S)] /\ p \in S
          /\ n \in Server /\ Wrote(o, q, n, p)
      BY <1>2, <2>1, <2>2
    <3>. HIDE DEF S, o, q, n
    <3>2. \A y : y \in Held(q) <=> y \in Held(o) \/ y = p
      BY <3>1, HeldAppend
    <3>. QED
      BY <3>2 DEF o, q
  <2>. QED
    BY <2>3 DEF On
<1>8. Self(v) = st
  BY <1>1, <1>4 DEF Self
<1>9. v \in At(b, k, T, st, x)
  BY <1>0, <1>4, <1>5, <1>7, <1>8 DEF At, Adds
<1>. QED
  BY <1>6, <1>7, <1>9 DEF v

\* The own status is sent.
LEMMA AtNotify ==
  ASSUME Whole, NEW b, b.id \in Server, NEW k, NEW T, NEW st, NEW x,
         NEW w \in At(b, k, T, st, x), "STATUS_CHANGE" \in T
  PROVE  /\ NotifySelf(w) \in At(b, k, T, st, x) /\ NotifySelf(w).ok
         /\ Renew(w) \in At(b, k, T, st, x) /\ Renew(w).ok
         /\ w.ok => PublishSelf(w) \in At(b, k, T, st, x) /\ PublishSelf(w).ok
<1>1. ASSUME NEW v \in At(b, k, T, st, x)
      PROVE  /\ SendNext(v, StatusChange(v, b.id)) \in At(b, k, T, st, x)
             /\ SendNext(v, StatusChange(v, b.id)).ok
  <2>1. v \in Proc(b.id, {}, k)
    BY AtFacts
  <2>2. StatusChange(v, b.id) \in GoodPacket({}) /\ StatusChange(v, b.id).type \in T
    BY <2>1, CalmPackets DEF StatusChange
  <2>. HIDE DEF StatusChange
  <2>. QED
    BY <2>2, AtSend
<1>2. ASSUME NEW v \in At(b, k, T, st, x)
      PROVE  NotifySelf(v) \in At(b, k, T, st, x) /\ NotifySelf(v).ok
  <2>1. v.id = b.id /\ NextRing(v) # NoServer
    BY AtFacts, NextIsSucc
  <2>. QED
    BY <1>1, <2>1 DEF NotifySelf, Notify
<1>3. /\ UpdateSelfLastStatusTime(w) \in At(b, k, T, st, x)
      /\ UpdatePendingHash(w) \in At(b, k, T, st, x)
  BY AtStamp
<1>4. Renew(w) \in At(b, k, T, st, x) /\ Renew(w).ok
  <2>. DEFINE u == UpdateSelfLastStatusTime(w)
  <2>1. w.id = b.id
    BY AtFacts
  <2>. QED
    BY <1>1, <1>3, <2>1 DEF Renew
<1>. QED
  BY <1>2, <1>3, <1>4 DEF PublishSelf

\* A signal, and the list, are sent.
LEMMA AtSignal ==
  ASSUME Whole, NEW b, b.id \in Server, NEW k, NEW T, NEW st, NEW x,
         NEW w \in At(b, k, T, st, x)
  PROVE  /\ \A c \in Signals : c \in T =>
              /\ SendNext(w, Signal(w, c)) \in At(b, k, T, st, x)
              /\ SendNext(w, Signal(w, c)).ok
              /\ Signal(w, c) \in On(SendNext(w, Signal(w, c)))
         /\ "STATUS_CONFIRM" \in T => SendConfirm(w) \in At(b, k, T, st, x)
<1>1. w \in Proc(b.id, {}, k)
  BY AtFacts
<1>2. /\ StatusConfirm(w) \in GoodPacket({}) /\ StatusConfirm(w).type = "STATUS_CONFIRM"
      /\ \A c \in Signals : Signal(w, c) \in GoodPacket({}) /\ Signal(w, c).type = c
  BY <1>1, CalmPackets DEF StatusConfirm, Signal
<1>. QED
  BY <1>2, AtSend DEF SendConfirm

\* The own status is set, if it is safe; the suspend bit says whether there is a client.
LEMMA AtSetSelf ==
  ASSUME Whole, NEW b, b.id \in Server, NEW k, NEW T, NEW st, NEW x,
         NEW w \in At(b, k, T, st, x), NEW to \in Status, OwnUp(to), IsSafe(to)
  PROVE  /\ SetSelfStatus(w, to) \in At(b, k, T, SuspendFlag(to, ~k.join), x)
         /\ SetSelfStatus(w, to).ok
<1>. DEFINE s == b.id
            f == SuspendFlag(to, ~w.join)
            v == SetSelfStatus(w, to)
<1>1. /\ w \in Proc(s, {}, k) /\ w \in ProcRec(s, {}) /\ w.id = s /\ s \in Server
      /\ w.join = k.join
  BY AtFacts
<1>2. w.join \in BOOLEAN /\ f \in Status /\ IsSafe(f)
  BY <1>1, SuspendFlagType DEF ProcRec
<1>3. v \in Proc(s, {}, k)
  BY <1>1, CalmProc
<1>4. v = Good(Recount([w EXCEPT !.sv[s].st = f, !.sv[s].ts = now]))
  BY <1>1, <1>2 DEF SetSelfStatus, SetStatus
<1>. HIDE DEF f
<1>5. v.out = w.out /\ v.id = s /\ Work(v) = Work(w) /\ v.sv[s].st = f /\ v.ok
  BY <1>1, <1>4 DEF Good, Recount, ProcRec, Table, GoodEntry, Work
<1>. HIDE DEF v
<1>6. Self(v) = f /\ Work(w) = x
  BY <1>5 DEF Self, At
<1>. QED
  BY <1>1, <1>3, <1>5, <1>6, AtMove DEF f, v

\* No status the merge computes is refused.
LEMMA MergeStatus ==
  ASSUME NEW st \in Status, OwnUp(st), IsSafe(st)
  PROVE  /\ IsSafe(AbortedStatus(st)) /\ AbortedStatus(st).op # "DOING"
         /\ IsSafe(SuspendedStatus(st)) /\ IsSafe([st EXCEPT !.sup = "NOSUP"])
         /\ IsSafe(CompletedStatus(st))
         /\ ~NotComplete(st) => CompletedStatus(st).op # "DOING" /\ st.op # "DOING"
         /\ st.op = "DOING" => IsSrvIn(st) /\ IsSafe([st EXCEPT !.op = "DONE"])
         /\ st.op = "PENDING" => /\ IsSrvIn(st) /\ IsSafe(StartedStatus(st))
                                 /\ StartedStatus(st) = [st EXCEPT !.op = "DOING"]
         /\ IsSafe(ChangeToSrvIn(st)) /\ IsSafe(ChangeToSrvOut(st))
         /\ st.op # "DOING" => /\ ChangeToSrvIn(st).op # "DOING"
                               /\ ChangeToSrvOut(st).op # "DOING"
<1>. USE DEF Status, IsUp, OwnUp, Suspend, Live, Ring, Act, Operate, Sts, SuspendFlag,
             IsSafe, IsSrvIn, IsSrvOut
<1>1. IsSafe(AbortedStatus(st)) /\ AbortedStatus(st).op # "DOING"
  BY DEF AbortedStatus, IsOperatingSt, SRVIN_DOWN_NORMAL
<1>2. IsSafe(SuspendedStatus(st)) /\ IsSafe([st EXCEPT !.sup = "NOSUP"])
  BY DEF SuspendedStatus
<1>3. IsSafe(CompletedStatus(st))
  BY DEF CompletedStatus, SRVIN_UP_NORMAL, SRVOUT_UP_NORMAL, SRVOUT_DOWN_NORMAL
<1>4. ~NotComplete(st) => CompletedStatus(st).op # "DOING" /\ st.op # "DOING"
  BY DEF NotComplete, CompletedStatus, SRVIN_UP_NORMAL, SRVOUT_UP_NORMAL, SRVOUT_DOWN_NORMAL
<1>5. st.op = "DOING" => IsSrvIn(st) /\ IsSafe([st EXCEPT !.op = "DONE"])
  OBVIOUS
<1>6. st.op = "PENDING" => /\ IsSrvIn(st) /\ IsSafe(StartedStatus(st))
                           /\ StartedStatus(st) = [st EXCEPT !.op = "DOING"]
  BY DEF StartedStatus
<1>7. /\ IsSafe(ChangeToSrvIn(st))
      /\ st.op # "DOING" => ChangeToSrvIn(st).op # "DOING"
  BY DEF ChangeToSrvIn, SRVIN_UP_PENDING, SRVIN_UP_NORMAL, SRVIN_UP_ADDPENDING
<1>8. /\ IsSafe(ChangeToSrvOut(st))
      /\ st.op # "DOING" => ChangeToSrvOut(st).op # "DOING"
  BY DEF ChangeToSrvOut, IsOperatingSt, SRVIN_UP_DELPENDING, SRVOUT_UP_NORMAL,
         SRVIN_DOWN_DELPENDING
<1>. QED
  BY <1>1, <1>2, <1>3, <1>4, <1>5, <1>6, <1>7, <1>8

\* The own status is set and published.
LEMMA AtPublish ==
  ASSUME Whole, NEW b, b.id \in Server, NEW k, NEW T, NEW st, NEW x,
         NEW w \in At(b, k, T, st, x), NEW to \in Status, OwnUp(to), IsSafe(to),
         "STATUS_CHANGE" \in T
  PROVE  /\ PublishSelf(SetSelfStatus(w, to)) \in At(b, k, T, SuspendFlag(to, ~k.join), x)
         /\ PublishSelf(SetSelfStatus(w, to)).ok
<1>. DEFINE v == SetSelfStatus(w, to)
            f == SuspendFlag(to, ~k.join)
<1>1. v \in At(b, k, T, f, x) /\ v.ok
  BY AtSetSelf
<1>. HIDE DEF v, f
<1>2. PublishSelf(v) \in At(b, k, T, f, x) /\ PublishSelf(v).ok
  BY <1>1, AtNotify
<1>. QED
  BY <1>2 DEF v, f

\* MergeDone reports what the worker has done.
LEMMA AtDone ==
  ASSUME Whole, AutoMerge = FALSE, NEW b, b.id \in Server, NEW k, NEW T, NEW st, NEW x,
         NEW w \in At(b, k, T, st, x), "STATUS_CHANGE" \in T
  PROVE  /\ st.op = "DOING" /\ st.sup = "NOSUP" =>
              /\ MergeDone(w) \in At(b, k, T, SuspendFlag([st EXCEPT !.op = "DONE"], ~k.join), x)
              /\ MergeDone(w).ok
         /\ st.op # "DOING" => MergeDone(w) \in At(b, k, T, st, x)
         /\ st.op \notin {"DOING", "DONE"} => ~MergeDone(w).ok
<1>1. st \in Status /\ OwnUp(st) /\ IsSafe(st) /\ Self(w) = st /\ w \in ProcRec(b.id, {})
  BY AtFacts
<1>2. Good(w) \in At(b, k, T, st, x) /\ Fail(w) \in At(b, k, T, st, x) /\ Fail(w).ok = FALSE
  BY <1>1, AtFlags DEF Fail, ProcRec
<1>3. CASE st.op = "DOING" /\ st.sup = "NOSUP"
  <2>. DEFINE to == [st EXCEPT !.op = "DONE"]
              f == SuspendFlag(to, ~k.join)
              v == SetSelfStatus(w, to)
              u == NotifySelf(v)
              z == Good(u)
  <2>1. to \in Status /\ OwnUp(to) /\ IsSafe(to) /\ IsSrvIn(st)
    BY <1>1, <1>3, OwnStatus, MergeStatus
  <2>2. MergeDone(w) = AnnounceDone(v)
    BY <1>1, <1>3, <2>1 DEF MergeDone
  <2>. HIDE DEF to
  <2>3. v \in At(b, k, T, f, x) /\ v.ok
    BY <2>1, AtSetSelf
  <2>. HIDE DEF f, v
  <2>4. u \in At(b, k, T, f, x) /\ NextRing(v) # NoServer
    <3>1. v \in Proc(b.id, {}, k)
      BY <2>3, AtFacts
    <3>. QED
      BY <2>3, <3>1, AtNotify, NextIsSucc
  <2>5. AnnounceDone(v) = AwaitComplete(z)
    BY <2>3, <2>4 DEF AnnounceDone
  <2>. HIDE DEF u
  <2>6. z \in At(b, k, T, f, x)
    BY <2>4, AtFlags
  <2>9. z.ok
    <3>1. u \in ProcRec(b.id, {})
      BY <2>4, AtFacts
    <3>. QED
      BY <3>1 DEF Good, ProcRec
  <2>. HIDE DEF z
  <2>7. z \in ProcRec(b.id, {})
    BY <2>6, AtFacts
  <2>8. AwaitComplete(z) = z
    BY <2>7 DEF AwaitComplete, IsAutoMerge, ProcRec
  <2>. QED
    BY <1>3, <2>2, <2>5, <2>6, <2>8, <2>9 DEF to, f
<1>4. CASE st.op # "DOING"
  BY <1>1, <1>2, <1>4 DEF MergeDone
<1>. QED
  BY <1>3, <1>4, <1>1, <1>2 DEF MergeDone

\* MergeAbort resets the own status and tells the worker to stop.
LEMMA AtAbort ==
  ASSUME Whole, NEW b, b.id \in Server, NEW k, NEW T, NEW st, NEW x,
         NEW w \in At(b, k, T, st, x), "STATUS_CHANGE" \in T
  PROVE  /\ MergeAbort(w) \in At(b, k, T, SuspendFlag(AbortedStatus(st), ~k.join),
                                 [x EXCEPT !.run = IF DoMerge THEN FALSE ELSE @])
         /\ MergeAbort(w).ok
<1>. DEFINE c == IF DoMerge THEN FALSE ELSE w.run
            w1 == [w EXCEPT !.run = IF DoMerge THEN FALSE ELSE @]
            x1 == [x EXCEPT !.run = IF DoMerge THEN FALSE ELSE @]
            to == AbortedStatus(st)
            f == SuspendFlag(to, ~k.join)
            v == PublishSelf(SetSelfStatus(w1, to))
<1>1. /\ w \in Proc(b.id, {}, k) /\ w \in ProcRec(b.id, {}) /\ Self(w) = st
      /\ st \in Status /\ OwnUp(st) /\ IsSafe(st)
      /\ x = [run |-> w.run, wk |-> w.wk, wst |-> w.wst, sin |-> w.sin]
  BY AtFacts
<1>2. to \in Status /\ OwnUp(to) /\ IsSafe(to)
  BY <1>1, OwnStatus, MergeStatus
<1>3. w1 = [w EXCEPT !.run = c] /\ c \in BOOLEAN /\ x1 = [x EXCEPT !.run = c]
  BY <1>1 DEF ProcRec
<1>4. w1 \in Proc(b.id, {}, k)
  BY <1>1, <1>3, CalmProc
<1>. HIDE DEF w1, x1, c, to
<1>5. w1.out = w.out /\ w1.sv = w.sv /\ w1.id = w.id /\ Work(w1) = x1
  <2>1. /\ w1.out = w.out /\ w1.sv = w.sv /\ w1.id = w.id
        /\ w1.run = c /\ w1.wk = w.wk /\ w1.wst = w.wst /\ w1.sin = w.sin
    BY <1>1, <1>3 DEF ProcRec
  <2>2. x1 = [run |-> c, wk |-> w.wk, wst |-> w.wst, sin |-> w.sin]
    BY <1>1, <1>3
  <2>. QED
    BY <2>1, <2>2 DEF Work
<1>6. w1 \in At(b, k, T, st, x1) /\ Self(w1) = st
  BY <1>1, <1>4, <1>5, AtFields DEF Self
<1>7. v \in At(b, k, T, f, x1) /\ v.ok
  BY <1>2, <1>6, AtPublish
<1>8. MergeAbort(w) = AbortDown(v)
  BY <1>6 DEF MergeAbort, w1, to
<1>. HIDE DEF v, f
<1>9. ChangeDownSvr(v, "ABORT") = Good(v) /\ v \in ProcRec(b.id, {})
  BY <1>7, AtFacts, AllAreUp
<1>10. Good(v) \in At(b, k, T, f, x1) /\ Good(v).ok
  BY <1>7, <1>9, AtFlags DEF Good, ProcRec
<1>. QED
  BY <1>7, <1>8, <1>9, <1>10 DEF AbortDown, f, to, x1

\* A server that waits for a merge, and for no client.
Startable(st) == st.op = "PENDING" /\ st.sup = "NOSUP"

\* MergeStart leaves all as it is, or has nothing to fetch, or sets the worker to
\* work.
LEMMA AtStart ==
  ASSUME Whole, AutoMerge = FALSE, NEW b, b.id \in Server, NEW k, NEW T, NEW st, NEW x,
         NEW w \in At(b, k, T, st, x), "STATUS_CHANGE" \in T,
         Startable(st) => ~x.run /\ k.join
  PROVE  \/ MergeStart(w) \in At(b, k, T, st, x)
         \/ /\ Startable(st)
            /\ MergeStart(w) \in At(b, k, T, [st EXCEPT !.op = "DONE"], x)
         \/ /\ Startable(st) /\ DoMerge
            /\ MergeStart(w) \in At(b, k, T, [st EXCEPT !.op = "DOING"],
                                    [x EXCEPT !.run = TRUE, !.wk = @ + 1])
<1>1. /\ Self(w) = st /\ st \in Status /\ OwnUp(st) /\ IsSafe(st) /\ IsUp(st)
  BY AtFacts DEF OwnUp
<1>2. CASE ~MayStartMerge(w)
  BY <1>2, AtFlags DEF MergeStart
<1>3. CASE MayStartMerge(w)
  <2>. DEFINE to == [st EXCEPT !.op = "DOING"]
              v == SetSelfStatus(w, to)
              u == NotifySelf(v)
              z == Good(u)
  <2>1. Startable(st) /\ ~x.run /\ k.join
    BY <1>1, <1>3 DEF MayStartMerge, Startable
  <2>2. /\ to \in Status /\ OwnUp(to) /\ IsSafe(to) /\ StartedStatus(st) = to
        /\ to.op = "DOING" /\ to.sup = "NOSUP"
        /\ [to EXCEPT !.op = "DONE"] = [st EXCEPT !.op = "DONE"]
    <3>1. StartedStatus(st) = to /\ IsSafe(to)
      BY <1>1, <2>1, MergeStatus DEF Startable
    <3>2. to \in Status /\ OwnUp(to)
      BY <1>1, <3>1, OwnStatus
    <3>. QED
      BY <1>1, <2>1, <3>1, <3>2 DEF Status, Startable
  <2>3. SuspendFlag(to, ~k.join) = to
    BY <2>1, <2>2 DEF SuspendFlag, Status, Startable
  <2>4. SuspendFlag([st EXCEPT !.op = "DONE"], ~k.join) = [st EXCEPT !.op = "DONE"]
    BY <1>1, <2>1 DEF SuspendFlag, Status, Startable
  <2>. DEFINE fin == [st EXCEPT !.op = "DONE"]
              go == [z EXCEPT !.run = TRUE, !.wk = @ + 1]
              x1 == [x EXCEPT !.run = TRUE, !.wk = @ + 1]
  <2>5. MergeStart(w) = Started(v)
    BY <1>1, <1>3, <2>2 DEF MergeStart
  <2>. HIDE DEF to, fin
  <2>6. v \in At(b, k, T, to, x) /\ v.ok
    BY <2>2, <2>3, AtSetSelf
  <2>. HIDE DEF v
  <2>7. u \in At(b, k, T, to, x) /\ u.ok
    BY <2>6, AtNotify
  <2>. HIDE DEF u
  <2>8. z \in At(b, k, T, to, x)
    BY <2>7, AtFlags
  <2>9. ChangeDownSvr(u, "START") = z
    BY <2>7, AtFacts, AllAreUp
  <2>10. MergeStart(w) = RunMerge(z)
    BY <2>5, <2>6, <2>9 DEF Started, u
  <2>. HIDE DEF z
  <2>11. /\ z \in Proc(b.id, {}, k) /\ z \in ProcRec(b.id, {}) /\ Self(z) = to
         /\ x = [run |-> z.run, wk |-> z.wk, wst |-> z.wst, sin |-> z.sin]
         /\ ~z.run
    BY <2>1, <2>8, AtFacts
  <2>12. MergeDone(z) \in At(b, k, T, fin, x)
    BY <2>2, <2>4, <2>8, AtDone DEF fin
  <2>13. go \in At(b, k, T, to, x1)
    <3>1. go \in Proc(b.id, {}, k)
      BY <2>11, CalmProc
    <3>2. /\ go.out = z.out /\ go.sv = z.sv
          /\ go.run = TRUE /\ go.wk = z.wk + 1 /\ go.wst = z.wst /\ go.sin = z.sin
      BY <2>11 DEF ProcRec
    <3>3. x1 = [run |-> TRUE, wk |-> z.wk + 1, wst |-> z.wst, sin |-> z.sin]
      <4>. DEFINE n == z.wk + 1
                  c == TRUE
                  y == [run |-> c, wk |-> z.wk, wst |-> z.wst, sin |-> z.sin]
      <4>1. x1 = [[x EXCEPT !.run = c] EXCEPT !.wk = n]
        BY <2>11
      <4>. HIDE DEF n, c, x1
      <4>2. [x EXCEPT !.run = c] = y
        BY <2>11
      <4>3. x1 = [y EXCEPT !.wk = n]
        BY <4>1, <4>2
      <4>4. x1 = [run |-> c, wk |-> n, wst |-> z.wst, sin |-> z.sin]
        BY <4>3
      <4>. QED
        BY <4>4 DEF n, c
    <3>. HIDE DEF go, x1
    <3>4. Work(go) = x1
      BY <3>2, <3>3 DEF Work
    <3>. QED
      BY <2>8, <3>1, <3>2, <3>4, AtFields
  <2>14. CASE ~DoMerge \/ MergeTargets(z) = {}
    <3>1. RunMerge(z) = MergeDone(z)
      BY <2>11, <2>14 DEF RunMerge
    <3>. QED
      BY <2>1, <2>10, <2>12, <3>1 DEF fin
  <2>15. CASE ~(~DoMerge \/ MergeTargets(z) = {})
    <3>1. RunMerge(z) = Good(go)
      BY <2>11, <2>15 DEF RunMerge
    <3>. HIDE DEF go, x1
    <3>2. Good(go) \in At(b, k, T, to, x1)
      BY <2>13, AtFlags
    <3>. QED
      BY <2>1, <2>10, <2>15, <3>1, <3>2 DEF to, x1
  <2>. QED
    BY <2>14, <2>15
<1>. QED
  BY <1>2, <1>3

\* MergeComplete refuses, or ends this server's part of the merge.
LEMMA AtComplete ==
  ASSUME Whole, NEW b, b.id \in Server, NEW k, NEW T, NEW st, NEW x,
         NEW w \in At(b, k, T, st, x), "STATUS_CHANGE" \in T
  PROVE  \/ MergeComplete(w) \in At(b, k, T, st, x)
         \/ /\ ~NotComplete(st)
            /\ MergeComplete(w) \in At(b, k, T, SuspendFlag(CompletedStatus(st), ~k.join), x)
<1>. DEFINE z == Good(w)
            to == CompletedStatus(st)
            f == SuspendFlag(to, ~k.join)
            y == SetBaseHash(z, z.id, z.sv[z.id].ph)
            v == SetSelfStatus(y, to)
            u == UpdateSelfLastStatusTime(v)
<1>1. /\ z \in At(b, k, T, st, x) /\ st \in Status /\ OwnUp(st) /\ IsSafe(st) 
  BY AtFlags, AtFacts
<1>2. to \in Status /\ OwnUp(to) /\ IsSafe(to)
  BY <1>1, OwnStatus, MergeStatus
<1>3. ChangeDownSvr(w, "COMPLETE") = z
  BY AtFacts, AllAreUp
<1>4. MergeComplete(w) = CompleteSelf(z)
  BY <1>3 DEF MergeComplete
<1>. HIDE DEF z
<1>5. Self(z) = st /\ Fail(z) \in At(b, k, T, st, x)
  <2>1. Self(z) = st
    BY <1>1, AtFacts
  <2>2. Fail(z) \in At(b, k, T, st, x)
    BY <1>1, AtFlags
  <2>. QED
    BY <2>1, <2>2
<1>6. CASE NotComplete(st)
  BY <1>4, <1>5, <1>6 DEF CompleteSelf
<1>7. CASE ~NotComplete(st)
  <2>1. MergeComplete(w) = Completed(v)
    BY <1>4, <1>5, <1>7 DEF CompleteSelf
  <2>2. y \in At(b, k, T, st, x)
    BY <1>1, AtStamp
  <2>. HIDE DEF y, to
  <2>3. v \in At(b, k, T, f, x) /\ v.ok
    BY <1>2, <2>2, AtSetSelf
  <2>. HIDE DEF v, f
  <2>4. u \in At(b, k, T, f, x)
    BY <2>3, AtStamp
  <2>. HIDE DEF u
  <2>5. NotifySelf(u) \in At(b, k, T, f, x)
    BY <2>4, AtNotify
  <2>6. Completed(v) = NotifySelf(u)
    BY <2>3 DEF Completed, u
  <2>. QED
    BY <1>7, <2>1, <2>5, <2>6 DEF f, to
<1>. QED
  BY <1>6, <1>7

\* The requests that go around the RING change nothing here.
LEMMA AtRequest ==
  ASSUME Whole, NEW b, b.id \in Server, NEW k, NEW T, NEW st, NEW x,
         NEW w \in At(b, k, T, st, x)
  PROVE  /\ {"STATUS_CHANGE", "MERGE_COMPLETE"} \subseteq T =>
              /\ SendMergeComplete(w) \in At(b, k, T, st, x)
              /\ RequestMergeComplete(w) \in At(b, k, T, st, x)
         /\ "STATUS_CONFIRM" \in T => RequestMergeStart(w) \in At(b, k, T, st, x)
         /\ "MERGE_ABORT" \in T =>
              /\ RequestMergeAbort(w) \in At(b, k, T, st, x)
              /\ Signal(w, "MERGE_ABORT") \in On(RequestMergeAbort(w))
<1>. DEFINE A == At(b, k, T, st, x)
<1>1. NextRing(w) # NoServer /\ Fail(w) \in A
  BY AtFacts, AllAreUp, AtFlags
<1>2. ASSUME {"STATUS_CHANGE", "MERGE_COMPLETE"} \subseteq T
      PROVE  SendMergeComplete(w) \in A /\ RequestMergeComplete(w) \in A
  <2>. DEFINE u == Renew(w)
  <2>1. u \in A
    BY <1>2, AtNotify
  <2>. HIDE DEF u
  <2>2. SendNext(u, Signal(u, "MERGE_COMPLETE")) \in A
    BY <1>2, <2>1, AtSignal DEF Signals
  <2>3. SendMergeComplete(w) \in A
    BY <2>1, <2>2 DEF SendMergeComplete, ThenSignal, u
  <2>. QED
    BY <1>1, <2>3 DEF RequestMergeComplete
<1>3. ASSUME "STATUS_CONFIRM" \in T PROVE RequestMergeStart(w) \in A
  <2>. DEFINE u == UpdateSelfLastStatusTime(w)
  <2>1. u \in A
    BY AtStamp
  <2>. HIDE DEF u
  <2>2. SendConfirm(u) \in A
    BY <1>3, <2>1, AtSignal
  <2>. QED
    BY <1>1, <2>2 DEF RequestMergeStart, u
<1>4. ASSUME "MERGE_ABORT" \in T
      PROVE  RequestMergeAbort(w) \in A /\ Signal(w, "MERGE_ABORT") \in On(RequestMergeAbort(w))
  BY <1>1, <1>4, AtSignal DEF RequestMergeAbort, Signals
<1>. QED
  BY <1>2, <1>3, <1>4

\* Without MERGE=AUTO and without a pending start-up request nothing follows.
LEMMA AtContinue ==
  ASSUME Whole, AutoMerge = FALSE, NEW b, b.id \in Server, NEW k, NEW T, NEW st, NEW x,
         NEW w \in At(b, k, T, st, x), ~x.sin
  PROVE  ContinuousAutoMerge(w) \in At(b, k, T, st, x)
<1>1. ~w.sin /\ Good(w) \in At(b, k, T, st, x)
  BY AtFacts, AtFlags
<1>. QED
  BY <1>1 DEF ContinuousAutoMerge, IsAutoMerge

\* A packet of somebody else is passed on.
LEMMA AtForward ==
  ASSUME Whole, NEW b, b.id \in Server, NEW k, NEW T, NEW st, NEW x,
         NEW w \in At(b, k, T, st, x), NEW p \in GoodPacket({}), p.type \in T, p.dept # b.id
  PROVE  /\ IsSafeDept(w, p.dept)
         /\ Forward(w, p) = SendNext(w, p) /\ Transfer(w, p) = SendNext(w, p)
         /\ Transfer(w, p) \in At(b, k, T, st, x) /\ Transfer(w, p).ok
         /\ p \in On(Transfer(w, p))
<1>1. w \in Proc(b.id, {}, k) /\ w.id = b.id /\ p.dept \in Server
  BY AtFacts DEF GoodPacket, Packet
<1>2. NextRing(w) = Succ(b.id) /\ NextRing(w) # NoServer
  BY <1>1, NextIsSucc
<1>3. IsSafeDept(w, p.dept)
  <2>1. /\ Dist(b.id, Succ(b.id)) = 1
        /\ p.dept # Succ(b.id) => Dist(b.id, p.dept) > 1
    BY <1>1, SuccNearest DEF Whole
  <2>. QED
    BY <1>1, <1>2, <2>1 DEF IsSafeDept
<1>4. Forward(w, p) = SendNext(w, p) /\ Transfer(w, p) = SendNext(w, p)
  BY <1>2, <1>3 DEF Forward, Transfer
<1>. QED
  BY <1>3, <1>4, AtSend

\* What a server hears of another one leaves its own status alone.
LEMMA AtHear ==
  ASSUME Whole, NEW k, NEW s \in Server, NEW b \in Proc(s, {}, k), NEW T,
         NEW c \in GoodChm, c.id # s, IsUp(c.st)
  PROVE  CheckRechainRing(MergeChmpxSvrs(b, c), c.id) \in At(b, k, T, Self(b), Work(b))
<1>. DEFINE y == c.id
            w1 == IF IsLatest(b, c)
                  THEN [b EXCEPT !.sv[y].st = c.st, !.sv[y].ts = c.ts] ELSE b
            w2 == MergeChmpxSvrs(b, c)
<1>1. /\ b.id = s /\ b.sv \in [Server -> Entry] /\ b \in ProcRec(s, {})
      /\ b \in At(b, k, T, Self(b), Work(b))
  BY CalmFacts, AtSelf DEF Proc, ProcRec, Table, GoodEntry, GoodStatus, Entry
<1>2. y \in Server /\ y # s /\ c.st \in Status /\ c.ts \in Nat
  BY DEF GoodChm, GoodStatus
<1>3. w2 = Good(Recount(UpdatePendingHash(UpdateBaseHash(w1))))
  BY <1>1, <1>2 DEF MergeChmpxSvrs
<1>4. /\ w2.out = b.out /\ w2.id = s /\ w2.sv[s].st = b.sv[s].st /\ Work(w2) = Work(b)
  <2>. DEFINE F == {"id", "sv", "out", "bcnt", "oper", "ok", "run", "wk", "wst", "sin"}
              Like(w) == /\ w.out = b.out /\ w.id = s /\ w.run = b.run /\ w.wk = b.wk
                         /\ w.wst = b.wst /\ w.sin = b.sin
                         /\ F \subseteq DOMAIN w
  <2>1. Like(w1) /\ w1.sv \in [Server -> Entry] /\ w1.sv[s].st = b.sv[s].st
    <3>. DEFINE e == [b.sv[y] EXCEPT !.st = c.st, !.ts = c.ts]
                u == [b.sv EXCEPT ![y] = e]
    <3>1. e \in Entry
      BY <1>1, <1>2 DEF Entry
    <3>2. IsLatest(b, c) => w1 = [b EXCEPT !.sv = u]
      BY <1>1, <1>2 DEF ProcRec
    <3>. HIDE DEF e
    <3>3. u \in [Server -> Entry] /\ u[s] = b.sv[s]
      BY <1>1, <1>2, <3>1
    <3>. HIDE DEF u
    <3>4. ~IsLatest(b, c) => w1 = b
      OBVIOUS
    <3>. HIDE DEF w1
    <3>. QED
      BY <1>1, <3>2, <3>3, <3>4 DEF ProcRec
  <2>. HIDE DEF w1
  <2>. DEFINE w5 == UpdateBaseHash(w1)
              g(x) == IF IsBaseHash(w1.sv[x].st) THEN BaseRank(w1.sv, x) ELSE NoHash
  <2>2. Like(w5) /\ w5.sv = [x \in Server |-> [w1.sv[x] EXCEPT !.bh = g(x), !.ts = now]]
    BY <2>1 DEF UpdateBaseHash
  <2>. HIDE DEF w5, g
  <2>3. w5.sv[s].st = b.sv[s].st /\ {"st", "ph", "ts"} \subseteq DOMAIN w5.sv[s]
    <3>1. w5.sv[s] = [w1.sv[s] EXCEPT !.bh = g(s), !.ts = now]
      BY <2>2
    <3>. QED
      BY <2>1, <3>1 DEF Entry
  <2>. DEFINE w6 == UpdatePendingHash(w5)
              h(x) == IF IsPendingHash(w5.sv[x].st) THEN PendingRank(w5.sv, x) ELSE NoHash
  <2>4. Like(w6) /\ w6.sv = [x \in Server |-> [w5.sv[x] EXCEPT !.ph = h(x), !.ts = now]]
    BY <2>2 DEF UpdatePendingHash
  <2>5. w2 = Good(Recount(w6))
    BY <1>3 DEF w5
  <2>. HIDE DEF w6, h
  <2>6. w6.sv[s].st = b.sv[s].st
    <3>1. w6.sv[s] = [w5.sv[s] EXCEPT !.ph = h(s), !.ts = now]
      BY <2>4
    <3>. QED
      BY <2>3, <3>1
  <2>. HIDE DEF w2
  <2>7. /\ w2.out = b.out /\ w2.id = s /\ w2.sv = w6.sv
        /\ w2.run = b.run /\ w2.wk = b.wk /\ w2.wst = b.wst /\ w2.sin = b.sin
    BY <2>4, <2>5 DEF Good, Recount
  <2>. QED
    BY <2>6, <2>7 DEF Work
<1>5. w2 \in Proc(s, {}, k)
  <2>. DEFINE D == {}
  <2>1. D \in SUBSET Server /\ b \in Proc(s, D, k) /\ now \in Nat
    BY DEF Whole
  <2>2. w2 \in Proc(s, D, k)
    <3>. HIDE DEF D
    <3>. QED
      BY <2>1, MergeChmpxSvrsProc
  <2>. QED
    BY <2>2
<1>. HIDE DEF w2
<1>6. Self(w2) = Self(b)
  BY <1>1, <1>4 DEF Self
<1>7. w2 \in At(b, k, T, Self(b), Work(b))
  BY <1>1, <1>4, <1>5, <1>6, AtMove
<1>8. CheckRechainRing(w2, y) \in At(b, k, T, Self(b), Work(b))
  BY <1>1, <1>2, <1>7, AtStamp
<1>. QED
  BY <1>8 DEF w2

\* A packet is passed on with a result, or with the status it carries.
LEMMA PassedOn ==
  ASSUME NEW p \in GoodPacket({})
  PROVE  /\ \A r \in Result : /\ [p EXCEPT !.res = r] \in GoodPacket({})
                              /\ [p EXCEPT !.res = r].type = p.type
                              /\ [p EXCEPT !.res = r].dept = p.dept
         /\ p.type = "STATUS_CHANGE" =>
              /\ p.chm \in GoodChm /\ p.dept = p.chm.id /\ IsUp(p.chm.st)
              /\ [p EXCEPT !.chm.st = p.chm.st] = p
         /\ p.type # "SERVER_DOWN"
<1>1. ASSUME NEW r \in Result
      PROVE  /\ [p EXCEPT !.res = r] \in GoodPacket({})
             /\ [p EXCEPT !.res = r].type = p.type
             /\ [p EXCEPT !.res = r].dept = p.dept
  <2>. DEFINE D == {}
  <2>1. D \in SUBSET Server /\ p \in GoodPacket(D)
    OBVIOUS
  <2>2. [p EXCEPT !.res = r] \in GoodPacket(D)
    <3>. HIDE DEF D
    <3>. QED
      BY <2>1, PassedPacket
  <2>3. [p EXCEPT !.res = r].type = p.type /\ [p EXCEPT !.res = r].dept = p.dept
    BY DEF GoodPacket, Packet
  <2>. QED
    BY <2>2, <2>3
<1>2. ASSUME p.type = "STATUS_CHANGE"
      PROVE  /\ p.chm \in GoodChm /\ p.dept = p.chm.id /\ IsUp(p.chm.st)
             /\ [p EXCEPT !.chm.st = p.chm.st] = p
  <2>1. p.chm \in GoodChm /\ p.dept = p.chm.id /\ IsUp(p.chm.st)
    BY <1>2 DEF GoodPacket
  <2>2. [p EXCEPT !.chm.st = p.chm.st] = p
    BY <1>2 DEF GoodPacket, Packet, Chm
  <2>. QED
    BY <2>1, <2>2
<1>3. p.type # "SERVER_DOWN"
  BY DEF GoodPacket
<1>. QED
  BY <1>1, <1>2, <1>3

\* The packets that ask, and the notices, change nothing of the server itself.
LEMMA AtReceive ==
  ASSUME Whole, AutoMerge = FALSE, NEW k, NEW s \in Server, NEW b \in Proc(s, {}, k),
         ~b.sin, NEW p \in GoodPacket({})
  PROVE  /\ p.type = "STATUS_CONFIRM" =>
              ReceiveStatusConfirm(b, p) \in
                At(b, k, {"STATUS_CONFIRM", "STATUS_CHANGE", "MERGE_START"}, Self(b), Work(b))
         /\ p.type = "STATUS_CHANGE" =>
              ReceiveStatusChange(b, p) \in At(b, k, {"STATUS_CHANGE"}, Self(b), Work(b))
         /\ p.type = "MERGE_SUSPEND" =>
              ReceiveMergeSuspend(b, p) \in At(b, k, {"MERGE_SUSPEND"}, Self(b), Work(b))
         /\ p.type = "MERGE_NOSUSPEND" =>
              ReceiveMergeNoSuspend(b, p) \in At(b, k, {"MERGE_NOSUSPEND"}, Self(b), Work(b))
<1>. DEFINE A(T) == At(b, k, T, Self(b), Work(b))
<1>1. b.id = s /\ \A T : b \in A(T)
  BY AtSelf
<1>2. "SUCCESS" \in Result /\ "ERROR" \in Result
  BY DEF Result
<1>3. ASSUME NEW T, NEW w \in A(T) PROVE Good(w) \in A(T) /\ Fail(w) \in A(T)
  <2>1. b.id \in Server
    BY <1>1
  <2>. QED
    BY <1>3, <2>1, AtFlags
<1>4. ASSUME p.type = "STATUS_CONFIRM"
      PROVE  ReceiveStatusConfirm(b, p) \in
               A({"STATUS_CONFIRM", "STATUS_CHANGE", "MERGE_START"})
  <2>. DEFINE T == {"STATUS_CONFIRM", "STATUS_CHANGE", "MERGE_START"}
              same == p.res = "SUCCESS" /\ CompareChmpxSvrs(b, p.list)
              r == IF same THEN "SUCCESS" ELSE "ERROR"
              q == [p EXCEPT !.res = r]
              u == Renew(b)
  <2>1. r \in Result /\ {"STATUS_CONFIRM", "STATUS_CHANGE", "MERGE_START"} \subseteq T
    BY <1>2
  <2>2. q \in GoodPacket({}) /\ q.type \in T /\ q.dept = p.dept
    BY <1>4, <2>1, PassedOn
  <2>3. /\ b \in A(T) /\ Good(b) \in A(T) /\ Fail(b) \in A(T)
    BY <1>1, <1>3
  <2>4. NextRing(b) # NoServer
    BY NextIsSucc
  <2>. HIDE DEF T, same, r, q
  <2>5. u \in A(T) /\ u.ok
    BY <1>1, <2>1, <2>3, AtNotify
  <2>. HIDE DEF u
  <2>6. SendConfirm(u) \in A(T)
    BY <1>1, <2>1, <2>5, AtSignal
  <2>7. RetryConfirm(b) \in A(T)
    BY <2>5, <2>6 DEF RetryConfirm, ConfirmAgain, u
  <2>8. SendNext(b, Signal(b, "MERGE_START")) \in A(T)
    BY <1>1, <2>1, <2>3, AtSignal DEF Signals
  <2>9. p.dept # s => Forward(b, q) \in A(T)
    BY <1>1, <2>2, <2>3, AtForward
  <2>10. ReceiveStatusConfirm(b, p) \in A(T)
    BY <1>1, <2>3, <2>4, <2>7, <2>8, <2>9 DEF ReceiveStatusConfirm, IsDept, same, r, q
  <2>. QED
    BY <2>10 DEF T
<1>5. ASSUME p.type = "STATUS_CHANGE"
      PROVE  ReceiveStatusChange(b, p) \in A({"STATUS_CHANGE"})
  <2>. DEFINE T == {"STATUS_CHANGE"}
              z == Good(b)
              u == UpdateSelfLastStatusTime(z)
              w3 == CheckRechainRing(MergeChmpxSvrs(b, p.chm), p.chm.id)
  <2>1. b \in A(T) /\ z \in A(T) /\ "STATUS_CHANGE" \in T
    BY <1>1, <1>3
  <2>2. p.chm \in GoodChm /\ p.dept = p.chm.id /\ [p EXCEPT !.chm.st = p.chm.st] = p
        /\ IsUp(p.chm.st)
    BY <1>5, PassedOn
  <2>. HIDE DEF T
  <2>3. CASE p.dept = s
    <3>1. ReceiveStatusChange(b, p) = RetryNotice(z, p)
      BY <1>1, <2>3 DEF ReceiveStatusChange, IsDept, StatusChangeBack, IsAutoMerge
    <3>. HIDE DEF z
    <3>2. u \in A(T)
      BY <1>1, <2>1, AtStamp
    <3>. HIDE DEF u
    <3>3. NotifySelf(u) \in A(T)
      BY <1>1, <2>1, <3>2, AtNotify
    <3>. QED
      BY <2>1, <3>1, <3>3 DEF RetryNotice, T, u
  <2>4. CASE p.dept # s
    <3>1. w3 \in A(T)
      BY <1>1, <2>2, <2>4, AtHear
    <3>2. ReceiveStatusChange(b, p) = Transfer(w3, p)
      BY <1>1, <2>2, <2>4 DEF ReceiveStatusChange, IsDept, StatusChangePass
    <3>. HIDE DEF w3
    <3>3. Transfer(w3, p) \in A(T)
      BY <1>1, <1>5, <2>1, <2>4, <3>1, AtForward
    <3>. QED
      BY <3>2, <3>3 DEF T
  <2>. QED
    BY <2>3, <2>4
<1>6. ASSUME NEW T, NEW v \in A(T), p.type \in T
      PROVE  /\ p.dept # s => Forward(v, p) \in A(T) /\ Transfer(v, p) \in A(T)
             /\ Good(v) \in A(T)
  BY <1>1, <1>3, <1>6, AtForward
<1>7. /\ [b EXCEPT !.asup = TRUE, !.sin = FALSE] = [b EXCEPT !.asup = TRUE]
  BY DEF Proc, ProcRec
<1>8. ASSUME NEW T
      PROVE  [b EXCEPT !.asup = TRUE, !.sin = FALSE] \in A(T) /\ [b EXCEPT !.asup = FALSE] \in A(T)
  <2>1. \A c \in BOOLEAN : [b EXCEPT !.asup = c] \in A(T)
    BY <1>1, AtFlags
  <2>. QED
    BY <1>7, <2>1
<1>9. ASSUME p.type = "MERGE_SUSPEND" PROVE ReceiveMergeSuspend(b, p) \in A({"MERGE_SUSPEND"})
  <2>. DEFINE T == {"MERGE_SUSPEND"}
              v == [b EXCEPT !.asup = TRUE, !.sin = FALSE]
  <2>1. b \in A(T) /\ v \in A(T) /\ p.type \in T
    BY <1>1, <1>8, <1>9
  <2>. HIDE DEF T, v, A
  <2>2. p.dept # s => Forward(v, p) \in A(T) /\ Transfer(b, p) \in A(T)
    BY <1>6, <2>1
  <2>3. Good(b) \in A(T)
    BY <1>6, <2>1
  <2>. QED
    BY <1>1, <2>2, <2>3 DEF ReceiveMergeSuspend, IsDept, v, T
<1>10. ASSUME p.type = "MERGE_NOSUSPEND"
       PROVE  ReceiveMergeNoSuspend(b, p) \in A({"MERGE_NOSUSPEND"})
  <2>. DEFINE T == {"MERGE_NOSUSPEND"}
              v == [b EXCEPT !.asup = FALSE]
  <2>1. b \in A(T) /\ v \in A(T) /\ p.type \in T
    BY <1>1, <1>8, <1>10
  <2>. HIDE DEF T, v, A
  <2>2. p.dept # s => Forward(v, p) \in A(T) /\ Transfer(b, p) \in A(T)
    BY <1>6, <2>1
  <2>3. Good(b) \in A(T)
    BY <1>6, <2>1
  <2>. QED
    BY <1>1, <2>2, <2>3 DEF ReceiveMergeNoSuspend, IsDept, v, T
<1>. QED
  BY <1>4, <1>5, <1>9, <1>10

\* MERGE_START: passed on, and this server starts, too.
LEMMA AtReceiveStart ==
  ASSUME Whole, AutoMerge = FALSE, NEW k, NEW s \in Server, NEW b \in Proc(s, {}, k),
         NEW p \in GoodPacket({}), p.type = "MERGE_START",
         NEW T, "MERGE_START" \in T, "STATUS_CHANGE" \in T,
         NEW st, NEW x, st = Self(b), x = Work(b),
         Startable(st) => ~x.run /\ k.join
  PROVE  LET v == ReceiveMergeStart(b, p)
         IN  \/ v \in At(b, k, T, st, x)
             \/ Startable(st) /\ v \in At(b, k, T, [st EXCEPT !.op = "DONE"], x)
             \/ /\ Startable(st) /\ DoMerge
                /\ v \in At(b, k, T, [st EXCEPT !.op = "DOING"],
                            [x EXCEPT !.run = TRUE, !.wk = @ + 1])
<1>. DEFINE w == IF ~IsDept(b, p) THEN Transfer(b, p)
                 ELSE IF p.res = "SUCCESS"
                      THEN ReplaceDown(b, SRVIN_DOWN_DELPENDING, SRVIN_DOWN_DELETED)
                 ELSE Good(b)
            v == ReceiveMergeStart(b, p)
<1>1. b.id = s /\ b \in At(b, k, T, st, x)
  BY AtSelf
<1>2. Good(b) \in At(b, k, T, st, x)
  BY <1>1, AtFlags
<1>3. p.dept # s => Transfer(b, p) \in At(b, k, T, st, x)
  BY <1>1, AtForward
<1>4. ReplaceDown(b, SRVIN_DOWN_DELPENDING, SRVIN_DOWN_DELETED) = Good(b)
  BY AllAreUp, DownStatus
<1>5. w \in At(b, k, T, st, x)
  BY <1>1, <1>2, <1>3, <1>4 DEF IsDept
<1>6. v = ThenMergeStart(w)
  BY DEF ReceiveMergeStart
<1>. HIDE DEF w, v
<1>7. \/ MergeStart(w) \in At(b, k, T, st, x)
      \/ Startable(st) /\ MergeStart(w) \in At(b, k, T, [st EXCEPT !.op = "DONE"], x)
      \/ /\ Startable(st) /\ DoMerge
         /\ MergeStart(w) \in At(b, k, T, [st EXCEPT !.op = "DOING"],
                                 [x EXCEPT !.run = TRUE, !.wk = @ + 1])
  BY <1>1, <1>5, AtStart
<1>8. \/ v \in At(b, k, T, st, x)
      \/ Startable(st) /\ v \in At(b, k, T, [st EXCEPT !.op = "DONE"], x)
      \/ /\ Startable(st) /\ DoMerge
         /\ v \in At(b, k, T, [st EXCEPT !.op = "DOING"],
                     [x EXCEPT !.run = TRUE, !.wk = @ + 1])
  BY <1>5, <1>6, <1>7 DEF ThenMergeStart
<1>. QED
  BY <1>8 DEF v

\* MERGE_ABORT: passed on, and this server aborts.
LEMMA AtReceiveAbort ==
  ASSUME Whole, AutoMerge = FALSE, NEW k, NEW s \in Server, NEW b \in Proc(s, {}, k),
         ~b.sin, NEW p \in GoodPacket({}), p.type = "MERGE_ABORT",
         NEW T, "MERGE_ABORT" \in T, "STATUS_CHANGE" \in T,
         NEW st, NEW x, st = Self(b), x = Work(b)
  PROVE  /\ ReceiveMergeAbort(b, p) \in
              At(b, k, T, SuspendFlag(AbortedStatus(st), ~k.join),
                 [x EXCEPT !.run = IF DoMerge THEN FALSE ELSE @])
         /\ p.dept # s => p \in On(ReceiveMergeAbort(b, p))
<1>. DEFINE w == IF IsDept(b, p) THEN Good(b) ELSE Transfer(b, p)
            x1 == [x EXCEPT !.run = IF DoMerge THEN FALSE ELSE @]
            f == SuspendFlag(AbortedStatus(st), ~k.join)
            u == MergeAbort(w)
            y == IF IsDept(u, p) THEN ReplaceDown(u, SRVIN_DOWN_DELETED, SRVIN_DOWN_DELPENDING)
                 ELSE u
<1>1. b.id = s /\ b \in At(b, k, T, st, x) /\ b \in ProcRec(s, {})
  BY AtSelf, CalmFacts DEF Proc
<1>2. Good(b) \in At(b, k, T, st, x) /\ Good(b).ok
  BY <1>1, AtFlags DEF Good, ProcRec
<1>3. p.dept # s => /\ Transfer(b, p) \in At(b, k, T, st, x) /\ Transfer(b, p).ok
                    /\ p \in On(Transfer(b, p))
  BY <1>1, AtForward
<1>4. w \in At(b, k, T, st, x) /\ w.ok /\ (p.dept # s => p \in On(w))
  BY <1>1, <1>2, <1>3 DEF IsDept
<1>5. x = [run |-> b.run, wk |-> b.wk, wst |-> b.wst, sin |-> b.sin]
  BY DEF Work
<1>6. ~x1.sin
  BY <1>5
<1>7. ReceiveMergeAbort(b, p) = Aborted(u, p)
  BY <1>4 DEF ReceiveMergeAbort, ThenMergeAbort
<1>. HIDE DEF w, x1, f
<1>8. u \in At(b, k, T, f, x1) /\ u.ok
  BY <1>1, <1>4, AtAbort DEF f, x1
<1>9. u \in ProcRec(s, {}) /\ u.id = s
  BY <1>1, <1>8, AtFacts
<1>10. Good(u) \in At(b, k, T, f, x1)
  BY <1>1, <1>8, AtFlags
<1>11. y \in At(b, k, T, f, x1)
  <2>1. u \in Proc(s, {}, k)
    BY <1>1, <1>8, AtFacts
  <2>2. ReplaceDown(u, SRVIN_DOWN_DELETED, SRVIN_DOWN_DELPENDING) = Good(u)
    BY <2>1, AllAreUp, DownStatus
  <2>. QED
    BY <1>8, <1>10, <2>2
<1>12. ReceiveMergeAbort(b, p) = ContinuousAutoMerge(y)
  BY <1>7, <1>8 DEF Aborted
<1>. HIDE DEF u, y
<1>13. ContinuousAutoMerge(y) \in At(b, k, T, f, x1)
  BY <1>1, <1>6, <1>11, AtContinue
<1>14. p.dept # s => p \in On(ReceiveMergeAbort(b, p))
  <2>. SUFFICES ASSUME p.dept # s PROVE p \in On(ReceiveMergeAbort(b, p))
    OBVIOUS
  <2>1. w = Transfer(b, p) /\ p \in On(w)
    BY <1>1, <1>4 DEF w, IsDept
  <2>2. w \in At(w, k, T, Self(w), Work(w)) /\ w.id = s
    <3>1. w \in Proc(s, {}, k)
      BY <1>1, <1>4, AtFacts
    <3>. QED
      BY <3>1, AtSelf
  <2>. DEFINE f2 == SuspendFlag(AbortedStatus(Self(w)), ~k.join)
              x2 == [Work(w) EXCEPT !.run = IF DoMerge THEN FALSE ELSE @]
  <2>3. Work(w) = x
    BY <1>4 DEF At
  <2>4. ~x2.sin
    BY <1>5, <2>3
  <2>. HIDE DEF f2, x2
  <2>5. u \in At(w, k, T, f2, x2)
    BY <2>2, AtAbort DEF f2, x2, u
  <2>6. y = u
    BY <1>9 DEF y, IsDept
  <2>7. ContinuousAutoMerge(y) \in At(w, k, T, f2, x2)
    BY <2>2, <2>4, <2>5, <2>6, AtContinue
  <2>. QED
    BY <1>12, <2>1, <2>7 DEF At, Adds
<1>. QED
  BY <1>12, <1>13, <1>14 DEF f, x1

\* MERGE_COMPLETE: passed on with this server's veto; without one it completes.
LEMMA AtReceiveComplete ==
  ASSUME Whole, AutoMerge = FALSE, NEW k, NEW s \in Server, NEW b \in Proc(s, {}, k),
         ~b.sin, NEW p \in GoodPacket({}), p.type = "MERGE_COMPLETE",
         NEW T, {"STATUS_CHANGE", "MERGE_COMPLETE"} \subseteq T,
         NEW st, NEW x, st = Self(b), x = Work(b)
  PROVE  \/ ReceiveMergeComplete(b, p) \in At(b, k, T, st, x)
         \/ /\ ~NotComplete(st)
            /\ ReceiveMergeComplete(b, p) \in
                 At(b, k, T, SuspendFlag(CompletedStatus(st), ~k.join), x)
<1>. DEFINE all == p.res = "SUCCESS" /\ (IsDept(b, p) \/ ~VetoComplete(Self(b)))
            res == IF all THEN "SUCCESS" ELSE "ERROR"
            q == [p EXCEPT !.res = res]
            w == IF ~IsDept(b, p) THEN Transfer(b, q)
                 ELSE IF all THEN ReplaceDown(b, SRVIN_DOWN_DELETED, SRVOUT_DOWN_NORMAL)
                 ELSE Good(b)
            go == all /\ (IsDept(b, p) \/ IsSafeDept(b, p.dept))
            f == SuspendFlag(CompletedStatus(st), ~k.join)
            u == MergeComplete(w)
            v == ReceiveMergeComplete(b, p)
<1>1. b.id = s /\ b \in At(b, k, T, st, x)
  BY AtSelf
<1>2. Good(b) \in At(b, k, T, st, x)
  BY <1>1, AtFlags
<1>3. q \in GoodPacket({}) /\ q.type \in T /\ q.dept = p.dept
  <2>1. res \in Result
    BY DEF Result
  <2>. HIDE DEF res
  <2>. QED
    BY <2>1, PassedOn
<1>4. v = ThenMergeComplete(w, p, go)
  BY DEF ReceiveMergeComplete
<1>. HIDE DEF all, res, q, go, v
<1>5. p.dept # s => Transfer(b, q) \in At(b, k, T, st, x)
  BY <1>1, <1>3, AtForward
<1>6. ReplaceDown(b, SRVIN_DOWN_DELETED, SRVOUT_DOWN_NORMAL) = Good(b)
  BY AllAreUp, DownStatus
<1>7. w \in At(b, k, T, st, x)
  BY <1>1, <1>2, <1>5, <1>6 DEF IsDept
<1>. HIDE DEF w
<1>8. ~x.sin
  BY DEF Work
<1>9. RetryComplete(w) \in At(b, k, T, st, x)
  <2>1. Good(w) \in At(b, k, T, st, x)
    BY <1>1, <1>7, AtFlags
  <2>2. SendMergeComplete(w) \in At(b, k, T, st, x)
    BY <1>1, <1>7, AtRequest
  <2>. QED
    BY <2>1, <2>2 DEF RetryComplete
<1>10. ASSUME NEW to, NEW y \in At(b, k, T, to, x)
       PROVE  ContinuousAutoMerge(DownOut(y, p)) \in At(b, k, T, to, x)
  <2>. DEFINE z == DownOut(y, p)
  <2>1. y \in Proc(s, {}, k)
    BY <1>1, AtFacts
  <2>2. ServiceOutDown(y) = Good(y)
    BY <2>1, AllAreUp
  <2>3. Good(y) \in At(b, k, T, to, x)
    BY <1>1, AtFlags
  <2>4. z \in At(b, k, T, to, x)
    BY <2>2, <2>3 DEF DownOut
  <2>. HIDE DEF z
  <2>5. ContinuousAutoMerge(z) \in At(b, k, T, to, x)
    BY <1>1, <1>8, <2>4, AtContinue
  <2>. QED
    BY <2>5 DEF z
<1>. HIDE DEF f
<1>11. u \in At(b, k, T, st, x) \/ (~NotComplete(st) /\ u \in At(b, k, T, f, x))
  BY <1>1, <1>7, AtComplete DEF f
<1>. HIDE DEF u
<1>12. \/ ContinuousAutoMerge(DownOut(u, p)) \in At(b, k, T, st, x)
       \/ ~NotComplete(st) /\ ContinuousAutoMerge(DownOut(u, p)) \in At(b, k, T, f, x)
  BY <1>10, <1>11
<1>13. v \in At(b, k, T, st, x) \/ (~NotComplete(st) /\ v \in At(b, k, T, f, x))
  BY <1>4, <1>7, <1>9, <1>12 DEF ThenMergeComplete, u
<1>. QED
  BY <1>13 DEF v, f

\* A command leaves the own status alone, but for the requests into and out of
\* service, which nobody makes who takes part in a merge.
LEMMA AtCommand ==
  ASSUME Whole, AutoMerge = FALSE, NEW k, NEW s \in Server, NEW b \in Proc(s, {}, k),
         ~b.sin, NEW st, NEW x, st = Self(b), x = Work(b), NEW t \in Server
  PROVE  /\ \/ CtlComServiceIn(b) \in At(b, k, {"STATUS_CHANGE"}, st, x)
            \/ /\ ~IsOperatingSt(st)
               /\ CtlComServiceIn(b) \in At(b, k, {"STATUS_CHANGE"},
                                            SuspendFlag(ChangeToSrvIn(st), ~k.join), x)
         /\ \/ CtlComServiceOut(b, t) \in At(b, k, {"STATUS_CHANGE"}, st, x)
            \/ /\ ~IsOperatingSt(st)
               /\ CtlComServiceOut(b, t) \in At(b, k, {"STATUS_CHANGE"},
                                                SuspendFlag(ChangeToSrvOut(st), ~k.join), x)
         /\ CtlComUpdateStatus(b) \in At(b, k, {"STATUS_CHANGE"}, st, x)
         /\ RequestMergeSuspend(b) \in At(b, k, {"MERGE_SUSPEND"}, st, x)
         /\ RequestMergeNoSuspend(b) \in At(b, k, {"MERGE_NOSUSPEND"}, st, x)
<1>. DEFINE A(T) == At(b, k, T, st, x)
            C == {"STATUS_CHANGE"}
<1>1. b.id = s /\ (\A T : b \in A(T)) /\ b \in ProcRec(s, {}) /\ Cached(b)
  BY AtSelf DEF Proc
<1>2. /\ st \in Status /\ OwnUp(st) /\ IsSafe(st)
  BY <1>1, AtFacts
<1>3. ~b.oper => ~IsOperatingSt(st)
  BY <1>1 DEF Cached, AnyOperating, Self
<1>4. ASSUME NEW T PROVE Good(b) \in A(T) /\ Fail(b) \in A(T) /\ Fail(b).ok = FALSE
  BY <1>1, AtFlags DEF Fail, ProcRec
<1>5. NextRing(b) # NoServer
  BY NextIsSucc
<1>6. \/ CtlComServiceIn(b) \in A(C)
      \/ /\ ~IsOperatingSt(st)
         /\ CtlComServiceIn(b) \in At(b, k, C, SuspendFlag(ChangeToSrvIn(st), ~k.join), x)
  <2>. DEFINE to == ChangeToSrvIn(st)
              v == PublishSelf(SetSelfStatus(b, to))
  <2>1. CtlComServiceIn(b) = RequestServiceIn(b)
    BY DEF CtlComServiceIn, AutoStart, IsAutoMerge
  <2>2. to \in Status /\ OwnUp(to) /\ IsSafe(to)
    BY <1>2, OwnStatus, MergeStatus
  <2>3. RequestServiceIn(b) = Fail(b) \/ (~b.oper /\ RequestServiceIn(b) = v)
    BY DEF RequestServiceIn
  <2>. HIDE DEF to
  <2>4. v \in At(b, k, C, SuspendFlag(to, ~k.join), x)
    BY <1>1, <2>2, AtPublish
  <2>. QED
    BY <1>3, <1>4, <2>1, <2>3, <2>4 DEF to
<1>7. \/ CtlComServiceOut(b, t) \in A(C)
      \/ /\ ~IsOperatingSt(st)
         /\ CtlComServiceOut(b, t) \in At(b, k, C, SuspendFlag(ChangeToSrvOut(st), ~k.join), x)
  <2>1. IsUp(b.sv[t].st)
    BY CalmFacts
  <2>2. CASE t # s
    BY <1>1, <1>4, <2>1, <2>2 DEF CtlComServiceOut
  <2>3. CASE t = s
    <3>. DEFINE to == ChangeToSrvOut(st)
                v == SetSelfStatus(b, to)
                u == UpdatePendingHash(v)
                y == SendNext(u, StatusChange(u, s))
                f == SuspendFlag(to, ~k.join)
    <3>1. CtlComServiceOut(b, t) = RequestServiceOut(b, s)
      BY <1>1, <2>3 DEF CtlComServiceOut
    <3>2. to \in Status /\ OwnUp(to) /\ IsSafe(to)
      BY <1>2, OwnStatus, MergeStatus
    <3>3. RequestServiceOut(b, s) = Fail(b) \/ (~b.oper /\ RequestServiceOut(b, s) = PublishOut(v, s))
      BY <1>1 DEF RequestServiceOut, Self
    <3>. HIDE DEF to
    <3>4. v \in At(b, k, C, f, x) /\ v.ok
      BY <1>1, <3>2, AtSetSelf
    <3>. HIDE DEF v, f
    <3>5. u \in At(b, k, C, f, x)
      BY <1>1, <3>4, AtStamp
    <3>6. PublishOut(v, s) = AutoComplete(SendServiceOut(u, s))
      BY <3>4 DEF PublishOut
    <3>. HIDE DEF u
    <3>7. u.id = s /\ u \in Proc(s, {}, k)
      BY <1>1, <3>5, AtFacts
    <3>8. SendServiceOut(u, s) = y
      BY <3>7 DEF SendServiceOut
    <3>9. y \in At(b, k, C, f, x)
      <4>1. StatusChange(u, s) \in GoodPacket({}) /\ StatusChange(u, s).type \in C
        BY <3>7, CalmPackets DEF StatusChange
      <4>. HIDE DEF StatusChange, C
      <4>. QED
        BY <1>1, <3>5, <4>1, AtSend
    <3>. HIDE DEF y
    <3>10. PublishOut(v, s) \in At(b, k, C, f, x)
      BY <3>6, <3>8, <3>9 DEF AutoComplete, IsAutoMerge
    <3>. QED
      BY <1>3, <1>4, <3>1, <3>3, <3>10 DEF f, to
  <2>. QED
    BY <2>2, <2>3
<1>8. CtlComUpdateStatus(b) \in A(C)
  <2>1. Renew(b) \in A(C)
    BY <1>1, AtNotify
  <2>. QED
    BY <1>5, <2>1 DEF CtlComUpdateStatus
<1>9. RequestMergeSuspend(b) \in A({"MERGE_SUSPEND"})
  <2>. DEFINE T == {"MERGE_SUSPEND"}
              w1 == [b EXCEPT !.asup = TRUE, !.sin = FALSE]
  <2>1. w1 = [b EXCEPT !.asup = TRUE]
    BY <1>1 DEF ProcRec
  <2>2. w1 \in A(T)
    BY <1>1, <2>1, AtFlags
  <2>3. "MERGE_SUSPEND" \in T
    OBVIOUS
  <2>. HIDE DEF w1, T
  <2>4. SendNext(w1, Signal(w1, "MERGE_SUSPEND")) \in A(T)
    BY <1>1, <2>2, <2>3, AtSignal DEF Signals
  <2>. QED
    BY <1>5, <2>4 DEF RequestMergeSuspend, w1, T
<1>10. RequestMergeNoSuspend(b) \in A({"MERGE_NOSUSPEND"})
  <2>. DEFINE T == {"MERGE_NOSUSPEND"}
              w1 == [b EXCEPT !.asup = FALSE]
  <2>1. w1 \in A(T)
    BY <1>1, AtFlags
  <2>2. "MERGE_NOSUSPEND" \in T
    OBVIOUS
  <2>. HIDE DEF w1, T
  <2>3. SendNext(w1, Signal(w1, "MERGE_NOSUSPEND")) \in A(T)
    BY <1>1, <2>1, <2>2, AtSignal DEF Signals
  <2>. QED
    BY <1>5, <2>3 DEF RequestMergeNoSuspend, w1, T
<1>. QED
  BY <1>6, <1>7, <1>8, <1>9, <1>10

\* A client's arrival ends the suspension.
LEMMA AtJoin ==
  ASSUME Whole, AutoMerge = FALSE, NEW k, NEW s \in Server, NEW b \in Proc(s, {}, k),
         ~b.sin, NEW st, NEW x, st = Self(b), x = Work(b), NEW T, "STATUS_CHANGE" \in T
  PROVE  \/ JoinNotify(b) \in At(b, k, T, st, x)
         \/ JoinNotify(b) \in At(b, k, T, [st EXCEPT !.sup = "NOSUP"], x)
         \/ st.op = "NOTHING" /\ JoinNotify(b) \in At(b, k, T, SRVIN_UP_PENDING, x)
<1>. DEFINE to == IF st = SuspendFlag(SRVIN_UP_NORMAL, TRUE)
                  THEN SRVIN_UP_PENDING ELSE [st EXCEPT !.sup = "NOSUP"]
            f == SuspendFlag(to, ~k.join)
            v == PublishSelf(SetSelfStatus(b, to))
<1>1. b.id = s /\ b \in At(b, k, T, st, x) /\ b.join = k.join
  BY AtSelf DEF Proc, Kept
<1>2. /\ st \in Status /\ OwnUp(st) /\ IsSafe(st)
  BY <1>1, AtFacts
<1>3. Good(b) \in At(b, k, T, st, x) /\ Fail(b) \in At(b, k, T, st, x)
  BY <1>1, AtFlags
<1>4. /\ SRVIN_UP_PENDING \in Status /\ OwnUp(SRVIN_UP_PENDING) /\ IsSafe(SRVIN_UP_PENDING)
      /\ SRVIN_UP_PENDING.sup = "NOSUP"
      /\ SuspendFlag(SRVIN_UP_PENDING, FALSE) = SRVIN_UP_PENDING
  BY DEF Status, IsUp, OwnUp, Suspend, Live, Ring, Act, Operate, Sts, IsSafe,
         SRVIN_UP_PENDING, SuspendFlag
<1>5. st = SuspendFlag(SRVIN_UP_NORMAL, TRUE) => st.op = "NOTHING"
  BY DEF SuspendFlag, SRVIN_UP_NORMAL, Sts
<1>6. LET n == [st EXCEPT !.sup = "NOSUP"]
      IN  n \in Status /\ OwnUp(n) /\ IsSafe(n) /\ SuspendFlag(n, FALSE) = n
  <2>1. SuspendFlag([st EXCEPT !.sup = "NOSUP"], FALSE) = [st EXCEPT !.sup = "NOSUP"]
    BY <1>2 DEF SuspendFlag, Status
  <2>. QED
    BY <1>2, <2>1, OwnStatus, MergeStatus
<1>7. to \in Status /\ OwnUp(to) /\ IsSafe(to) /\ SuspendFlag(to, FALSE) = to
  BY <1>4, <1>6
<1>8. \/ to = [st EXCEPT !.sup = "NOSUP"]
      \/ st.op = "NOTHING" /\ to = SRVIN_UP_PENDING
  BY <1>5
<1>9. \/ JoinNotify(b) = Good(b)
      \/ JoinNotify(b) = Fail(b)
      \/ k.join /\ JoinNotify(b) = ThenContinue(v)
  BY <1>1 DEF JoinNotify
<1>. HIDE DEF to
<1>10. k.join => f = to
  <2>1. k.join => (~k.join) = FALSE
    BY <1>1 DEF Proc, ProcRec
  <2>. QED
    BY <1>7, <2>1
<1>. HIDE DEF f
<1>11. v \in At(b, k, T, f, x) /\ v.ok
  BY <1>1, <1>7, AtPublish DEF f
<1>. HIDE DEF v
<1>12. ThenContinue(v) \in At(b, k, T, f, x)
  <2>1. ~x.sin
    BY DEF Work
  <2>2. ContinuousAutoMerge(v) \in At(b, k, T, f, x)
    BY <1>1, <1>11, <2>1, AtContinue
  <2>. QED
    BY <1>11, <2>2 DEF ThenContinue
<1>. QED
  BY <1>3, <1>8, <1>9, <1>10, <1>12

\* The last client's departure suspends the server, and aborts what it takes part in.
LEMMA AtSuspend ==
  ASSUME Whole, NEW k, NEW s \in Server, NEW b \in Proc(s, {}, k), ~k.join,
         NEW st, NEW x, st = Self(b), x = Work(b),
         NEW T, "STATUS_CHANGE" \in T, "MERGE_ABORT" \in T
  PROVE  \/ DoSuspend(b) \in At(b, k, T, st, x) /\ st = SuspendedStatus(st)
         \/ /\ DoSuspend(b) \in At(b, k, T, SuspendedStatus(st), x)
            /\ st.op = "DOING" =>
                 \E p \in On(DoSuspend(b)) : p.type = "MERGE_ABORT" /\ p.dept = s
<1>. DEFINE to == SuspendedStatus(st)
            v == PublishSelf(SetSelfStatus(b, to))
<1>1. /\ b.id = s /\ b \in At(b, k, T, st, x) /\ b \in ProcRec(s, {}) /\ Cached(b)
      /\ (~k.join) = TRUE
  BY AtSelf DEF Proc, ProcRec, Kept
<1>2. /\ st \in Status /\ OwnUp(st) /\ IsSafe(st)
  BY <1>1, AtFacts
<1>3. to \in Status /\ OwnUp(to) /\ IsSafe(to) /\ SuspendFlag(to, TRUE) = to
  <2>1. to \in Status /\ OwnUp(to) /\ IsSafe(to)
    BY <1>2, OwnStatus, MergeStatus
  <2>2. to.sup = "SUSPEND"
    BY <1>2 DEF SuspendedStatus, OwnUp, IsUp, Status
  <2>. HIDE DEF to
  <2>. QED
    BY <2>1, <2>2 DEF SuspendFlag, Status, OwnUp
<1>4. st.op = "DOING" => b.oper
  BY <1>1 DEF Cached, AnyOperating, IsOperatingSt, Self
<1>5. DoSuspend(b) = IF to = st THEN Good(b) ELSE AbortIf(v, b.oper)
  BY DEF DoSuspend
<1>. HIDE DEF to
<1>6. v \in At(b, k, T, to, x) /\ v.ok
  <2>1. v \in At(b, k, T, SuspendFlag(to, ~k.join), x) /\ v.ok
    BY <1>1, <1>3, AtPublish
  <2>. QED
    BY <1>1, <1>3, <2>1
<1>. HIDE DEF v
<1>7. /\ RequestMergeAbort(v) \in At(b, k, T, to, x)
      /\ Signal(v, "MERGE_ABORT") \in On(RequestMergeAbort(v))
  BY <1>1, <1>6, AtRequest
<1>8. Signal(v, "MERGE_ABORT").type = "MERGE_ABORT" /\ Signal(v, "MERGE_ABORT").dept = s
  <2>1. v.id = s
    BY <1>1, <1>6, AtFacts
  <2>. QED
    BY <2>1 DEF Signal
<1>9. Good(b) \in At(b, k, T, st, x)
  BY <1>1, AtFlags
<1>10. CASE to = st
  BY <1>5, <1>9, <1>10 DEF to
<1>11. CASE to # st
  <2>1. DoSuspend(b) = IF b.oper THEN RequestMergeAbort(v) ELSE v
    BY <1>5, <1>6, <1>11 DEF AbortIf
  <2>. HIDE DEF Signal
  <2>2. st.op = "DOING" => \E p \in On(DoSuspend(b)) : p.type = "MERGE_ABORT" /\ p.dept = s
    BY <1>4, <1>7, <1>8, <2>1
  <2>3. DoSuspend(b) \in At(b, k, T, to, x)
    BY <1>6, <1>7, <2>1
  <2>. QED
    BY <2>2, <2>3 DEF to
<1>. QED
  BY <1>10, <1>11

\* The steps of the worker.
WorkerSteps(b, k, T, st) ==
  /\ b.wk > 0 =>
       /\ WorkerBegin(b) \in At(b, k, T, st, Work(WorkerBegin(b)))
       /\ WorkerBegin(b).run = b.run /\ WorkerBegin(b).sin = b.sin
       /\ WorkerBegin(b).wst = "wait"
  /\ /\ WorkerStop(b) \in At(b, k, T, st, Work(WorkerStop(b)))
     /\ WorkerStop(b).run = b.run /\ WorkerStop(b).sin = b.sin
     /\ WorkerStop(b).wst = "idle"
  /\ /\ WorkerClear(b) \in At(b, k, T, st, Work(WorkerClear(b)))
     /\ ~WorkerClear(b).run /\ WorkerClear(b).sin = b.sin
     /\ WorkerClear(b).wst = "idle"
  /\ LET v == WorkerFinish(b)
     IN  /\ \/ /\ st.op = "DOING"
               /\ v \in At(b, k, T, SuspendFlag([st EXCEPT !.op = "DONE"], ~k.join), Work(v))
               /\ v.wst = "done"
            \/ /\ st.op # "DOING"
               /\ v \in At(b, k, T, st, Work(v))
               /\ \/ v.wst = "done" /\ st.op = "DONE"
                  \/ v.wst = "idle" /\ ~v.run
         /\ v.sin = b.sin /\ (v.run => b.run)

LEMMA AtWorker ==
  ASSUME Whole, AutoMerge = FALSE, NEW k, NEW s \in Server, NEW b \in Proc(s, {}, k),
         NEW st, st = Self(b), NEW T, "STATUS_CHANGE" \in T,
         st.op = "DOING" => st.sup = "NOSUP"
  PROVE  WorkerSteps(b, k, T, st)
<1>1. b.id = s /\ b \in At(b, k, T, st, Work(b)) /\ b \in ProcRec(s, {})
  BY AtSelf DEF Proc
<1>2. st \in Status /\ OwnUp(st) /\ IsSafe(st)
  BY <1>1, AtFacts
<1>3. ASSUME b.wk > 0
      PROVE  /\ WorkerBegin(b) \in At(b, k, T, st, Work(WorkerBegin(b)))
             /\ WorkerBegin(b).run = b.run /\ WorkerBegin(b).sin = b.sin
             /\ WorkerBegin(b).wst = "wait"
  <2>. DEFINE v == [b EXCEPT !.wk = @ - 1, !.wst = "wait"]
  <2>1. NextRing(b) # NoServer /\ Connectable(b, NextRing(b))
    BY NextIsSucc DEF Connectable, Whole
  <2>2. WorkerBegin(b) = v
    BY <2>1 DEF WorkerBegin
  <2>3. v \in Proc(s, {}, k)
    BY <1>3, CalmProc
  <2>4. /\ v.out = b.out /\ v.sv = b.sv /\ v.run = b.run /\ v.sin = b.sin
        /\ v.wst = "wait"
    BY <1>1 DEF ProcRec
  <2>. HIDE DEF v
  <2>5. v \in At(b, k, T, st, Work(v))
    BY <1>1, <2>3, <2>4, AtFields
  <2>. QED
    BY <2>2, <2>4, <2>5
<1>4. ASSUME NEW w \in Proc(s, {}, k), NEW to, w \in At(b, k, T, to, Work(w)),
             NEW y \in {"idle", "wait", "done"}
      PROVE  /\ LET v == [w EXCEPT !.wst = y]
                IN  /\ v \in At(b, k, T, to, Work(v))
                    /\ v.wst = y /\ v.run = w.run /\ v.sin = w.sin
             /\ LET v == [w EXCEPT !.wst = y, !.run = FALSE]
                IN  /\ v \in At(b, k, T, to, Work(v))
                    /\ v.wst = y /\ ~v.run /\ v.sin = w.sin
  <2>. DEFINE u == [w EXCEPT !.wst = y]
              v == [w EXCEPT !.wst = y, !.run = FALSE]
  <2>1. u \in Proc(s, {}, k) /\ v \in Proc(s, {}, k) /\ w \in ProcRec(s, {})
    BY CalmProc DEF Proc
  <2>2. /\ u.out = w.out /\ u.sv = w.sv /\ u.run = w.run /\ u.sin = w.sin /\ u.wst = y
    BY <2>1 DEF ProcRec
  <2>3. /\ v.out = w.out /\ v.sv = w.sv /\ ~v.run /\ v.sin = w.sin /\ v.wst = y
    BY <2>1 DEF ProcRec
  <2>. HIDE DEF u, v
  <2>4. u \in At(b, k, T, to, Work(u))
    BY <1>1, <1>4, <2>1, <2>2, AtFields
  <2>5. v \in At(b, k, T, to, Work(v))
    BY <1>1, <1>4, <2>1, <2>3, AtFields
  <2>. QED
    BY <2>2, <2>3, <2>4, <2>5 DEF u, v
<1>5. /\ WorkerStop(b) \in At(b, k, T, st, Work(WorkerStop(b)))
      /\ WorkerStop(b).run = b.run /\ WorkerStop(b).sin = b.sin
      /\ WorkerStop(b).wst = "idle"
      /\ WorkerClear(b) \in At(b, k, T, st, Work(WorkerClear(b)))
      /\ ~WorkerClear(b).run /\ WorkerClear(b).sin = b.sin
      /\ WorkerClear(b).wst = "idle"
  BY <1>1, <1>4 DEF WorkerStop, WorkerClear
<1>6. LET v == WorkerFinish(b)
      IN  /\ \/ /\ st.op = "DOING"
                /\ v \in At(b, k, T, SuspendFlag([st EXCEPT !.op = "DONE"], ~k.join), Work(v))
                /\ v.wst = "done"
             \/ /\ st.op # "DOING"
                /\ v \in At(b, k, T, st, Work(v))
                /\ \/ v.wst = "done" /\ st.op = "DONE"
                   \/ v.wst = "idle" /\ ~v.run
          /\ v.sin = b.sin /\ (v.run => b.run)
  <2>. DEFINE m == MergeDone(b)
              f == SuspendFlag([st EXCEPT !.op = "DONE"], ~k.join)
              u == [m EXCEPT !.wst = "done"]
              y == [m EXCEPT !.wst = "idle", !.run = FALSE]
  <2>1. /\ st.op = "DOING" => m \in At(b, k, T, f, Work(b)) /\ m.ok
        /\ st.op # "DOING" => m \in At(b, k, T, st, Work(b))
        /\ st.op \notin {"DOING", "DONE"} => ~m.ok
    BY <1>1, AtDone
  <2>2. WorkerFinish(b) = IF m.ok THEN u ELSE y
    BY DEF WorkerFinish, Reported
  <2>. HIDE DEF m, f, u, y
  <2>3. ASSUME NEW to, m \in At(b, k, T, to, Work(b))
        PROVE  /\ u \in At(b, k, T, to, Work(u)) /\ u.wst = "done"
               /\ u.run = b.run /\ u.sin = b.sin
               /\ y \in At(b, k, T, to, Work(y)) /\ y.wst = "idle"
               /\ ~y.run /\ y.sin = b.sin
    <3>1. m \in Proc(s, {}, k)
      BY <1>1, <2>3, AtFacts
    <3>2. Work(m) = Work(b)
      BY <2>3 DEF At
    <3>3. m.run = b.run /\ m.sin = b.sin
      BY <3>2 DEF Work
    <3>. QED
      BY <1>4, <2>3, <3>1, <3>2, <3>3 DEF u, y
  <2>4. CASE st.op = "DOING"
    BY <2>1, <2>2, <2>3, <2>4 DEF f
  <2>5. CASE st.op # "DOING"
    BY <2>1, <2>2, <2>3, <2>5
  <2>. QED
    BY <2>4, <2>5
<1>. QED
  BY <1>3, <1>5, <1>6 DEF WorkerSteps

\* The packets on all sockets.
InFlight   == UNION {On(node[s]) : s \in Server}
Coming(T)  == \E p \in InFlight : p.type \in T
AbortOf(s) == \E p \in InFlight : p.type = "MERGE_ABORT" /\ p.dept = s

\* The merge of server s: who is DOING has its worker at work or about to begin, and
\* the run flag is left set only until the worker, or the abort, has cleared it.
WorkOK(s) ==
  /\ ~node[s].sin
  /\ node[s].run => DoMerge
  /\ Self(node[s]).op = "DOING" =>
       /\ Self(node[s]).sup = "NOSUP"
       /\ node[s].run /\ node[s].wst # "done"
       /\ node[s].wst = "wait" \/ node[s].wk > 0
  /\ node[s].run => \/ Self(node[s]).op = "DOING" \/ node[s].wst = "done"
                    \/ AbortOf(s)

\* As long as a merge is being started nothing ends it, and whoever has still to
\* start finds its worker free.
Starting == Coming({"STATUS_CONFIRM", "MERGE_START"})
Ending   == Coming({"MERGE_ABORT", "MERGE_COMPLETE"})

ReadyAt(s) == /\ ~node[s].jn /\ ~node[s].cls
              /\ Startable(Self(node[s])) => ~node[s].run /\ node[s].wst # "done"

Ready == ~Ending /\ \A s \in Server : ReadyAt(s)

StartOK == Starting => Ready

\* No abort or completion meets a client that has not been announced yet.
ClientOK ==
  /\ \A s \in Server : node[s].cls => ~node[s].join
  /\ (\E s \in Server : node[s].jn) => ~Ending /\ \A s \in Server : ~node[s].cls

MergeInv == (\A s \in Server : WorkOK(s)) /\ StartOK /\ ClientOK

\* What a step of server s leaves of the others and of the packets: it adds packets of
\* the types T, and of the aborts it takes away at most its own, its worker stopped.
Same(v, w) ==
  /\ Self(v) = Self(w) /\ Work(v) = Work(w)
  /\ v.join = w.join /\ v.jn = w.jn /\ v.cls = w.cls

Moves(s, T) ==
  /\ \A t \in Server \ {s} : Same(node'[t], node[t])
  /\ \A p \in InFlight' : p \in InFlight \/ p.type \in T
  /\ \A p \in InFlight : p.type = "MERGE_ABORT" =>
       p \in InFlight' \/ (p.dept = s /\ ~node'[s].run)

\* What becomes of s itself.
Becoming(s, k, st, x) ==
  /\ Self(node'[s]) = st
  /\ node'[s].run = x.run /\ node'[s].wk = x.wk /\ node'[s].wst = x.wst /\ node'[s].sin = x.sin
  /\ node'[s].join = k.join /\ node'[s].jn = k.jn /\ node'[s].cls = k.cls

LEMMA AtBecomes ==
  ASSUME Whole, NEW b, b.id \in Server, NEW k, NEW T, NEW st, NEW x,
         NEW v \in At(b, k, T, st, x), node'[b.id] = Good(v)
  PROVE  Becoming(b.id, k, st, x) /\ On(Good(v)) = On(v)
<1>. DEFINE n == Good(v)
<1>1. n \in At(b, k, T, st, x) /\ v \in ProcRec(b.id, {})
  BY AtFlags, AtFacts
<1>2. n.out = v.out
  BY <1>1 DEF Good, ProcRec
<1>. HIDE DEF n
<1>3. /\ Self(n) = st /\ n.run = x.run /\ n.wk = x.wk /\ n.wst = x.wst /\ n.sin = x.sin
  BY <1>1, AtFacts
<1>4. n.join = k.join /\ n.jn = k.jn /\ n.cls = k.cls
  BY <1>1 DEF At, Proc, Kept
<1>. QED
  BY <1>2, <1>3, <1>4 DEF n, Becoming, On

\* A server that reads no packet.
LEMMA OwnMoves ==
  ASSUME RingInv, Whole, NEW s \in Server, NEW b, b.id = s, b.out = node[s].out,
         NEW k, NEW T, NEW st, NEW x, NEW v \in At(b, k, T, st, x), Becomes(s, v)
  PROVE  /\ Moves(s, T) /\ Becoming(s, k, st, x)
         /\ \A p \in On(v) : p \in InFlight'
<1>1. node \in [Server -> Node] /\ node' = [node EXCEPT ![s] = Good(v)]
  BY DEF RingInv, Becomes
<1>2. node'[s] = Good(v) /\ \A t \in Server \ {s} : node'[t] = node[t]
  BY <1>1
<1>3. Becoming(s, k, st, x) /\ On(node'[s]) = On(v)
  BY <1>2, AtBecomes
<1>4. On(b) = On(node[s])
  BY DEF On
<1>5. /\ \A p : p \in On(node[s]) => p \in On(node'[s])
      /\ \A p : p \in On(node'[s]) => p \in On(node[s]) \/ p.type \in T
  BY <1>3, <1>4 DEF At, Adds
<1>6. \A p \in InFlight' : p \in InFlight \/ p.type \in T
  <2>. SUFFICES ASSUME NEW t \in Server, NEW p \in On(node'[t]), p.type \notin T
                PROVE  p \in InFlight
    BY DEF InFlight
  <2>1. p \in On(node[t])
    BY <1>2, <1>5
  <2>. QED
    BY <2>1 DEF InFlight
<1>7. \A p \in InFlight : p \in InFlight'
  <2>. SUFFICES ASSUME NEW t \in Server, NEW p \in On(node[t]) PROVE p \in InFlight'
    BY DEF InFlight
  <2>1. p \in On(node'[t])
    BY <1>2, <1>5
  <2>. QED
    BY <2>1 DEF InFlight
<1>8. \A t \in Server \ {s} : Same(node'[t], node[t])
  BY <1>2 DEF Same
<1>9. \A p \in On(v) : p \in InFlight'
  BY <1>3 DEF InFlight
<1>. QED
  BY <1>3, <1>6, <1>7, <1>8, <1>9 DEF Moves

\* A server that reads one.
LEMMA ReadMoves ==
  ASSUME RingInv, Whole, NEW s \in Server, NEW t \in Server, node[t].id = t,
         \A u \in Server : node[u].out \in [Server -> Seq(GoodPacket({}))],
         NEW k, NEW T, NEW st, NEW x, NEW v \in At(node[t], k, T, st, x),
         NEW type, Recv(s, t, type, v),
         type = "MERGE_ABORT" => /\ ~x.run
                                 /\ Unread(s, t).dept # t => Unread(s, t) \in On(v)
  PROVE  Moves(t, T) /\ Becoming(t, k, st, x) /\ Coming({type})
<1>. DEFINE h == Unread(s, t)
<1>1. /\ node \in [Server -> Node] /\ node[s].out[t] # << >> /\ h.type = type
      /\ node' = [node EXCEPT ![s].out[t] = Tail(@), ![t] = Good(v)]
  BY DEF RingInv, Recv
<1>2. /\ node'[t] = Good(v)
      /\ s # t => node'[s] = [node[s] EXCEPT !.out[t] = Tail(@)]
      /\ \A u \in Server \ {s, t} : node'[u] = node[u]
  BY <1>1
<1>3. Becoming(t, k, st, x) /\ On(node'[t]) = On(v)
  BY <1>2, AtBecomes
<1>4. /\ \A p : p \in On(node[t]) => p \in On(node'[t])
      /\ \A p : p \in On(node'[t]) => p \in On(node[t]) \/ p.type \in T
  BY <1>3 DEF At, Adds
<1>5. s # t => /\ node'[s].out = [node[s].out EXCEPT ![t] = Tail(@)]
               /\ Same(node'[s], node[s])
  <2>. SUFFICES ASSUME s # t PROVE /\ node'[s].out = [node[s].out EXCEPT ![t] = Tail(@)]
                                   /\ Same(node'[s], node[s])
    OBVIOUS
  <2>. DEFINE a == Tail(node[s].out[t])
              w == node[s]
              u == node'[s]
  <2>1. u = [w EXCEPT !.out[t] = a] /\ w \in Node
    BY <1>1, <1>2
  <2>. HIDE DEF a, w, u
  <2>2. /\ u.out = [w.out EXCEPT ![t] = a] /\ u.sv = w.sv /\ u.id = w.id /\ u.run = w.run
        /\ u.wk = w.wk /\ u.wst = w.wst /\ u.sin = w.sin
        /\ u.join = w.join /\ u.jn = w.jn /\ u.cls = w.cls
    BY <2>1 DEF Node
  <2>3. Same(u, w)
    BY <2>2 DEF Same, Self, Work
  <2>. QED
    BY <2>2, <2>3 DEF a, w, u
<1>6. s # t => /\ \A p : p \in On(node'[s]) => p \in On(node[s])
               /\ \A p : p \in On(node[s]) => p \in On(node'[s]) \/ p = h
  <2>. SUFFICES ASSUME s # t
                PROVE  /\ \A p : p \in On(node'[s]) => p \in On(node[s])
                       /\ \A p : p \in On(node[s]) => p \in On(node'[s]) \/ p = h
    OBVIOUS
  <2>. DEFINE o == node[s].out
              q == node'[s].out
              S == GoodPacket({})
  <2>1. o \in [Server -> Seq(S)] /\ q = [o EXCEPT ![t] = Tail(@)] /\ o[t] # << >>
    BY <1>1, <1>5
  <2>. HIDE DEF o, q, S
  <2>2. Tail(o[t]) \in Seq(S)
    BY <2>1, HeadTailProperties
  <2>3. q \in [Server -> Seq(S)] /\ Read(o, q, t)
    BY <2>1, <2>2 DEF Read
  <2>4. HeldLess(o, q, t)
    BY <2>1, <2>3, HeldTail
  <2>. QED
    BY <2>4 DEF HeldLess, On, o, q, Unread
<1>7. \A p \in InFlight' : p \in InFlight \/ p.type \in T
  <2>. SUFFICES ASSUME NEW u \in Server, NEW p \in On(node'[u]), p.type \notin T
                PROVE  p \in InFlight
    BY DEF InFlight
  <2>1. p \in On(node[u])
    BY <1>2, <1>4, <1>6
  <2>. QED
    BY <2>1 DEF InFlight
<1>8. \A p \in On(v) : p \in InFlight'
  BY <1>3 DEF InFlight
<1>9. ASSUME NEW p \in InFlight, p.type = "MERGE_ABORT"
      PROVE  p \in InFlight' \/ (p.dept = t /\ ~node'[t].run)
  <2>1. PICK u \in Server : p \in On(node[u])
    BY DEF InFlight
  <2>2. CASE p \in On(node'[u])
    BY <2>2 DEF InFlight
  <2>3. CASE p \notin On(node'[u])
    <3>1. u = s /\ s # t /\ p = h
      BY <1>2, <1>4, <1>6, <2>1, <2>3
    <3>2. type = "MERGE_ABORT"
      BY <1>1, <1>9, <3>1
    <3>3. ~node'[t].run
      BY <1>3, <3>2 DEF Becoming
    <3>. QED
      BY <1>8, <3>1, <3>2, <3>3
  <2>. QED
    BY <2>2, <2>3
<1>10. \A u \in Server \ {t} : Same(node'[u], node[u])
  BY <1>2, <1>5 DEF Same
<1>11. Coming({type})
  <2>. DEFINE o == node[s].out[t]
  <2>1. o \in Seq(GoodPacket({})) /\ o # << >> /\ h = Head(o)
    BY <1>1 DEF Unread
  <2>. HIDE DEF o, h
  <2>2. 1 \in DOMAIN o /\ h = o[1]
    BY <2>1, EmptySeq, LenProperties, HeadTailProperties
  <2>3. h \in On(node[s])
    BY <2>2 DEF On, Held, o
  <2>. QED
    BY <1>1, <2>3 DEF Coming, InFlight, h
<1>. QED
  BY <1>3, <1>7, <1>9, <1>10, <1>11 DEF Moves

NoStart(T) == T \cap {"STATUS_CONFIRM", "MERGE_START"} = {}
NoEnd(T)   == T \cap {"MERGE_ABORT", "MERGE_COMPLETE"} = {}

\* What keeps StartOK, and ClientOK: a step that starts nothing, one that ends
\* nothing, and the arrival of a client.
StartStep(s, T) == \/ NoStart(T) /\ ~Starting
                   \/ NoEnd(T) /\ Ready /\ ReadyAt(s)'

ClientStep(s, T) ==
  \/ /\ \A u \in Server : ~node[u].jn
     /\ ~node'[s].jn /\ (node'[s].cls => ~node'[s].join)
  \/ /\ NoEnd(T) /\ node'[s].join = node[s].join
     /\ node'[s].jn => node[s].jn
     /\ node'[s].cls => node[s].cls
  \/ NoEnd(T) /\ ~Ending /\ (\A u \in Server : ~node[u].cls) /\ ~node'[s].cls

\* What the merges do in one step: nothing is completed without MERGE_COMPLETE and
\* nothing begins without MERGE_START; the first MERGE_COMPLETE is a command's.
Completes(t) == /\ Self(node[t]).op = "DONE"
                /\ Self(node'[t]) \in {SRVIN_UP_NORMAL, SRVOUT_UP_NORMAL}

Begins(t) == Self(node'[t]).op = "DOING" /\ Self(node[t]).op # "DOING"

Proceeds ==
  /\ MergeInv'
  /\ \A t \in Server : /\ Completes(t) => Coming({"MERGE_COMPLETE"})
                       /\ Begins(t) => Coming({"MERGE_START"})
  /\ Coming({"MERGE_COMPLETE"})' =>
       Coming({"MERGE_COMPLETE"}) \/ \E s \in Server : CmdMergeComplete(s)

LEMMA ComingNew ==
  ASSUME NEW s \in Server, NEW T, NEW U, Moves(s, T), T \cap U = {}, Coming(U)'
  PROVE  Coming(U)
BY DEF Moves, Coming

LEMMA WorkKept ==
  ASSUME NEW s \in Server, NEW T, Moves(s, T), WorkOK(s)', \A t \in Server : WorkOK(t)
  PROVE  \A t \in Server : WorkOK(t)'
<1>1. ASSUME NEW t \in Server \ {s} PROVE WorkOK(t)'
  <2>1. Same(node'[t], node[t]) /\ WorkOK(t)
    BY DEF Moves
  <2>2. AbortOf(t) => AbortOf(t)'
    BY DEF Moves, AbortOf
  <2>3. /\ Self(node'[t]) = Self(node[t]) /\ node'[t].run = node[t].run
        /\ node'[t].wk = node[t].wk /\ node'[t].wst = node[t].wst /\ node'[t].sin = node[t].sin
    BY <2>1 DEF Same, Work
  <2>4. Self(node[t])' = Self(node'[t])
    BY DEF Self
  <2>. QED
    BY <2>1, <2>2, <2>3, <2>4 DEF WorkOK
<1>. QED
  BY <1>1

LEMMA StartKept ==
  ASSUME NEW s \in Server, NEW T, Moves(s, T), StartOK, StartStep(s, T)
  PROVE  StartOK'
<1>1. CASE NoStart(T) /\ ~Starting
  <2>1. Starting' => Starting
    BY <1>1, ComingNew DEF Starting, NoStart
  <2>. QED
    BY <1>1, <2>1 DEF StartOK
<1>2. CASE NoEnd(T) /\ Ready /\ ReadyAt(s)'
  <2>1. Ending' => Ending
    BY <1>2, ComingNew DEF Ending, NoEnd
  <2>2. ASSUME NEW t \in Server \ {s} PROVE ReadyAt(t)'
    <3>1. Same(node'[t], node[t]) /\ ReadyAt(t)
      BY <1>2 DEF Moves, Ready
    <3>2. /\ Self(node'[t]) = Self(node[t]) /\ node'[t].run = node[t].run
          /\ node'[t].wst = node[t].wst /\ node'[t].jn = node[t].jn /\ node'[t].cls = node[t].cls
      BY <3>1 DEF Same, Work
    <3>3. Self(node[t])' = Self(node'[t])
      BY DEF Self
    <3>4. Startable(Self(node[t]))' <=> Startable(Self(node[t]))
      BY <3>2, <3>3 DEF Startable
    <3>. QED
      BY <3>1, <3>2, <3>4 DEF ReadyAt
  <2>. QED
    BY <1>2, <2>1, <2>2 DEF StartOK, Ready
<1>. QED
  BY <1>1, <1>2 DEF StartStep

LEMMA ClientKept ==
  ASSUME NEW s \in Server, NEW T, Moves(s, T), ClientOK, ClientStep(s, T)
  PROVE  ClientOK'
<1>1. \A t \in Server \ {s} : /\ node'[t].jn = node[t].jn /\ node'[t].cls = node[t].cls
                              /\ node'[t].join = node[t].join
  BY DEF Moves, Same
<1>2. NoEnd(T) /\ Ending' => Ending
  BY ComingNew DEF Ending, NoEnd
<1>. QED
  BY <1>1, <1>2 DEF ClientOK, ClientStep

\* The step of one server.
LEMMA StepProceeds ==
  ASSUME NEW s \in Server, NEW T, MergeInv, Moves(s, T), WorkOK(s)',
         StartStep(s, T), ClientStep(s, T),
         Completes(s) => Coming({"MERGE_COMPLETE"}), Begins(s) => Coming({"MERGE_START"}),
         "MERGE_COMPLETE" \in T => Coming({"MERGE_COMPLETE"}) \/ CmdMergeComplete(s)
  PROVE  Proceeds
<1>1. MergeInv'
  BY WorkKept, StartKept, ClientKept DEF MergeInv
<1>2. ASSUME NEW t \in Server \ {s} PROVE ~Completes(t) /\ ~Begins(t)
  <2>1. Self(node'[t]) = Self(node[t])
    BY DEF Moves, Same
  <2>. QED
    BY <2>1 DEF Completes, Begins, SRVIN_UP_NORMAL, SRVOUT_UP_NORMAL, Sts
<1>3. Coming({"MERGE_COMPLETE"})' /\ "MERGE_COMPLETE" \notin T => Coming({"MERGE_COMPLETE"})
  <2>. DEFINE U == {"MERGE_COMPLETE"}
  <2>1. "MERGE_COMPLETE" \notin T => T \cap U = {}
    OBVIOUS
  <2>. HIDE DEF U
  <2>2. Coming(U)' /\ T \cap U = {} => Coming(U)
    BY ComingNew
  <2>. QED
    BY <2>1, <2>2 DEF U
<1>. QED
  BY <1>1, <1>2, <1>3 DEF Proceeds

\* A server that writes, and changes nothing of itself.
LEMMA SameProceeds ==
  ASSUME NEW s \in Server, NEW T, MergeInv, Moves(s, T),
         Becoming(s, Client(node[s]), Self(node[s]), Work(node[s])),
         NoEnd(T) \/ \A u \in Server : ~node[u].jn,
         (NoStart(T) /\ ~Starting) \/ (NoEnd(T) /\ Ready),
         "MERGE_COMPLETE" \in T => Coming({"MERGE_COMPLETE"}) \/ CmdMergeComplete(s)
  PROVE  Proceeds
<1>1. /\ Self(node'[s]) = Self(node[s]) /\ node'[s].run = node[s].run
      /\ node'[s].wk = node[s].wk /\ node'[s].wst = node[s].wst /\ node'[s].sin = node[s].sin
      /\ node'[s].join = node[s].join /\ node'[s].jn = node[s].jn /\ node'[s].cls = node[s].cls
  BY DEF Becoming, Client, Work
<1>2. Self(node[s])' = Self(node'[s])
  BY DEF Self
<1>3. AbortOf(s) => AbortOf(s)' \/ ~node'[s].run
  BY DEF Moves, AbortOf
<1>4. WorkOK(s)'
  BY <1>1, <1>2, <1>3 DEF WorkOK, MergeInv
<1>5. StartStep(s, T)
  <2>1. Startable(Self(node[s]))' <=> Startable(Self(node[s]))
    BY <1>1, <1>2 DEF Startable
  <2>2. ReadyAt(s) => ReadyAt(s)'
    BY <1>1, <2>1 DEF ReadyAt
  <2>. QED
    BY <2>2 DEF StartStep, Ready
<1>6. ClientStep(s, T)
  BY <1>1 DEF ClientStep, MergeInv, ClientOK
<1>7. ~Completes(s) /\ ~Begins(s)
  BY <1>1 DEF Completes, Begins, SRVIN_UP_NORMAL, SRVOUT_UP_NORMAL, Sts
<1>. QED
  BY <1>4, <1>5, <1>6, <1>7, StepProceeds

\* An abort leaves nobody in service who was DONE.
LEMMA AbortIncomplete ==
  ASSUME NEW st \in Status, OwnUp(st), IsSafe(st), st.op = "DONE",
         NEW j \in BOOLEAN, j => st.sup = "NOSUP"
  PROVE  SuspendFlag(AbortedStatus(st), ~j) \notin {SRVIN_UP_NORMAL, SRVOUT_UP_NORMAL}
BY DEF AbortedStatus, SuspendFlag, IsSafe, OwnUp, IsUp, IsSrvIn, IsOperatingSt, Status,
       Live, Ring, Act, Operate, Suspend, SRVIN_UP_NORMAL, SRVOUT_UP_NORMAL,
       SRVIN_DOWN_NORMAL, Sts

\* What server t knows when it reads a packet of server s.
Knows(t, b, p, type) ==
  /\ b \in Proc(t, {}, Client(b)) /\ b.id = t /\ ~b.sin
  /\ \A u \in Server : node[u].out \in [Server -> Seq(GoodPacket({}))]
  /\ p \in GoodPacket({}) /\ p.type = type
  /\ Coming({type})
  /\ Self(b) \in Status /\ OwnUp(Self(b)) /\ IsSafe(Self(b))
  /\ Work(b).run = b.run /\ Client(b).join = b.join
  /\ b.join \in BOOLEAN /\ b.jn \in BOOLEAN /\ b.cls \in BOOLEAN

LEMMA ReadFacts ==
  ASSUME RingInv, MergeInv, Whole, NEW s \in Server, NEW t \in Server,
         NEW type, NEW w, Recv(s, t, type, w)
  PROVE  Knows(t, node[t], Unread(s, t), type)
<1>1. AllUp
  BY DEF Whole, AllUp
<1>2. /\ node[t] \in Proc(t, {}, Client(node[t])) /\ node[t].id = t /\ Dead = {}
      /\ \A u \in Server : node[u].out \in [Server -> Seq(GoodPacket({}))]
  BY <1>1, CalmNode DEF Base
<1>3. node[s].out[t] # << >> /\ Unread(s, t).type = type
  BY DEF Recv
<1>4. Unread(s, t) \in GoodPacket({})
  BY <1>2, <1>3, UnreadGood
<1>5. Coming({type})
  <2>. DEFINE o == node[s].out[t]
              h == Unread(s, t)
  <2>1. o \in Seq(GoodPacket({})) /\ o # << >> /\ h = Head(o)
    BY <1>2, <1>3 DEF Unread
  <2>. HIDE DEF o, h
  <2>2. 1 \in DOMAIN o /\ h = o[1]
    BY <2>1, EmptySeq, LenProperties, HeadTailProperties
  <2>3. h \in On(node[s])
    BY <2>2 DEF On, Held, o
  <2>. QED
    BY <1>3, <2>3 DEF Coming, InFlight, h
<1>6. ~node[t].sin
  BY DEF MergeInv, WorkOK
<1>7. /\ Self(node[t]) \in Status /\ OwnUp(Self(node[t])) /\ IsSafe(Self(node[t]))
  <2>. DEFINE T == {}
              b == node[t]
  <2>1. b \in At(b, Client(b), T, Self(b), Work(b)) /\ b.id \in Server
    BY <1>2, AtSelf
  <2>. HIDE DEF T, b
  <2>2. Self(b) \in Status /\ OwnUp(Self(b)) /\ IsSafe(Self(b))
    BY <2>1, AtFacts
  <2>. QED
    BY <2>2 DEF b
<1>8. node[t].join \in BOOLEAN /\ node[t].jn \in BOOLEAN /\ node[t].cls \in BOOLEAN
  BY <1>2 DEF Proc, ProcRec
<1>. QED
  BY <1>2, <1>3, <1>4, <1>5, <1>6, <1>7, <1>8 DEF Work, Client, Knows

\* The packets that ask, and the notices.
LEMMA ReadAsked ==
  ASSUME RingInv, MergeInv, Whole, AutoMerge = FALSE, NEW s \in Server, NEW t \in Server,
         \/ RecvStatusConfirm(s, t) \/ RecvStatusChange(s, t)
         \/ RecvMergeSuspend(s, t) \/ RecvMergeNoSuspend(s, t)
  PROVE  Proceeds
<1>. DEFINE b == node[t]
            k == Client(b)
            p == Unread(s, t)
            st == Self(b)
            x == Work(b)
<1>1. ASSUME NEW type, NEW T, NEW v \in At(b, k, T, st, x), Recv(s, t, type, v),
             type # "MERGE_ABORT", NoEnd(T),
             NoStart(T) \/ type = "STATUS_CONFIRM"
      PROVE  Proceeds
  <2>1. /\ b.id = t /\ \A u \in Server : node[u].out \in [Server -> Seq(GoodPacket({}))]
        /\ Coming({type})
    BY <1>1, ReadFacts DEF Knows
  <2>2. Moves(t, T) /\ Becoming(t, k, st, x)
    <3>. HIDE DEF k, st, x
    <3>. QED
      BY <1>1, <2>1, ReadMoves
  <2>3. type = "STATUS_CONFIRM" => Starting
    BY <2>1 DEF Starting, Coming
  <2>4. (NoStart(T) /\ ~Starting) \/ (NoEnd(T) /\ Ready)
    BY <1>1, <2>3 DEF MergeInv, StartOK
  <2>5. "MERGE_COMPLETE" \notin T
    BY <1>1 DEF NoEnd
  <2>. QED
    BY <1>1, <2>2, <2>4, <2>5, SameProceeds
<1>2. ASSUME NEW type, NEW w, Recv(s, t, type, w)
      PROVE  b \in Proc(t, {}, k) /\ ~b.sin /\ p \in GoodPacket({}) /\ p.type = type
  <2>1. Knows(t, node[t], Unread(s, t), type)
    BY <1>2, ReadFacts
  <2>. QED
    BY <2>1 DEF Knows
<1>. HIDE DEF b, k, p, st, x
<1>3. CASE RecvStatusConfirm(s, t)
  <2>. DEFINE T == {"STATUS_CONFIRM", "STATUS_CHANGE", "MERGE_START"}
              v == ReceiveStatusConfirm(b, p)
  <2>1. Recv(s, t, "STATUS_CONFIRM", v)
    BY <1>3 DEF RecvStatusConfirm, b, p
  <2>2. v \in At(b, k, T, st, x)
    BY <1>2, <2>1, AtReceive DEF st, x
  <2>3. NoEnd(T)
    BY DEF NoEnd
  <2>. HIDE DEF v, T
  <2>. QED
    BY <1>1, <2>1, <2>2, <2>3
<1>4. CASE RecvStatusChange(s, t)
  <2>. DEFINE T == {"STATUS_CHANGE"}
              v == ReceiveStatusChange(b, p)
  <2>1. Recv(s, t, "STATUS_CHANGE", v)
    BY <1>4 DEF RecvStatusChange, b, p
  <2>2. v \in At(b, k, T, st, x)
    BY <1>2, <2>1, AtReceive DEF st, x
  <2>3. NoEnd(T) /\ NoStart(T)
    BY DEF NoEnd, NoStart
  <2>. HIDE DEF v, T
  <2>. QED
    BY <1>1, <2>1, <2>2, <2>3
<1>5. CASE RecvMergeSuspend(s, t)
  <2>. DEFINE T == {"MERGE_SUSPEND"}
              v == ReceiveMergeSuspend(b, p)
  <2>1. Recv(s, t, "MERGE_SUSPEND", v)
    BY <1>5 DEF RecvMergeSuspend, b, p
  <2>2. v \in At(b, k, T, st, x)
    BY <1>2, <2>1, AtReceive DEF st, x
  <2>3. NoEnd(T) /\ NoStart(T)
    BY DEF NoEnd, NoStart
  <2>. HIDE DEF v, T
  <2>. QED
    BY <1>1, <2>1, <2>2, <2>3
<1>6. CASE RecvMergeNoSuspend(s, t)
  <2>. DEFINE T == {"MERGE_NOSUSPEND"}
              v == ReceiveMergeNoSuspend(b, p)
  <2>1. Recv(s, t, "MERGE_NOSUSPEND", v)
    BY <1>6 DEF RecvMergeNoSuspend, b, p
  <2>2. v \in At(b, k, T, st, x)
    BY <1>2, <2>1, AtReceive DEF st, x
  <2>3. NoEnd(T) /\ NoStart(T)
    BY DEF NoEnd, NoStart
  <2>. HIDE DEF v, T
  <2>. QED
    BY <1>1, <2>1, <2>2, <2>3
<1>. QED
  BY <1>3, <1>4, <1>5, <1>6

\* MERGE_START.
LEMMA ReadStart ==
  ASSUME RingInv, MergeInv, Whole, AutoMerge = FALSE, NEW s \in Server, NEW t \in Server,
         RecvMergeStart(s, t)
  PROVE  Proceeds
<1>. DEFINE b == node[t]
            k == Client(b)
            p == Unread(s, t)
            st == Self(b)
            x == Work(b)
            T == {"MERGE_START", "STATUS_CHANGE"}
            v == ReceiveMergeStart(b, p)
<1>1. Recv(s, t, "MERGE_START", v)
  BY DEF RecvMergeStart
<1>2. /\ b \in Proc(t, {}, k) /\ b.id = t /\ p \in GoodPacket({}) /\ p.type = "MERGE_START"
      /\ \A u \in Server : node[u].out \in [Server -> Seq(GoodPacket({}))]
      /\ Coming({"MERGE_START"})
      /\ st \in Status /\ OwnUp(st)
      /\ x.run = b.run /\ k.join = b.join
  <2>1. Knows(t, node[t], Unread(s, t), "MERGE_START")
    <3>. HIDE DEF v
    <3>. QED
      BY <1>1, ReadFacts
  <2>. QED
    BY <2>1 DEF Knows
<1>3. Ready
  BY <1>2 DEF Coming, Starting, MergeInv, StartOK
<1>4. ReadyAt(t) /\ WorkOK(t)
  BY <1>3 DEF Ready, MergeInv
<1>5. Startable(st) => ~x.run /\ k.join
  <2>1. ~b.jn /\ ~b.cls /\ (Startable(st) => ~b.run)
    BY <1>4 DEF ReadyAt
  <2>2. Accurate(b)
    BY <1>2, <2>1 DEF Proc, Kept, Client, Informed
  <2>. QED
    BY <1>2, <2>1, <2>2 DEF Startable, Accurate
<1>6. NoEnd(T) /\ "MERGE_START" \in T /\ "STATUS_CHANGE" \in T /\ "MERGE_COMPLETE" \notin T
  BY DEF NoEnd
<1>7. \A to, y : Becoming(t, k, to, y) =>
        /\ Self(node'[t]) = to /\ Self(node[t])' = to
        /\ node'[t].run = y.run /\ node'[t].wk = y.wk
        /\ node'[t].wst = y.wst /\ node'[t].sin = y.sin
        /\ node'[t].join = b.join /\ node'[t].jn = b.jn /\ node'[t].cls = b.cls
  BY DEF Becoming, Client, Self
<1>8. /\ x.wk = b.wk /\ x.wst = b.wst /\ x.sin = b.sin /\ x.run = b.run
      /\ b.wk \in Nat
  BY <1>2 DEF Work, Proc, ProcRec
<1>. HIDE DEF v, T, k, x, st, p
<1>9. \/ v \in At(b, k, T, st, x)
      \/ Startable(st) /\ v \in At(b, k, T, [st EXCEPT !.op = "DONE"], x)
      \/ /\ Startable(st) /\ DoMerge
         /\ v \in At(b, k, T, [st EXCEPT !.op = "DOING"], [x EXCEPT !.run = TRUE, !.wk = @ + 1])
  BY <1>2, <1>5, <1>6, AtReceiveStart DEF st, x, v
<1>10. ASSUME NEW to, NEW y, v \in At(b, k, T, to, y)
       PROVE  Moves(t, T) /\ Becoming(t, k, to, y)
  BY <1>1, <1>2, <1>10, ReadMoves DEF b
<1>11. ASSUME NEW to, NEW y, v \in At(b, k, T, to, y), WorkOK(t)', ~Startable(to),
              st.op # "DONE"
       PROVE  Proceeds
  <2>1. Moves(t, T) /\ Becoming(t, k, to, y)
    BY <1>10, <1>11
  <2>2. ReadyAt(t)'
    BY <1>4, <1>7, <1>11, <2>1 DEF ReadyAt, b
  <2>3. StartStep(t, T)
    BY <1>3, <1>6, <2>2 DEF StartStep
  <2>4. ClientStep(t, T)
    BY <1>6, <1>7, <2>1 DEF ClientStep, b
  <2>5. ~Completes(t)
    BY <1>11 DEF Completes, st, b
  <2>. QED
    BY <1>2, <1>6, <1>11, <2>1, <2>3, <2>4, <2>5, StepProceeds
<1>12. CASE v \in At(b, k, T, st, x)
  <2>1. Moves(t, T) /\ Becoming(t, k, st, x)
    BY <1>10, <1>12
  <2>. QED
    BY <1>3, <1>6, <2>1, SameProceeds DEF k, st, x, b
<1>13. CASE Startable(st) /\ v \in At(b, k, T, [st EXCEPT !.op = "DONE"], x)
  <2>. DEFINE to == [st EXCEPT !.op = "DONE"]
  <2>1. to.op = "DONE" /\ v \in At(b, k, T, to, x) /\ st.op = "PENDING"
    BY <1>2, <1>13 DEF Status, Startable
  <2>. HIDE DEF to
  <2>2. Becoming(t, k, to, x)
    BY <1>10, <2>1
  <2>3. WorkOK(t)'
    BY <1>4, <1>5, <1>7, <1>8, <1>13, <2>1, <2>2 DEF WorkOK, b
  <2>4. ~Startable(to) /\ st.op # "DONE"
    BY <2>1 DEF Startable
  <2>. QED
    BY <1>11, <2>1, <2>3, <2>4
<1>14. CASE /\ Startable(st) /\ DoMerge
            /\ v \in At(b, k, T, [st EXCEPT !.op = "DOING"],
                        [x EXCEPT !.run = TRUE, !.wk = @ + 1])
  <2>. DEFINE to == [st EXCEPT !.op = "DOING"]
              y == [x EXCEPT !.run = TRUE, !.wk = @ + 1]
  <2>1. /\ to.op = "DOING" /\ to.sup = "NOSUP" /\ v \in At(b, k, T, to, y)
        /\ st.op = "PENDING" /\ DoMerge
    BY <1>2, <1>14 DEF Status, Startable
  <2>2. y.run /\ y.wk = x.wk + 1 /\ y.wst = x.wst /\ y.sin = x.sin
    BY DEF x, Work
  <2>. HIDE DEF to, y
  <2>3. Becoming(t, k, to, y)
    BY <1>10, <2>1
  <2>4. b.wst # "done" /\ ~b.sin
    BY <1>4, <1>14 DEF ReadyAt, WorkOK, st, b
  <2>5. WorkOK(t)'
    BY <1>7, <1>8, <2>1, <2>2, <2>3, <2>4 DEF WorkOK
  <2>6. ~Startable(to) /\ st.op # "DONE"
    BY <2>1 DEF Startable
  <2>. QED
    BY <1>11, <2>1, <2>5, <2>6
<1>. QED
  BY <1>9, <1>12, <1>13, <1>14

\* MERGE_ABORT.
LEMMA ReadAbort ==
  ASSUME RingInv, MergeInv, Whole, AutoMerge = FALSE, NEW s \in Server, NEW t \in Server,
         RecvMergeAbort(s, t)
  PROVE  Proceeds
<1>. DEFINE b == node[t]
            k == Client(b)
            p == Unread(s, t)
            st == Self(b)
            x == Work(b)
            T == {"MERGE_ABORT", "STATUS_CHANGE"}
            v == ReceiveMergeAbort(b, p)
            to == SuspendFlag(AbortedStatus(st), ~k.join)
            y == [x EXCEPT !.run = IF DoMerge THEN FALSE ELSE @]
<1>1. Recv(s, t, "MERGE_ABORT", v)
  BY DEF RecvMergeAbort
<1>2. /\ b \in Proc(t, {}, k) /\ b.id = t /\ p \in GoodPacket({}) /\ p.type = "MERGE_ABORT"
      /\ \A u \in Server : node[u].out \in [Server -> Seq(GoodPacket({}))]
      /\ Coming({"MERGE_ABORT"})
      /\ st \in Status /\ OwnUp(st) /\ IsSafe(st) /\ ~b.sin
      /\ x.run = b.run /\ k.join = b.join
      /\ b.join \in BOOLEAN /\ b.jn \in BOOLEAN /\ b.cls \in BOOLEAN
  <2>1. Knows(t, node[t], Unread(s, t), "MERGE_ABORT")
    <3>. HIDE DEF v
    <3>. QED
      BY <1>1, ReadFacts
  <2>. QED
    BY <2>1 DEF Knows
<1>3. /\ ~Starting /\ \A u \in Server : ~node[u].jn
      /\ WorkOK(t) /\ (b.cls => ~b.join)
  BY <1>2 DEF Coming, Ending, MergeInv, StartOK, ClientOK, Ready
<1>4. NoStart(T) /\ "MERGE_ABORT" \in T /\ "STATUS_CHANGE" \in T /\ "MERGE_COMPLETE" \notin T
  BY DEF NoStart
<1>5. ~y.run /\ y.sin = b.sin
  BY <1>2, <1>3 DEF WorkOK, Work
<1>6. to.op # "DOING"
  <2>1. AbortedStatus(st).op # "DOING" /\ AbortedStatus(st) \in Status
    BY <1>2, MergeStatus, OwnStatus
  <2>. QED
    BY <2>1 DEF SuspendFlag, Status
<1>7. st.op = "DONE" => to \notin {SRVIN_UP_NORMAL, SRVOUT_UP_NORMAL}
  <2>1. b.join => st.sup = "NOSUP"
    <3>1. b.join => Accurate(b)
      BY <1>2, <1>3 DEF Proc, Kept, Client, Informed
    <3>. QED
      BY <1>2, <3>1 DEF Accurate, Status, Suspend
  <2>. DEFINE j == b.join
  <2>2. j \in BOOLEAN /\ k.join = j /\ (j => st.sup = "NOSUP")
    BY <1>2, <2>1
  <2>. HIDE DEF j
  <2>. QED
    BY <1>2, <2>2, AbortIncomplete
<1>8. Becoming(t, k, to, y) =>
        /\ Self(node'[t]) = to /\ Self(node[t])' = to
        /\ node'[t].run = y.run /\ node'[t].sin = y.sin
        /\ node'[t].join = b.join /\ node'[t].jn = b.jn /\ node'[t].cls = b.cls
  BY DEF Becoming, Client, Self
<1>. HIDE DEF v, T, k, x, st, p, to, y
<1>9. v \in At(b, k, T, to, y) /\ (p.dept # t => p \in On(v))
  BY <1>2, <1>4, AtReceiveAbort DEF st, x, v, to, y
<1>10. Moves(t, T) /\ Becoming(t, k, to, y)
  BY <1>1, <1>2, <1>5, <1>9, ReadMoves DEF b, p
<1>11. WorkOK(t)'
  BY <1>3, <1>5, <1>6, <1>8, <1>10 DEF WorkOK, b
<1>12. StartStep(t, T)
  BY <1>3, <1>4 DEF StartStep
<1>13. ClientStep(t, T)
  BY <1>3, <1>8, <1>10 DEF ClientStep, b
<1>14. ~Completes(t) /\ ~Begins(t)
  BY <1>6, <1>7, <1>8, <1>10 DEF Completes, Begins, st, b
<1>. QED
  BY <1>4, <1>10, <1>11, <1>12, <1>13, <1>14, StepProceeds

\* MERGE_COMPLETE.
LEMMA ReadComplete ==
  ASSUME RingInv, MergeInv, Whole, AutoMerge = FALSE, NEW s \in Server, NEW t \in Server,
         RecvMergeComplete(s, t)
  PROVE  Proceeds
<1>. DEFINE b == node[t]
            k == Client(b)
            p == Unread(s, t)
            st == Self(b)
            x == Work(b)
            T == {"MERGE_COMPLETE", "STATUS_CHANGE"}
            v == ReceiveMergeComplete(b, p)
            to == SuspendFlag(CompletedStatus(st), ~k.join)
<1>1. Recv(s, t, "MERGE_COMPLETE", v)
  BY DEF RecvMergeComplete
<1>2. /\ b \in Proc(t, {}, k) /\ b.id = t /\ p \in GoodPacket({})
      /\ p.type = "MERGE_COMPLETE"
      /\ \A u \in Server : node[u].out \in [Server -> Seq(GoodPacket({}))]
      /\ Coming({"MERGE_COMPLETE"})
      /\ st \in Status /\ OwnUp(st) /\ IsSafe(st) /\ ~b.sin
  <2>1. Knows(t, node[t], Unread(s, t), "MERGE_COMPLETE")
    <3>. HIDE DEF v
    <3>. QED
      BY <1>1, ReadFacts
  <2>. QED
    BY <2>1 DEF Knows
<1>3. /\ ~Starting /\ \A u \in Server : ~node[u].jn
      /\ WorkOK(t) /\ (b.cls => ~b.join)
  BY <1>2 DEF Coming, Ending, MergeInv, StartOK, ClientOK, Ready
<1>4. NoStart(T) /\ {"STATUS_CHANGE", "MERGE_COMPLETE"} \subseteq T
  BY DEF NoStart
<1>5. ~NotComplete(st) => to.op # "DOING" /\ st.op # "DOING"
  <2>1. /\ ~NotComplete(st) => CompletedStatus(st).op # "DOING" /\ st.op # "DOING"
        /\ CompletedStatus(st) \in Status
    BY <1>2, MergeStatus, OwnStatus
  <2>. QED
    BY <2>1 DEF SuspendFlag, Status
<1>6. \A z : Becoming(t, k, z, x) =>
        /\ Self(node'[t]) = z /\ Self(node[t])' = z
        /\ node'[t].run = b.run /\ node'[t].sin = b.sin /\ node'[t].wst = b.wst
        /\ node'[t].join = b.join /\ node'[t].jn = b.jn /\ node'[t].cls = b.cls
  BY DEF Becoming, Client, Self, Work
<1>. HIDE DEF v, T, k, x, st, p, to
<1>7. \/ v \in At(b, k, T, st, x)
      \/ ~NotComplete(st) /\ v \in At(b, k, T, to, x)
  BY <1>2, <1>4, AtReceiveComplete DEF st, x, v, to
<1>8. ASSUME NEW z, v \in At(b, k, T, z, x)
      PROVE  Moves(t, T) /\ Becoming(t, k, z, x)
  BY <1>1, <1>2, <1>8, ReadMoves DEF b
<1>9. CASE v \in At(b, k, T, st, x)
  <2>1. Moves(t, T) /\ Becoming(t, k, st, x)
    BY <1>8, <1>9
  <2>. QED
    BY <1>2, <1>3, <1>4, <2>1, SameProceeds DEF k, st, x, b
<1>10. CASE ~NotComplete(st) /\ v \in At(b, k, T, to, x)
  <2>1. Moves(t, T) /\ Becoming(t, k, to, x)
    BY <1>8, <1>10
  <2>2. AbortOf(t) => AbortOf(t)' \/ ~node'[t].run
    BY <2>1 DEF Moves, AbortOf
  <2>3. WorkOK(t)'
    BY <1>3, <1>5, <1>6, <1>10, <2>1, <2>2 DEF WorkOK, b, st
  <2>4. StartStep(t, T) /\ ClientStep(t, T)
    BY <1>3, <1>4, <1>6, <2>1 DEF StartStep, ClientStep, b
  <2>5. ~Begins(t)
    BY <1>5, <1>6, <1>10, <2>1 DEF Begins
  <2>. QED
    BY <1>2, <2>1, <2>3, <2>4, <2>5, StepProceeds
<1>. QED
  BY <1>7, <1>9, <1>10

\* What is read lets the merges proceed.
LEMMA ReadProceeds ==
  ASSUME RingInv, MergeInv, Whole, AutoMerge = FALSE, NEW s \in Server, NEW t \in Server,
         RecvAny(s, t)
  PROVE  Proceeds
<1>1. ~RecvServerDown(s, t)
  <2>. DEFINE w == ReceiveServerDown(node[t], Unread(s, t))
              p == Unread(s, t)
  <2>. SUFFICES ASSUME Recv(s, t, "SERVER_DOWN", w) PROVE FALSE
    BY DEF RecvServerDown
  <2>1. Knows(t, node[t], Unread(s, t), "SERVER_DOWN")
    <3>. HIDE DEF w
    <3>. QED
      BY ReadFacts
  <2>2. p \in GoodPacket({}) /\ p.type = "SERVER_DOWN"
    BY <2>1 DEF Knows
  <2>. HIDE DEF p
  <2>. QED
    BY <2>2, PassedOn
<1>. QED
  BY <1>1, ReadAsked, ReadStart, ReadAbort, ReadComplete DEF RecvAny

\* What a server knows of itself.
LEMMA OwnFacts ==
  ASSUME RingInv, MergeInv, Whole, NEW s \in Server, NEW b, b = node[s]
  PROVE  /\ b \in Proc(s, {}, Client(b)) /\ b \in ProcRec(s, {}) /\ b.id = s /\ ~b.sin
         /\ Self(b) \in Status /\ OwnUp(Self(b)) /\ IsSafe(Self(b))
<1>1. b \in Proc(s, {}, Client(b)) /\ b.id = s
  BY CalmNode DEF Whole, AllUp
<1>2. ~b.sin
  BY DEF MergeInv, WorkOK
<1>3. Self(b) \in Status /\ OwnUp(Self(b)) /\ IsSafe(Self(b))
  <2>. DEFINE T == {}
  <2>1. b \in At(b, Client(b), T, Self(b), Work(b)) /\ b.id \in Server
    BY <1>1, AtSelf
  <2>. HIDE DEF T
  <2>. QED
    BY <2>1, AtFacts
<1>4. b \in ProcRec(s, {})
  BY <1>1 DEF Proc
<1>. QED
  BY <1>1, <1>2, <1>3, <1>4

\* When all is settled no packet is on its way, and everybody is ready.
LEMMA SettledFacts ==
  ASSUME Settled, Whole, MergeInv
  PROVE  /\ InFlight = {} /\ ~Starting /\ ~Ending /\ Ready
         /\ \A s \in Server : /\ ~node[s].jn /\ ~node[s].cls
                              /\ node[s].run => Self(node[s]).op = "DOING"
<1>1. \A s \in Server : /\ ~node[s].jn /\ ~node[s].cls /\ node[s].wst # "done"
                        /\ \A t \in Server : node[t].out[s] = << >>
  BY DEF Settled, Running, Whole
<1>2. InFlight = {}
  <2>1. \A t, s \in Server : DOMAIN node[t].out[s] = {}
    BY <1>1
  <2>. QED
    BY <2>1 DEF InFlight, On, Held
<1>3. ~Starting /\ ~Ending /\ \A s \in Server : ~AbortOf(s)
  BY <1>2 DEF Starting, Ending, Coming, AbortOf
<1>4. \A s \in Server : node[s].run => Self(node[s]).op = "DOING"
  BY <1>1, <1>3 DEF MergeInv, WorkOK
<1>5. \A s \in Server : ReadyAt(s)
  BY <1>1, <1>4 DEF ReadyAt, Startable
<1>. QED
  BY <1>1, <1>2, <1>3, <1>4, <1>5 DEF Ready

\* The commands that ask the RING for something.
LEMMA CommandAsks ==
  ASSUME RingInv, MergeInv, Whole, AutoMerge = FALSE, Patient = TRUE, NEW s \in Server,
         \/ CmdMergeStart(s) \/ CmdMergeAbort(s) \/ CmdMergeComplete(s)
         \/ CmdSuspend(s) \/ CmdNoSuspend(s) \/ CmdUpdateStatus(s)
  PROVE  Proceeds
<1>. DEFINE b == node[s]
            k == Client(b)
            st == Self(b)
            x == Work(b)
<1>1. Settled
  BY DEF CmdMergeStart, CmdMergeAbort, CmdMergeComplete, CmdSuspend, CmdNoSuspend,
         CmdUpdateStatus, Command
<1>2. /\ ~Starting /\ Ready
      /\ \A u \in Server : ~node[u].jn
  BY <1>1, SettledFacts
<1>3. b \in Proc(s, {}, k) /\ b.id = s /\ ~b.sin
  BY OwnFacts
<1>4. ASSUME NEW T, NEW v \in At(b, k, T, st, x), Becomes(s, v),
             NoStart(T) \/ NoEnd(T), "MERGE_COMPLETE" \in T => CmdMergeComplete(s)
      PROVE  Proceeds
  <2>1. Moves(s, T) /\ Becoming(s, k, st, x)
    <3>1. b.out = node[s].out
      OBVIOUS
    <3>. HIDE DEF b, k, st, x
    <3>. QED
      BY <1>3, <1>4, <3>1, OwnMoves
  <2>. QED
    BY <1>2, <1>4, <2>1, SameProceeds
<1>. HIDE DEF b, k, st, x
<1>5. ASSUME NEW T PROVE b \in At(b, k, T, st, x) /\ b.id \in Server
  BY <1>3, AtSelf DEF st, x
<1>6. CASE CmdMergeStart(s)
  <2>. DEFINE T == {"STATUS_CONFIRM"}
              v == RequestMergeStart(b)
  <2>1. NoEnd(T) /\ "STATUS_CONFIRM" \in T /\ "MERGE_COMPLETE" \notin T
    BY DEF NoEnd
  <2>2. Becomes(s, v)
    BY <1>6 DEF CmdMergeStart, Command, b
  <2>. HIDE DEF T
  <2>3. v \in At(b, k, T, st, x)
    BY <1>5, <2>1, AtRequest
  <2>. HIDE DEF v
  <2>. QED
    BY <1>4, <2>1, <2>2, <2>3
<1>7. CASE CmdMergeAbort(s)
  <2>. DEFINE T == {"MERGE_ABORT"}
              v == RequestMergeAbort(b)
  <2>1. NoStart(T) /\ "MERGE_ABORT" \in T /\ "MERGE_COMPLETE" \notin T
    BY DEF NoStart
  <2>2. Becomes(s, v)
    BY <1>7 DEF CmdMergeAbort, Command, b
  <2>. HIDE DEF T
  <2>3. v \in At(b, k, T, st, x)
    BY <1>5, <2>1, AtRequest
  <2>. HIDE DEF v
  <2>. QED
    BY <1>4, <2>1, <2>2, <2>3
<1>8. CASE CmdMergeComplete(s)
  <2>. DEFINE T == {"STATUS_CHANGE", "MERGE_COMPLETE"}
              v == RequestMergeComplete(b)
  <2>1. NoStart(T) /\ {"STATUS_CHANGE", "MERGE_COMPLETE"} \subseteq T
    BY DEF NoStart
  <2>2. Becomes(s, v)
    BY <1>8 DEF CmdMergeComplete, Command, b
  <2>. HIDE DEF T
  <2>3. v \in At(b, k, T, st, x)
    BY <1>5, <2>1, AtRequest
  <2>. HIDE DEF v
  <2>. QED
    BY <1>4, <1>8, <2>1, <2>2, <2>3
<1>9. CASE CmdSuspend(s)
  <2>. DEFINE T == {"MERGE_SUSPEND"}
              v == RequestMergeSuspend(b)
  <2>1. NoStart(T) /\ "MERGE_COMPLETE" \notin T
    BY DEF NoStart
  <2>2. Becomes(s, v)
    BY <1>9 DEF CmdSuspend, Command, b
  <2>3. v \in At(b, k, T, st, x)
    BY <1>3, AtCommand DEF st, x
  <2>. HIDE DEF v, T
  <2>. QED
    BY <1>4, <2>1, <2>2, <2>3
<1>10. CASE CmdNoSuspend(s)
  <2>. DEFINE T == {"MERGE_NOSUSPEND"}
              v == RequestMergeNoSuspend(b)
  <2>1. NoStart(T) /\ "MERGE_COMPLETE" \notin T
    BY DEF NoStart
  <2>2. Becomes(s, v)
    BY <1>10 DEF CmdNoSuspend, Command, b
  <2>3. v \in At(b, k, T, st, x)
    BY <1>3, AtCommand DEF st, x
  <2>. HIDE DEF v, T
  <2>. QED
    BY <1>4, <2>1, <2>2, <2>3
<1>11. CASE CmdUpdateStatus(s)
  <2>. DEFINE T == {"STATUS_CHANGE"}
              v == CtlComUpdateStatus(b)
  <2>1. NoStart(T) /\ "MERGE_COMPLETE" \notin T
    BY DEF NoStart
  <2>2. Becomes(s, v)
    BY <1>11 DEF CmdUpdateStatus, Command, b
  <2>3. v \in At(b, k, T, st, x)
    BY <1>3, AtCommand DEF st, x
  <2>. HIDE DEF v, T
  <2>. QED
    BY <1>4, <2>1, <2>2, <2>3
<1>. QED
  BY <1>6, <1>7, <1>8, <1>9, <1>10, <1>11

\* Into and out of service.
LEMMA CommandServes ==
  ASSUME RingInv, MergeInv, Whole, AutoMerge = FALSE, Patient = TRUE, NEW s \in Server,
         CmdServiceIn(s) \/ \E t \in Server : CmdServiceOut(s, t)
  PROVE  Proceeds
<1>. DEFINE b == node[s]
            k == Client(b)
            st == Self(b)
            x == Work(b)
            T == {"STATUS_CHANGE"}
<1>1. Settled
  BY DEF CmdServiceIn, CmdServiceOut, Command
<1>2. /\ ~Starting /\ Ready /\ WorkOK(s)
      /\ \A u \in Server : ~node[u].jn
      /\ b.run => st.op = "DOING"
  BY <1>1, SettledFacts DEF MergeInv
<1>3. /\ b \in Proc(s, {}, k) /\ b.id = s /\ ~b.sin
      /\ st \in Status /\ OwnUp(st) /\ IsSafe(st)
  BY OwnFacts
<1>4. NoStart(T) /\ NoEnd(T) /\ "MERGE_COMPLETE" \notin T
  BY DEF NoStart, NoEnd
<1>5. \A to : Becoming(s, k, to, x) =>
        /\ Self(node'[s]) = to /\ Self(node[s])' = to
        /\ node'[s].run = b.run /\ node'[s].sin = b.sin
        /\ node'[s].join = b.join /\ node'[s].jn = b.jn /\ node'[s].cls = b.cls
  BY DEF Becoming, Client, Self, Work
<1>6. b.out = node[s].out
  OBVIOUS
<1>. HIDE DEF b, k, st, x, T
<1>7. ASSUME NEW to, NEW v \in At(b, k, T, to, x), Becomes(s, v)
      PROVE  Moves(s, T) /\ Becoming(s, k, to, x)
  BY <1>3, <1>6, <1>7, OwnMoves
<1>8. ASSUME NEW v \in At(b, k, T, st, x), Becomes(s, v) PROVE Proceeds
  <2>1. Moves(s, T) /\ Becoming(s, k, st, x)
    BY <1>7, <1>8
  <2>. QED
    BY <1>2, <1>4, <2>1, SameProceeds DEF k, st, x, b
<1>9. ASSUME NEW to, NEW v \in At(b, k, T, to, x), Becomes(s, v), to.op # "DOING",
             ~IsOperatingSt(st)
      PROVE  Proceeds
  <2>1. Moves(s, T) /\ Becoming(s, k, to, x)
    BY <1>7, <1>9
  <2>2. st.op # "DOING" /\ st.op # "DONE" /\ ~b.run
    BY <1>2, <1>9 DEF IsOperatingSt
  <2>3. WorkOK(s)'
    BY <1>3, <1>5, <1>9, <2>1, <2>2 DEF WorkOK
  <2>4. StartStep(s, T) /\ ClientStep(s, T)
    BY <1>2, <1>4, <1>5, <2>1 DEF StartStep, ClientStep, b
  <2>5. ~Completes(s) /\ ~Begins(s)
    BY <1>5, <1>9, <2>1, <2>2 DEF Completes, Begins, st, b
  <2>. QED
    BY <1>4, <2>1, <2>3, <2>4, <2>5, StepProceeds
<1>10. ~IsOperatingSt(st) =>
         /\ SuspendFlag(ChangeToSrvIn(st), ~k.join).op # "DOING"
         /\ SuspendFlag(ChangeToSrvOut(st), ~k.join).op # "DOING"
  <2>1. ~IsOperatingSt(st) => /\ ChangeToSrvIn(st).op # "DOING"
                              /\ ChangeToSrvOut(st).op # "DOING"
    BY <1>3, MergeStatus DEF IsOperatingSt
  <2>2. ChangeToSrvIn(st) \in Status /\ ChangeToSrvOut(st) \in Status
    BY <1>3, OwnStatus
  <2>. QED
    BY <2>1, <2>2 DEF SuspendFlag, Status
<1>11. CASE CmdServiceIn(s)
  <2>. DEFINE v == CtlComServiceIn(b)
              to == SuspendFlag(ChangeToSrvIn(st), ~k.join)
  <2>1. Becomes(s, v)
    BY <1>11 DEF CmdServiceIn, Command, b
  <2>2. \/ v \in At(b, k, T, st, x)
        \/ ~IsOperatingSt(st) /\ v \in At(b, k, T, to, x)
    BY <1>3, AtCommand DEF st, x, T
  <2>3. ~IsOperatingSt(st) => to.op # "DOING"
    BY <1>10
  <2>. HIDE DEF v, to
  <2>. QED
    BY <1>8, <1>9, <2>1, <2>2, <2>3
<1>12. CASE \E t \in Server : CmdServiceOut(s, t)
  <2>. PICK t \in Server : CmdServiceOut(s, t)
    BY <1>12
  <2>. DEFINE v == CtlComServiceOut(b, t)
              to == SuspendFlag(ChangeToSrvOut(st), ~k.join)
  <2>1. Becomes(s, v)
    BY DEF CmdServiceOut, Command, b
  <2>2. \/ v \in At(b, k, T, st, x)
        \/ ~IsOperatingSt(st) /\ v \in At(b, k, T, to, x)
    BY <1>3, AtCommand DEF st, x, T
  <2>3. ~IsOperatingSt(st) => to.op # "DOING"
    BY <1>10
  <2>. HIDE DEF v, to
  <2>. QED
    BY <1>8, <1>9, <2>1, <2>2, <2>3
<1>. QED
  BY <1>11, <1>12

ClientIs(v, b, x, y, z) == v = [b EXCEPT !.join = x, !.jn = y, !.cls = z]
ClientAs(k, x, y, z)    == k.join = x /\ k.jn = y /\ k.cls = z /\ ~k.acc

\* The record of a server whose client attaches or leaves, or is announced.
LEMMA ClientRecord ==
  ASSUME Whole, NEW s \in Server, NEW b \in ProcRec(s, {}), Cached(b),
         NEW x \in BOOLEAN, NEW y \in BOOLEAN, NEW z \in BOOLEAN,
         NEW v, ClientIs(v, b, x, y, z),
         NEW k, ClientAs(k, x, y, z)
  PROVE  /\ v \in Proc(s, {}, k) /\ v.id = s /\ v.out = b.out
         /\ Self(v) = Self(b) /\ Work(v) = Work(b) /\ v.sin = b.sin
<1>1. v \in ProcRec(s, {})
  <2>1. [b EXCEPT !.join = x, !.jn = y] \in ProcRec(s, {})
    <3>1. [b EXCEPT !.join = x] \in ProcRec(s, {})
      BY DEF ProcRec
    <3>. QED
      BY <3>1 DEF ProcRec
  <2>. QED
    BY <2>1 DEF ProcRec, ClientIs
<1>2. /\ v.sv = b.sv /\ v.out = b.out /\ v.bcnt = b.bcnt /\ v.oper = b.oper
      /\ v.id = s /\ b.id = s
      /\ v.run = b.run /\ v.wk = b.wk /\ v.wst = b.wst /\ v.sin = b.sin
  BY DEF ProcRec, ClientIs
<1>3. v.join = x /\ v.jn = y /\ v.cls = z
  BY DEF ProcRec, ClientIs
<1>4. Cached(v)
  BY <1>2 DEF Cached
<1>5. Kept(v, k)
  BY <1>3 DEF Kept, ClientAs
<1>6. v \in Proc(s, {}, k)
  BY <1>1, <1>4, <1>5 DEF Proc
<1>7. Self(v) = Self(b) /\ Work(v) = Work(b)
  BY <1>2 DEF Self, Work
<1>. QED
  BY <1>2, <1>6, <1>7

\* A step that starts and ends nothing.
LEMMA QuietProceeds ==
  ASSUME MergeInv, NEW s \in Server, NEW T, NEW k, NEW to, NEW x,
         Moves(s, T), Becoming(s, k, to, x),
         NoStart(T), ~Starting, "MERGE_COMPLETE" \notin T,
         ClientStep(s, T), WorkOK(s)',
         Self(node[s]).op = "DONE" => to \notin {SRVIN_UP_NORMAL, SRVOUT_UP_NORMAL},
         to.op = "DOING" => Self(node[s]).op = "DOING"
  PROVE  Proceeds
<1>1. Self(node'[s]) = to
  BY DEF Becoming
<1>2. ~Completes(s) /\ ~Begins(s)
  BY <1>1 DEF Completes, Begins
<1>3. StartStep(s, T)
  BY DEF StartStep
<1>. QED
  BY <1>2, <1>3, StepProceeds

\* The first client attaches, the last one leaves.
LEMMA ClientProceeds ==
  ASSUME RingInv, MergeInv, Whole, Patient = TRUE, NEW s \in Server,
         ClientJoin(s) \/ ClientLeave(s)
  PROVE  Proceeds
<1>. DEFINE b == node[s]
            st == Self(b)
            x == Work(b)
            T == {}
<1>1. Settled
  BY DEF ClientJoin, ClientLeave, Command
<1>2. /\ ~Starting /\ ~Ending /\ Ready /\ WorkOK(s) /\ InFlight = {}
      /\ \A u \in Server : ~node[u].jn /\ ~node[u].cls
      /\ b.run => st.op = "DOING"
  BY <1>1, SettledFacts DEF MergeInv
<1>3. b \in Proc(s, {}, Client(b)) /\ b \in ProcRec(s, {}) /\ ~b.sin
  BY OwnFacts
<1>4. Cached(b) /\ b.jn \in BOOLEAN /\ b.cls \in BOOLEAN
  BY <1>3 DEF Proc, ProcRec
<1>5. NoStart(T) /\ NoEnd(T) /\ "MERGE_COMPLETE" \notin T
  BY DEF NoStart, NoEnd
<1>6. \A k : Becoming(s, k, st, x) =>
        /\ Self(node'[s]) = st /\ Self(node[s])' = st
        /\ node'[s].run = b.run /\ node'[s].sin = b.sin /\ node'[s].wk = b.wk
        /\ node'[s].wst = b.wst
        /\ node'[s].join = k.join /\ node'[s].jn = k.jn /\ node'[s].cls = k.cls
  BY DEF Becoming, Self, Work
<1>7. st.op = "DONE" => st \notin {SRVIN_UP_NORMAL, SRVOUT_UP_NORMAL}
  BY DEF SRVIN_UP_NORMAL, SRVOUT_UP_NORMAL, Sts
<1>. HIDE DEF b, st, x, T
<1>8. ASSUME NEW k, NEW v \in Proc(s, {}, k), v.id = s, v.out = b.out, Self(v) = st, Work(v) = x,
             Becomes(s, v)
      PROVE  /\ Moves(s, T) /\ Becoming(s, k, st, x) /\ WorkOK(s)'
             /\ ClientStep(s, T) => Proceeds
  <2>1. v \in At(v, k, T, Self(v), Work(v))
    BY <1>8, AtSelf
  <2>2. Moves(s, T) /\ Becoming(s, k, st, x)
    BY <1>8, <2>1, OwnMoves DEF b
  <2>3. WorkOK(s)'
    BY <1>2, <1>6, <2>2 DEF WorkOK, b, st
  <2>4. ClientStep(s, T) => Proceeds
    BY <1>2, <1>5, <1>7, <2>2, <2>3, QuietProceeds DEF st, b
  <2>. QED
    BY <2>2, <2>3, <2>4
<1>9. CASE ClientJoin(s)
  <2>. DEFINE c == TRUE
              d == FALSE
              z == b.cls
              k == [join |-> c, jn |-> c, cls |-> z, acc |-> d]
              v == [b EXCEPT !.join = c, !.jn = c]
  <2>1. Becomes(s, v)
    BY <1>9 DEF ClientJoin, Command, b
  <2>2. ClientIs(v, b, c, c, z)
    BY <1>3 DEF ProcRec, ClientIs
  <2>3. /\ k.cls = b.cls /\ ClientAs(k, c, c, z)
        /\ c \in BOOLEAN /\ z \in BOOLEAN
    BY <1>4 DEF ClientAs
  <2>. HIDE DEF c, d, k, v, z
  <2>4. /\ v \in Proc(s, {}, k) /\ v.id = s /\ v.out = b.out /\ Self(v) = st /\ Work(v) = x
    <3>1. /\ v \in Proc(s, {}, k) /\ v.id = s /\ v.out = b.out
         /\ Self(v) = Self(b) /\ Work(v) = Work(b) /\ v.sin = b.sin
      BY <1>3, <1>4, <2>2, <2>3, ClientRecord
    <3>. QED
      BY <1>3, <3>1 DEF st, x
  <2>5. Becoming(s, k, st, x) /\ (ClientStep(s, T) => Proceeds)
    BY <1>8, <2>1, <2>4
  <2>6. ClientStep(s, T)
    BY <1>2, <1>5, <1>6, <2>3, <2>5 DEF ClientStep, b
  <2>. QED
    BY <2>5, <2>6
<1>10. CASE ClientLeave(s)
  <2>. DEFINE c == FALSE
              d == TRUE
              y == b.jn
              k == [join |-> c, jn |-> y, cls |-> d, acc |-> c]
              v == [b EXCEPT !.join = c, !.cls = d]
  <2>1. Becomes(s, v)
    BY <1>10 DEF ClientLeave, Command, b
  <2>2. ClientIs(v, b, c, y, d)
    BY <1>3 DEF ProcRec, ClientIs
  <2>3. /\ ~k.join /\ k.jn = b.jn /\ ClientAs(k, c, y, d)
        /\ c \in BOOLEAN /\ d \in BOOLEAN /\ y \in BOOLEAN
    BY <1>4 DEF ClientAs
  <2>. HIDE DEF c, d, k, v, y
  <2>4. /\ v \in Proc(s, {}, k) /\ v.id = s /\ v.out = b.out /\ Self(v) = st /\ Work(v) = x
    <3>1. /\ v \in Proc(s, {}, k) /\ v.id = s /\ v.out = b.out
         /\ Self(v) = Self(b) /\ Work(v) = Work(b) /\ v.sin = b.sin
      BY <1>3, <1>4, <2>2, <2>3, ClientRecord
    <3>. QED
      BY <1>3, <3>1 DEF st, x
  <2>5. Becoming(s, k, st, x) /\ (ClientStep(s, T) => Proceeds)
    BY <1>8, <2>1, <2>4
  <2>6. ClientStep(s, T)
    BY <1>2, <1>6, <2>3, <2>5 DEF ClientStep, b
  <2>. QED
    BY <2>5, <2>6
<1>. QED
  BY <1>9, <1>10

\* The notice of a client's arrival.
LEMMA JoinProceeds ==
  ASSUME RingInv, MergeInv, Whole, AutoMerge = FALSE, NEW s \in Server, RecvJoinNotify(s)
  PROVE  Proceeds
<1>. DEFINE b == node[s]
            st == Self(b)
            x == Work(b)
            T == {"STATUS_CHANGE"}
            d == FALSE
            j == b.join
            z == b.cls
            k == [join |-> j, jn |-> d, cls |-> z, acc |-> d]
            v == [b EXCEPT !.jn = d]
            w == JoinNotify(v)
<1>1. b.jn /\ Becomes(s, w)
  BY DEF RecvJoinNotify
<1>2. ~Starting /\ WorkOK(s)
  BY <1>1 DEF MergeInv, StartOK, Ready, ReadyAt
<1>3. b \in Proc(s, {}, Client(b)) /\ b \in ProcRec(s, {}) /\ ~b.sin /\ st \in Status
  BY OwnFacts
<1>4. Cached(b) /\ b.join \in BOOLEAN /\ b.cls \in BOOLEAN
  BY <1>3 DEF Proc, ProcRec
<1>5. NoStart(T) /\ NoEnd(T) /\ "MERGE_COMPLETE" \notin T /\ "STATUS_CHANGE" \in T
  BY DEF NoStart, NoEnd
<1>6. ClientIs(v, b, j, d, z)
  BY <1>3 DEF ProcRec, ClientIs
<1>7. ClientAs(k, j, d, z) /\ d \in BOOLEAN /\ j \in BOOLEAN /\ z \in BOOLEAN
  BY <1>4 DEF ClientAs
<1>8. \A to : Becoming(s, k, to, x) =>
        /\ Self(node'[s]) = to /\ Self(node[s])' = to
        /\ node'[s].run = b.run /\ node'[s].sin = b.sin /\ node'[s].wk = b.wk
        /\ node'[s].wst = b.wst
        /\ node'[s].join = b.join /\ ~node'[s].jn /\ node'[s].cls = b.cls
  BY DEF Becoming, Self, Work
<1>. HIDE DEF b, st, x, T, d, k, v, w, j, z
<1>9. /\ v \in Proc(s, {}, k) /\ v.id = s /\ v.out = b.out /\ Self(v) = st /\ Work(v) = x
      /\ ~v.sin
  <2>1. /\ v \in Proc(s, {}, k) /\ v.id = s /\ v.out = b.out
       /\ Self(v) = Self(b) /\ Work(v) = Work(b) /\ v.sin = b.sin
    BY <1>3, <1>4, <1>6, <1>7, ClientRecord
  <2>. QED
    BY <1>3, <2>1 DEF st, x
<1>10. ASSUME NEW to, w \in At(v, k, T, to, x),
              \/ to.op = st.op /\ (st.sup = "NOSUP" => to.sup = "NOSUP")
              \/ st.op = "NOTHING" /\ to.op = "PENDING"
       PROVE  Proceeds
  <2>1. Moves(s, T) /\ Becoming(s, k, to, x)
    BY <1>1, <1>9, <1>10, OwnMoves DEF b
  <2>2. AbortOf(s) => AbortOf(s)' \/ ~node'[s].run
    BY <2>1 DEF Moves, AbortOf
  <2>3. WorkOK(s)'
    BY <1>2, <1>8, <1>10, <2>1, <2>2 DEF WorkOK, b, st
  <2>4. ClientStep(s, T)
    BY <1>5, <1>8, <2>1 DEF ClientStep, b
  <2>5. /\ st.op = "DONE" => to \notin {SRVIN_UP_NORMAL, SRVOUT_UP_NORMAL}
        /\ to.op = "DOING" => st.op = "DOING"
    BY <1>10 DEF SRVIN_UP_NORMAL, SRVOUT_UP_NORMAL, Sts
  <2>. QED
    BY <1>2, <1>5, <2>1, <2>3, <2>4, <2>5, QuietProceeds DEF st, b
<1>11. \/ w \in At(v, k, T, st, x)
       \/ w \in At(v, k, T, [st EXCEPT !.sup = "NOSUP"], x)
       \/ st.op = "NOTHING" /\ w \in At(v, k, T, SRVIN_UP_PENDING, x)
  BY <1>5, <1>9, AtJoin DEF w
<1>12. CASE w \in At(v, k, T, st, x)
  BY <1>10, <1>12
<1>13. CASE w \in At(v, k, T, [st EXCEPT !.sup = "NOSUP"], x)
  <2>. DEFINE to == [st EXCEPT !.sup = "NOSUP"]
  <2>1. to.op = st.op /\ to.sup = "NOSUP"
    BY <1>3 DEF Status
  <2>. HIDE DEF to
  <2>. QED
    BY <1>10, <1>13, <2>1 DEF to
<1>14. CASE st.op = "NOTHING" /\ w \in At(v, k, T, SRVIN_UP_PENDING, x)
  <2>1. SRVIN_UP_PENDING.op = "PENDING"
    BY DEF SRVIN_UP_PENDING, Sts
  <2>. QED
    BY <1>10, <1>14, <2>1
<1>. QED
  BY <1>11, <1>12, <1>13, <1>14

\* The notice of the last client's departure.
LEMMA CloseProceeds ==
  ASSUME RingInv, MergeInv, Whole, NEW s \in Server, CloseNotify(s)
  PROVE  Proceeds
<1>. DEFINE b == node[s]
            st == Self(b)
            x == Work(b)
            T == {"STATUS_CHANGE", "MERGE_ABORT"}
            d == FALSE
            j == b.join
            y == b.jn
            k == [join |-> j, jn |-> y, cls |-> d, acc |-> d]
            v == [b EXCEPT !.cls = d]
            w == DoSuspend(v)
            to == SuspendedStatus(st)
<1>1. b.cls /\ Becomes(s, w)
  BY DEF CloseNotify
<1>2. /\ ~Starting /\ WorkOK(s) /\ ~b.join
      /\ \A u \in Server : ~node[u].jn
  BY <1>1 DEF MergeInv, StartOK, Ready, ReadyAt, ClientOK
<1>3. /\ b \in Proc(s, {}, Client(b)) /\ b \in ProcRec(s, {})
      /\ st \in Status /\ OwnUp(st) /\ IsSafe(st)
  BY OwnFacts
<1>4. Cached(b) /\ b.join \in BOOLEAN /\ b.jn \in BOOLEAN
  BY <1>3 DEF Proc, ProcRec
<1>5. /\ NoStart(T) /\ "MERGE_COMPLETE" \notin T
      /\ "STATUS_CHANGE" \in T /\ "MERGE_ABORT" \in T
  BY DEF NoStart
<1>6. ClientIs(v, b, j, y, d)
  BY <1>3 DEF ProcRec, ClientIs
<1>7. /\ ClientAs(k, j, y, d) /\ d \in BOOLEAN /\ j \in BOOLEAN /\ y \in BOOLEAN
      /\ ~k.join
  BY <1>2, <1>4 DEF ClientAs
<1>8. \A z : Becoming(s, k, z, x) =>
        /\ Self(node'[s]) = z /\ Self(node[s])' = z
        /\ node'[s].run = b.run /\ node'[s].sin = b.sin /\ node'[s].wk = b.wk
        /\ node'[s].wst = b.wst
        /\ node'[s].jn = b.jn /\ ~node'[s].cls
  BY DEF Becoming, Self, Work
<1>9. to.op # "DOING" /\ to \notin {SRVIN_UP_NORMAL, SRVOUT_UP_NORMAL}
  <2>1. to.sup = "SUSPEND"
    BY <1>3 DEF SuspendedStatus, OwnUp, Status
  <2>2. to.op # "DOING"
    BY <1>3 DEF SuspendedStatus, OwnUp, Status, IsSafe, IsSrvOut, IsSrvIn, Ring
  <2>. QED
    BY <2>1, <2>2 DEF SRVIN_UP_NORMAL, SRVOUT_UP_NORMAL, Sts
<1>. HIDE DEF b, st, x, T, d, k, v, w, j, y, to
<1>10. v \in Proc(s, {}, k) /\ v.id = s /\ v.out = b.out /\ Self(v) = st /\ Work(v) = x
  <2>1. /\ v \in Proc(s, {}, k) /\ v.id = s /\ v.out = b.out
        /\ Self(v) = Self(b) /\ Work(v) = Work(b)
    BY <1>3, <1>4, <1>6, <1>7, ClientRecord
  <2>. QED
    BY <2>1 DEF st, x
<1>11. ASSUME NEW z, w \in At(v, k, T, z, x)
       PROVE  /\ Moves(s, T) /\ Becoming(s, k, z, x) /\ ClientStep(s, T)
              /\ \A p \in On(w) : p \in InFlight'
              /\ AbortOf(s) => AbortOf(s)' \/ ~node'[s].run
  <2>1. /\ Moves(s, T) /\ Becoming(s, k, z, x)
        /\ \A p \in On(w) : p \in InFlight'
    BY <1>1, <1>10, <1>11, OwnMoves DEF b
  <2>2. AbortOf(s) => AbortOf(s)' \/ ~node'[s].run
    BY <2>1 DEF Moves, AbortOf
  <2>3. ClientStep(s, T)
    BY <1>2, <1>8, <2>1 DEF ClientStep, b
  <2>. QED
    BY <2>1, <2>2, <2>3
<1>12. \/ w \in At(v, k, T, st, x)
       \/ /\ w \in At(v, k, T, to, x)
          /\ st.op = "DOING" => \E p \in On(w) : p.type = "MERGE_ABORT" /\ p.dept = s
  BY <1>5, <1>7, <1>10, AtSuspend DEF w, to
<1>13. CASE w \in At(v, k, T, st, x)
  <2>1. /\ Moves(s, T) /\ Becoming(s, k, st, x) /\ ClientStep(s, T)
        /\ AbortOf(s) => AbortOf(s)' \/ ~node'[s].run
    BY <1>11, <1>13
  <2>2. WorkOK(s)'
    BY <1>2, <1>8, <2>1 DEF WorkOK, b, st
  <2>3. st.op = "DONE" => st \notin {SRVIN_UP_NORMAL, SRVOUT_UP_NORMAL}
    BY DEF SRVIN_UP_NORMAL, SRVOUT_UP_NORMAL, Sts
  <2>. QED
    BY <1>2, <1>5, <2>1, <2>2, <2>3, QuietProceeds DEF st, b
<1>14. CASE /\ w \in At(v, k, T, to, x)
            /\ st.op = "DOING" => \E p \in On(w) : p.type = "MERGE_ABORT" /\ p.dept = s
  <2>1. /\ Moves(s, T) /\ Becoming(s, k, to, x) /\ ClientStep(s, T)
        /\ \A p \in On(w) : p \in InFlight'
        /\ AbortOf(s) => AbortOf(s)' \/ ~node'[s].run
    BY <1>11, <1>14
  <2>2. st.op = "DOING" => AbortOf(s)'
    BY <1>14, <2>1 DEF AbortOf
  <2>3. WorkOK(s)'
    BY <1>2, <1>8, <1>9, <2>1, <2>2 DEF WorkOK, b, st
  <2>. QED
    BY <1>2, <1>5, <1>9, <2>1, <2>3, QuietProceeds
<1>. QED
  BY <1>12, <1>13, <1>14

\* The worker thread.
LEMMA WorkerProceeds ==
  ASSUME RingInv, MergeInv, Whole, AutoMerge = FALSE, NEW s \in Server, MergeWorker(s)
  PROVE  Proceeds
<1>. DEFINE b == node[s]
            k == Client(b)
            st == Self(b)
            T == {"STATUS_CHANGE"}
            done == SuspendFlag([st EXCEPT !.op = "DONE"], ~k.join)
<1>1. WorkOK(s) /\ StartOK /\ ClientOK
  BY DEF MergeInv
<1>2. /\ b \in Proc(s, {}, k) /\ b.id = s /\ ~b.sin
      /\ st \in Status /\ OwnUp(st) /\ IsSafe(st)
  BY OwnFacts
<1>3. NoStart(T) /\ NoEnd(T) /\ "MERGE_COMPLETE" \notin T /\ "STATUS_CHANGE" \in T
  BY DEF NoStart, NoEnd
<1>4. st.op = "DOING" => st.sup = "NOSUP"
  BY <1>1 DEF WorkOK
<1>5. \A to, v : Becoming(s, k, to, Work(v)) =>
        /\ Self(node'[s]) = to /\ Self(node[s])' = to
        /\ node'[s].run = v.run /\ node'[s].sin = v.sin /\ node'[s].wk = v.wk
        /\ node'[s].wst = v.wst
        /\ node'[s].join = b.join /\ node'[s].jn = b.jn /\ node'[s].cls = b.cls
  BY DEF Becoming, Self, Work, Client
<1>6. b.out = node[s].out
  OBVIOUS
<1>7. done.op = "DONE"
  BY <1>2 DEF SuspendFlag, Status
<1>8. \/ b.wst = "idle" /\ b.wk > 0 /\ Becomes(s, WorkerBegin(b))
      \/ b.wst = "wait" /\ b.run    /\ Becomes(s, WorkerFinish(b))
      \/ b.wst = "wait" /\ ~b.run   /\ Becomes(s, WorkerStop(b))
      \/ b.wst = "done"             /\ Becomes(s, WorkerClear(b))
  BY DEF MergeWorker
<1>. HIDE DEF b, k, T, done
<1>0. WorkerSteps(b, k, T, st)
  BY <1>2, <1>3, <1>4, AtWorker
<1>. HIDE DEF st
<1>9. ASSUME NEW to, NEW v, v \in At(b, k, T, to, Work(v)), Becomes(s, v),
             ~v.sin, v.run => DoMerge,
             to.op = "DOING" => /\ st = to /\ v.run
                                /\ v.wst = "wait",
             v.run => \/ to.op = "DOING" \/ v.wst = "done"
                      \/ /\ b.run /\ st.op # "DOING" /\ b.wst # "done",
             Startable(to) => /\ v.wst # "done"
                              /\ v.run => st = to /\ b.run,
             st.op = "DONE" => to = st
      PROVE  Proceeds
  <2>1. Moves(s, T) /\ Becoming(s, k, to, Work(v))
    BY <1>2, <1>6, <1>9, OwnMoves
  <2>2. AbortOf(s) => AbortOf(s)' \/ ~node'[s].run
    BY <2>1 DEF Moves, AbortOf
  <2>3. WorkOK(s)'
    BY <1>1, <1>5, <1>9, <2>1, <2>2 DEF WorkOK, b, st
  <2>4. Startable(Self(node[s]))' <=> Startable(to)
    BY <1>5, <2>1 DEF Startable
  <2>5. ReadyAt(s) => ReadyAt(s)'
    BY <1>5, <1>9, <2>1, <2>4 DEF ReadyAt, b, st
  <2>6. StartStep(s, T)
    BY <1>1, <1>3, <2>5 DEF StartStep, StartOK, Ready
  <2>7. ClientStep(s, T)
    BY <1>3, <1>5, <2>1 DEF ClientStep, b
  <2>8. ~Completes(s) /\ ~Begins(s)
    BY <1>5, <1>9, <2>1 DEF Completes, Begins, st, b, SRVIN_UP_NORMAL, SRVOUT_UP_NORMAL, Sts
  <2>. QED
    BY <1>3, <2>1, <2>3, <2>6, <2>7, <2>8, StepProceeds
<1>10. CASE b.wst = "idle" /\ b.wk > 0 /\ Becomes(s, WorkerBegin(b))
  <2>. DEFINE v == WorkerBegin(b)
  <2>1. v \in At(b, k, T, st, Work(v)) /\ v.run = b.run /\ v.sin = b.sin /\ v.wst = "wait"
    BY <1>0, <1>10 DEF WorkerSteps
  <2>2. Becomes(s, v)
    BY <1>10
  <2>. HIDE DEF v
  <2>3. (v.run => DoMerge) /\ (st.op = "DOING" => v.run)
    BY <1>1, <2>1 DEF WorkOK, b, st
  <2>. QED
    BY <1>2, <1>9, <1>10, <2>1, <2>2, <2>3
<1>11. CASE b.wst = "wait" /\ b.run /\ Becomes(s, WorkerFinish(b))
  <2>. DEFINE v == WorkerFinish(b)
  <2>1. /\ \/ /\ st.op = "DOING"
              /\ v \in At(b, k, T, done, Work(v))
              /\ v.wst = "done"
           \/ /\ st.op # "DOING"
              /\ v \in At(b, k, T, st, Work(v))
              /\ \/ v.wst = "done" /\ st.op = "DONE"
                 \/ v.wst = "idle" /\ ~v.run
        /\ v.sin = b.sin /\ (v.run => b.run)
    BY <1>0 DEF WorkerSteps, done
  <2>2. Becomes(s, v)
    BY <1>11
  <2>. HIDE DEF v
  <2>3. v.run => DoMerge
    BY <1>1, <2>1 DEF WorkOK, b
  <2>4. ~Startable(done) /\ (st.op = "DONE" => ~Startable(st))
    BY <1>7 DEF Startable
  <2>5. CASE st.op = "DOING"
    BY <1>2, <1>7, <1>9, <2>1, <2>2, <2>3, <2>4, <2>5
  <2>6. CASE st.op # "DOING"
    BY <1>2, <1>9, <2>1, <2>2, <2>3, <2>4, <2>6
  <2>. QED
    BY <2>5, <2>6
<1>12. CASE b.wst = "wait" /\ ~b.run /\ Becomes(s, WorkerStop(b))
  <2>. DEFINE v == WorkerStop(b)
  <2>1. v \in At(b, k, T, st, Work(v)) /\ v.run = b.run /\ v.sin = b.sin /\ v.wst = "idle"
    BY <1>0 DEF WorkerSteps
  <2>2. Becomes(s, v)
    BY <1>12
  <2>. HIDE DEF v
  <2>3. st.op # "DOING"
    BY <1>1, <1>12 DEF WorkOK, b, st
  <2>. QED
    BY <1>2, <1>9, <1>12, <2>1, <2>2, <2>3
<1>13. CASE b.wst = "done" /\ Becomes(s, WorkerClear(b))
  <2>. DEFINE v == WorkerClear(b)
  <2>1. v \in At(b, k, T, st, Work(v)) /\ ~v.run /\ v.sin = b.sin /\ v.wst = "idle"
    BY <1>0 DEF WorkerSteps
  <2>2. Becomes(s, v)
    BY <1>13
  <2>. HIDE DEF v
  <2>3. st.op # "DOING"
    BY <1>1, <1>13 DEF WorkOK, b, st
  <2>. QED
    BY <1>2, <1>9, <2>1, <2>2, <2>3
<1>. QED
  BY <1>8, <1>10, <1>11, <1>12, <1>13

\* Nothing changes.
LEMMA IdleProceeds ==
  ASSUME MergeInv, node' = node
  PROVE  Proceeds
<1>1. InFlight' = InFlight /\ \A s \in Server : Self(node[s])' = Self(node[s])
  BY DEF InFlight, On, Held, Self
<1>2. /\ Starting' <=> Starting
      /\ Ending' <=> Ending
      /\ Coming({"MERGE_COMPLETE"})' <=> Coming({"MERGE_COMPLETE"})
      /\ \A s \in Server : AbortOf(s)' <=> AbortOf(s)
  BY <1>1 DEF Starting, Ending, Coming, AbortOf
<1>3. \A s \in Server : Startable(Self(node[s]))' <=> Startable(Self(node[s]))
  BY <1>1 DEF Startable
<1>4. \A s \in Server : WorkOK(s) => WorkOK(s)'
  BY <1>1, <1>2 DEF WorkOK
<1>5. \A s \in Server : ReadyAt(s) => ReadyAt(s)'
  BY <1>3 DEF ReadyAt
<1>6. StartOK => StartOK'
  BY <1>2, <1>5 DEF StartOK, Ready
<1>7. ClientOK => ClientOK'
  BY <1>2 DEF ClientOK
<1>8. \A t \in Server : ~Completes(t) /\ ~Begins(t)
  BY DEF Completes, Begins, SRVIN_UP_NORMAL, SRVOUT_UP_NORMAL, Sts
<1>. QED
  BY <1>2, <1>4, <1>6, <1>7, <1>8 DEF MergeInv, Proceeds

\* Every step lets the merges proceed.
LEMMA MergeProceeds ==
  ASSUME N > 1, AutoMerge = FALSE, Patient = TRUE, MaxCrash = 0,
         RingInv, MergeInv, AllUp, [Next]_vars
  PROVE  Proceeds
<1>1. Whole /\ up \in [Server -> BOOLEAN]
  BY BoundAssumption DEF RingInv, Whole, AllUp
<1>2. \A s \in Server : ~Crash(s)
  <2>. SUFFICES ASSUME NEW s \in Server, Crash(s) PROVE FALSE
    OBVIOUS
  <2>1. up'[s] = FALSE
    BY <1>1 DEF Crash
  <2>. QED
    BY <2>1, NobodyDies DEF AllUp
<1>3. \A s, t \in Server : ~DropStream(s, t) /\ ~NotifyHup(s, t)
  BY DEF DropStream, NotifyHup, AllUp
<1>4. CASE \E s, t \in Server : RecvAny(s, t)
  BY <1>1, <1>4, ReadProceeds
<1>5. ASSUME NEW s \in Server,
             CmdAny(s) \/ RecvJoinNotify(s) \/ CloseNotify(s) \/ MergeWorker(s)
      PROVE  Proceeds
  BY <1>1, <1>5, CommandAsks, CommandServes, ClientProceeds, JoinProceeds, CloseProceeds,
     WorkerProceeds DEF CmdAny
<1>6. CASE Tick \/ UNCHANGED vars
  BY <1>6, IdleProceeds DEF Tick, vars
<1>. QED
  BY <1>2, <1>3, <1>4, <1>5, <1>6 DEF Next

\* A RING at rest: no merge, no packet, no client to announce.
LEMMA MergeInit ==
  ASSUME AutoMerge = FALSE, Init
  PROVE  AllUp /\ MergeInv /\ ~Coming({"MERGE_COMPLETE"})
<1>1. PICK in \in InitIn, joined \in InitJoin :
         node = [t \in Server |-> InitNode(t, in, joined)]
  BY DEF Init
<1>2. ASSUME NEW s \in Server
      PROVE  /\ ~node[s].sin /\ ~node[s].run /\ ~node[s].cls /\ ~node[s].jn
             /\ node[s].out = [t \in Server |-> << >>]
             /\ node[s].id = s /\ node[s].sv = InitEntry(in, joined)
  BY <1>1 DEF InitNode
<1>3. ASSUME NEW s \in Server PROVE Self(node[s]).op = "NOTHING"
  <2>. DEFINE base == IF s \in in THEN SRVIN_UP_NORMAL ELSE SRVOUT_UP_NORMAL
              f == SuspendFlag(base, s \notin joined)
  <2>1. Self(node[s]) = f
    <3>. DEFINE e == InitEntry(in, joined)
    <3>1. e[s].st = f
      BY DEF InitEntry
    <3>. HIDE DEF e, f
    <3>. QED
      BY <1>2, <3>1 DEF Self, e
  <2>2. f.op = base.op
    BY DEF SuspendFlag, SRVIN_UP_NORMAL, SRVOUT_UP_NORMAL, Sts
  <2>3. base.op = "NOTHING"
    BY DEF SRVIN_UP_NORMAL, SRVOUT_UP_NORMAL, Sts
  <2>. QED
    BY <2>1, <2>2, <2>3
<1>4. InFlight = {}
  <2>1. \A t, s \in Server : DOMAIN node[t].out[s] = {}
    BY <1>2
  <2>. QED
    BY <2>1 DEF InFlight, On, Held
<1>5. ~Starting /\ \A T : ~Coming(T)
  BY <1>4 DEF Starting, Coming
<1>6. \A s \in Server : WorkOK(s)
  BY <1>2, <1>3 DEF WorkOK
<1>. QED
  BY <1>2, <1>5, <1>6 DEF MergeInv, StartOK, ClientOK, Init, AllUp

\* Once a completion is on its way nobody copies data any more.
AllCopied ==
  Coming({"MERGE_COMPLETE"}) => \A t \in Server : Self(node[t]).op # "DOING"

LEMMA CopiedKept ==
  ASSUME N > 1, AutoMerge = FALSE, Patient = TRUE, MaxTime = 0,
         RingInv, MergeInv, AllUp, ChainInv, AllCopied, Proceeds
  PROVE  AllCopied'
<1>. SUFFICES ASSUME Coming({"MERGE_COMPLETE"})', NEW t \in Server,
                     Self(node'[t]).op = "DOING"
              PROVE  FALSE
  BY DEF AllCopied, Self
<1>1. Begins(t) => Coming({"MERGE_START"})
  BY DEF Proceeds
<1>2. ~Coming({"MERGE_COMPLETE"})
  <2>. SUFFICES ASSUME Coming({"MERGE_COMPLETE"}) PROVE FALSE
    OBVIOUS
  <2>1. ~Coming({"MERGE_START"})
    BY DEF Coming, Starting, Ending, MergeInv, StartOK, Ready
  <2>. QED
    BY <1>1, <2>1 DEF AllCopied, Begins
<1>3. PICK s \in Server : CmdMergeComplete(s)
  BY <1>2 DEF Proceeds
<1>4. Whole /\ Settled
  BY <1>3, BoundAssumption DEF CmdMergeComplete, Command, RingInv, Whole, AllUp
<1>5. InFlight = {}
  BY <1>4, SettledFacts
<1>6. Self(node[t]).op = "DOING"
  BY <1>1, <1>5 DEF Begins, Coming
<1>7. node[s].sv[t].st = Self(node[t])
  <2>1. node[s].sv[t].st = node[t].sv[t].st /\ node[t].id = t
    BY <1>4, ChainAgrees, CalmNode DEF ChainInv
  <2>. QED
    BY <2>1 DEF Self
<1>8. CheckAllForMergeComplete(node[s])
  <2>. SUFFICES ASSUME ~CheckAllForMergeComplete(node[s]) PROVE FALSE
    OBVIOUS
  <2>. DEFINE b == node[s]
              k == Client(b)
              T == {}
              U == {"MERGE_COMPLETE"}
              v == Fail(b)
  <2>1. Becomes(s, v)
    BY <1>3 DEF CmdMergeComplete, Command, RequestMergeComplete
  <2>2. b \in Proc(s, {}, k) /\ b.id = s
    BY <1>4, OwnFacts
  <2>3. T \cap U = {} /\ b.out = node[s].out
    OBVIOUS
  <2>. HIDE DEF b, k, T, U
  <2>4. b \in At(b, k, T, Self(b), Work(b))
    BY <2>2, AtSelf
  <2>5. v \in At(b, k, T, Self(b), Work(b))
    BY <1>4, <2>2, <2>4, AtFlags
  <2>. HIDE DEF v
  <2>6. Moves(s, T)
    BY <1>4, <2>1, <2>2, <2>3, <2>5, OwnMoves
  <2>7. Coming(U)' => Coming(U)
    BY <2>3, <2>6, ComingNew
  <2>. QED
    BY <1>2, <2>7 DEF U
<1>9. IsSrvIn(Self(node[t])) /\ IsUp(Self(node[t]))
  <2>. DEFINE b == node[t]
  <2>1. Self(b) \in Status /\ OwnUp(Self(b)) /\ IsSafe(Self(b))
    BY <1>4, OwnFacts
  <2>. HIDE DEF b
  <2>2. Self(b).op = "DOING" => IsSrvIn(Self(b))
    BY <2>1, MergeStatus
  <2>. QED
    BY <1>6, <2>1, <2>2 DEF OwnUp, b
<1>. QED
  BY <1>6, <1>7, <1>8, <1>9 DEF CheckAllForMergeComplete

\* NoOrphanMerge: at rest no server is left DOING with nobody working on its merge.
\* "changing status is done by main thread which calls abort merging"
\* (MergeWorkerFunc): the worker that finds its run flag cleared says nothing, so the
\* status has to be reset by whoever cleared the flag, and a start must never find
\* the flag of the merge before still set.  This is so where nobody dies and merges
\* are started by commands, each given when there is nothing left to read; a worker
\* may still be busy then, and the clock may go on.
THEOREM MergesEnd ==
  ASSUME N > 1, AutoMerge = FALSE, Patient = TRUE, MaxCrash = 0
  PROVE  Spec => []NoOrphanMerge
<1>1. RingInv /\ AllUp /\ MergeInv /\ [Next]_vars => AllUp' /\ MergeInv'
  BY NobodyDies, MergeProceeds DEF Proceeds
<1>2. MergeInv => NoOrphanMerge
  <2>. SUFFICES ASSUME MergeInv, Quiet, NEW s \in Running PROVE Self(node[s]).op # "DOING"
    BY DEF NoOrphanMerge
  <2>1. WorkOK(s) /\ node[s].wk = 0 /\ node[s].wst = "idle"
    BY DEF MergeInv, Quiet, Running
  <2>. QED
    BY <2>1 DEF WorkOK
<1>3. Init => AllUp /\ MergeInv
  BY MergeInit
<1>. QED
  BY <1>1, <1>2, <1>3, RingInvariant, PTL DEF Spec

\* NoCompleteWhileMerging: no server completes its merge, DONE becoming in service or
\* out of service, while a running server is still DOING.  The server with the command
\* decides that all have copied their data by its own table
\* (CheckAllStatusForMergeComplete); the others complete when MERGE_COMPLETE passes and
\* look no more.  It is right because tables agree when the command is given - hence
\* MaxTime = 0, as for StatusAgrees - and because no merge starts before the packet is
\* back.
THEOREM MergesCompleteTogether ==
  ASSUME N > 1, AutoMerge = FALSE, Patient = TRUE, MaxCrash = 0, MaxTime = 0
  PROVE  Spec => NoCompleteWhileMerging
<1>. DEFINE Merged == AllUp /\ MergeInv /\ ChainInv /\ AllCopied
            Step   == \A s \in Server :
                        /\ Self(node[s]).op = "DONE"
                        /\ Self(node[s])' \in {SRVIN_UP_NORMAL, SRVOUT_UP_NORMAL}
                        => \A t \in Running : Self(node[t]).op # "DOING"
<1>1. Init => Merged
  BY MergeInit, ChainInit DEF AllCopied
<1>2. RingInv /\ Merged /\ [Next]_vars => Merged'
  <2>. SUFFICES ASSUME RingInv, Merged, [Next]_vars PROVE Merged'
    OBVIOUS
  <2>1. Proceeds
    BY MergeProceeds
  <2>. QED
    BY <2>1, NobodyDies, ChainNext, CopiedKept DEF Proceeds
<1>3. RingInv /\ Merged /\ [Next]_vars => Step
  <2>. SUFFICES ASSUME RingInv, Merged, [Next]_vars, NEW s \in Server,
                       Self(node[s]).op = "DONE",
                       Self(node[s])' \in {SRVIN_UP_NORMAL, SRVOUT_UP_NORMAL},
                       NEW t \in Running
                PROVE  Self(node[t]).op # "DOING"
    OBVIOUS
  <2>1. Proceeds
    BY MergeProceeds
  <2>2. Completes(s)
    BY DEF Completes, Self
  <2>3. Coming({"MERGE_COMPLETE"})
    BY <2>1, <2>2 DEF Proceeds
  <2>. QED
    BY <2>3 DEF AllCopied, Running
<1>4. RingInv /\ Merged /\ [Next]_vars => [Step]_vars
  BY <1>3
<1>5. NoCompleteWhileMerging <=> [][Step]_vars
  BY DEF NoCompleteWhileMerging
<1>. HIDE DEF Merged, Step
<1>. QED
  BY <1>1, <1>2, <1>4, <1>5, RingInvariant, PTL DEF Spec
-----------------------------------------------------------------------------
(* Membership (ChmJoin).  Where merges are by hand and the operator only   *)
(* switches the suspend mode, all that anybody says is who is up.          *)

\* A status that says nothing of a change of service, of server t, if M is the set
\* of the servers in service.
Plain(M, t) ==
  {st \in Status : /\ st.act = "NOACT" /\ ~IsOperatingSt(st)
                   /\ st.ring = IF t \in M THEN "SRVIN" ELSE "SRVOUT"}

PlainTable(M) == {sv \in [Server -> Entry] : \A t \in Server : sv[t].st \in Plain(M, t)}
PlainChm(M)   == {c \in Chm : c.st \in Plain(M, c.id)}
PlainList(M)  == {l \in [Server -> PlainChm(M)] : \A t \in Server : l[t].id = t}

\* The packets of servers that agree on M.
Mail(M) ==
       [type : {"STATUS_CHANGE", "JOIN_RING"}, dept : Server, res : Result, chm : PlainChm(M)]
  \cup [type : {"SERVER_DOWN"}, dept : Server, res : Result, down : Server]
  \cup [type : {"STATUS_REQ", "MERGE_SUSPEND", "MERGE_NOSUSPEND"}, dept : Server, res : Result]
  \cup [type : {"STATUS_RES"}, dept : Server, res : Result, list : PlainList(M)]

\* ... on their sockets; nothing is on its way to a server that does not run.
Mails(M) ==
  {o \in [Server -> Seq(Mail(M))] : \A t \in Server : up[t] \/ o[t] = << >>}

\* Server s with a table of the set T: no merge, and no notice of a client.
Calmly(s, T, M) ==
  [id : {s}, sv : T, bcnt : Nat, oper : {FALSE},
   join : BOOLEAN, ok : BOOLEAN, asup : BOOLEAN, sin : BOOLEAN, mdp : BOOLEAN,
   run : BOOLEAN, wk : {0}, wst : {"idle"}, cls : {FALSE}, jn : {FALSE},
   link : SUBSET Server, out : Mails(M)]

Anyhow(s, M) == Calmly(s, [Server -> Entry], M)
Member(s, M) == Calmly(s, PlainTable(M), M)

LEMMA PlainStatus ==
  ASSUME NEW M, NEW t, NEW st \in Plain(M, t)
  PROVE  /\ st \in Status /\ ~IsOperatingSt(st)
         /\ IsSrvIn(st) <=> t \in M
         /\ ChangeToDown(st) \in Plain(M, t)
         /\ StartStatus(st) \in Plain(M, t)
         /\ \A b \in BOOLEAN : SuspendFlag(st, b) \in Plain(M, t)
<1>. USE DEF Plain, Status, Live, Ring, Act, Operate, Suspend, IsOperatingSt, IsSrvIn, IsSrvOut,
             IsUp, Sts
<1>1. st \in Status /\ ~IsOperatingSt(st) /\ (IsSrvIn(st) <=> t \in M)
  OBVIOUS
<1>2. ChangeToDown(st) \in Plain(M, t)
  BY DEF ChangeToDown, SRVIN_DOWN_NORMAL, SRVOUT_DOWN_NORMAL
<1>3. StartStatus(st) \in Plain(M, t)
  BY DEF StartStatus, SRVIN_UP_NORMAL, SRVOUT_UP_NORMAL
<1>4. ASSUME NEW b \in BOOLEAN PROVE SuspendFlag(st, b) \in Plain(M, t)
  BY DEF SuspendFlag
<1>. QED
  BY <1>1, <1>2, <1>3, <1>4

LEMMA PlainCorrected ==
  ASSUME NEW M, NEW t, NEW st \in Plain(M, t), NEW w, w.join \in BOOLEAN
  PROVE  CorrectSelf(w, st) \in Plain(M, t)
<1>. DEFINE c == CASE IsSrvIn(st) /\ st.act = "NOACT" ->
                        IF w.join THEN SRVIN_UP_PENDING ELSE SRVIN_UP_NORMAL
                   [] IsSrvIn(st) /\ st.act = "DELETE" ->
                        IF st.op = "PENDING" THEN SRVIN_UP_DELPENDING ELSE SRVIN_UP_DELETED
                   [] IsSrvOut(st) -> SRVOUT_UP_NORMAL
                   [] OTHER -> SLAVE_UP_NORMAL
<1>1. c \in Plain(M, t)
  BY DEF Plain, Status, Live, Ring, Act, Operate, Suspend, IsOperatingSt, IsSrvIn, IsSrvOut,
         Sts, SRVIN_UP_PENDING, SRVIN_UP_NORMAL, SRVOUT_UP_NORMAL
<1>2. CorrectSelf(w, st) \in {st, SuspendFlag(c, ~w.join)}
  BY DEF CorrectSelf
<1>. HIDE DEF c
<1>3. SuspendFlag(c, ~w.join) \in Plain(M, t)
  BY <1>1, PlainStatus
<1>. QED
  BY <1>2, <1>3

\* What is known of a member.
LEMMA MemberFacts ==
  ASSUME NEW M, NEW s \in Server, NEW w \in Member(s, M)
  PROVE  /\ w.id = s /\ w.sv \in PlainTable(M) /\ w.join \in BOOLEAN /\ ~w.oper
         /\ \A t \in Server : w.sv[t] \in Entry /\ w.sv[t].st \in Plain(M, t)
         /\ Self(w) \in Plain(M, s) /\ w.out \in Mails(M) /\ w.link \in SUBSET Server
         /\ w \in Anyhow(s, M)
BY DEF Member, Anyhow, Calmly, PlainTable, Self

LEMMA MemberFlags ==
  ASSUME NEW M, NEW s \in Server, NEW w \in Member(s, M), NEW b \in BOOLEAN,
         NEW l \in SUBSET Server
  PROVE  /\ Good(w) \in Member(s, M) /\ Fail(w) \in Member(s, M)
         /\ [w EXCEPT !.asup = b] \in Member(s, M)
         /\ [w EXCEPT !.asup = b, !.sin = FALSE] \in Member(s, M)
         /\ [w EXCEPT !.link = l] \in Member(s, M)
<1>. USE DEF Member, Calmly
<1>1. Good(w) \in Member(s, M) /\ Fail(w) \in Member(s, M)
  BY DEF Good, Fail
<1>2. [w EXCEPT !.asup = b] \in Member(s, M)
  OBVIOUS
<1>3. [w EXCEPT !.asup = b, !.sin = FALSE] \in Member(s, M)
  OBVIOUS
<1>4. [w EXCEPT !.link = l] \in Member(s, M)
  OBVIOUS
<1>. HIDE DEF Member, Calmly
<1>. QED
  BY <1>1, <1>2, <1>3, <1>4

\* A table replaced by another one; no status in it says that a merge is going on.
LEMMA MemberTable ==
  ASSUME NEW M, NEW s \in Server, NEW w \in Anyhow(s, M), NEW sv \in PlainTable(M)
  PROVE  /\ [w EXCEPT !.sv = sv] \in Member(s, M)
         /\ Recount([w EXCEPT !.sv = sv]) \in Member(s, M)
<1>1. [w EXCEPT !.sv = sv] \in Member(s, M)
  BY DEF Member, Anyhow, Calmly
<1>2. AnyOperating(sv) = FALSE
  BY DEF AnyOperating, PlainTable, Plain
<1>3. Recount([w EXCEPT !.sv = sv]) = [w EXCEPT !.sv = sv, !.bcnt = BaseHashCount(sv), !.oper = FALSE]
  BY <1>2 DEF Recount, Anyhow, Calmly
<1>4. [w EXCEPT !.sv = sv, !.bcnt = BaseHashCount(sv), !.oper = FALSE] \in Member(s, M)
  BY CachedTypes DEF Member, Anyhow, Calmly
<1>. QED
  BY <1>1, <1>3, <1>4

\* The hash values are computed anew.
BaseTable(sv) ==
  [t \in Server |-> [sv[t] EXCEPT !.bh = IF IsBaseHash(sv[t].st) THEN BaseRank(sv, t) ELSE NoHash,
                                  !.ts = now]]
PendingTable(sv) ==
  [t \in Server |-> [sv[t] EXCEPT !.ph = IF IsPendingHash(sv[t].st) THEN PendingRank(sv, t)
                                         ELSE NoHash,
                                  !.ts = now]]

LEMMA HashTables ==
  ASSUME now \in Nat, NEW M, NEW sv \in PlainTable(M)
  PROVE  BaseTable(sv) \in PlainTable(M) /\ PendingTable(sv) \in PlainTable(M)
<1>1. \A t \in Server : BaseRank(sv, t) \in Hash /\ PendingRank(sv, t) \in Hash
  <2>. SUFFICES ASSUME NEW t \in Server
                PROVE  BaseRank(sv, t) \in Hash /\ PendingRank(sv, t) \in Hash
    OBVIOUS
  <2>1. BaseRank(sv, t) \in 0 .. (N - 1) /\ PendingRank(sv, t) \in 0 .. (N - 1)
    BY RankType DEF BaseRank, PendingRank
  <2>. QED
    BY <2>1, NAssumption DEF Hash
<1>2. NoHash \in Hash
  BY NAssumption DEF NoHash, Hash
<1>. QED
  BY <1>1, <1>2 DEF PlainTable, Entry, BaseTable, PendingTable

\* Changing one entry.
LEMMA PlainEntry ==
  ASSUME NEW M, NEW sv \in PlainTable(M), NEW t \in Server, NEW e \in Entry, e.st \in Plain(M, t)
  PROVE  [sv EXCEPT ![t] = e] \in PlainTable(M)
BY DEF PlainTable

\* Storing a status, and what another server says.
LEMMA MemberStored ==
  ASSUME now \in Nat, NEW M, NEW s \in Server, NEW w \in Member(s, M), NEW t \in Server,
         NEW st \in Plain(M, t), NEW ts \in Nat
  PROVE  /\ [w EXCEPT !.sv[t].st = st, !.sv[t].ts = ts] \in Member(s, M)
         /\ SetStatus(w, t, st) \in Member(s, M)
<1>. DEFINE sv(x) == [w.sv EXCEPT ![t] = [w.sv[t] EXCEPT !.st = st, !.ts = x]]
<1>1. w \in Anyhow(s, M) /\ w.sv \in PlainTable(M) /\ w.sv[t] \in Entry /\ st \in Status
  BY MemberFacts, PlainStatus
<1>2. ASSUME NEW x \in Nat PROVE sv(x) \in PlainTable(M)
  <2>. DEFINE e == [w.sv[t] EXCEPT !.st = st, !.ts = x]
  <2>1. e \in Entry /\ e.st \in Plain(M, t)
    BY <1>1 DEF Entry
  <2>. HIDE DEF e
  <2>2. [w.sv EXCEPT ![t] = e] \in PlainTable(M)
    BY <1>1, <2>1, PlainEntry
  <2>. QED
    BY <2>2 DEF e
<1>3. ASSUME NEW x \in Nat
      PROVE  [w EXCEPT !.sv[t].st = st, !.sv[t].ts = x] = [w EXCEPT !.sv = sv(x)]
  BY <1>1 DEF Member, Calmly, PlainTable, Entry
<1>. HIDE DEF sv
<1>4. [w EXCEPT !.sv[t].st = st, !.sv[t].ts = ts] \in Member(s, M)
  BY <1>1, <1>2, <1>3, MemberTable
<1>5. Recount([w EXCEPT !.sv[t].st = st, !.sv[t].ts = now]) \in Member(s, M)
  BY <1>1, <1>2, <1>3, MemberTable
<1>. QED
  BY <1>4, <1>5, MemberFlags DEF SetStatus

LEMMA MemberSets ==
  ASSUME now \in Nat, NEW M, NEW s \in Server, NEW w \in Member(s, M), NEW t \in Server,
         NEW st \in Plain(M, t)
  PROVE  /\ SetServerStatus(w, t, st) \in Member(s, M)
         /\ t = s => SetSelfStatus(w, st) \in Member(s, M)
<1>1. w.id = s /\ w.join \in BOOLEAN
  BY MemberFacts
<1>2. SuspendFlag(st, ~w.join) \in Plain(M, t)
  BY <1>1, PlainStatus
<1>. QED
  BY <1>1, <1>2, MemberStored, MemberFlags DEF SetServerStatus, SetSelfStatus

LEMMA MemberStamped ==
  ASSUME now \in Nat, NEW M, NEW s \in Server, NEW w \in Member(s, M)
  PROVE  UpdateSelfLastStatusTime(w) \in Member(s, M)
<1>. DEFINE e == [w.sv[s] EXCEPT !.ts = now]
<1>1. w.id = s /\ w \in Anyhow(s, M) /\ w.sv \in PlainTable(M) /\ w.sv[s] \in Entry
      /\ w.sv[s].st \in Plain(M, s)
  BY MemberFacts
<1>2. e \in Entry /\ e.st \in Plain(M, s)
  BY <1>1 DEF Entry
<1>3. UpdateSelfLastStatusTime(w) = [w EXCEPT !.sv = [w.sv EXCEPT ![s] = e]]
  BY <1>1 DEF UpdateSelfLastStatusTime, Member, Calmly, PlainTable
<1>. HIDE DEF e
<1>4. [w.sv EXCEPT ![s] = e] \in PlainTable(M)
  BY <1>1, <1>2, PlainEntry
<1>. QED
  BY <1>1, <1>3, <1>4, MemberTable

\* All hash values are computed anew.
LEMMA MemberHashed ==
  ASSUME now \in Nat, NEW M, NEW s \in Server, NEW w \in Member(s, M)
  PROVE  /\ Recount(UpdatePendingHash(UpdateBaseHash(w))) \in Member(s, M)
         /\ UpdatePendingHash(w) \in Member(s, M)
<1>. DEFINE b == BaseTable(w.sv)
            h == PendingTable(b)
            g == PendingTable(w.sv)
<1>1. w \in Anyhow(s, M) /\ w.sv \in PlainTable(M)
  BY MemberFacts
<1>2. b \in PlainTable(M) /\ h \in PlainTable(M) /\ g \in PlainTable(M)
  BY <1>1, HashTables
<1>3. UpdateBaseHash(w) = [w EXCEPT !.sv = b] /\ UpdatePendingHash(w) = [w EXCEPT !.sv = g]
  BY DEF UpdateBaseHash, UpdatePendingHash, BaseTable, PendingTable
<1>. HIDE DEF b
<1>4. UpdatePendingHash([w EXCEPT !.sv = b]) = [w EXCEPT !.sv = h]
  BY DEF UpdatePendingHash, PendingTable, Member, Calmly
<1>. QED
  BY <1>1, <1>2, <1>3, <1>4, MemberTable

LEMMA MemberMerges ==
  ASSUME now \in Nat, NEW M, NEW s \in Server, NEW w \in Member(s, M), NEW chm \in PlainChm(M)
  PROVE  MergeChmpxSvrs(w, chm) \in Member(s, M)
<1>. DEFINE st == IF chm.id = w.id THEN CorrectSelf(w, chm.st) ELSE chm.st
            w1 == IF IsLatest(w, chm)
                  THEN [w EXCEPT !.sv[chm.id].st = st, !.sv[chm.id].ts = chm.ts]
                  ELSE w
<1>1. chm.id \in Server /\ chm.st \in Plain(M, chm.id) /\ chm.ts \in Nat
  BY DEF PlainChm, Chm
<1>2. st \in Plain(M, chm.id)
  BY <1>1, MemberFacts, PlainCorrected
<1>3. w1 \in Member(s, M)
  <2>. HIDE DEF st
  <2>. QED
    BY <1>1, <1>2, MemberStored
<1>4. MergeChmpxSvrs(w, chm) = Good(Recount(UpdatePendingHash(UpdateBaseHash(w1))))
  BY DEF MergeChmpxSvrs
<1>. HIDE DEF w1
<1>. QED
  BY <1>3, <1>4, MemberHashed, MemberFlags

\* A whole list: every entry of the table is as plain as those of the list, or else it
\* was never updated and is replaced.
LEMMA MemberListed ==
  ASSUME now \in Nat, NEW M, NEW s \in Server, NEW w \in Anyhow(s, M), NEW l \in PlainList(M),
         \A t \in Server : w.sv[t].st \in Plain(M, t) \/ w.sv[t].ts = 0
  PROVE  MergeList(w, l) \in Member(s, M)
<1>. DEFINE st(t) == IF t = w.id THEN CorrectSelf(w, l[t].st) ELSE l[t].st
            sv == [t \in Server |->
                     IF IsLatest(w, l[t]) THEN [w.sv[t] EXCEPT !.st = st(t), !.ts = l[t].ts]
                                          ELSE w.sv[t]]
<1>1. /\ w.id = s /\ w.join \in BOOLEAN /\ w.sv \in [Server -> Entry]
      /\ \A t \in Server : l[t].id = t /\ l[t].st \in Plain(M, t) /\ l[t].ts \in Nat
  BY DEF Anyhow, Calmly, PlainList, PlainChm, Chm
<1>2. \A t \in Server : st(t) \in Plain(M, t)
  BY <1>1, PlainCorrected
<1>3. sv \in PlainTable(M)
  <2>. SUFFICES ASSUME NEW t \in Server PROVE sv[t] \in Entry /\ sv[t].st \in Plain(M, t)
    BY DEF PlainTable
  <2>. HIDE DEF st
  <2>1. st(t) \in Plain(M, t) /\ st(t) \in Status
    BY <1>2 DEF Plain
  <2>2. CASE IsLatest(w, l[t])
    BY <1>1, <2>1, <2>2 DEF Entry
  <2>3. CASE ~IsLatest(w, l[t])
    <3>1. w.sv[t].ts # 0
      BY <1>1, <2>3 DEF IsLatest
    <3>. QED
      BY <1>1, <2>3, <3>1
  <2>. QED
    BY <2>2, <2>3
<1>4. MergeList(w, l) = Good(Recount(UpdatePendingHash(UpdateBaseHash([w EXCEPT !.sv = sv]))))
  BY DEF MergeList
<1>. HIDE DEF sv
<1>5. [w EXCEPT !.sv = sv] \in Member(s, M)
  BY <1>3, MemberTable
<1>. QED
  BY <1>4, <1>5, MemberHashed, MemberFlags

-----------------------------------------------------------------------------
(* Their sockets.                                                          *)

LEMMA MemberNext ==
  ASSUME NEW M, NEW s \in Server, NEW w \in Member(s, M)
  PROVE  NextRing(w) \in Server \cup {NoServer}
<1>1. UpOthers(w) \subseteq Server /\ w.id = s
  BY MemberFacts DEF UpOthers
<1>2. CASE UpOthers(w) # {}
  <2>1. \E t \in UpOthers(w) : \A u \in UpOthers(w) : Dist(s, t) <= Dist(s, u)
    BY <1>1, <1>2, FirstExists
  <2>. QED
    BY <1>1, <1>2, <2>1 DEF NextRing
<1>. QED
  BY <1>2 DEF NextRing

LEMMA MemberSends ==
  ASSUME NEW M, NEW s \in Server, NEW w \in Member(s, M), NEW d \in Server \cup {NoServer},
         NEW p \in Mail(M)
  PROVE  Send(w, d, p) \in Member(s, M)
<1>1. CASE d = NoServer \/ ~up[d]
  BY <1>1, MemberFlags DEF Send
<1>2. CASE d \in Server /\ d # NoServer /\ up[d]
  <2>. DEFINE l == Linked(w, d)
              o == [w.out EXCEPT ![d] = Append(@, p)]
  <2>1. l \in SUBSET Server
    BY <1>2, MemberFacts DEF Linked
  <2>2. o \in Mails(M)
    <3>1. w.out \in [Server -> Seq(Mail(M))] /\ \A t \in Server : up[t] \/ w.out[t] = << >>
      BY MemberFacts DEF Mails
    <3>2. Append(w.out[d], p) \in Seq(Mail(M))
      BY <1>2, <3>1
    <3>. QED
      BY <1>2, <3>1, <3>2 DEF Mails
  <2>3. [w EXCEPT !.out[d] = Append(@, p), !.link = l] = [w EXCEPT !.out = o, !.link = l]
    BY DEF Member, Calmly
  <2>4. [w EXCEPT !.out[d] = Append(@, p), !.link = l] \in Member(s, M)
    <3>. HIDE DEF l, o
    <3>. QED
      BY <2>1, <2>2, <2>3 DEF Member, Calmly
  <2>5. Send(w, d, p) = Good([w EXCEPT !.out[d] = Append(@, p), !.link = l])
    BY <1>2 DEF Send
  <2>. HIDE DEF l
  <2>. QED
    BY <2>4, <2>5, MemberFlags
<1>. QED
  BY <1>1, <1>2

\* The packets they make.
LEMMA MemberPackets ==
  ASSUME now \in Nat, NEW M, NEW s \in Server, NEW w \in Member(s, M)
  PROVE  /\ StatusChange(w, s) \in Mail(M) /\ JoinRing(w) \in Mail(M)
         /\ StatusReq(w) \in Mail(M) /\ StatusRes(w) \in Mail(M)
         /\ \A t \in Server : ServerDown(w, t) \in Mail(M)
         /\ \A x \in {"MERGE_SUSPEND", "MERGE_NOSUSPEND"} : Signal(w, x) \in Mail(M)
         /\ StatusRes(w).list \in PlainList(M)
<1>1. w.id = s
  BY MemberFacts
<1>2. ASSUME NEW t \in Server PROVE ChmOf(w, t) \in PlainChm(M) /\ ChmOf(w, t).id = t
  <2>1. w.sv[t] \in Entry /\ w.sv[t].st \in Plain(M, t)
    BY MemberFacts
  <2>. QED
    BY <2>1 DEF ChmOf, PlainChm, Chm, Entry
<1>3. "SUCCESS" \in Result
  BY DEF Result
<1>4. StatusChange(w, s) \in Mail(M) /\ JoinRing(w) \in Mail(M)
  BY <1>1, <1>2, <1>3 DEF StatusChange, JoinRing, Mail
<1>5. StatusReq(w) \in Mail(M) /\ \A t \in Server : ServerDown(w, t) \in Mail(M)
  BY <1>1, <1>3 DEF StatusReq, ServerDown, Mail
<1>6. \A x \in {"MERGE_SUSPEND", "MERGE_NOSUSPEND"} : Signal(w, x) \in Mail(M)
  BY <1>1, <1>3 DEF Signal, Mail
<1>7. [t \in Server |-> ChmOf(w, t)] \in PlainList(M)
  BY <1>2 DEF PlainList
<1>8. StatusRes(w) \in Mail(M) /\ StatusRes(w).list \in PlainList(M)
  BY <1>1, <1>3, <1>7 DEF StatusRes, Mail
<1>. QED
  BY <1>4, <1>5, <1>6, <1>8

LEMMA MemberTells ==
  ASSUME now \in Nat, NEW M, NEW s \in Server, NEW w \in Member(s, M)
  PROVE  /\ NotifySelf(w) \in Member(s, M)
         /\ \A p \in Mail(M) : /\ SendNext(w, p) \in Member(s, M)
                               /\ Forward(w, p) \in Member(s, M)
                               /\ Transfer(w, p) \in Member(s, M)
<1>1. \A p \in Mail(M) : SendNext(w, p) \in Member(s, M)
  BY MemberNext, MemberSends DEF SendNext
<1>2. w.id = s
  BY MemberFacts
<1>. QED
  BY <1>1, <1>2, MemberPackets, MemberFlags DEF NotifySelf, Notify, Forward, Transfer

LEMMA MemberRechains ==
  ASSUME NEW M, NEW s \in Server, NEW w \in Member(s, M), NEW new \in Server \cup {NoServer}
  PROVE  CheckRechainRing(w, new) \in Member(s, M)
<1>. DEFINE cur  == NextRing(w)
            seen == ({cur} \cup {new}) \ {NoServer, w.id}
            d    == CHOOSE t \in seen : \A u \in seen : Dist(w.id, t) <= Dist(w.id, u)
<1>1. CASE seen = {}
  BY <1>1 DEF CheckRechainRing
<1>2. CASE seen # {}
  <2>1. w.id = s /\ seen \in SUBSET Server
    BY MemberFacts, MemberNext
  <2>2. d \in Server
    <3>. HIDE DEF seen
    <3>1. \E t \in seen : \A u \in seen : Dist(w.id, t) <= Dist(w.id, u)
      BY <1>2, <2>1, FirstExists
    <3>. QED
      BY <2>1, <3>1
  <2>3. RechainRing(w, d) \in Member(s, M)
    <3>. HIDE DEF d
    <3>1. {d} \in SUBSET Server
      BY <2>2
    <3>. QED
      BY <3>1, MemberFlags DEF RechainRing
  <2>. QED
    BY <2>3 DEF CheckRechainRing
<1>. QED
  BY <1>1, <1>2

-----------------------------------------------------------------------------
(* Their handlers.                                                         *)

\* What a packet tells.
LEMMA MailFacts ==
  ASSUME NEW M, NEW p \in Mail(M)
  PROVE  /\ p.dept \in Server
         /\ p.type \in {"STATUS_CHANGE", "JOIN_RING"} => p.chm \in PlainChm(M) /\ p.chm.id \in Server
         /\ p.type = "SERVER_DOWN" => p.down \in Server
         /\ p.type = "STATUS_RES" => p.list \in PlainList(M)
         /\ \A x \in Result : [p EXCEPT !.res = x] \in Mail(M)
         /\ p.type = "STATUS_CHANGE" =>
              \A st \in Plain(M, p.chm.id) : [p EXCEPT !.chm.st = st] \in Mail(M)
         /\ p.type \in {"STATUS_CHANGE", "JOIN_RING", "SERVER_DOWN", "STATUS_REQ", "MERGE_SUSPEND",
                        "MERGE_NOSUSPEND", "STATUS_RES"}
<1>1. /\ p.dept \in Server
      /\ p.type \in {"STATUS_CHANGE", "JOIN_RING"} => p.chm \in PlainChm(M) /\ p.chm.id \in Server
      /\ p.type = "SERVER_DOWN" => p.down \in Server
      /\ p.type = "STATUS_RES" => p.list \in PlainList(M)
      /\ p.type \in {"STATUS_CHANGE", "JOIN_RING", "SERVER_DOWN", "STATUS_REQ", "MERGE_SUSPEND",
                     "MERGE_NOSUSPEND", "STATUS_RES"}
  BY DEF Mail, PlainChm, Chm
<1>2. \A x \in Result : [p EXCEPT !.res = x] \in Mail(M)
  BY DEF Mail
<1>3. ASSUME p.type = "STATUS_CHANGE", NEW st \in Plain(M, p.chm.id)
      PROVE  [p EXCEPT !.chm.st = st] \in Mail(M)
  <2>. DEFINE c == [p.chm EXCEPT !.st = st]
  <2>1. p.chm \in PlainChm(M) /\ st \in Status
    BY <1>1, <1>3 DEF Plain
  <2>2. c \in PlainChm(M)
    BY <1>3, <2>1 DEF PlainChm, Chm
  <2>. HIDE DEF c
  <2>3. [p EXCEPT !.chm = c] \in Mail(M)
    BY <1>3, <2>2 DEF Mail
  <2>. QED
    BY <2>3 DEF c
<1>. QED
  BY <1>1, <1>2, <1>3

LEMMA MemberHearsStatus ==
  ASSUME AutoMerge = FALSE, now \in Nat, NEW M, NEW s \in Server, NEW w \in Member(s, M),
         NEW p \in Mail(M), p.type = "STATUS_CHANGE"
  PROVE  ReceiveStatusChange(w, p) \in Member(s, M)
<1>1. p.chm \in PlainChm(M) /\ p.chm.id \in Server
  BY MailFacts
<1>2. StatusChangeBack(w, p) \in Member(s, M)
  <2>1. StatusChangeBack(w, p) = RetryNotice(Good(w), p)
    BY DEF StatusChangeBack, IsAutoMerge
  <2>2. Good(w) \in Member(s, M)
    BY MemberFlags
  <2>. DEFINE v == Good(w)
  <2>3. v \in Member(s, M)
    BY <2>2
  <2>. HIDE DEF v
  <2>4. RetryNotice(v, p) \in Member(s, M)
    BY <2>3, MemberStamped, MemberTells DEF RetryNotice
  <2>. QED
    BY <2>1, <2>4 DEF v
<1>3. StatusChangePass(w, p) \in Member(s, M)
  <2>. DEFINE st == IF p.chm.id = w.id THEN CorrectSelf(w, p.chm.st) ELSE p.chm.st
              q  == [p EXCEPT !.chm.st = st]
              v  == CheckRechainRing(MergeChmpxSvrs(w, p.chm), p.chm.id)
  <2>1. st \in Plain(M, p.chm.id)
    BY <1>1, MemberFacts, PlainCorrected DEF PlainChm
  <2>2. q \in Mail(M)
    <3>. HIDE DEF st
    <3>. QED
      BY <2>1, MailFacts
  <2>3. v \in Member(s, M)
    BY <1>1, MemberMerges, MemberRechains
  <2>. HIDE DEF q, v
  <2>4. Transfer(v, q) \in Member(s, M)
    BY <2>2, <2>3, MemberTells
  <2>. QED
    BY <2>4 DEF StatusChangePass, q, v
<1>. QED
  BY <1>2, <1>3 DEF ReceiveStatusChange

LEMMA MemberHearsDown ==
  ASSUME AutoMerge = FALSE, now \in Nat, NEW M, NEW s \in Server, NEW w \in Member(s, M),
         NEW p \in Mail(M), p.type = "SERVER_DOWN"
  PROVE  ReceiveServerDown(w, p) \in Member(s, M)
<1>. DEFINE w1  == [w EXCEPT !.link = @ \ {p.down}]
            st  == ChangeToDown(w1.sv[p.down].st)
            w2  == IF st = w1.sv[p.down].st THEN Good(w1) ELSE SetServerStatus(w1, p.down, st)
            res == IF w2.ok /\ p.res = "SUCCESS" THEN "SUCCESS" ELSE "ERROR"
            q   == [p EXCEPT !.res = res]
<1>1. p.down \in Server
  BY MailFacts
<1>2. w1 \in Member(s, M)
  <2>1. w.link \ {p.down} \in SUBSET Server
    BY MemberFacts
  <2>2. [w EXCEPT !.link = w.link \ {p.down}] \in Member(s, M)
    BY <2>1, MemberFlags
  <2>. QED
    BY <2>2
<1>. HIDE DEF w1
<1>3. st \in Plain(M, p.down)
  BY <1>1, <1>2, MemberFacts, PlainStatus
<1>. HIDE DEF st
<1>4. w2 \in Member(s, M)
  BY <1>1, <1>2, <1>3, MemberSets, MemberFlags
<1>5. q \in Mail(M)
  BY MailFacts DEF Result
<1>6. ReceiveServerDown(w, p) =
        IF IsDept(w, p)
        THEN IF p.res # "SUCCESS" THEN Fail(w)
             ELSE IF IsAutoMerge(w) THEN RequestServiceOut(w, p.down) ELSE Good(w)
        ELSE IF NextRing(w2) = NoServer THEN Good(w2) ELSE Forward(w2, q)
  BY DEF ReceiveServerDown, w1, st
<1>. HIDE DEF w2, q
<1>7. ~IsAutoMerge(w)
  BY DEF IsAutoMerge
<1>. QED
  BY <1>4, <1>5, <1>6, <1>7, MemberFlags, MemberTells

LEMMA MemberHearsSuspend ==
  ASSUME now \in Nat, NEW M, NEW s \in Server, NEW w \in Member(s, M), NEW p \in Mail(M)
  PROVE  /\ ReceiveMergeSuspend(w, p) \in Member(s, M)
         /\ ReceiveMergeNoSuspend(w, p) \in Member(s, M)
         /\ ReceiveMergeSuspendRes(w, w.asup) \in Member(s, M)
<1>. DEFINE a == [w EXCEPT !.asup = TRUE, !.sin = FALSE]
            b == [w EXCEPT !.asup = FALSE]
<1>1. a \in Member(s, M) /\ b \in Member(s, M) /\ Good(w) \in Member(s, M)
  BY MemberFacts, MemberFlags
<1>2. [w EXCEPT !.asup = w.asup] \in Member(s, M)
  BY DEF Member, Calmly
<1>3. /\ ReceiveMergeSuspend(w, p) \in {Good(w), Forward(a, p), Transfer(w, p)}
      /\ ReceiveMergeNoSuspend(w, p) \in {Good(w), Forward(b, p), Transfer(w, p)}
  BY DEF ReceiveMergeSuspend, ReceiveMergeNoSuspend
<1>. HIDE DEF a, b
<1>. QED
  BY <1>1, <1>2, <1>3, MemberTells DEF ReceiveMergeSuspendRes

LEMMA MemberHearsJoin ==
  ASSUME AutoMerge = FALSE, now \in Nat, NEW M, NEW s \in Server, NEW w \in Member(s, M),
         NEW p \in Mail(M)
  PROVE  /\ p.type = "JOIN_RING" => ReceiveJoinRing(w, p) \in Member(s, M)
         /\ p.type = "STATUS_REQ" => AnswerStatusReq(w, p) \in Member(s, M)
         /\ p.type = "STATUS_RES" => ReceiveStatusRes(w, p) \in Member(s, M)
<1>1. ASSUME p.type = "JOIN_RING" PROVE ReceiveJoinRing(w, p) \in Member(s, M)
  <2>1. JoinRingBack(w) \in Member(s, M)
    BY MemberPackets, MemberTells, MemberFlags DEF JoinRingBack
  <2>2. JoinRingPass(w, p) \in Member(s, M)
    <3>. DEFINE w1 == MergeChmpxSvrs(w, p.chm)
                d  == IF IsRechain(w1, p.chm.id) THEN p.chm.id ELSE NextRing(w1)
                w2 == CheckRechainRing(w1, p.chm.id)
    <3>1. p.chm \in PlainChm(M) /\ p.chm.id \in Server
      BY <1>1, MailFacts
    <3>2. w1 \in Member(s, M)
      BY <3>1, MemberMerges
    <3>. HIDE DEF w1
    <3>3. w2 \in Member(s, M) /\ d \in Server \cup {NoServer}
      BY <3>1, <3>2, MemberRechains, MemberNext
    <3>4. JoinRingPass(w, p) \in {Fail(w2), Send(w2, d, p), Good(w2)}
      BY DEF JoinRingPass, w1
    <3>. HIDE DEF w2, d
    <3>5. Send(w2, d, p) \in Member(s, M)
      BY <3>3, MemberSends
    <3>6. Fail(w2) \in Member(s, M) /\ Good(w2) \in Member(s, M)
      BY <3>3, MemberFlags
    <3>. QED
      BY <3>4, <3>5, <3>6
  <2>. QED
    BY <2>1, <2>2 DEF ReceiveJoinRing
<1>2. AnswerStatusReq(w, p) \in Member(s, M)
  <2>. DEFINE v == ReceiveStatusReq(w)
  <2>1. v \in Member(s, M) /\ p.dept \in Server
    BY MemberStamped, MailFacts DEF ReceiveStatusReq
  <2>. HIDE DEF v
  <2>2. Send(v, p.dept, StatusRes(v)) \in Member(s, M)
    BY <2>1, MemberPackets, MemberSends
  <2>. QED
    BY <2>2 DEF AnswerStatusReq, v
<1>3. ASSUME p.type = "STATUS_RES" PROVE ReceiveStatusRes(w, p) \in Member(s, M)
  <2>. DEFINE v == MergeList(w, p.list)
  <2>1. v \in Member(s, M)
    BY <1>3, MailFacts, MemberFacts, MemberListed
  <2>. HIDE DEF v
  <2>2. AnnounceJoin(v) \in Member(s, M)
    BY <2>1, MemberStamped, MemberTells, MemberFlags DEF AnnounceJoin
  <2>3. ReceiveStatusRes(w, p) = AnnounceJoin(v)
    BY DEF ReceiveStatusRes, IsAutoMerge, v
  <2>. QED
    BY <2>2, <2>3
<1>. QED
  BY <1>1, <1>2, <1>3

\* A server whose next one has died, the commands, and the entry into the RING.
LEMMA MemberActs ==
  ASSUME AutoMerge = FALSE, now \in Nat, NEW M, NEW s \in Server, NEW w \in Member(s, M)
  PROVE  /\ \A t \in Server : ServerDownNotifyHup(w, t) \in Member(s, M)
         /\ RequestMergeSuspend(w) \in Member(s, M)
         /\ RequestMergeNoSuspend(w) \in Member(s, M)
         /\ ConnectRing(SetSelfStatus(w, StartStatus(Self(w)))) \in Member(s, M)
<1>1. ASSUME NEW t \in Server PROVE ServerDownNotifyHup(w, t) \in Member(s, M)
  <2>. DEFINE w1 == [w EXCEPT !.link = @ \ {t}]
              st == ChangeToDown(w.sv[t].st)
              v  == SetServerStatus(w1, t, st)
              c  == CheckRechainRing(v, NextRing(v))
  <2>1. w1 \in Member(s, M)
    <3>1. w.link \ {t} \in SUBSET Server
      BY MemberFacts
    <3>2. [w EXCEPT !.link = w.link \ {t}] \in Member(s, M)
      BY <3>1, MemberFlags
    <3>. QED
      BY <3>2
  <2>2. st \in Plain(M, t)
    BY MemberFacts, PlainStatus
  <2>3. v \in Member(s, M)
    <3>. HIDE DEF w1, st
    <3>. QED
      BY <2>1, <2>2, MemberSets
  <2>4. ~w.oper
    BY MemberFacts
  <2>5. ServerDownNotifyHup(w, t) \in {Good(w1), PublishDown(v, t, w.oper)}
    BY DEF ServerDownNotifyHup
  <2>. HIDE DEF w1, st, v
  <2>6. c \in Member(s, M)
    BY <2>3, MemberRechains, MemberNext
  <2>7. PublishDown(v, t, w.oper) \in {SendNext(c, ServerDown(v, t)), Good(v)}
    <3>1. ~IsAutoMerge(Good(v))
      BY DEF IsAutoMerge
    <3>. QED
      BY <2>4, <3>1 DEF PublishDown, AbortSignal, AutoServiceOut
  <2>. HIDE DEF c
  <2>8. PublishDown(v, t, w.oper) \in Member(s, M)
    BY <2>3, <2>6, <2>7, MemberPackets, MemberTells, MemberFlags
  <2>. QED
    BY <2>1, <2>5, <2>8, MemberFlags
<1>2. RequestMergeSuspend(w) \in Member(s, M)
  <2>. DEFINE a == [w EXCEPT !.asup = TRUE, !.sin = FALSE]
  <2>1. a \in Member(s, M)
    BY MemberFlags
  <2>2. RequestMergeSuspend(w) \in {Good(a), SendNext(a, Signal(a, "MERGE_SUSPEND"))}
    BY DEF RequestMergeSuspend
  <2>. HIDE DEF a
  <2>. QED
    BY <2>1, <2>2, MemberFlags, MemberPackets, MemberTells
<1>3. RequestMergeNoSuspend(w) \in Member(s, M)
  <2>. DEFINE a == [w EXCEPT !.asup = FALSE]
  <2>1. a \in Member(s, M)
    BY MemberFlags
  <2>2. RequestMergeNoSuspend(w) \in {Good(a), SendNext(a, Signal(a, "MERGE_NOSUSPEND"))}
    BY DEF RequestMergeNoSuspend
  <2>. HIDE DEF a
  <2>. QED
    BY <2>1, <2>2, MemberFlags, MemberPackets, MemberTells
<1>4. ConnectRing(SetSelfStatus(w, StartStatus(Self(w)))) \in Member(s, M)
  <2>. DEFINE v == SetSelfStatus(w, StartStatus(Self(w)))
              u == UpdateSelfLastStatusTime(v)
  <2>1. v \in Member(s, M)
    BY MemberFacts, PlainStatus, MemberSets
  <2>. HIDE DEF v
  <2>2. u \in Member(s, M)
    BY <2>1, MemberStamped
  <2>3. ChainTo(v) \in Server \cup {NoServer}
    <3>. DEFINE S == {t \in UpOthers(v) : up[t]}
    <3>1. S \subseteq Server /\ v.id = s
      BY <2>1, MemberFacts DEF UpOthers
    <3>2. CASE S # {}
      <4>1. \E t \in S : \A x \in S : Dist(s, t) <= Dist(s, x)
        <5>. HIDE DEF S
        <5>. QED
          BY <3>1, <3>2, FirstExists
      <4>. HIDE DEF S
      <4>2. ChainTo(v) = CHOOSE t \in S : \A x \in S : Dist(v.id, t) <= Dist(v.id, x)
        BY <3>2 DEF ChainTo, S
      <4>. QED
        BY <3>1, <4>1, <4>2
    <3>. QED
      BY <3>2 DEF ChainTo
  <2>4. ConnectRing(v) \in {Good(v), Send(u, ChainTo(v), JoinRing(u))}
    BY DEF ConnectRing, SendJoinRing
  <2>. HIDE DEF u
  <2>5. JoinRing(u) \in Mail(M)
    BY <2>2, MemberPackets
  <2>6. Send(u, ChainTo(v), JoinRing(u)) \in Member(s, M)
    BY <2>2, <2>3, <2>5, MemberSends
  <2>7. Good(v) \in Member(s, M)
    BY <2>1, MemberFlags
  <2>8. ConnectRing(v) \in Member(s, M)
    BY <2>4, <2>6, <2>7
  <2>. QED
    BY <2>8 DEF v
<1>. QED
  BY <1>1, <1>2, <1>3, <1>4

-----------------------------------------------------------------------------
(* All agree on who is in service.                                         *)

Begun(s) == pc[s] \notin {"down", "run"}

\* A table as the configuration makes it.
Unheard(w) == \A t \in Server : w.sv[t].st = SRVOUT_DOWN_NORMAL /\ w.sv[t].ts = 0

\* Running servers, and those that have asked one, agree on M; a server that still asks
\* will find one to ask, unless there was none when it started: then nobody is in
\* service, as in its own table.
OneService(M) ==
  /\ \A s \in Server :
       /\ node[s] \in Anyhow(s, M)
       /\ pc[s] \in {"run", "suspend", "ring"} => node[s] \in Member(s, M)
       /\ pc[s] \in {"connect", "status"} => Unheard(node[s])
       /\ pc[s] = "connect" => M = {} \/ \E t \in Running : t # s /\ t >= peer[s]
       /\ Begun(s) => M = {} \/ Running # {}
       /\ up[s] <=> pc[s] = "run"
  /\ node = [s \in Server |-> node[s]]
  /\ up \in [Server -> BOOLEAN] /\ pc \in [Server -> Phase] /\ peer \in [Server -> Server]
  /\ now \in Nat

LEMMA MailsGrow ==
  ASSUME NEW M, NEW s \in Server, \A t \in Server : up[t] => up'[t]
  PROVE  /\ \A w \in Anyhow(s, M) : w \in Anyhow(s, M)'
         /\ \A w \in Member(s, M) : w \in Member(s, M)'
<1>1. \A o \in Mails(M) : o \in Mails(M)'
  BY DEF Mails
<1>. QED
  BY <1>1 DEF Anyhow, Member, Calmly

\* What steps of the running servers keep.
LEMMA ServiceKept ==
  ASSUME NEW M, OneService(M), UNCHANGED <<up, jvars>>, now' \in Nat,
         node' = [s \in Server |-> node'[s]],
         \A s \in Server :
           /\ node'[s] \in Anyhow(s, M)
           /\ pc[s] \in {"run", "suspend", "ring"} => node'[s] \in Member(s, M)
           /\ pc[s] \in {"connect", "status"} => node'[s].sv = node[s].sv
  PROVE  OneService(M)'
<1>1. up' = up /\ pc' = pc /\ peer' = peer
  BY DEF jvars
<1>2. ASSUME NEW s \in Server
      PROVE  /\ node'[s] \in Anyhow(s, M)'
             /\ pc'[s] \in {"run", "suspend", "ring"} => node'[s] \in Member(s, M)'
             /\ pc'[s] \in {"connect", "status"} => Unheard(node'[s])
  BY <1>1, MailsGrow DEF OneService, Unheard
<1>. QED
  BY <1>1, <1>2 DEF OneService, Begun, Running, Unheard

LEMMA BecomesKept ==
  ASSUME NEW M, OneService(M), UNCHANGED <<up, jvars>>, now' \in Nat,
         NEW s \in Server, up[s], NEW w \in Member(s, M), Becomes(s, w)
  PROVE  OneService(M)'
<1>1. Good(w) \in Member(s, M) /\ Good(w) \in Anyhow(s, M) /\ pc[s] = "run"
  BY MemberFlags, MemberFacts DEF OneService
<1>2. node' = [node EXCEPT ![s] = Good(w)]
  BY DEF Becomes
<1>. DEFINE g == Good(w)
<1>3. g \in Member(s, M) /\ g \in Anyhow(s, M) /\ node' = [node EXCEPT ![s] = g]
  BY <1>1, <1>2
<1>. HIDE DEF g
<1>4. node = [t \in Server |-> node[t]]
  BY DEF OneService
<1>5. /\ node' = [t \in Server |-> node'[t]]
      /\ node'[s] = g /\ \A t \in Server \ {s} : node'[t] = node[t]
  BY <1>3, <1>4
<1>. QED
  BY <1>1, <1>3, <1>5, ServiceKept DEF OneService

\* Nothing but the sockets of a server has changed.
Leaves(s, M, w, n) ==
  n \in Anyhow(s, M) /\ n.sv = w.sv /\ (w \in Member(s, M) => n \in Member(s, M))

\* What is on a socket, without its first packet, or nothing.
LEMMA MailRest ==
  ASSUME NEW M, NEW s \in Server, NEW w \in Anyhow(s, M), NEW t \in Server, w.out[t] # << >>
  PROVE  /\ Head(w.out[t]) \in Mail(M)
         /\ \A q \in {Tail(w.out[t]), << >>} : Leaves(s, M, w, [w EXCEPT !.out[t] = q])
<1>1. w.out \in [Server -> Seq(Mail(M))] /\ \A u \in Server : up[u] \/ w.out[u] = << >>
  BY DEF Anyhow, Calmly, Mails
<1>2. w.out[t] \in Seq(Mail(M)) /\ up[t]
  BY <1>1
<1>3. Head(w.out[t]) \in Mail(M) /\ Tail(w.out[t]) \in Seq(Mail(M)) /\ << >> \in Seq(Mail(M))
  BY <1>2, HeadTailProperties
<1>4. ASSUME NEW q \in Seq(Mail(M))
      PROVE  Leaves(s, M, w, [w EXCEPT !.out[t] = q])
  <2>. DEFINE o == [w.out EXCEPT ![t] = q]
  <2>1. o \in Mails(M)
    BY <1>1, <1>2 DEF Mails
  <2>2. [w EXCEPT !.out[t] = q] = [w EXCEPT !.out = o]
    BY DEF Anyhow, Calmly
  <2>. HIDE DEF o
  <2>. QED
    BY <2>1, <2>2 DEF Anyhow, Member, Calmly, Leaves
<1>. HIDE DEF Leaves
<1>. QED
  BY <1>3, <1>4

LEMMA RecvKept ==
  ASSUME NEW M, OneService(M), UNCHANGED jvars, NEW s \in Server, NEW t \in Server,
         NEW type, NEW w \in Member(t, M), Recv(s, t, type, w)
  PROVE  OneService(M)'
<1>. DEFINE n == [node[s] EXCEPT !.out[t] = Tail(node[s].out[t])]
            g == Good(w)
<1>1. node[s] \in Anyhow(s, M) /\ node[s].out[t] # << >> /\ up[t] /\ pc[t] = "run"
  BY DEF OneService, Recv
<1>2. Leaves(s, M, node[s], n)
  <2>. DEFINE b == node[s]
              q == Tail(b.out[t])
  <2>1. b \in Anyhow(s, M) /\ b.out[t] # << >> /\ q \in {Tail(b.out[t]), << >>}
    BY <1>1
  <2>. HIDE DEF b
  <2>2. Leaves(s, M, b, [b EXCEPT !.out[t] = q])
    BY <2>1, MailRest
  <2>. QED
    BY <2>2 DEF b
<1>3. g \in Member(t, M) /\ g \in Anyhow(t, M)
  BY MemberFlags, MemberFacts
<1>4. node = [u \in Server |-> node[u]]
  BY DEF OneService
<1>5. node' = [[node EXCEPT ![s] = n] EXCEPT ![t] = g]
  BY <1>4 DEF Recv
<1>. HIDE DEF n, g
<1>6. /\ node' = [u \in Server |-> node'[u]]
      /\ node'[t] = g /\ (s # t => node'[s] = n)
      /\ \A u \in Server \ {s, t} : node'[u] = node[u]
  BY <1>4, <1>5
<1>7. UNCHANGED <<up, jvars>> /\ now' \in Nat
  BY DEF Recv, OneService
<1>8. ASSUME NEW u \in Server
      PROVE  /\ node'[u] \in Anyhow(u, M)
             /\ pc[u] \in {"run", "suspend", "ring"} => node'[u] \in Member(u, M)
             /\ pc[u] \in {"connect", "status"} => node'[u].sv = node[u].sv
  <2>1. CASE u = t
    BY <1>1, <1>3, <1>6, <2>1
  <2>2. CASE u = s /\ s # t
    BY <1>2, <1>6, <2>2 DEF OneService, Leaves
  <2>3. CASE u # s /\ u # t
    BY <1>6, <2>3 DEF OneService
  <2>. QED
    BY <2>1, <2>2, <2>3
<1>. QED
  BY <1>6, <1>7, <1>8, ServiceKept

\* Nobody asks for anything but the suspend mode.
LowKey == AutoMerge = FALSE /\ Cmds \subseteq {"SUSPEND", "NOSUSPEND"}

LEMMA ReadKept ==
  ASSUME LowKey, NEW M, OneService(M), NEW s \in Server, NEW t \in Server,
         \/ RecvAny(s, t) /\ UNCHANGED jvars
         \/ RecvJoinRing(s, t) \/ RecvStatusReq(s, t) \/ RecvStatusRes(s, t)
  PROVE  OneService(M)'
<1>. DEFINE p == Unread(s, t)
            w == node[t]
<1>1. ASSUME NEW type, NEW v, Recv(s, t, type, v)
      PROVE  p \in Mail(M) /\ p.type = type /\ w \in Member(t, M)
  BY <1>1, MailRest DEF Recv, Unread, OneService
<1>2. now \in Nat /\ AutoMerge = FALSE
  BY DEF OneService, LowKey
<1>. HIDE DEF p, w
<1>3. CASE RecvStatusChange(s, t) /\ UNCHANGED jvars
  <2>1. Recv(s, t, "STATUS_CHANGE", ReceiveStatusChange(w, p))
    BY <1>3 DEF RecvStatusChange, p, w
  <2>2. ReceiveStatusChange(w, p) \in Member(t, M)
    BY <1>1, <1>2, <2>1, MemberHearsStatus
  <2>. QED
    BY <1>3, <2>1, <2>2, RecvKept
<1>4. CASE RecvServerDown(s, t) /\ UNCHANGED jvars
  <2>1. Recv(s, t, "SERVER_DOWN", ReceiveServerDown(w, p))
    BY <1>4 DEF RecvServerDown, p, w
  <2>2. ReceiveServerDown(w, p) \in Member(t, M)
    BY <1>1, <1>2, <2>1, MemberHearsDown
  <2>. QED
    BY <1>4, <2>1, <2>2, RecvKept
<1>5. CASE RecvMergeSuspend(s, t) /\ UNCHANGED jvars
  <2>1. Recv(s, t, "MERGE_SUSPEND", ReceiveMergeSuspend(w, p))
    BY <1>5 DEF RecvMergeSuspend, p, w
  <2>2. ReceiveMergeSuspend(w, p) \in Member(t, M)
    BY <1>1, <1>2, <2>1, MemberHearsSuspend
  <2>. QED
    BY <1>5, <2>1, <2>2, RecvKept
<1>6. CASE RecvMergeNoSuspend(s, t) /\ UNCHANGED jvars
  <2>1. Recv(s, t, "MERGE_NOSUSPEND", ReceiveMergeNoSuspend(w, p))
    BY <1>6 DEF RecvMergeNoSuspend, p, w
  <2>2. ReceiveMergeNoSuspend(w, p) \in Member(t, M)
    BY <1>1, <1>2, <2>1, MemberHearsSuspend
  <2>. QED
    BY <1>6, <2>1, <2>2, RecvKept
<1>7. CASE RecvJoinRing(s, t)
  <2>1. Recv(s, t, "JOIN_RING", ReceiveJoinRing(w, p)) /\ UNCHANGED jvars
    BY <1>7 DEF RecvJoinRing, p, w
  <2>2. ReceiveJoinRing(w, p) \in Member(t, M)
    BY <1>1, <1>2, <2>1, MemberHearsJoin
  <2>. QED
    BY <2>1, <2>2, RecvKept
<1>8. CASE RecvStatusReq(s, t)
  <2>1. Recv(s, t, "STATUS_REQ", AnswerStatusReq(w, p)) /\ UNCHANGED jvars
    BY <1>8 DEF RecvStatusReq, p, w
  <2>2. AnswerStatusReq(w, p) \in Member(t, M)
    BY <1>1, <1>2, <2>1, MemberHearsJoin
  <2>. QED
    BY <2>1, <2>2, RecvKept
<1>9. CASE RecvStatusRes(s, t)
  <2>1. Recv(s, t, "STATUS_RES", ReceiveStatusRes(w, p)) /\ UNCHANGED jvars
    BY <1>9 DEF RecvStatusRes, p, w
  <2>2. ReceiveStatusRes(w, p) \in Member(t, M)
    BY <1>1, <1>2, <2>1, MemberHearsJoin
  <2>. QED
    BY <2>1, <2>2, RecvKept
<1>10. CASE \/ RecvStatusConfirm(s, t) \/ RecvMergeStart(s, t) \/ RecvMergeAbort(s, t)
            \/ RecvMergeComplete(s, t)
  <2>1. PICK type, v :
          /\ Recv(s, t, type, v)
          /\ type \in {"STATUS_CONFIRM", "MERGE_START", "MERGE_ABORT", "MERGE_COMPLETE"}
    BY <1>10 DEF RecvStatusConfirm, RecvMergeStart, RecvMergeAbort, RecvMergeComplete
  <2>. QED
    BY <1>1, <2>1, MailFacts
<1>. QED
  BY <1>3, <1>4, <1>5, <1>6, <1>7, <1>8, <1>9, <1>10 DEF RecvAny

\* The other steps of a running server.
LEMMA RingKept ==
  ASSUME LowKey, NEW M, OneService(M), RingStep
  PROVE  OneService(M)'
<1>1. UNCHANGED jvars /\ now \in Nat /\ AutoMerge = FALSE
  BY DEF RingStep, OneService, LowKey
<1>2. CASE \E s, t \in Server : RecvAny(s, t)
  BY <1>1, <1>2, ReadKept
<1>3. ASSUME NEW s \in Server, NEW t \in Server, DropStream(s, t) PROVE OneService(M)'
  <2>. DEFINE n == [node[s] EXCEPT !.out[t] = << >>]
  <2>1. node[s] \in Anyhow(s, M) /\ node[s].out[t] # << >>
    BY <1>3 DEF OneService, DropStream
  <2>2. Leaves(s, M, node[s], n)
    <3>. DEFINE b == node[s]
    <3>1. b \in Anyhow(s, M) /\ b.out[t] # << >> /\ << >> \in {Tail(b.out[t]), << >>}
      BY <2>1
    <3>. HIDE DEF b
    <3>2. Leaves(s, M, b, [b EXCEPT !.out[t] = << >>])
      BY <3>1, MailRest
    <3>. QED
      BY <3>2 DEF b
  <2>3. node = [u \in Server |-> node[u]]
    BY DEF OneService
  <2>4. node' = [node EXCEPT ![s] = n]
    BY <1>3, <2>3 DEF DropStream
  <2>. HIDE DEF n
  <2>5. /\ node' = [u \in Server |-> node'[u]]
        /\ node'[s] = n /\ \A u \in Server \ {s} : node'[u] = node[u]
    BY <2>3, <2>4
  <2>6. UNCHANGED <<up, jvars>> /\ now' \in Nat
    BY <1>1, <1>3 DEF DropStream
  <2>7. ASSUME NEW u \in Server
        PROVE  /\ node'[u] \in Anyhow(u, M)
               /\ pc[u] \in {"run", "suspend", "ring"} => node'[u] \in Member(u, M)
               /\ pc[u] \in {"connect", "status"} => node'[u].sv = node[u].sv
    BY <2>2, <2>5 DEF OneService, Leaves
  <2>. QED
    BY <2>5, <2>6, <2>7, ServiceKept
<1>4. ASSUME NEW s \in Server, NEW t \in Server, NotifyHup(s, t) PROVE OneService(M)'
  <2>1. node[t] \in Member(t, M) /\ up[t] /\ UNCHANGED <<up, now>>
    BY <1>4 DEF NotifyHup, OneService
  <2>2. ServerDownNotifyHup(node[t], s) \in Member(t, M)
    BY <1>1, <2>1, MemberActs
  <2>. QED
    BY <1>1, <1>4, <2>1, <2>2, BecomesKept DEF NotifyHup
<1>5. ASSUME NEW s \in Server, CmdAny(s) PROVE OneService(M)'
  <2>1. ASSUME NEW cmd, NEW w, Command(s, cmd, w)
        PROVE  cmd \in {"SUSPEND", "NOSUSPEND"} /\ up[s] /\ Becomes(s, w) /\ UNCHANGED <<up, now>>
               /\ node[s] \in Member(s, M)
    BY <2>1 DEF Command, LowKey, OneService
  <2>2. CmdSuspend(s) \/ CmdNoSuspend(s)
    BY <1>5, <2>1 DEF CmdAny, CmdServiceIn, CmdServiceOut, CmdMergeStart, CmdMergeAbort,
                      CmdMergeComplete, CmdUpdateStatus, ClientJoin, ClientLeave
  <2>3. CASE CmdSuspend(s)
    <3>1. RequestMergeSuspend(node[s]) \in Member(s, M)
      BY <1>1, <2>1, <2>3, MemberActs DEF CmdSuspend
    <3>. QED
      BY <1>1, <2>1, <2>3, <3>1, BecomesKept DEF CmdSuspend
  <2>4. CASE CmdNoSuspend(s)
    <3>1. RequestMergeNoSuspend(node[s]) \in Member(s, M)
      BY <1>1, <2>1, <2>4, MemberActs DEF CmdNoSuspend
    <3>. QED
      BY <1>1, <2>1, <2>4, <3>1, BecomesKept DEF CmdNoSuspend
  <2>. QED
    BY <2>2, <2>3, <2>4
<1>6. ASSUME NEW s \in Server, RecvJoinNotify(s) \/ CloseNotify(s) \/ MergeWorker(s) PROVE FALSE
  <2>1. node[s] \in Anyhow(s, M)
    BY DEF OneService
  <2>2. ~node[s].jn /\ ~node[s].cls /\ node[s].wk = 0 /\ node[s].wst = "idle"
    BY <2>1 DEF Anyhow, Calmly
  <2>. QED
    BY <1>6, <2>2 DEF RecvJoinNotify, CloseNotify, MergeWorker
<1>7. CASE Tick
  <2>1. UNCHANGED <<up, jvars>> /\ now' \in Nat /\ node' = node
    BY <1>1, <1>7 DEF Tick
  <2>. QED
    BY <2>1, ServiceKept DEF OneService
<1>. QED
  BY <1>2, <1>3, <1>4, <1>5, <1>6, <1>7 DEF RingStep

\* What a step of the start of server s keeps: another one may answer it, none dies.
LEMMA StartingKept ==
  ASSUME NEW M, OneService(M), NEW s \in Server,
         \A u \in Server : up[u] => up'[u],
         \A u \in Server \ {s} :
           /\ up'[u] = up[u] /\ pc'[u] = pc[u] /\ peer'[u] = peer[u]
           /\ node'[u] = node[u] \/ (up[u] /\ node'[u] \in Member(u, M)),
         node'[s] \in Anyhow(s, M),
         pc'[s] \in {"run", "suspend", "ring"} => node'[s] \in Member(s, M),
         pc'[s] \in {"connect", "status"} => Unheard(node'[s]),
         pc'[s] = "connect" => M = {} \/ \E t \in Running : t # s /\ t >= peer'[s],
         Begun(s)' => M = {} \/ Running # {},
         up'[s] <=> pc'[s] = "run",
         node' = [u \in Server |-> node'[u]],
         up' \in [Server -> BOOLEAN], pc' \in [Server -> Phase], peer' \in [Server -> Server],
         now' \in Nat
  PROVE  OneService(M)'
<1>1. Running \subseteq Running'
  BY DEF Running
<1>2. ASSUME NEW u \in Server \ {s}
      PROVE  /\ node'[u] \in Anyhow(u, M)
             /\ pc'[u] \in {"run", "suspend", "ring"} => node'[u] \in Member(u, M)
             /\ pc'[u] \in {"connect", "status"} => Unheard(node'[u])
  BY MemberFacts DEF OneService
<1>3. \A u \in Server : /\ node'[u] \in Anyhow(u, M)'
                        /\ pc'[u] \in {"run", "suspend", "ring"} => node'[u] \in Member(u, M)'
  BY <1>2, MailsGrow
<1>4. ASSUME NEW u \in Server
      PROVE  /\ pc'[u] = "connect" => M = {} \/ \E t \in Running' : t # u /\ t >= peer'[u]
             /\ Begun(u)' => M = {} \/ Running' # {}
             /\ up'[u] <=> pc'[u] = "run"
             /\ pc'[u] \in {"connect", "status"} => Unheard(node'[u])
  <2>1. CASE u = s
    BY <1>1, <2>1
  <2>2. CASE u # s
    BY <1>1, <1>2, <2>2 DEF OneService, Begun
  <2>. QED
    BY <2>1, <2>2
<1>. QED
  BY <1>3, <1>4 DEF OneService, Unheard

\* The process of the configuration's table is calm and has heard nothing.
LEMMA FreshFacts ==
  ASSUME NEW M, NEW s \in Server
  PROVE  /\ FreshNode(s) \in Anyhow(s, M) /\ Unheard(FreshNode(s))
         /\ FreshNode(s).out = [t \in Server |-> << >>]
<1>. DEFINE sv == [t \in Server |->
                     [st |-> SRVOUT_DOWN_NORMAL, bh |-> NoHash, ph |-> NoHash, ts |-> 0]]
            o  == [t \in Server |-> << >>]
<1>1. sv \in [Server -> Entry]
  BY NAssumption DEF Entry, Hash, NoHash, SRVOUT_DOWN_NORMAL, Sts, Status, Live, Ring, Act,
                     Operate, Suspend
<1>2. o \in Mails(M)
  BY DEF Mails
<1>3. Cardinality({}) = 0
  BY FS_EmptySet
<1>4. (s \in {}) \in BOOLEAN /\ (AutoMerge /\ s \notin {} \cup {}) \in BOOLEAN
  BY ConfAssumption
<1>5. FreshNode(s) = [InitNode(s, {}, {}) EXCEPT !.sv = sv, !.link = {}]
  BY DEF FreshNode
<1>. HIDE DEF sv
<1>6. FreshNode(s) =
        [id |-> s, sv |-> sv, bcnt |-> Cardinality({}), oper |-> FALSE, join |-> s \in {},
         ok |-> TRUE,
         asup |-> FALSE, sin |-> AutoMerge /\ s \notin {} \cup {}, mdp |-> FALSE,
         run |-> FALSE, wk |-> 0, wst |-> "idle", cls |-> FALSE, jn |-> FALSE,
         link |-> {}, out |-> o]
  BY <1>5 DEF InitNode
<1>7. \A t \in Server : sv[t].st = SRVOUT_DOWN_NORMAL /\ sv[t].ts = 0
  BY DEF sv
<1>. HIDE DEF o
<1>8. FreshNode(s) \in Anyhow(s, M) /\ FreshNode(s).out = o /\ FreshNode(s).sv = sv
  BY <1>1, <1>2, <1>3, <1>4, <1>6 DEF Anyhow, Calmly
<1>. QED
  BY <1>7, <1>8 DEF Unheard, o

\* Without a running server nobody is bound to what was agreed on before.
LEMMA StartedKept ==
  ASSUME NEW M \in SUBSET Server, OneService(M), NEW s \in Server, Start(s)
  PROVE  \E K \in SUBSET Server : OneService(K)' /\ (K = M \/ Running = {})
<1>. DEFINE f == FreshNode(s)
<1>1. /\ node = [u \in Server |-> node[u]] /\ up \in [Server -> BOOLEAN] /\ pc \in [Server -> Phase]
      /\ peer \in [Server -> Server] /\ now \in Nat
  BY DEF OneService
<1>2. /\ node' = [node EXCEPT ![s] = f] /\ pc' = [pc EXCEPT ![s] = "connect"]
      /\ peer' = [peer EXCEPT ![s] = 1] /\ up' = up /\ now' = now /\ pc[s] = "down"
  BY DEF Start
<1>3. 1 \in Server /\ "connect" \in Phase
  BY NAssumption DEF Server, Phase
<1>4. \A K : f \in Anyhow(s, K) /\ Unheard(f)
  BY FreshFacts
<1>. HIDE DEF f
<1>5. /\ node' = [u \in Server |-> node'[u]] /\ pc' \in [Server -> Phase]
      /\ peer' \in [Server -> Server]
      /\ node'[s] = f /\ pc'[s] = "connect" /\ peer'[s] = 1
      /\ \A u \in Server \ {s} : node'[u] = node[u] /\ pc'[u] = pc[u] /\ peer'[u] = peer[u]
  BY <1>1, <1>2, <1>3
<1>6. ~up[s]
  BY <1>2 DEF OneService
<1>7. CASE Running # {}
  <2>1. \E t \in Running : t # s /\ t >= 1
    BY <1>6, <1>7, NAssumption DEF Running, Server
  <2>2. OneService(M)'
    BY <1>1, <1>2, <1>4, <1>5, <1>6, <1>7, <2>1, StartingKept
  <2>. QED
    BY <2>2
<1>8. CASE Running = {}
  <2>1. \A u \in Server : ~up[u]
    BY <1>8 DEF Running
  <2>2. \A u \in Server : node[u] \in Anyhow(u, {})
    <3>1. ASSUME NEW o \in Mails(M) PROVE o \in Mails({})
      <4>1. o = [t \in Server |-> << >>]
        BY <2>1 DEF Mails
      <4>. QED
        BY <4>1 DEF Mails
    <3>. QED
      BY <3>1 DEF OneService, Anyhow, Calmly
  <2>3. \A u \in Server : Begun(u) => M = {}
    BY <1>8 DEF OneService
  <2>4. OneService({})
    BY <1>1, <2>1, <2>2, <2>3 DEF OneService, Begun
  <2>5. OneService({})'
    BY <1>1, <1>2, <1>4, <1>5, <1>6, <2>4, StartingKept
  <2>. QED
    BY <1>8, <2>5
<1>. QED
  BY <1>7, <1>8

LEMMA BootKept ==
  ASSUME LowKey, NEW M, OneService(M), NEW s \in Server, Boot(s)
  PROVE  OneService(M)'
<1>1. /\ node = [u \in Server |-> node[u]] /\ up \in [Server -> BOOLEAN] /\ pc \in [Server -> Phase]
      /\ peer \in [Server -> Server] /\ now \in Nat /\ AutoMerge = FALSE
      /\ node[s] \in Anyhow(s, M) /\ peer[s] \in Server /\ (up[s] <=> pc[s] = "run")
      /\ Begun(s) => M = {} \/ Running # {}
  BY DEF OneService, LowKey
<1>2. CASE InitialConnect(s)
  <2>. DEFINE answers == peer[s] # s /\ up[peer[s]]
  <2>1. /\ pc[s] = "connect" /\ node' = node /\ up' = up /\ now' = now
        /\ pc' = [pc EXCEPT ![s] = IF answers THEN "status" ELSE IF peer[s] = N THEN "ring" ELSE @]
        /\ peer' = [peer EXCEPT ![s] = IF answers \/ peer[s] = N THEN @ ELSE @ + 1]
    BY <1>2 DEF InitialConnect, vars
  <2>2. /\ Unheard(node[s]) /\ (M = {} \/ \E t \in Running : t # s /\ t >= peer[s])
        /\ (M = {} \/ Running # {}) /\ ~up[s]
    BY <1>1, <2>1 DEF OneService, Begun
  <2>3. \/ pc'[s] = "status" /\ peer'[s] = peer[s]
        \/ ~answers /\ pc'[s] = "ring" /\ peer[s] = N /\ peer'[s] = peer[s]
        \/ ~answers /\ pc'[s] = "connect" /\ peer[s] # N /\ peer'[s] = peer[s] + 1
    BY <1>1, <2>1
  <2>4. ~answers => M = {} \/ \E t \in Running : t # s /\ t >= peer[s] + 1
    BY <1>1, <2>2 DEF Running, Server
  <2>5. pc'[s] = "ring" => node[s] \in Member(s, M)
    <3>1. pc'[s] = "ring" => M = {}
      BY <2>3, <2>4, NAssumption DEF Running, Server
    <3>2. node[s].sv \in [Server -> Entry] /\ SRVOUT_DOWN_NORMAL \in Plain({}, s)
          /\ \A t \in Server : SRVOUT_DOWN_NORMAL \in Plain({}, t)
      BY <1>1 DEF Anyhow, Calmly, Plain, SRVOUT_DOWN_NORMAL, Status, Live, Ring, Act, Operate,
                  Suspend, IsOperatingSt, Sts
    <3>3. node[s].sv \in PlainTable({})
      BY <2>2, <3>2 DEF Unheard, PlainTable
    <3>. QED
      BY <1>1, <3>1, <3>3 DEF Anyhow, Member, Calmly
  <2>6. pc' \in [Server -> Phase] /\ peer' \in [Server -> Server]
    <3>1. peer[s] # N => peer[s] + 1 \in Server
      BY <1>1, NAssumption DEF Server
    <3>. QED
      BY <1>1, <2>1, <3>1 DEF Phase
  <2>7. \A u \in Server \ {s} : node'[u] = node[u] /\ pc'[u] = pc[u] /\ peer'[u] = peer[u]
    BY <1>1, <2>1
  <2>. HIDE DEF answers
  <2>8. /\ pc'[s] \in {"run", "suspend", "ring"} => node'[s] \in Member(s, M)
        /\ pc'[s] \in {"connect", "status"} => Unheard(node'[s])
        /\ pc'[s] = "connect" => M = {} \/ \E t \in Running : t # s /\ t >= peer'[s]
        /\ Begun(s)' => M = {} \/ Running # {}
        /\ up'[s] <=> pc'[s] = "run"
    BY <2>1, <2>2, <2>3, <2>4, <2>5
  <2>. QED
    BY <1>1, <2>1, <2>6, <2>7, <2>8, StartingKept
<1>3. CASE InitialStatus(s) /\ up[peer[s]]
  <2>. DEFINE d == peer[s]
              w == ReceiveStatusReq(node[d])
              l == StatusRes(w).list
              v == MergeList(node[s], l)
  <2>1. /\ pc[s] = "status" /\ d \in Server /\ up[d] /\ d # s
        /\ pc' = [pc EXCEPT ![s] = "suspend"] /\ up' = up /\ now' = now /\ peer' = peer
    BY <1>1, <1>3 DEF InitialStatus
  <2>2. node[d] \in Member(d, M) /\ Unheard(node[s]) /\ (M = {} \/ Running # {})
    BY <1>1, <2>1 DEF OneService, Begun
  <2>3. w \in Member(d, M)
    BY <1>1, <2>1, <2>2, MemberStamped DEF ReceiveStatusReq
  <2>4. node' = [node EXCEPT ![d] = w, ![s] = v]
    BY <1>1, <1>3, <2>1 DEF InitialStatus
  <2>. HIDE DEF w
  <2>5. l \in PlainList(M)
    BY <1>1, <2>1, <2>3, MemberPackets
  <2>. HIDE DEF l
  <2>6. v \in Member(s, M)
    BY <1>1, <2>2, <2>5, MemberListed DEF Unheard
  <2>7. v \in Anyhow(s, M)
    BY <2>6, MemberFacts
  <2>. HIDE DEF v, d
  <2>8. /\ node' = [u \in Server |-> node'[u]] /\ node'[s] = v /\ node'[d] = w
        /\ \A u \in Server \ {s, d} : node'[u] = node[u]
        /\ pc' \in [Server -> Phase] /\ pc'[s] = "suspend"
        /\ \A u \in Server \ {s} : pc'[u] = pc[u]
    BY <1>1, <2>1, <2>4 DEF Phase
  <2>9. ~up'[s]
    BY <1>1, <2>1
  <2>10. \A u \in Server \ {s} : node'[u] = node[u] \/ (up[u] /\ node'[u] \in Member(u, M))
    BY <2>1, <2>3, <2>8
  <2>. QED
    BY <1>1, <2>1, <2>2, <2>6, <2>7, <2>8, <2>9, <2>10, StartingKept
<1>4. CASE InitialStatus(s) /\ ~up[peer[s]]
  <2>1. /\ pc[s] = "status" /\ pc' = [pc EXCEPT ![s] = "down"]
        /\ node' = node /\ up' = up /\ now' = now /\ peer' = peer
    BY <1>4 DEF InitialStatus
  <2>2. /\ pc' \in [Server -> Phase] /\ pc'[s] = "down" /\ ~up[s] /\ ~Begun(s)'
        /\ \A u \in Server \ {s} : pc'[u] = pc[u]
    BY <1>1, <2>1 DEF Phase, Begun
  <2>. QED
    BY <1>1, <2>1, <2>2, StartingKept
<1>5. CASE InitialSuspend(s)
  <2>. DEFINE b == node[peer[s]].asup
              v == ReceiveMergeSuspendRes(node[s], b)
  <2>1. /\ pc[s] = "suspend" /\ pc' = [pc EXCEPT ![s] = "ring"]
        /\ up' = up /\ now' = now /\ peer' = peer
    BY <1>5 DEF InitialSuspend
  <2>2. node[s] \in Member(s, M) /\ b \in BOOLEAN /\ (M = {} \/ Running # {}) /\ ~up[s]
    <3>1. node[peer[s]] \in Anyhow(peer[s], M)
      BY <1>1 DEF OneService
    <3>. QED
      BY <1>1, <2>1, <3>1 DEF OneService, Begun, Anyhow, Calmly
  <2>3. v \in Member(s, M)
    BY <2>2, MemberFlags DEF ReceiveMergeSuspendRes
  <2>4. node' = [node EXCEPT ![s] = v] \/ node' = node
    BY <1>1, <1>5 DEF InitialSuspend
  <2>. HIDE DEF v, b
  <2>5. /\ node' = [u \in Server |-> node'[u]] /\ node'[s] \in {v, node[s]}
        /\ \A u \in Server \ {s} : node'[u] = node[u]
    BY <1>1, <2>4
  <2>6. node'[s] \in Member(s, M) /\ node'[s] \in Anyhow(s, M)
    BY <2>2, <2>3, <2>5, MemberFacts
  <2>7. /\ pc' \in [Server -> Phase] /\ pc'[s] = "ring"
        /\ \A u \in Server \ {s} : pc'[u] = pc[u]
    BY <1>1, <2>1 DEF Phase
  <2>. QED
    BY <1>1, <2>1, <2>2, <2>5, <2>6, <2>7, StartingKept
<1>6. CASE EnterRing(s)
  <2>. DEFINE v == ConnectRing(SetSelfStatus(node[s], StartStatus(Self(node[s]))))
              g == Good(v)
  <2>1. /\ pc[s] = "ring" /\ pc' = [pc EXCEPT ![s] = "run"] /\ up' = [up EXCEPT ![s] = TRUE]
        /\ node' = [node EXCEPT ![s] = g] /\ now' = now /\ peer' = peer
    BY <1>6 DEF EnterRing, Becomes
  <2>2. node[s] \in Member(s, M)
    BY <2>1 DEF OneService
  <2>3. v \in Member(s, M)
    BY <1>1, <2>2, MemberActs
  <2>. HIDE DEF v
  <2>4. g \in Member(s, M) /\ g \in Anyhow(s, M)
    BY <2>3, MemberFlags, MemberFacts
  <2>. HIDE DEF g
  <2>5. /\ node' = [u \in Server |-> node'[u]] /\ node'[s] = g
        /\ \A u \in Server \ {s} : node'[u] = node[u] /\ pc'[u] = pc[u] /\ up'[u] = up[u]
        /\ pc' \in [Server -> Phase] /\ pc'[s] = "run" /\ up' \in [Server -> BOOLEAN] /\ up'[s]
        /\ \A u \in Server : up[u] => up'[u]
    BY <1>1, <2>1 DEF Phase
  <2>6. ~Begun(s)'
    BY <2>5 DEF Begun
  <2>. QED
    BY <1>1, <2>1, <2>4, <2>5, <2>6, StartingKept
<1>. QED
  BY <1>2, <1>3, <1>4, <1>5, <1>6 DEF Boot

\* A server dies while nobody starts; what was on its way to it is lost.
LEMMA DeathKept ==
  ASSUME Sudden = FALSE, NEW M, OneService(M), NEW s \in Server, Death(s)
  PROVE  OneService(M)'
<1>. DEFINE n(t) == [node[t] EXCEPT !.out[s] = << >>]
<1>1. /\ node' = [t \in Server |-> n(t)] /\ up' = [up EXCEPT ![s] = FALSE]
      /\ pc' = [pc EXCEPT ![s] = "down"] /\ now' = now /\ peer' = peer
      /\ \A t \in Server : pc[t] \in {"down", "run"}
  BY DEF Death, JoinQuiet
<1>2. /\ up \in [Server -> BOOLEAN] /\ pc \in [Server -> Phase] /\ peer \in [Server -> Server]
      /\ now \in Nat /\ \A t \in Server : node[t] \in Anyhow(t, M) /\ (up[t] <=> pc[t] = "run")
                                          /\ (pc[t] = "run" => node[t] \in Member(t, M))
  BY DEF OneService
<1>3. /\ up' \in [Server -> BOOLEAN] /\ pc' \in [Server -> Phase]
      /\ \A t \in Server : /\ up'[t] <=> up[t] /\ t # s
                           /\ up'[t] <=> pc'[t] = "run"
                           /\ pc'[t] \in {"down", "run"}
  BY <1>1, <1>2 DEF Phase
<1>4. ASSUME NEW t \in Server
      PROVE  n(t) \in Anyhow(t, M)' /\ (node[t] \in Member(t, M) => n(t) \in Member(t, M)')
  <2>. DEFINE w == node[t]
              o == [w.out EXCEPT ![s] = << >>]
  <2>1. w \in Anyhow(t, M)
    BY <1>2
  <2>. HIDE DEF w
  <2>2. w.out \in [Server -> Seq(Mail(M))] /\ \A u \in Server : up[u] \/ w.out[u] = << >>
    BY <2>1 DEF Anyhow, Calmly, Mails
  <2>3. o \in Mails(M)'
    BY <1>3, <2>2 DEF Mails
  <2>4. [w EXCEPT !.out[s] = << >>] = [w EXCEPT !.out = o]
    BY <2>1 DEF Anyhow, Calmly
  <2>. HIDE DEF o
  <2>5. /\ [w EXCEPT !.out = o] \in Anyhow(t, M)'
        /\ w \in Member(t, M) => [w EXCEPT !.out = o] \in Member(t, M)'
    BY <2>1, <2>3 DEF Anyhow, Member, Calmly
  <2>. QED
    BY <2>4, <2>5 DEF w
<1>. HIDE DEF n
<1>5. node' = [t \in Server |-> node'[t]] /\ \A t \in Server : node'[t] = n(t)
  BY <1>1
<1>6. \A t \in Server : /\ node'[t] \in Anyhow(t, M)'
                        /\ pc'[t] = "run" => node'[t] \in Member(t, M)'
  BY <1>2, <1>3, <1>4, <1>5
<1>. QED
  BY <1>1, <1>2, <1>3, <1>5, <1>6 DEF OneService, Begun

LEMMA NextKept ==
  ASSUME LowKey, Sudden = FALSE, NEW M \in SUBSET Server, OneService(M), [JoinNext]_allvars
  PROVE  \E K \in SUBSET Server : OneService(K)' /\ (K = M \/ Running = {})
<1>1. ASSUME NEW s \in Server, Start(s)
      PROVE  \E K \in SUBSET Server : OneService(K)' /\ (K = M \/ Running = {})
  BY <1>1, StartedKept
<1>2. ASSUME NEW s \in Server, Boot(s) PROVE OneService(M)'
  BY <1>2, BootKept
<1>3. ASSUME NEW s \in Server, Death(s) PROVE OneService(M)'
  BY <1>3, DeathKept
<1>4. ASSUME NEW s \in Server, NEW t \in Server,
             RecvJoinRing(s, t) \/ RecvStatusReq(s, t) \/ RecvStatusRes(s, t)
      PROVE  OneService(M)'
  BY <1>4, ReadKept
<1>5. CASE RingStep
  BY <1>5, RingKept
<1>6. CASE UNCHANGED allvars
  <2>1. node' = node /\ UNCHANGED <<up, jvars>> /\ now' = now
    BY <1>6 DEF allvars, vars, jvars
  <2>2. now' \in Nat /\ node' = [s \in Server |-> node'[s]]
    BY <2>1 DEF OneService
  <2>. QED
    BY <2>1, <2>2, ServiceKept DEF OneService
<1>. QED
  BY <1>1, <1>2, <1>3, <1>4, <1>5, <1>6 DEF JoinNext

LEMMA ServiceInitially ==
  ASSUME JoinInit
  PROVE  \E M \in SUBSET Server : OneService(M)
<1>1. PICK in \in InitIn :
        node = [s \in Server |-> IF s \in Up0 THEN Init0Node(s, in) ELSE FreshNode(s)]
  BY DEF JoinInit
<1>2. /\ in \in SUBSET Server /\ Up0 \in SUBSET Server
      /\ up = [s \in Server |-> s \in Up0] /\ now = 0
      /\ pc = [s \in Server |-> IF s \in Up0 THEN "run" ELSE "down"]
      /\ peer = [s \in Server |-> 1]
  BY InitAssumption, JoinAssumption DEF JoinInit, Server
<1>. DEFINE e(t) == [InitEntry(in, Up0)[t] EXCEPT
                       !.st = IF t \in Up0 THEN @
                              ELSE IF t \in in THEN SRVIN_DOWN_NORMAL ELSE SRVOUT_DOWN_NORMAL]
            h(t) == IF t \in in THEN Cardinality(in \cap (1 .. (t - 1))) ELSE NoHash
<1>3. ASSUME NEW t \in Server PROVE e(t) \in Entry /\ e(t).st \in Plain(in, t)
  <2>. DEFINE u  == IF t \in in THEN SRVIN_UP_NORMAL ELSE SRVOUT_UP_NORMAL
              st == IF t \in Up0 THEN SuspendFlag(u, t \notin Up0)
                    ELSE IF t \in in THEN SRVIN_DOWN_NORMAL ELSE SRVOUT_DOWN_NORMAL
  <2>1. h(t) \in Hash
    <3>. DEFINE R == 1 .. (t - 1)
                S == in \cap R
    <3>1. S \in SUBSET R /\ S \in SUBSET Server /\ t - 1 \in 0 .. (N - 1)
      BY <1>2, NAssumption DEF Server
    <3>2. Cardinality(R) = t - 1 /\ IsFiniteSet(R)
      BY <3>1, FS_Interval
    <3>. HIDE DEF R, S
    <3>3. Cardinality(S) \in Nat /\ Cardinality(S) <= Cardinality(R)
      BY <3>1, <3>2, FS_Subset, Counts
    <3>4. Cardinality(S) \in 0 .. (N - 1)
      BY <3>1, <3>2, <3>3, NAssumption
    <3>. QED
      BY <3>4, NAssumption DEF Hash, NoHash, R, S
  <2>. HIDE DEF h
  <2>2. /\ u \in Plain(in, t)
        /\ t \in in => SRVIN_DOWN_NORMAL \in Plain(in, t)
        /\ t \notin in => SRVOUT_DOWN_NORMAL \in Plain(in, t)
    BY DEF Plain, SRVIN_UP_NORMAL, SRVOUT_UP_NORMAL, SRVIN_DOWN_NORMAL, SRVOUT_DOWN_NORMAL, Status,
           Live, Ring, Act, Operate, Suspend, IsOperatingSt, Sts
  <2>3. InitEntry(in, Up0)[t] =
          [st |-> SuspendFlag(u, t \notin Up0), bh |-> h(t), ph |-> h(t), ts |-> 0]
    BY DEF InitEntry, h
  <2>. HIDE DEF u
  <2>4. st \in Plain(in, t)
    BY <2>2, PlainStatus
  <2>5. e(t) = [st |-> st, bh |-> h(t), ph |-> h(t), ts |-> 0]
    BY <2>3
  <2>. HIDE DEF st, e
  <2>6. st \in Status
    BY <2>4, PlainStatus
  <2>. QED
    BY <2>1, <2>4, <2>5, <2>6 DEF Entry
<1>4. ASSUME NEW s \in Up0 PROVE Init0Node(s, in) \in Member(s, in)
  <2>. DEFINE l  == IF Up0 \subseteq {s} THEN {}
                    ELSE {CHOOSE t \in Up0 \ {s} : \A u \in Up0 \ {s} : Dist(s, t) <= Dist(s, u)}
              sv == [t \in Server |-> e(t)]
              o  == [t \in Server |-> << >>]
  <2>1. l \in SUBSET Server
    <3>. DEFINE S == Up0 \ {s}
    <3>1. S \in SUBSET Server /\ s \in Server
      BY <1>2
    <3>2. S # {} => \E t \in S : \A u \in S : Dist(s, t) <= Dist(s, u)
      BY <3>1, FirstExists
    <3>3. S # {} => (CHOOSE t \in S : \A u \in S : Dist(s, t) <= Dist(s, u)) \in S
      BY <3>2
    <3>4. Up0 \subseteq {s} <=> S = {}
      OBVIOUS
    <3>. QED
      BY <3>1, <3>3, <3>4
  <2>2. sv \in PlainTable(in)
    <3>. HIDE DEF e
    <3>. QED
      BY <1>3 DEF PlainTable
  <2>3. Cardinality(in) \in Nat
    BY <1>2, Counts
  <2>4. o \in Mails(in)
    BY DEF Mails
  <2>5. Init0Entry(in) = sv
    BY DEF Init0Entry
  <2>6. Init0Node(s, in) = [InitNode(s, in, Up0) EXCEPT !.sv = sv, !.link = l]
    BY <2>5 DEF Init0Node
  <2>. HIDE DEF l, sv, e, h
  <2>7. Init0Node(s, in) =
          [id |-> s, sv |-> sv, bcnt |-> Cardinality(in), oper |-> FALSE, join |-> s \in Up0,
           ok |-> TRUE, asup |-> FALSE, sin |-> AutoMerge /\ s \notin in \cup Up0, mdp |-> FALSE,
           run |-> FALSE, wk |-> 0, wst |-> "idle", cls |-> FALSE, jn |-> FALSE,
           link |-> l, out |-> o]
    BY <2>6 DEF InitNode
  <2>. HIDE DEF o
  <2>. QED
    BY <2>1, <2>2, <2>3, <2>4, <2>7 DEF Member, Calmly
<1>. HIDE DEF e, h
<1>5. \A s \in Server : node[s] \in Anyhow(s, in) /\ (s \in Up0 => node[s] \in Member(s, in))
  <2>1. \A s \in Server : s \in Up0 => node[s] = Init0Node(s, in) /\ s \in Server
    BY <1>1
  <2>2. \A s \in Server : s \notin Up0 => node[s] = FreshNode(s)
    BY <1>1
  <2>. QED
    BY <1>4, <2>1, <2>2, MemberFacts, FreshFacts
<1>6. /\ 1 \in Server /\ node = [s \in Server |-> node[s]]
      /\ \A s \in Server : pc[s] = (IF s \in Up0 THEN "run" ELSE "down") /\ up[s] = (s \in Up0)
  BY <1>1, <1>2, NAssumption DEF Server
<1>7. up \in [Server -> BOOLEAN] /\ pc \in [Server -> Phase] /\ peer \in [Server -> Server]
  BY <1>2, <1>6 DEF Phase
<1>8. OneService(in)
  BY <1>2, <1>5, <1>6, <1>7 DEF OneService, Begun
<1>. QED
  BY <1>2, <1>8

\* MembershipKept: a server that dies, is started again and joins the RING (SetEventQueue:
\* InitialAllServerStatus, ConnectRing; JOIN_RING, STATUS_REQ, STATUS_RES, SERVER_DOWN)
\* moves nobody into or out of service in the table of a server that runs before and
\* after the step.  Joins may overlap, packets may travel while a server starts, and
\* clocks may run.  AutoMerge and the other commands of the operator are what changes
\* the service; Sudden = FALSE keeps a server from dying while another one has asked it
\* and not joined yet: then a second process that finds nobody to ask makes up a table
\* with nobody in service, and takes over what the JOIN_RING of the first one says.
THEOREM MembershipIsKept ==
  ASSUME AutoMerge = FALSE, Cmds \subseteq {"SUSPEND", "NOSUSPEND"}, Sudden = FALSE
  PROVE  JoinSpec => MembershipKept
<1>. DEFINE Inv  == \E M \in SUBSET Server : OneService(M)
            Stays == \A s \in Server, t \in Server :
                      up[s] /\ up'[s] => (IsSrvIn(node[s].sv[t].st) <=> IsSrvIn(node'[s].sv[t].st))
<1>1. LowKey
  BY DEF LowKey
<1>2. JoinInit => Inv
  BY ServiceInitially
<1>3. Inv /\ [JoinNext]_allvars => Inv' /\ Stays
  <2>. SUFFICES ASSUME NEW M \in SUBSET Server, OneService(M), [JoinNext]_allvars
                PROVE  Inv' /\ Stays
    OBVIOUS
  <2>1. PICK K \in SUBSET Server : OneService(K)' /\ (K = M \/ Running = {})
    BY <1>1, NextKept
  <2>2. ASSUME NEW s \in Server, NEW t \in Server, up[s], up'[s]
        PROVE  IsSrvIn(node[s].sv[t].st) <=> IsSrvIn(node'[s].sv[t].st)
    <3>1. OneService(M)'
      BY <2>1, <2>2 DEF Running
    <3>2. node[s] \in Member(s, M) /\ node'[s] \in Member(s, M)'
      BY <2>2, <3>1 DEF OneService
    <3>3. node[s].sv[t].st \in Plain(M, t) /\ node'[s].sv[t].st \in Plain(M, t)
      BY <3>2 DEF Member, Calmly, PlainTable
    <3>4. \A st \in Plain(M, t) : IsSrvIn(st) <=> t \in M
      BY PlainStatus
    <3>. QED
      BY <3>3, <3>4
  <2>. QED
    BY <2>1, <2>2
<1>4. MembershipKept <=> [][Stays]_allvars
  BY DEF MembershipKept
<1>. HIDE DEF Inv, Stays
<1>. QED
  BY <1>2, <1>3, <1>4, PTL DEF JoinSpec
=============================================================================
