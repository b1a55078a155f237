----------------------------- MODULE ChmImData -----------------------------
(***************************************************************************)
(* The server table one chmpx server process keeps in shared memory        *)
(* (ChmIMData over chmpxman_lap / chmpxlist_lap / chmpx_lap): for every    *)
(* server of the RING its status, the time of the last status update and   *)
(* its base and pending hash values, plus two values cached from it, the   *)
(* number of base-hash servers and the "operating" flag.                   *)
(*                                                                         *)
(* Operators take the process record w and return it changed.  The field   *)
(* w.ok is the bool the C++ method returns.  A process record has at least *)
(*   id    the server's own chmpxid                                        *)
(*   sv    the server list: Server -> [st, bh, ph, ts]                     *)
(*   bcnt  chmpx_bhash_count, oper  is_operating                           *)
(*   join  TRUE while a client process is attached (is_client_join)        *)
(* The server list is kept sorted, the same way in every process, so a     *)
(* server is its position 1..N in that list.                               *)
(*                                                                         *)
(* In this module, ChmStatus and ChmRing a definition Mut... is a faulty   *)
(* variant of the definition after it, a plausible slip of the code.  No   *)
(* specification uses it: it is put in the other's place to see that the   *)
(* property checked does notice.                                           *)
(***************************************************************************)
EXTENDS ChmStatus, Integers, FiniteSets

CONSTANT N        \* number of servers configured on the RING

ASSUME NAssumption == N \in Nat \ {0}

VARIABLE now      \* the wall clock, in whole seconds

Server == 1 .. N

\* CHM_INVALID_CHMPXID and CHM_INVALID_HASHVAL
NoServer == 0
NoHash   == -1

Hash  == -1 .. (N - 1)
Entry == [st : Status, bh : Hash, ph : Hash, ts : Nat]

Good(w) == [w EXCEPT !.ok = TRUE]
Fail(w) == [w EXCEPT !.ok = FALSE]

Self(w) == w.sv[w.id].st

-----------------------------------------------------------------------------
(* Values derived from the list.                                           *)

BaseHashCount(sv)    == Cardinality({t \in Server : IsBaseHash(sv[t].st)})
PendingHashCount(sv) == Cardinality({t \in Server : IsPendingHash(sv[t].st)})

\* chmpxlist_lap::IsOperating
AnyOperating(sv) == \E t \in Server : IsOperatingSt(sv[t].st)

\* Every method that stores a status ends by refreshing the two cached values.
Recount(w) ==
  [w EXCEPT !.bcnt = BaseHashCount(w.sv), !.oper = AnyOperating(w.sv)]

\* Faulty variant: the hash values start at 1.
MutBaseRank(sv, t) == Cardinality({u \in 1 .. t : IsBaseHash(sv[u].st)})

\* chmpxlist_lap::UpdateHash hands out 0,1,2,... in list order.  Storing a hash
\* value (chmpx_lap::Set) also stamps the entry with the current time, so every
\* hash update makes every entry of the table look freshly updated.
BaseRank(sv, t)    == Cardinality({u \in 1 .. (t - 1) : IsBaseHash(sv[u].st)})
PendingRank(sv, t) == Cardinality({u \in 1 .. (t - 1) : IsPendingHash(sv[u].st)})

\* Faulty variant: a server's slot is its position in the list.
MutUpdateBaseHash(w) ==
  [w EXCEPT !.sv = [t \in Server |->
     [w.sv[t] EXCEPT !.bh = IF IsBaseHash(w.sv[t].st) THEN t - 1 ELSE NoHash,
                     !.ts = now]]]

UpdateBaseHash(w) ==
  [w EXCEPT !.sv = [t \in Server |->
     [w.sv[t] EXCEPT !.bh = IF IsBaseHash(w.sv[t].st)
                            THEN BaseRank(w.sv, t) ELSE NoHash,
                     !.ts = now]]]

UpdatePendingHash(w) ==
  [w EXCEPT !.sv = [t \in Server |->
     [w.sv[t] EXCEPT !.ph = IF IsPendingHash(w.sv[t].st)
                            THEN PendingRank(w.sv, t) ELSE NoHash,
                     !.ts = now]]]

\* ChmIMData::IsPendingExchangeData, and its negation in
\* ChangeStatusBeforeMergeStart: does the next merge move this server's slot?
IsPendingExchange(w) ==
  \/ w.sv[w.id].bh # w.sv[w.id].ph
  \/ w.bcnt # PendingHashCount(w.sv)

\* The members of S as the loops over the server list meet them: the i-th is
\* one more than the number of positions with fewer than i members up to them.
InOrder(S) ==
  [i \in 1 .. Cardinality(S) |->
     1 + Cardinality({t \in Server : Cardinality(S \cap (1 .. t)) < i})]

-----------------------------------------------------------------------------
(* The list as a ring.                                                     *)

After(s, k) == ((s - 1 + k) % N) + 1
Dist(s, t)  == (t - s + N) % N

UpOthers(w) == {t \in Server \ {w.id} : IsUp(w.sv[t].st)}

\* chmpxman_lap::GetNextRingChmpxId: the next server in list order, cyclic,
\* that is up in this process's own view; never the process itself.
NextRing(w) ==
  IF UpOthers(w) = {} THEN NoServer
  ELSE CHOOSE t \in UpOthers(w) :
         \A u \in UpOthers(w) : Dist(w.id, t) <= Dist(w.id, u)

-----------------------------------------------------------------------------
(* Storing statuses.                                                       *)

\* Faulty variant: the cached values are not refreshed.
MutSetStatus(w, t, st) ==
  IF IsSafe(st) THEN Good([w EXCEPT !.sv[t].st = st, !.sv[t].ts = now]) ELSE Fail(w)

\* chmpx_lap::SetStatus refuses a combination that is not safe.
SetStatus(w, t, st) ==
  IF IsSafe(st)
  THEN Good(Recount([w EXCEPT !.sv[t].st = st, !.sv[t].ts = now]))
  ELSE Fail(w)

\* chmpxman_lap::SetServerStatus.  The process is up, so its own entry cannot
\* become DOWN here; and since its own entry is up, CheckAllServiceOutStatus
\* (all servers down) never has anything to do in a server process.
SetServerStatus(w, t, st) ==
  IF t = w.id
  THEN IF IsUp(st) THEN SetStatus(w, t, SuspendFlag(st, ~w.join)) ELSE Fail(w)
  ELSE SetStatus(w, t, st)

\* Faulty variant: the suspend bit is the caller's.
MutSetSelfStatus(w, st) == SetStatus(w, w.id, st)

\* chmpxman_lap::SetSelfStatus: the suspend bit is never taken from the
\* caller, it always says whether a client process is attached right now.
SetSelfStatus(w, st) == SetStatus(w, w.id, SuspendFlag(st, ~w.join))

\* chmpx_lap::UpdateLastStatusTime on the own entry
UpdateSelfLastStatusTime(w) == [w EXCEPT !.sv[w.id].ts = now]

\* SetServerHash / SetSelfHash of the base hash
SetBaseHash(w, t, h) == [w EXCEPT !.sv[t].bh = h, !.sv[t].ts = now]

-----------------------------------------------------------------------------
(* Merging what other servers say.                                         *)

\* MergeChmpxSvrs, "check status for self": what another process believes
\* about this one is corrected before it is stored.  A server that hears it
\* is down although its listening socket is open takes the matching UP status.
CorrectSelf(w, st) ==
  IF st = Self(w) \/ IsUp(st) THEN st
  ELSE SuspendFlag(
         CASE IsSrvIn(st) /\ st.act = "NOACT" ->
                IF w.join THEN SRVIN_UP_PENDING ELSE SRVIN_UP_NORMAL
           [] IsSrvIn(st) /\ st.act = "DELETE" ->
                IF st.op = "PENDING" THEN SRVIN_UP_DELPENDING ELSE SRVIN_UP_DELETED
           [] IsSrvOut(st) -> SRVOUT_UP_NORMAL
           [] OTHER -> SLAVE_UP_NORMAL,
         ~w.join)

\* Faulty variant: a status of the same second is refused.
MutIsLatest(w, chm) == w.sv[chm.id].ts < chm.ts

\* MergeChmpxSvr stores the status unless the stored one is newer; times are
\* compared in whole seconds only (CompareStatusUpdateTime), so an older
\* status of the same second is stored too.
IsLatest(w, chm) == w.sv[chm.id].ts <= chm.ts

\* MergeChmpxSvrs then recomputes every hash value and the cached values.
MergeChmpxSvrs(w, chm) ==
  LET st == IF chm.id = w.id THEN CorrectSelf(w, chm.st) ELSE chm.st
      w1 == IF IsLatest(w, chm)
            THEN [w EXCEPT !.sv[chm.id].st = st, !.sv[chm.id].ts = chm.ts]
            ELSE w
  IN  Good(Recount(UpdatePendingHash(UpdateBaseHash(w1))))

\* The list a STATUS_CONFIRM packet carries, and ChmIMData::CompareChmpxSvrs:
\* statuses and hash values must agree, update times are not compared.
ListOf(w) ==
  [t \in Server |-> [st |-> w.sv[t].st, bh |-> w.sv[t].bh, ph |-> w.sv[t].ph]]
CompareChmpxSvrs(w, list) == list = ListOf(w)
=============================================================================
