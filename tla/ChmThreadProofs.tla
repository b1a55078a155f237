-------------------------- MODULE ChmThreadProofs --------------------------
(***************************************************************************)
(* Proofs about ChmThread, for any pool, set of descriptors and bounds.    *)
(*                                                                         *)
(* Two inductive invariants.  PoolInv needs nothing but the type: a thread *)
(* of the pool whose status is SLEEP is on the list DispatchThread         *)
(* searches, or is about to be put there.  SteadyInv is about a pool that  *)
(* is not resized and whose sockets stay open: the working map and the     *)
(* parameters of the working threads are inverse to each other.            *)
(***************************************************************************)
EXTENDS ChmThread, TLAPS, FiniteSetTheorems, FunctionTheorems, SequenceTheorems,
        WellFoundedInduction

\* DispatchThread can find the thread, or the thread is about to make it so.
Kept(t) ==
  st[t] = SLEEP => \/ Contains(sleeps, t)
                   \/ pc[t] \in {"after", "already"} /\ ~keep

PoolInv ==
  /\ TypeOK
  /\ loop.pc = "dispatch" => loop.fd \in Fd
  /\ \A f \in Fd : sock[f].eof => ~keep
  /\ \A t \in Thread : pc[t] = "waiting" => st[t] = SLEEP
  /\ \A t \in Thread : pc[t] = "again" => st[t] > WORK
  /\ \A t \in list : Kept(t)

\* WakeUp with the thread at position i of chmthsleeps.
Woke(i) ==
  /\ ~IsWorking(workmap[loop.fd])
  /\ FirstSleeping(i)
  /\ sleeps' = RemoveAt(sleeps, i)
  /\ wp' = [wp EXCEPT ![sleeps[i]] = loop.fd]
  /\ st' = [st EXCEPT ![sleeps[i]] = WORK]
  /\ workmap' = [workmap EXCEPT ![loop.fd] = sleeps[i]]
  /\ pc' = Signal(sleeps[i])

Working(t) == st[t] >= WORK

SteadyPool ==
  /\ \A f \in Fd : ~sock[f].eof
  /\ loop.pc \in {"idle", "dispatch"}
  /\ \A t \in Thread : st[t] >= SLEEP
  /\ \A t \in Thread : pc[t] \notin {"already", "leave", "exiting", "gone"}
  /\ \A t \in Thread : pc[t] \in {"work", "after", "again", "sleep", "woken"} => Working(t)

Mapped(t) == Working(t) => wp[t] \in Fd /\ workmap[wp[t]] = t

Entry(f) ==
  workmap[f] # NoThread => wp[workmap[f]] = f /\ Working(workmap[f])

SteadyInv ==
  Steady => SteadyPool /\ (\A t \in Thread : Mapped(t)) /\ (\A f \in Fd : Entry(f))

-----------------------------------------------------------------------------
(* The sleeping list.                                                      *)

\* What is left on the list when position i is taken off.
LEMMA RemoveAtKeeps ==
  ASSUME NEW S, NEW s \in Seq(S), NEW i \in 1 .. Len(s)
  PROVE  /\ RemoveAt(s, i) \in Seq(S)
         /\ \A e \in S : Contains(s, e) /\ e # s[i] => Contains(RemoveAt(s, i), e)
<1> DEFINE a == SubSeq(s, 1, i - 1)
           b == SubSeq(s, i + 1, Len(s))
<1>1. /\ a \in Seq(S) /\ Len(a) = i - 1
      /\ \A j \in 1 .. i - 1 : a[j] = s[j]
  OBVIOUS
<1>2. /\ b \in Seq(S) /\ Len(b) = Len(s) - i
      /\ \A j \in 1 .. Len(s) - i : b[j] = s[i + j]
  <2>1. CASE i = Len(s)
    BY <2>1
  <2>2. CASE i < Len(s)
    BY <2>2
  <2> QED BY <2>1, <2>2
<1>3. RemoveAt(s, i) = a \o b
  BY DEF RemoveAt
<1> HIDE DEF a, b
<1> DEFINE c == a \o b
<1>4. /\ c \in Seq(S) /\ Len(c) = Len(s) - 1
      /\ \A j \in 1 .. i - 1 : c[j] = s[j]
      /\ \A j \in i .. Len(s) - 1 : c[j] = s[j + 1]
  <2>1. c \in Seq(S) /\ Len(c) = Len(a) + Len(b)
    BY <1>1, <1>2, ConcatProperties
  <2>2. \A j \in 1 .. Len(a) + Len(b) :
          c[j] = IF j <= Len(a) THEN a[j] ELSE b[j - Len(a)]
    BY <1>1, <1>2, ConcatProperties
  <2> HIDE DEF c
  <2>3. ASSUME NEW j \in 1 .. i - 1 PROVE c[j] = s[j]
    <3>1. j \in 1 .. Len(a) + Len(b) /\ j <= Len(a)
      BY <1>1, <1>2
    <3> QED BY <1>1, <2>2, <3>1
  <2>4. ASSUME NEW j \in i .. Len(s) - 1 PROVE c[j] = s[j + 1]
    <3>1. c[j] = b[j - (i - 1)]
      <4>1. j \in 1 .. Len(a) + Len(b) /\ ~(j <= Len(a)) /\ Len(a) = i - 1
        BY <1>1, <1>2
      <4> QED BY <2>2, <4>1
    <3>2. j - (i - 1) \in 1 .. Len(s) - i
      OBVIOUS
    <3> QED BY <1>2, <3>1, <3>2
  <2>5. Len(c) = Len(s) - 1
    BY <1>1, <1>2, <2>1
  <2> QED BY <2>1, <2>3, <2>4, <2>5
<1> HIDE DEF c
<1>5. ASSUME NEW e \in S, Contains(s, e), e # s[i]
      PROVE  Contains(c, e)
  <2>1. PICK j \in 1 .. Len(s) : s[j] = e
    BY <1>5 DEF Contains
  <2>2. CASE j < i
    <3>1. j \in 1 .. Len(c) /\ c[j] = e
      BY <1>4, <2>1, <2>2
    <3> QED BY <3>1 DEF Contains
  <2>3. CASE j > i
    <3>1. j - 1 \in 1 .. Len(c) /\ c[j - 1] = e
      BY <1>4, <2>1, <2>3
    <3> QED BY <3>1 DEF Contains
  <2> QED BY <1>5, <2>1, <2>2, <2>3
<1> QED BY <1>3, <1>4, <1>5 DEF c

\* Erasing the first occurrence of a thread leaves the others on the list.
LEMMA RemoveFirstKeeps ==
  ASSUME NEW S, NEW s \in Seq(S), NEW t
  PROVE  /\ RemoveFirst(s, t) \in Seq(S)
         /\ \A e \in S : Contains(s, e) /\ e # t => Contains(RemoveFirst(s, t), e)
<1> DEFINE I == {i \in 1 .. Len(s) : s[i] = t}
<1>1. CASE I = {}
  <2>1. RemoveFirst(s, t) = s
    BY <1>1 DEF RemoveFirst
  <2> QED BY <2>1
<1>2. CASE I # {}
  <2>1. \E x \in I : \A y \in I : x <= y
    <3>1. I \subseteq Nat
      OBVIOUS
    <3>2. PICK x \in I : \A y \in I : ~ (<<y, x>> \in OpToRel(<, Nat))
      BY <1>2, <3>1, WFMin, NatLessThanWellFounded
    <3>3. ASSUME NEW y \in I PROVE x <= y
      <4>1. x \in Nat /\ y \in Nat
        BY <3>1
      <4>2. y < x => <<y, x>> \in OpToRel(<, Nat)
        BY <4>1 DEF OpToRel
      <4>3. ~(y < x)
        <5> HIDE DEF I
        <5> QED BY <3>2, <4>2, Zenon
      <4> QED BY <4>1, <4>3
    <3> QED BY <3>3
  <2>2. Min(I) \in I
    BY <2>1 DEF Min
  <2>3. RemoveFirst(s, t) = RemoveAt(s, Min(I))
    BY <1>2 DEF RemoveFirst, SelectInSeq
  <2> HIDE DEF I
  <2>4. Min(I) \in 1 .. Len(s) /\ s[Min(I)] = t
    BY <2>2 DEF I
  <2> QED BY <2>3, <2>4, RemoveAtKeeps
<1> QED BY <1>1, <1>2

\* A thread pushed on the list is on it, with those that were there.
LEMMA AppendContains ==
  ASSUME NEW S, NEW s \in Seq(S), NEW t \in S
  PROVE  /\ Append(s, t) \in Seq(S)
         /\ Contains(Append(s, t), t)
         /\ \A e \in S : Contains(s, e) => Contains(Append(s, t), e)
BY AppendProperties DEF Contains

\* The list CreateThreads leaves: every thread is on it.
LEMMA SetToSeqContains ==
  ASSUME NEW S, IsFiniteSet(S)
  PROVE  /\ SetToSeq(S) \in Seq(S)
         /\ \A e \in S : Contains(SetToSeq(S), e)
<1> DEFINE n == Cardinality(S)
           F == SetToSeq(S)
<1>1. n \in Nat /\ ExistsBijection(1 .. n, S)
  BY FS_CardinalityType
<1>2. \E f \in [1 .. n -> S] : IsInjective(f)
  BY <1>1 DEF ExistsBijection, Bijection, Injection
<1>3. F \in [1 .. n -> S] /\ IsInjective(F)
  BY <1>2 DEF SetToSeq
<1> HIDE DEF F
<1>4. F \in Injection(1 .. n, S)
  BY <1>3 DEF Injection
<1>5. Cardinality(1 .. n) = n
  BY <1>1, FS_Interval
<1>6. F \in Surjection(1 .. n, S)
  BY <1>4, <1>5, FS_Injection
<1>7. F \in Seq(S) /\ Len(F) = n
  BY <1>1, <1>3
<1>8. \A e \in S : \E i \in 1 .. n : F[i] = e
  BY <1>6 DEF Surjection
<1> QED BY <1>7, <1>8 DEF Contains, F

-----------------------------------------------------------------------------
(* No thread is lost to the pool.                                          *)

\* A connection that is ended by its peer, or closed, remains a connection.
LEMMA SockEnds ==
  ASSUME NEW q \in Sock
  PROVE  [q EXCEPT !.eof = TRUE] \in Sock /\ [q EXCEPT !.open = FALSE] \in Sock
BY DEF Sock

\* CreateThreads leaves a pool that satisfies PoolInv.
LEMMA PoolInit == Init => PoolInv
<1> SUFFICES ASSUME Init PROVE PoolInv
  OBVIOUS
<1>1. sleeps \in Seq(Thread) /\ \A t \in Thread : Contains(sleeps, t)
  BY PoolAssumption, SetToSeqContains DEF Init
<1>2. TypeOK
  BY PoolAssumption, <1>1 DEF Init, TypeOK, ThreadsOK, ListsOK, NetOK, Phase, Sock,
     Idle, EXIT, SLEEP
<1> QED BY <1>1, <1>2 DEF Init, PoolInv, Kept, Idle

\* Every step keeps the types.
LEMMA PoolStepType == PoolInv /\ [Next]_vars => TypeOK'
<1> SUFFICES ASSUME PoolInv, [Next]_vars PROVE TypeOK'
  OBVIOUS
<1> TypeOK
  BY DEF PoolInv
<1> USE PoolAssumption DEF pool, net, used, Goto, Idle, Unmapped, NoteSock, Signal, EXIT,
        SLEEP, WORK
<1>1. ASSUME NEW f \in Fd, Arrive(f) PROVE TypeOK'
  <2>1. ThreadsOK'
    BY <1>1 DEF PoolInv, TypeOK, ThreadsOK, Phase, NetOK, Sock, Arrive
  <2>2. ListsOK'
    BY <1>1 DEF TypeOK, ThreadsOK, ListsOK, Arrive
  <2>3. NetOK'
    BY <1>1 DEF TypeOK, ThreadsOK, NetOK, Sock, Arrive
  <2> QED BY <2>1, <2>2, <2>3 DEF TypeOK
<1>2. ASSUME NEW f \in Fd, PeerCloses(f) PROVE TypeOK'
  <2>1. ThreadsOK'
    BY <1>2 DEF PoolInv, TypeOK, ThreadsOK, Phase, NetOK, Sock, PeerCloses
  <2>2. ListsOK'
    BY <1>2 DEF TypeOK, ThreadsOK, ListsOK, PeerCloses
  <2>3. sock' \in [Fd -> Sock]
    <3>1. [sock[f] EXCEPT !.eof = TRUE] \in Sock
      <4>1. sock[f] \in Sock
        BY DEF TypeOK, NetOK
      <4> QED BY <4>1, SockEnds
    <3> QED BY <1>2, <3>1 DEF TypeOK, NetOK, PeerCloses
  <2>4. NetOK'
    BY <1>2, <2>3 DEF TypeOK, ThreadsOK, NetOK, PeerCloses
  <2> QED BY <2>1, <2>2, <2>4 DEF TypeOK
<1>3. ASSUME NEW f \in Fd, Reopen(f) PROVE TypeOK'
  <2>1. ThreadsOK'
    BY <1>3 DEF PoolInv, TypeOK, ThreadsOK, Phase, NetOK, Sock, Reopen
  <2>2. ListsOK'
    BY <1>3 DEF TypeOK, ThreadsOK, ListsOK, Reopen
  <2>3. NetOK'
    BY <1>3 DEF TypeOK, ThreadsOK, NetOK, Sock, Reopen
  <2> QED BY <2>1, <2>2, <2>3 DEF TypeOK
<1>4. ASSUME NEW t \in Thread, SpuriousWakeup(t) PROVE TypeOK'
  <2>1. ThreadsOK'
    BY <1>4 DEF PoolInv, TypeOK, ThreadsOK, Phase, NetOK, Sock, SpuriousWakeup
  <2>2. ListsOK'
    BY <1>4 DEF TypeOK, ThreadsOK, ListsOK, SpuriousWakeup
  <2>3. NetOK'
    BY <1>4 DEF TypeOK, ThreadsOK, NetOK, Sock, SpuriousWakeup
  <2> QED BY <2>1, <2>2, <2>3 DEF TypeOK
<1>5. ASSUME NEW f \in Fd, Receive(f) PROVE TypeOK'
  <2>1. ThreadsOK'
    BY <1>5 DEF PoolInv, TypeOK, ThreadsOK, Phase, NetOK, Sock, Receive
  <2>2. ListsOK'
    BY <1>5 DEF TypeOK, ThreadsOK, ListsOK, Receive
  <2>3. NetOK'
    BY <1>5 DEF TypeOK, ThreadsOK, NetOK, Sock, Receive
  <2> QED BY <2>1, <2>2, <2>3 DEF TypeOK
<1>6. ASSUME DispatchThread PROVE TypeOK'
  <2>1. CASE CountUp(loop.fd)
    <3> DEFINE t == workmap[loop.fd]
    <3>1. t \in Thread /\ st[t] >= WORK
      BY <1>6, <2>1 DEF PoolInv, TypeOK, ListsOK, DispatchThread, CountUp, IsWorking
    <3>2. /\ st' = [st EXCEPT ![t] = @ + 1] /\ UNCHANGED wp
          /\ pc' = IF pc[t] = "waiting" THEN [pc EXCEPT ![t] = "woken"] ELSE pc
      BY <2>1 DEF CountUp
    <3> HIDE DEF t
    <3>3. ThreadsOK'
      BY <1>6, <3>1, <3>2 DEF TypeOK, ThreadsOK, Phase, DispatchThread
    <3>4. ListsOK' /\ NetOK'
      BY <1>6, <2>1 DEF TypeOK, ListsOK, NetOK, DispatchThread, CountUp
    <3> QED BY <3>3, <3>4 DEF TypeOK
  <2>2. ASSUME NEW k \in DOMAIN sleeps, Woke(k) PROVE TypeOK'
    <3>1. sleeps[k] \in Thread /\ loop.fd \in Fd
      BY <1>6 DEF PoolInv, TypeOK, ListsOK, DispatchThread
    <3>2. sleeps' \in Seq(Thread)
      BY <2>2, RemoveAtKeeps DEF TypeOK, ListsOK, Woke
    <3>3. ThreadsOK'
      BY <1>6, <2>2, <3>1 DEF TypeOK, ThreadsOK, Phase, DispatchThread, Woke
    <3>4. ListsOK'
      BY <1>6, <2>2, <3>1, <3>2 DEF TypeOK, ListsOK, DispatchThread, Woke
    <3>5. NetOK'
      BY <1>6, <2>2 DEF TypeOK, NetOK, DispatchThread, Woke
    <3> QED BY <3>3, <3>4, <3>5 DEF TypeOK
  <2> QED BY <1>6, <2>1, <2>2 DEF DispatchThread, WakeUp, Woke
<1>7. ASSUME NEW t \in Thread, ExitThread(t) PROVE TypeOK'
  <2>1. st' \in [Thread -> Int] /\ \A u \in Thread : st'[u] >= EXIT
    BY <1>7 DEF PoolInv, TypeOK, ThreadsOK, Signal, ExitThread
  <2>2. pc' \in [Thread -> Phase]
    BY <1>7 DEF TypeOK, ThreadsOK, Phase, Signal, ExitThread
  <2>3. gen' \in [Thread -> Nat] /\ wp' \in [Thread -> Fd \cup {NoFd}]
    BY <1>7 DEF TypeOK, ThreadsOK, NetOK, Sock, Signal, ExitThread
  <2>4. ThreadsOK'
    BY <2>1, <2>2, <2>3 DEF ThreadsOK
  <2>5. ListsOK'
    BY <1>7 DEF TypeOK, ThreadsOK, ListsOK, Signal, ExitThread
  <2>6. NetOK'
    BY <1>7 DEF TypeOK, ThreadsOK, NetOK, Sock, Signal, ExitThread
  <2> QED BY <2>4, <2>5, <2>6 DEF TypeOK
<1>8. ASSUME WaitExitThread PROVE TypeOK'
  <2>1. sleeps' \in Seq(Thread)
    BY <1>8, RemoveFirstKeeps DEF TypeOK, ListsOK, WaitExitThread
  <2>2. ThreadsOK'
    BY <1>8 DEF PoolInv, TypeOK, ThreadsOK, Phase, NetOK, Sock, Unmapped, WaitExitThread
  <2>3. ListsOK'
    BY <1>8, <2>1 DEF TypeOK, ThreadsOK, ListsOK, Unmapped, WaitExitThread
  <2>4. NetOK'
    BY <1>8 DEF TypeOK, ThreadsOK, NetOK, Sock, Unmapped, WaitExitThread
  <2> QED BY <2>2, <2>3, <2>4 DEF TypeOK
<1>9. ASSUME ShrinkPool PROVE TypeOK'
  <2>1. ThreadsOK'
    BY <1>9 DEF PoolInv, TypeOK, ThreadsOK, Phase, NetOK, Sock, ShrinkPool
  <2>2. ListsOK'
    BY <1>9 DEF TypeOK, ThreadsOK, ListsOK, ShrinkPool
  <2>3. NetOK'
    BY <1>9 DEF TypeOK, ThreadsOK, NetOK, Sock, ShrinkPool
  <2> QED BY <2>1, <2>2, <2>3 DEF TypeOK
<1>10. ASSUME NEW t \in Thread, CreateThread(t) PROVE TypeOK'
  <2>1. sleeps' \in Seq(Thread)
    BY <1>10, AppendContains DEF TypeOK, ListsOK, CreateThread
  <2>2. ThreadsOK'
    BY <1>10 DEF PoolInv, TypeOK, ThreadsOK, Phase, NetOK, Sock, Unmapped, CreateThread
  <2>3. ListsOK'
    BY <1>10, <2>1 DEF TypeOK, ThreadsOK, ListsOK, Unmapped, CreateThread
  <2>4. NetOK'
    BY <1>10 DEF TypeOK, ThreadsOK, NetOK, Sock, Unmapped, CreateThread
  <2> QED BY <2>2, <2>3, <2>4 DEF TypeOK
<1>11. ASSUME NEW t \in Thread, LoopHead(t) PROVE TypeOK'
  <2>1. st' \in [Thread -> Int] /\ \A u \in Thread : st'[u] >= EXIT
    BY <1>11 DEF PoolInv, TypeOK, ThreadsOK, NoteSock, LoopHead
  <2>2. pc' \in [Thread -> Phase]
    BY <1>11 DEF TypeOK, ThreadsOK, Phase, NoteSock, LoopHead
  <2>3. gen' \in [Thread -> Nat] /\ wp' \in [Thread -> Fd \cup {NoFd}]
    BY <1>11 DEF TypeOK, ThreadsOK, NetOK, Sock, NoteSock, LoopHead
  <2>4. ThreadsOK'
    BY <2>1, <2>2, <2>3 DEF ThreadsOK
  <2>5. ListsOK'
    BY <1>11 DEF TypeOK, ThreadsOK, ListsOK, NoteSock, LoopHead
  <2>6. NetOK'
    BY <1>11 DEF TypeOK, ThreadsOK, NetOK, Sock, NoteSock, LoopHead
  <2> QED BY <2>4, <2>5, <2>6 DEF TypeOK
<1>12. ASSUME NEW t \in Thread, CondWait(t) PROVE TypeOK'
  <2>1. ThreadsOK'
    BY <1>12 DEF PoolInv, TypeOK, ThreadsOK, Phase, NetOK, Sock, CondWait
  <2>2. ListsOK'
    BY <1>12 DEF TypeOK, ThreadsOK, ListsOK, CondWait
  <2>3. NetOK'
    BY <1>12 DEF TypeOK, ThreadsOK, NetOK, Sock, CondWait
  <2> QED BY <2>1, <2>2, <2>3 DEF TypeOK
<1>13. ASSUME NEW t \in Thread, Woken(t) PROVE TypeOK'
  <2>1. st' \in [Thread -> Int] /\ \A u \in Thread : st'[u] >= EXIT
    BY <1>13 DEF PoolInv, TypeOK, ThreadsOK, NoteSock, Woken
  <2>2. pc' \in [Thread -> Phase]
    BY <1>13 DEF TypeOK, ThreadsOK, Phase, NoteSock, Woken
  <2>3. gen' \in [Thread -> Nat] /\ wp' \in [Thread -> Fd \cup {NoFd}]
    BY <1>13 DEF TypeOK, ThreadsOK, NetOK, Sock, NoteSock, Woken
  <2>4. ThreadsOK'
    BY <2>1, <2>2, <2>3 DEF ThreadsOK
  <2>5. ListsOK'
    BY <1>13 DEF TypeOK, ThreadsOK, ListsOK, NoteSock, Woken
  <2>6. NetOK'
    BY <1>13 DEF TypeOK, ThreadsOK, NetOK, Sock, NoteSock, Woken
  <2> QED BY <2>4, <2>5, <2>6 DEF TypeOK
<1>14. ASSUME NEW t \in Thread, ReadMessage(t) PROVE TypeOK'
  <2>1. ThreadsOK'
    BY <1>14 DEF PoolInv, TypeOK, ThreadsOK, Phase, NetOK, Sock, ReadMessage
  <2>2. ListsOK'
    BY <1>14 DEF TypeOK, ThreadsOK, ListsOK, ReadMessage
  <2>3. NetOK'
    BY <1>14 DEF TypeOK, ThreadsOK, NetOK, Sock, ReadMessage
  <2> QED BY <2>1, <2>2, <2>3 DEF TypeOK
<1>15. ASSUME NEW t \in Thread, NothingLeft(t) PROVE TypeOK'
  <2>1. ThreadsOK'
    BY <1>15 DEF PoolInv, TypeOK, ThreadsOK, Phase, NetOK, Sock, NothingLeft
  <2>2. ListsOK'
    BY <1>15 DEF TypeOK, ThreadsOK, ListsOK, NothingLeft
  <2>3. NetOK'
    BY <1>15 DEF TypeOK, ThreadsOK, NetOK, Sock, NothingLeft
  <2> QED BY <2>1, <2>2, <2>3 DEF TypeOK
<1>16. ASSUME NEW t \in Thread, ReadEof(t) PROVE TypeOK'
  <2>1. st' \in [Thread -> Int] /\ \A u \in Thread : st'[u] >= EXIT
    BY <1>16 DEF PoolInv, TypeOK, ThreadsOK, ReadEof
  <2>2. pc' \in [Thread -> Phase]
    BY <1>16 DEF TypeOK, ThreadsOK, Phase, ReadEof
  <2>3. gen' \in [Thread -> Nat] /\ wp' \in [Thread -> Fd \cup {NoFd}]
    BY <1>16 DEF TypeOK, ThreadsOK, NetOK, Sock, ReadEof
  <2>4. ThreadsOK'
    BY <2>1, <2>2, <2>3 DEF ThreadsOK
  <2>5. ListsOK'
    BY <1>16 DEF TypeOK, ThreadsOK, ListsOK, ReadEof
  <2>6. sock' \in [Fd -> Sock] /\ ev' \subseteq Fd
    <3>1. wp[t] \in Fd => [sock[wp[t]] EXCEPT !.open = FALSE] \in Sock
      <4>1. wp[t] \in Fd => sock[wp[t]] \in Sock
        BY DEF TypeOK, NetOK
      <4> QED BY <4>1, SockEnds
    <3>2. ev' = ev \/ ev' = ev \ {wp[t]}
      BY <1>16 DEF ReadEof
    <3> QED BY <1>16, <3>1, <3>2 DEF TypeOK, NetOK, ReadEof
  <2>7. NetOK'
    BY <1>16, <2>6 DEF TypeOK, ThreadsOK, NetOK, ReadEof
  <2> QED BY <2>4, <2>5, <2>7 DEF TypeOK
<1>17. ASSUME NEW t \in Thread, AfterWork(t) PROVE TypeOK'
  <2>1. st[t] > WORK \/ st[t] \in {WORK, EXIT, SLEEP}
    BY DEF TypeOK, ThreadsOK
  <2>2. \E l \in {"again", "sleep", "leave", "already", "top"} :
          pc' = [pc EXCEPT ![t] = l]
    <3>1. CASE st[t] > WORK
      <4>1. st[t] \notin {WORK, EXIT, SLEEP}
        BY <3>1 DEF TypeOK, ThreadsOK
      <4>2. pc' = [pc EXCEPT ![t] = "again"]
        BY <1>17, <3>1, <4>1 DEF AfterWork
      <4> QED BY <4>2
    <3>2. CASE st[t] = WORK
      <4>1. pc' = [pc EXCEPT ![t] = "sleep"]
        BY <1>17, <3>2 DEF AfterWork
      <4> QED BY <4>1
    <3>3. CASE st[t] = EXIT
      <4>1. pc' = [pc EXCEPT ![t] = "leave"]
        BY <1>17, <3>3 DEF AfterWork
      <4> QED BY <4>1
    <3>4. CASE st[t] = SLEEP
      <4>1. pc' = [pc EXCEPT ![t] = IF keep THEN "top" ELSE "already"]
        BY <1>17, <3>4 DEF AfterWork
      <4> QED BY <4>1
    <3> QED BY <2>1, <3>1, <3>2, <3>3, <3>4
  <2>3. ThreadsOK'
    BY <1>17, <2>2 DEF TypeOK, ThreadsOK, Phase, AfterWork
  <2>4. ListsOK' /\ NetOK'
    BY <1>17 DEF TypeOK, ListsOK, NetOK, AfterWork
  <2> QED BY <2>3, <2>4 DEF TypeOK
<1>18. ASSUME NEW t \in Thread, WorkAgain(t) PROVE TypeOK'
  <2>1. ThreadsOK'
    BY <1>18 DEF PoolInv, TypeOK, ThreadsOK, Phase, NetOK, Sock, WorkAgain
  <2>2. ListsOK'
    BY <1>18 DEF TypeOK, ThreadsOK, ListsOK, WorkAgain
  <2>3. NetOK'
    BY <1>18 DEF TypeOK, ThreadsOK, NetOK, Sock, WorkAgain
  <2> QED BY <2>1, <2>2, <2>3 DEF TypeOK
<1>19. ASSUME NEW t \in Thread, GoToSleep(t) PROVE TypeOK'
  <2>1. sleeps' \in Seq(Thread)
    BY <1>19, AppendContains DEF TypeOK, ListsOK, GoToSleep
  <2>2. st' \in [Thread -> Int] /\ \A u \in Thread : st'[u] >= EXIT
    BY <1>19 DEF PoolInv, TypeOK, ThreadsOK, Unmapped, GoToSleep
  <2>3. pc' \in [Thread -> Phase]
    BY <1>19 DEF TypeOK, ThreadsOK, Phase, Unmapped, GoToSleep
  <2>4. gen' \in [Thread -> Nat] /\ wp' \in [Thread -> Fd \cup {NoFd}]
    BY <1>19 DEF TypeOK, ThreadsOK, NetOK, Sock, Unmapped, GoToSleep
  <2>5. ThreadsOK'
    BY <2>2, <2>3, <2>4 DEF ThreadsOK
  <2>6. ListsOK'
    BY <1>19, <2>1 DEF TypeOK, ThreadsOK, ListsOK, Unmapped, GoToSleep
  <2>7. NetOK'
    BY <1>19 DEF TypeOK, ThreadsOK, NetOK, Sock, Unmapped, GoToSleep
  <2> QED BY <2>5, <2>6, <2>7 DEF TypeOK
<1>20. ASSUME NEW t \in Thread, AlreadySleep(t) PROVE TypeOK'
  <2>1. sleeps' \in Seq(Thread)
    BY <1>20, AppendContains DEF TypeOK, ListsOK, AlreadySleep
  <2>2. ThreadsOK'
    BY <1>20 DEF PoolInv, TypeOK, ThreadsOK, Phase, NetOK, Sock, Unmapped, AlreadySleep
  <2>3. ListsOK'
    BY <1>20, <2>1 DEF TypeOK, ThreadsOK, ListsOK, Unmapped, AlreadySleep
  <2>4. NetOK'
    BY <1>20 DEF TypeOK, ThreadsOK, NetOK, Sock, Unmapped, AlreadySleep
  <2> QED BY <2>2, <2>3, <2>4 DEF TypeOK
<1>21. ASSUME NEW t \in Thread, LeaveMap(t) PROVE TypeOK'
  <2>1. ThreadsOK'
    BY <1>21 DEF PoolInv, TypeOK, ThreadsOK, Phase, NetOK, Sock, Unmapped, LeaveMap
  <2>2. ListsOK'
    BY <1>21 DEF TypeOK, ThreadsOK, ListsOK, Unmapped, LeaveMap
  <2>3. NetOK'
    BY <1>21 DEF TypeOK, ThreadsOK, NetOK, Sock, Unmapped, LeaveMap
  <2> QED BY <2>1, <2>2, <2>3 DEF TypeOK
<1>22. ASSUME NEW t \in Thread, Exiting(t) PROVE TypeOK'
  <2>1. ThreadsOK'
    BY <1>22 DEF PoolInv, TypeOK, ThreadsOK, Phase, NetOK, Sock, Unmapped, Exiting
  <2>2. ListsOK'
    BY <1>22 DEF TypeOK, ThreadsOK, ListsOK, Unmapped, Exiting
  <2>3. NetOK'
    BY <1>22 DEF TypeOK, ThreadsOK, NetOK, Sock, Unmapped, Exiting
  <2> QED BY <2>1, <2>2, <2>3 DEF TypeOK
<1>23. CASE UNCHANGED vars
  BY <1>23 DEF TypeOK, ThreadsOK, ListsOK, NetOK, vars
<1> QED
  BY <1>1, <1>2, <1>3, <1>4, <1>5, <1>6, <1>7, <1>8, <1>9, <1>10, <1>11,
     <1>12, <1>13, <1>14, <1>15, <1>16, <1>17, <1>18, <1>19, <1>20, <1>21, <1>22, <1>23
     DEF Next, EventLoop, Reload, Environment, Worker

\* Every step of the event loop, of the threads and of their environment keeps
\* PoolInv.
LEMMA PoolStep == PoolInv /\ [Next]_vars => PoolInv'
<1> SUFFICES ASSUME PoolInv, [Next]_vars PROVE PoolInv'
  OBVIOUS
<1> TypeOK /\ TypeOK'
  BY PoolStepType DEF PoolInv
<1> USE PoolAssumption DEF pool, net, used, Goto, Idle, Unmapped, NoteSock, Signal, EXIT,
        SLEEP, WORK
<1>1. ASSUME NEW f \in Fd, Arrive(f) PROVE PoolInv'
  <2>1. \A g \in Fd : sock'[g].eof = sock[g].eof
    BY <1>1 DEF TypeOK, NetOK, Sock, Arrive
  <2> QED BY <1>1, <2>1 DEF PoolInv, TypeOK, ListsOK, Kept, Arrive
<1>2. ASSUME NEW f \in Fd, PeerCloses(f) PROVE PoolInv'
  BY <1>2 DEF PoolInv, TypeOK, ThreadsOK, ListsOK, NetOK, Sock, Kept, PeerCloses
<1>3. ASSUME NEW f \in Fd, Reopen(f) PROVE PoolInv'
  BY <1>3 DEF PoolInv, TypeOK, ThreadsOK, ListsOK, NetOK, Sock, Kept, Reopen
<1>4. ASSUME NEW t \in Thread, SpuriousWakeup(t) PROVE PoolInv'
  BY <1>4 DEF PoolInv, TypeOK, ThreadsOK, ListsOK, Kept, SpuriousWakeup
<1>5. ASSUME NEW f \in Fd, Receive(f) PROVE PoolInv'
  BY <1>5 DEF PoolInv, TypeOK, ThreadsOK, ListsOK, NetOK, Sock, Kept, Receive
<1>6. ASSUME DispatchThread PROVE PoolInv'
  <2>1. CASE CountUp(loop.fd)
    <3> DEFINE t == workmap[loop.fd]
    <3>1. t \in Thread /\ st[t] >= WORK /\ pc[t] # "waiting"
      BY <1>6, <2>1 DEF PoolInv, TypeOK, ListsOK, DispatchThread, CountUp, IsWorking
    <3>2. st' = [st EXCEPT ![t] = @ + 1] /\ pc' = pc /\ UNCHANGED sleeps
      BY <2>1, <3>1 DEF CountUp
    <3> HIDE DEF t
    <3>3. \A u \in list : Kept(u)'
      BY <1>6, <3>1, <3>2, SMTT(20) DEF PoolInv, TypeOK, ThreadsOK, ListsOK, Kept, DispatchThread
    <3>4. \A u \in Thread : /\ pc'[u] = "waiting" => st'[u] = SLEEP
                            /\ pc'[u] = "again" => st'[u] > WORK
      BY <3>1, <3>2 DEF PoolInv, TypeOK, ThreadsOK
    <3> QED
      BY <1>6, <3>3, <3>4 DEF PoolInv, DispatchThread
  <2>2. ASSUME NEW k \in DOMAIN sleeps, Woke(k) PROVE PoolInv'
    <3>1. sleeps[k] \in Thread /\ st[sleeps[k]] = SLEEP /\ pc[sleeps[k]] # "again"
      <4>1. sleeps[k] \in Thread
        BY DEF TypeOK, ListsOK
      <4> QED BY <2>2, <4>1 DEF PoolInv, Woke, FirstSleeping
    <3>2. \A u \in Thread : Contains(sleeps, u) /\ u # sleeps[k] => Contains(sleeps', u)
      <4>1. sleeps \in Seq(Thread) /\ k \in 1 .. Len(sleeps)
        BY DEF TypeOK, ListsOK
      <4>2. sleeps' = RemoveAt(sleeps, k)
        BY <2>2 DEF Woke
      <4> QED BY <4>1, <4>2, RemoveAtKeeps, Zenon
    <3>3. \A u \in list : Kept(u)'
      BY <1>6, <2>2, <3>1, <3>2
         DEF PoolInv, TypeOK, ThreadsOK, ListsOK, DispatchThread, Woke, Kept
    <3>4. \A u \in Thread : /\ pc'[u] = "waiting" => st'[u] = SLEEP
                            /\ pc'[u] = "again" => st'[u] > WORK
      BY <1>6, <2>2, <3>1 DEF PoolInv, TypeOK, ThreadsOK, DispatchThread, Woke
    <3> QED
      BY <1>6, <3>3, <3>4 DEF PoolInv, DispatchThread
  <2> QED BY <1>6, <2>1, <2>2 DEF DispatchThread, WakeUp, Woke
<1>7. ASSUME NEW t \in Thread, ExitThread(t) PROVE PoolInv'
  BY <1>7, SMTT(20) DEF PoolInv, TypeOK, ThreadsOK, ListsOK, Kept, ExitThread
<1>8. ASSUME WaitExitThread PROVE PoolInv'
  <2>1. \A u \in Thread : Contains(sleeps, u) /\ u # loop.th => Contains(sleeps', u)
    BY <1>8, RemoveFirstKeeps DEF TypeOK, ListsOK, WaitExitThread
  <2>2. \A u \in list' : Kept(u)'
    BY <1>8, <2>1 DEF PoolInv, TypeOK, ThreadsOK, ListsOK, WaitExitThread, Kept
  <2> QED
    BY <1>8, <2>2 DEF PoolInv, TypeOK, ThreadsOK, WaitExitThread
<1>9. ASSUME ShrinkPool PROVE PoolInv'
  BY <1>9 DEF PoolInv, TypeOK, ThreadsOK, ListsOK, Kept, ShrinkPool
<1>10. ASSUME NEW t \in Thread, CreateThread(t) PROVE PoolInv'
  <2>1. /\ Contains(sleeps', t)
        /\ \A u \in Thread : Contains(sleeps, u) => Contains(sleeps', u)
    BY <1>10, AppendContains DEF TypeOK, ListsOK, CreateThread
  <2>2. \A u \in list' : Kept(u)'
    BY <1>10, <2>1 DEF PoolInv, TypeOK, ThreadsOK, ListsOK, CreateThread, Kept
  <2> QED
    BY <1>10, <2>2 DEF PoolInv, TypeOK, ThreadsOK, CreateThread
<1>11. ASSUME NEW t \in Thread, LoopHead(t) PROVE PoolInv'
  BY <1>11 DEF PoolInv, TypeOK, ThreadsOK, ListsOK, Kept, LoopHead
<1>12. ASSUME NEW t \in Thread, CondWait(t) PROVE PoolInv'
  BY <1>12 DEF PoolInv, TypeOK, ThreadsOK, ListsOK, Kept, CondWait
<1>13. ASSUME NEW t \in Thread, Woken(t) PROVE PoolInv'
  BY <1>13 DEF PoolInv, TypeOK, ThreadsOK, ListsOK, Kept, Woken
<1>14. ASSUME NEW t \in Thread, ReadMessage(t) PROVE PoolInv'
  BY <1>14 DEF PoolInv, TypeOK, ThreadsOK, ListsOK, NetOK, Sock, Kept, ReadMessage
<1>15. ASSUME NEW t \in Thread, NothingLeft(t) PROVE PoolInv'
  BY <1>15 DEF PoolInv, TypeOK, ThreadsOK, ListsOK, Kept, NothingLeft
<1>16. ASSUME NEW t \in Thread, ReadEof(t) PROVE PoolInv'
  <2>1. \A g \in Fd : sock'[g].eof = sock[g].eof
    BY <1>16 DEF TypeOK, NetOK, Sock, ReadEof
  <2>2. \A u \in Thread : /\ pc'[u] = "waiting" => st'[u] = SLEEP
                          /\ pc'[u] = "again" => st'[u] > WORK
    BY <1>16 DEF PoolInv, TypeOK, ThreadsOK, ReadEof
  <2>3. \A u \in list : Kept(u)'
    BY <1>16 DEF PoolInv, TypeOK, ThreadsOK, ListsOK, Kept, ReadEof
  <2> QED BY <1>16, <2>1, <2>2, <2>3 DEF PoolInv, ReadEof
<1>17. ASSUME NEW t \in Thread, AfterWork(t) PROVE PoolInv'
  BY <1>17, SMTT(20) DEF PoolInv, TypeOK, ThreadsOK, ListsOK, Kept, AfterWork
<1>18. ASSUME NEW t \in Thread, WorkAgain(t) PROVE PoolInv'
  BY <1>18, SMTT(20) DEF PoolInv, TypeOK, ThreadsOK, ListsOK, Kept, WorkAgain
<1>19. ASSUME NEW t \in Thread, GoToSleep(t) PROVE PoolInv'
  <2>1. /\ Contains(sleeps', t)
        /\ \A u \in Thread : Contains(sleeps, u) => Contains(sleeps', u)
    BY <1>19, AppendContains DEF TypeOK, ListsOK, GoToSleep
  <2>2. \A u \in list' : Kept(u)'
    BY <1>19, <2>1 DEF PoolInv, TypeOK, ThreadsOK, ListsOK, GoToSleep, Kept
  <2> QED
    BY <1>19, <2>2 DEF PoolInv, TypeOK, ThreadsOK, GoToSleep
<1>20. ASSUME NEW t \in Thread, AlreadySleep(t) PROVE PoolInv'
  <2>1. /\ Contains(sleeps', t)
        /\ \A u \in Thread : Contains(sleeps, u) => Contains(sleeps', u)
    BY <1>20, AppendContains DEF TypeOK, ListsOK, AlreadySleep
  <2>2. \A u \in list' : Kept(u)'
    BY <1>20, <2>1 DEF PoolInv, TypeOK, ThreadsOK, ListsOK, AlreadySleep, Kept
  <2> QED
    BY <1>20, <2>2 DEF PoolInv, TypeOK, ThreadsOK, AlreadySleep
<1>21. ASSUME NEW t \in Thread, LeaveMap(t) PROVE PoolInv'
  BY <1>21 DEF PoolInv, TypeOK, ThreadsOK, ListsOK, Kept, LeaveMap
<1>22. ASSUME NEW t \in Thread, Exiting(t) PROVE PoolInv'
  BY <1>22 DEF PoolInv, TypeOK, ThreadsOK, ListsOK, Kept, Exiting
<1>23. CASE UNCHANGED vars
  BY <1>23 DEF PoolInv, Kept, vars
<1> QED
  BY <1>1, <1>2, <1>3, <1>4, <1>5, <1>6, <1>7, <1>8, <1>9, <1>10, <1>11,
     <1>12, <1>13, <1>14, <1>15, <1>16, <1>17, <1>18, <1>19, <1>20, <1>21, <1>22, <1>23
     DEF Next, EventLoop, Reload, Environment, Worker

\* PoolInv holds in every state of the pool.
THEOREM PoolInvariant == Spec => []PoolInv
BY PoolInit, PoolStep, PTL DEF Spec

\* TypeOK: the lists, the map and the statuses of the threads have their types.
THEOREM PoolTypeCorrect == Spec => []TypeOK
<1>1. PoolInv => TypeOK
  BY DEF PoolInv
<1> QED BY <1>1, PoolInvariant, PTL

\* Dispatchable: a thread that waits in pthread_cond_wait can be found by
\* DispatchThread, whatever closes, wakes up spuriously or is resized.
THEOREM NoThreadLost == Spec => []Dispatchable
<1>1. PoolInv => Dispatchable
  BY DEF PoolInv, TypeOK, ListsOK, Kept, SLEEP, Dispatchable
<1> QED BY <1>1, PoolInvariant, PTL
-----------------------------------------------------------------------------
(* One thread per socket.                                                  *)

\* A new pool satisfies SteadyInv: nothing works, nothing is mapped.
LEMMA SteadyInit == Init => SteadyInv
BY PoolAssumption
   DEF Init, SteadyInv, SteadyPool, Mapped, Entry, Working, Idle, SLEEP, WORK

\* As long as the pool is steady, every step keeps SteadyInv.
LEMMA SteadyStep == PoolInv /\ SteadyInv /\ [Next]_vars => SteadyInv'
<1> SUFFICES ASSUME PoolInv, SteadyInv, [Next]_vars, Steady'
             PROVE  /\ SteadyPool'
                    /\ \A t \in Thread : Mapped(t)'
                    /\ \A f \in Fd : Entry(f)'
  BY DEF SteadyInv
<1> DEFINE Goal == /\ SteadyPool'
                   /\ \A t \in Thread : Mapped(t)'
                   /\ \A f \in Fd : Entry(f)'
<1> USE PoolAssumption DEF pool, net, used, Goto, Idle, NoteSock, EXIT, SLEEP, WORK
<1>0. TypeOK
  BY DEF PoolInv
<1>a. hups \in Nat /\ spurs \in Nat /\ resizes \in Nat
  BY <1>0 DEF TypeOK, NetOK
<1>1. ASSUME NEW f \in Fd, PeerCloses(f) PROVE FALSE
  BY <1>1, <1>a DEF PeerCloses, Steady
<1>2. ASSUME NEW t \in Thread, SpuriousWakeup(t) PROVE FALSE
  BY <1>2, <1>a DEF SpuriousWakeup, Steady
<1>3. ASSUME NEW t \in Thread, ShrinkPool \/ CreateThread(t) PROVE FALSE
  BY <1>3, <1>a DEF ShrinkPool, CreateThread, Steady
<1>4. Steady
  <2>1. CASE UNCHANGED vars
    BY <2>1 DEF vars, Steady
  <2>2. CASE EventLoop
    BY <2>2 DEF EventLoop, Receive, DispatchThread, ExitThread, WaitExitThread, Steady
  <2>3. CASE Reload
    BY <2>3, <1>3, PoolAssumption DEF Reload
  <2>4. CASE Environment
    BY <2>4, <1>1, <1>2 DEF Environment, Arrive, Reopen, Steady
  <2>5. ASSUME NEW t \in Thread, Worker(t) PROVE Steady
    BY <2>5 DEF Worker, LoopHead, CondWait, Woken, ReadMessage, NothingLeft, ReadEof,
                AfterWork, WorkAgain, GoToSleep, AlreadySleep, LeaveMap, Exiting, Steady
  <2> QED BY <2>1, <2>2, <2>3, <2>4, <2>5 DEF Next
<1>5. SteadyPool /\ (\A t \in Thread : Mapped(t)) /\ (\A f \in Fd : Entry(f))
  BY <1>4 DEF SteadyInv
<1>6. ASSUME NEW t \in Thread, ExitThread(t) \/ WaitExitThread PROVE FALSE
  BY <1>5, <1>6 DEF SteadyPool, ExitThread, WaitExitThread
<1>7. ASSUME NEW t \in Thread, AlreadySleep(t) \/ LeaveMap(t) \/ Exiting(t) \/ ReadEof(t)
      PROVE FALSE
  BY <1>5, <1>7 DEF SteadyPool, AlreadySleep, LeaveMap, Exiting, ReadEof
<1>8. ASSUME NEW f \in Fd, Arrive(f) \/ Reopen(f) PROVE Goal
  <2>1. \A g \in Fd : ~sock'[g].eof
    BY <1>0, <1>5, <1>8 DEF TypeOK, NetOK, Sock, SteadyPool, Arrive, Reopen
  <2>2. UNCHANGED pool /\ UNCHANGED loop
    BY <1>8 DEF Arrive, Reopen
  <2> QED BY <1>5, <2>1, <2>2 DEF SteadyPool, Mapped, Entry, Working
<1>9. ASSUME NEW f \in Fd, Receive(f) PROVE Goal
  BY <1>0, <1>5, <1>9 DEF TypeOK, NetOK, SteadyPool, Mapped, Entry, Working, Receive
<1>10. ASSUME DispatchThread PROVE Goal
  <2>0. loop.fd \in Fd
    BY <1>10 DEF PoolInv, DispatchThread
  <2>1. CASE CountUp(loop.fd)
    <3> DEFINE t == workmap[loop.fd]
    <3>1. t \in Thread /\ st[t] >= WORK
      BY <1>0, <2>0, <2>1 DEF TypeOK, ListsOK, CountUp, IsWorking
    <3>2. pc' = pc /\ st' = [st EXCEPT ![t] = @ + 1] /\ UNCHANGED <<wp, workmap>>
      BY <2>1, <3>1 DEF CountUp, Signal, PoolInv
    <3>3. UNCHANGED sock /\ loop' = Idle
      BY <1>10 DEF DispatchThread
    <3> HIDE DEF t
    <3>4. \A u \in Thread : st'[u] >= st[u] /\ (Working(u)' <=> Working(u))
      BY <1>0, <3>1, <3>2 DEF TypeOK, ThreadsOK, Working
    <3>5. SteadyPool'
      BY <1>0, <1>5, <3>2, <3>3, <3>4 DEF TypeOK, ThreadsOK, SteadyPool
    <3>6. \A u \in Thread : Mapped(u)'
      BY <1>5, <3>2, <3>4 DEF Mapped
    <3>7. \A f \in Fd : Entry(f)'
      BY <1>0, <1>5, <3>2, <3>4 DEF TypeOK, ListsOK, Entry
    <3> QED BY <3>5, <3>6, <3>7
  <2>2. ASSUME NEW k \in DOMAIN sleeps, Woke(k) PROVE Goal
    <3> DEFINE t == sleeps[k]
    <3>1. t \in Thread
      BY <1>0 DEF TypeOK, ListsOK
    <3>2. ~Working(t) /\ workmap[loop.fd] = NoThread
      <4>1. st[t] = SLEEP
        BY <2>2 DEF Woke, FirstSleeping
      <4>2. ~IsWorking(workmap[loop.fd])
        BY <2>2 DEF Woke
      <4> QED BY <1>5, <2>0, <4>1, <4>2 DEF Entry, Working, IsWorking
    <3>3. /\ wp' = [wp EXCEPT ![t] = loop.fd]
          /\ st' = [st EXCEPT ![t] = WORK]
          /\ workmap' = [workmap EXCEPT ![loop.fd] = t]
          /\ pc' = IF pc[t] = "waiting" THEN [pc EXCEPT ![t] = "woken"] ELSE pc
      BY <2>2 DEF Woke, Signal
    <3>4. UNCHANGED sock /\ loop' = Idle
      BY <1>10 DEF DispatchThread
    <3> HIDE DEF t
    <3>5. SteadyPool'
      BY <1>0, <1>5, <3>1, <3>3, <3>4 DEF TypeOK, ThreadsOK, SteadyPool, Working
    <3>6. \A u \in Thread : Mapped(u)'
      BY <1>0, <1>5, <2>0, <3>1, <3>2, <3>3
         DEF TypeOK, ThreadsOK, ListsOK, Mapped, Working
    <3>7. ASSUME NEW f \in Fd PROVE Entry(f)'
      <4>1. CASE f = loop.fd
        <5>1. workmap'[loop.fd] = t /\ wp'[t] = loop.fd /\ st'[t] = WORK
          BY <1>0, <2>0, <3>1, <3>3 DEF TypeOK, ThreadsOK, ListsOK
        <5> QED BY <4>1, <5>1 DEF Entry, Working
      <4>2. CASE f # loop.fd
        <5>1. workmap'[f] = workmap[f]
          BY <1>0, <3>3, <4>2 DEF TypeOK, ListsOK
        <5>2. workmap[f] # NoThread => workmap[f] \in Thread \ {t}
          BY <1>0, <1>5, <3>2 DEF TypeOK, ListsOK, Entry
        <5> QED
          BY <1>0, <1>5, <3>3, <5>1, <5>2 DEF TypeOK, ThreadsOK, Entry, Working
      <4> QED BY <4>1, <4>2
    <3> QED BY <3>5, <3>6, <3>7
  <2> QED BY <1>10, <2>1, <2>2 DEF DispatchThread, WakeUp, Woke
<1>11. ASSUME NEW t \in Thread, LoopHead(t) \/ CondWait(t) \/ Woken(t) \/ NothingLeft(t)
       PROVE Goal
  <2>1. UNCHANGED <<st, wp, workmap, sock, loop>>
    BY <1>11 DEF LoopHead, CondWait, Woken, NothingLeft
  <2>2. SteadyPool'
    BY <1>0, <1>5, <1>11, <2>1
       DEF TypeOK, ThreadsOK, SteadyPool, Working, LoopHead, CondWait, Woken, NothingLeft
  <2> QED BY <1>5, <2>1, <2>2 DEF Mapped, Entry, Working
<1>12. ASSUME NEW t \in Thread, ReadMessage(t) PROVE Goal
  <2>1. \A f \in Fd : ~sock'[f].eof
    BY <1>0, <1>5, <1>12 DEF TypeOK, NetOK, Sock, SteadyPool, ReadMessage
  <2>2. UNCHANGED <<st, pc, wp, workmap, loop>>
    BY <1>12 DEF ReadMessage
  <2> QED BY <1>5, <2>1, <2>2 DEF SteadyPool, Mapped, Entry, Working
<1>13. ASSUME NEW t \in Thread, AfterWork(t) PROVE Goal
  <2>1. UNCHANGED <<st, wp, workmap, sock, loop>>
    BY <1>13 DEF AfterWork
  <2>2. st[t] >= WORK
    BY <1>5, <1>13 DEF SteadyPool, Working, AfterWork
  <2>3. pc' = [pc EXCEPT ![t] = "again"] \/ pc' = [pc EXCEPT ![t] = "sleep"]
    <3>1. CASE st[t] = WORK
      BY <1>13, <3>1 DEF AfterWork
    <3>2. CASE st[t] # WORK
      <4>1. st[t] > WORK /\ st[t] \notin {WORK, EXIT, SLEEP}
        BY <1>0, <2>2, <3>2 DEF TypeOK, ThreadsOK
      <4> QED BY <1>13, <4>1 DEF AfterWork
    <3> QED BY <3>1, <3>2
  <2>4. SteadyPool'
    BY <1>0, <1>5, <2>1, <2>2, <2>3 DEF TypeOK, ThreadsOK, SteadyPool, Working
  <2> QED BY <1>5, <2>1, <2>4 DEF Mapped, Entry, Working
<1>14. ASSUME NEW t \in Thread, WorkAgain(t) PROVE Goal
  <2>1. UNCHANGED <<wp, workmap, sock, loop>> /\ pc' = [pc EXCEPT ![t] = "top"]
    BY <1>14 DEF WorkAgain
  <2>2. st[t] > WORK
    BY <1>14 DEF PoolInv, WorkAgain
  <2>3. \A u \in Thread : (Working(u)' <=> Working(u)) /\ (st[u] >= SLEEP => st'[u] >= SLEEP)
    BY <1>0, <1>14, <2>2 DEF TypeOK, ThreadsOK, Working, WorkAgain
  <2>4. SteadyPool'
    BY <1>0, <1>5, <2>1, <2>3 DEF TypeOK, ThreadsOK, SteadyPool
  <2>5. \A f \in Fd : Entry(f)'
    BY <1>0, <1>5, <2>1, <2>3 DEF TypeOK, ListsOK, Entry
  <2> QED BY <1>5, <2>1, <2>3, <2>4, <2>5 DEF Mapped
<1>15. ASSUME NEW t \in Thread, GoToSleep(t) PROVE Goal
  <2>1. /\ workmap' = [workmap EXCEPT ![wp[t]] = NoThread]
        /\ st' = [st EXCEPT ![t] = SLEEP]
        /\ pc' = [pc EXCEPT ![t] = "top"]
        /\ UNCHANGED <<wp, sock, loop>>
    BY <1>15 DEF GoToSleep, Unmapped
  <2>2. wp[t] \in Fd /\ workmap[wp[t]] = t
    BY <1>5, <1>15 DEF SteadyPool, Mapped, GoToSleep
  <2>3. SteadyPool'
    BY <1>0, <1>5, <2>1 DEF TypeOK, ThreadsOK, SteadyPool, Working
  <2>4. \A u \in Thread : Mapped(u)'
    BY <1>0, <1>5, <2>1, <2>2 DEF TypeOK, ThreadsOK, ListsOK, Mapped, Working
  <2>5. \A f \in Fd : Entry(f)'
    BY <1>0, <1>5, <2>1, <2>2 DEF TypeOK, ThreadsOK, ListsOK, Entry, Working
  <2> QED BY <2>3, <2>4, <2>5
<1>16. CASE UNCHANGED vars
  BY <1>5, <1>16 DEF vars, SteadyPool, Mapped, Entry, Working
<1> QED
  BY <1>1, <1>2, <1>3, <1>6, <1>7, <1>8, <1>9, <1>10, <1>11, <1>12, <1>13, <1>14, <1>15,
     <1>16
     DEF Next, EventLoop, Reload, Environment, Worker

\* Both invariants together.
THEOREM SteadyInvariant == Spec => [](PoolInv /\ SteadyInv)
BY PoolInit, PoolStep, SteadyInit, SteadyStep, PTL DEF Spec

\* OneReader: two threads never read the same open socket, as long as the pool is
\* not resized, no socket is closed and no wait returns without a signal.
THEOREM OneReaderPerSocket == Spec => []OneReader
<1>1. PoolInv /\ SteadyInv => OneReader
  BY PoolAssumption DEF PoolInv, TypeOK, ThreadsOK, SteadyInv, SteadyPool, Mapped, OneReader
<1> QED BY <1>1, SteadyInvariant, PTL

\* MapAccurate: the working map names threads that work for their descriptor and
\* do not wait, under the same conditions.
THEOREM MapIsAccurate == Spec => []MapAccurate
<1>1. PoolInv /\ SteadyInv => MapAccurate
  <2> SUFFICES ASSUME PoolInv, SteadyInv, Steady, NEW f \in Fd, workmap[f] # NoThread
               PROVE  wp[workmap[f]] = f /\ pc[workmap[f]] # "waiting"
    BY DEF MapAccurate
  <2>1. workmap[f] \in Thread
    BY DEF PoolInv, TypeOK, ListsOK
  <2> QED BY <2>1 DEF PoolInv, SteadyInv, Entry, Working, SLEEP, WORK
<1> QED BY <1>1, SteadyInvariant, PTL
=============================================================================
