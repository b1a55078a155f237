----------------------------- MODULE ChmThread -----------------------------
(***************************************************************************)
(* The thread pool (lib/chmthread.cc) with the event loop and the sockets  *)
(* it serves (lib/chmeventsock.cc).                                        *)
(*                                                                         *)
(* epoll reports a socket once (edge triggered).  The event loop hands the *)
(* descriptor to DispatchThread, which counts up the status of the thread  *)
(* already working for it or wakes a sleeping one; the thread reads until  *)
(* nothing is left and goes back to sleep.  The lists of the pool are      *)
(* changed under list_lockval, but a worker reads its own status without   *)
(* any lock and locks afterwards: each such read is a step of its own.     *)
(***************************************************************************)
EXTENDS Integers, Sequences, FiniteSets, SequencesExt

CONSTANTS
  Thread,      \* the threads of the pool
  Fd,          \* descriptor numbers; a closed number is used again
  NoFd,        \* wp_param of a thread that never worked
  NoThread,    \* no entry in the working map
  KeepModes,   \* the values of is_keep_evcnt
  MaxMsg,      \* bound: messages that arrive
  MaxHup,      \* bound: connections the peer closes
  MaxResize,   \* bound: changes of the thread count by the configuration
  MaxSpurious  \* bound: returns of pthread_cond_wait without a signal

ASSUME PoolAssumption ==
  /\ IsFiniteSet(Thread) /\ Thread # {} /\ NoThread \notin Thread
  /\ IsFiniteSet(Fd) /\ NoFd \notin Fd
  /\ KeepModes \subseteq BOOLEAN
  /\ <<MaxMsg, MaxHup, MaxResize, MaxSpurious>> \in Nat \X Nat \X Nat \X Nat

VARIABLES
  st,        \* status of each thread
  pc,        \* where WorkerProc of each thread is
  wp,        \* wp_param of each thread
  gen,       \* the connection each thread started to work for
  list,      \* chmthlist
  sleeps,    \* chmthsleeps
  workmap,   \* chmthworkmap
  keep,      \* is_keep_evcnt of the pool
  sock,      \* the connections, by descriptor
  ev,        \* descriptors epoll has an event for
  loop,      \* what the event loop is doing
  msgs, hups, resizes, spurs   \* used up so far

pool == <<st, pc, wp, gen, list, sleeps, workmap>>
net  == <<sock, ev>>
used == <<msgs, hups, resizes, spurs>>
vars == <<pool, keep, net, loop, used>>

EXIT  == -1
SLEEP == 0
WORK  == 1

Phase == {"none", "top", "lock", "waiting", "woken", "work", "after", "again", "sleep",
          "already", "leave", "exiting", "gone"}
Sock  == [open : BOOLEAN, gen : Nat, unread : Nat, eof : BOOLEAN]

ThreadsOK ==
  /\ st \in [Thread -> Int] /\ \A t \in Thread : st[t] >= EXIT
  /\ pc \in [Thread -> Phase]
  /\ wp \in [Thread -> Fd \cup {NoFd}]
  /\ gen \in [Thread -> Nat]

ListsOK ==
  /\ list \subseteq Thread
  /\ sleeps \in Seq(Thread)
  /\ workmap \in [Fd \cup {NoFd} -> Thread \cup {NoThread}]

NetOK ==
  /\ keep \in KeepModes
  /\ sock \in [Fd -> Sock]
  /\ ev \subseteq Fd
  /\ loop \in [pc : {"idle", "dispatch", "exit", "join"}, fd : Fd \cup {NoFd},
               th : Thread \cup {NoThread}]
  /\ msgs \in Nat /\ hups \in Nat /\ resizes \in Nat /\ spurs \in Nat

TypeOK == ThreadsOK /\ ListsOK /\ NetOK

Idle == [pc |-> "idle", fd |-> NoFd, th |-> NoThread]

Init ==
  /\ st = [t \in Thread |-> SLEEP]
  /\ pc = [t \in Thread |-> "top"]
  /\ wp = [t \in Thread |-> NoFd]
  /\ gen = [t \in Thread |-> 0]
  /\ list = Thread
  /\ sleeps = SetToSeq(Thread)
  /\ workmap = [f \in Fd \cup {NoFd} |-> NoThread]
  /\ keep \in KeepModes
  /\ sock = [f \in Fd |-> [open |-> TRUE, gen |-> 1, unread |-> 0, eof |-> FALSE]]
  /\ ev = {}
  /\ loop = Idle
  /\ msgs = 0 /\ hups = 0 /\ resizes = 0 /\ spurs = 0

-----------------------------------------------------------------------------
(* The network and the kernel.                                             *)

Arrive(f) ==
  /\ msgs < MaxMsg /\ sock[f].open /\ ~sock[f].eof
  /\ sock' = [sock EXCEPT ![f].unread = @ + 1]
  /\ ev' = ev \cup {f}
  /\ msgs' = msgs + 1
  /\ UNCHANGED <<pool, keep, loop, hups, resizes, spurs>>

\* Threads that keep the event count never work on sockets that close.
PeerCloses(f) ==
  /\ ~keep /\ hups < MaxHup /\ sock[f].open /\ ~sock[f].eof
  /\ sock' = [sock EXCEPT ![f].eof = TRUE]
  /\ ev' = ev \cup {f}
  /\ hups' = hups + 1
  /\ UNCHANGED <<pool, keep, loop, msgs, resizes, spurs>>

\* A new connection gets the number of a closed one.
Reopen(f) ==
  /\ ~sock[f].open
  /\ sock' = [sock EXCEPT ![f] = [open |-> TRUE, gen |-> @.gen + 1, unread |-> 0,
                                  eof |-> FALSE]]
  /\ UNCHANGED <<pool, keep, ev, loop, used>>

-----------------------------------------------------------------------------
(* The event loop.                                                         *)

\* ChmEventSock::Receive: the descriptor goes to the pool.
Receive(f) ==
  /\ loop = Idle /\ f \in ev
  /\ ev' = ev \ {f}
  /\ loop' = [Idle EXCEPT !.pc = "dispatch", !.fd = f]
  /\ UNCHANGED <<pool, keep, sock, used>>

\* pthread_cond_signal: only a thread that waits notices it.
Signal(t) == IF pc[t] = "waiting" THEN [pc EXCEPT ![t] = "woken"] ELSE pc

IsWorking(t) == t # NoThread /\ st[t] >= WORK

\* The position of the first thread of chmthsleeps whose status is SLEEP.
FirstSleeping(i) ==
  /\ i \in DOMAIN sleeps /\ st[sleeps[i]] = SLEEP
  /\ \A j \in 1 .. i - 1 : st[sleeps[j]] # SLEEP

CountUp(f) ==
  LET t == workmap[f]
  IN  /\ IsWorking(t)
      /\ st' = [st EXCEPT ![t] = @ + 1]
      /\ pc' = Signal(t)
      /\ UNCHANGED <<wp, sleeps, workmap>>

\* Faulty variant: the working map is not consulted before a thread is woken.
MutWakeUp(f) ==
  \E i \in DOMAIN sleeps :
    LET t == sleeps[i]
    IN  /\ FirstSleeping(i)
        /\ sleeps' = RemoveAt(sleeps, i)
        /\ wp' = [wp EXCEPT ![t] = f]
        /\ st' = [st EXCEPT ![t] = WORK]
        /\ workmap' = [workmap EXCEPT ![f] = t]
        /\ pc' = Signal(t)

WakeUp(f) ==
  /\ ~IsWorking(workmap[f])
  /\ \E i \in DOMAIN sleeps :
       LET t == sleeps[i]
       IN  /\ FirstSleeping(i)
           /\ sleeps' = RemoveAt(sleeps, i)
           /\ wp' = [wp EXCEPT ![t] = f]
           /\ st' = [st EXCEPT ![t] = WORK]
           /\ workmap' = [workmap EXCEPT ![f] = t]
           /\ pc' = Signal(t)

\* DispatchThread: tried again until a thread is found.
DispatchThread ==
  /\ loop.pc = "dispatch"
  /\ CountUp(loop.fd) \/ WakeUp(loop.fd)
  /\ loop' = Idle
  /\ UNCHANGED <<gen, list, keep, net, used>>

\* UpdateInternalData with a smaller thread count: ExitThreads.
ShrinkPool ==
  /\ loop = Idle /\ resizes < MaxResize /\ Cardinality(list) > 1
  /\ loop' = [Idle EXCEPT !.pc = "exit"]
  /\ resizes' = resizes + 1
  /\ UNCHANGED <<pool, keep, net, msgs, hups, spurs>>

\* Faulty variant: only a thread that has exited by itself is taken.
MutExitThread(t) ==
  /\ loop.pc = "exit" /\ t \in list /\ st[t] = EXIT
  /\ loop' = [loop EXCEPT !.pc = "join", !.th = t]
  /\ UNCHANGED <<pool, keep, net, used>>

\* ExitThreads: the first thread that sleeps or has exited; tried again until
\* there is one.
ExitThread(t) ==
  /\ loop.pc = "exit" /\ t \in list /\ st[t] \in {SLEEP, EXIT}
  /\ st' = [st EXCEPT ![t] = EXIT]
  /\ pc' = Signal(t)
  /\ loop' = [loop EXCEPT !.pc = "join", !.th = t]
  /\ UNCHANGED <<wp, gen, list, sleeps, workmap, keep, net, used>>

\* WaitExitThread: the thread has ended; it is taken off the lists, and so is
\* whatever the working map holds for its parameter.
WaitExitThread ==
  LET t == loop.th
  IN  /\ loop.pc = "join" /\ pc[t] = "gone"
      /\ workmap' = [workmap EXCEPT ![wp[t]] = NoThread]
      /\ sleeps' = RemoveFirst(sleeps, t)
      /\ list' = list \ {t}
      /\ pc' = [pc EXCEPT ![t] = "none"]
      /\ loop' = Idle
      /\ UNCHANGED <<st, wp, gen, keep, net, used>>

\* UpdateInternalData with a larger thread count.
CreateThread(t) ==
  /\ loop = Idle /\ resizes < MaxResize /\ t \notin list
  /\ list' = list \cup {t}
  /\ st' = [st EXCEPT ![t] = SLEEP]
  /\ pc' = [pc EXCEPT ![t] = "top"]
  /\ wp' = [wp EXCEPT ![t] = NoFd]
  /\ gen' = [gen EXCEPT ![t] = 0]
  /\ sleeps' = Append(sleeps, t)
  /\ resizes' = resizes + 1
  /\ UNCHANGED <<workmap, keep, net, loop, msgs, hups, spurs>>

-----------------------------------------------------------------------------
(* The worker threads.                                                     *)

Goto(t, l) == pc' = [pc EXCEPT ![t] = l]

\* The connection behind the parameter when the work starts.
NoteSock(t) == gen' = [gen EXCEPT ![t] = IF wp[t] \in Fd THEN sock[wp[t]].gen ELSE 0]

Unmapped(t) == [workmap EXCEPT ![wp[t]] = NoThread]

\* The head of the loop reads the status without a lock.
LoopHead(t) ==
  /\ pc[t] = "top"
  /\ Goto(t, IF st[t] = EXIT THEN "exiting" ELSE IF st[t] = SLEEP THEN "lock" ELSE "work")
  /\ NoteSock(t)
  /\ UNCHANGED <<st, wp, list, sleeps, workmap, keep, net, loop, used>>

\* The status is checked again with the mutex held, then the thread waits.
CondWait(t) ==
  /\ pc[t] = "lock"
  /\ Goto(t, IF st[t] = SLEEP THEN "waiting" ELSE "top")
  /\ UNCHANGED <<st, wp, gen, list, sleeps, workmap, keep, net, loop, used>>

SpuriousWakeup(t) ==
  /\ spurs < MaxSpurious /\ pc[t] = "waiting"
  /\ Goto(t, "woken")
  /\ spurs' = spurs + 1
  /\ UNCHANGED <<st, wp, gen, list, sleeps, workmap, keep, net, loop, msgs, hups, resizes>>

\* After the wait only EXIT is looked for.
Woken(t) ==
  /\ pc[t] = "woken"
  /\ Goto(t, IF st[t] = EXIT THEN "exiting" ELSE "work")
  /\ NoteSock(t)
  /\ UNCHANGED <<st, wp, list, sleeps, workmap, keep, net, loop, used>>

\* ReceiveWorkerProc: one message is read and processed.
ReadMessage(t) ==
  LET f == wp[t]
  IN  /\ pc[t] = "work" /\ f \in Fd /\ sock[f].open /\ sock[f].unread > 0
      /\ sock' = [sock EXCEPT ![f].unread = @ - 1]
      /\ UNCHANGED <<pool, keep, ev, loop, used>>

\* ReceiveWorkerProc: nothing is left to read, or the descriptor is not open.
NothingLeft(t) ==
  LET f == wp[t]
  IN  /\ pc[t] = "work"
      /\ \/ f = NoFd
         \/ f \in Fd /\ ~sock[f].open
         \/ f \in Fd /\ sock[f].unread = 0 /\ ~sock[f].eof
      /\ Goto(t, "after")
      /\ UNCHANGED <<st, wp, gen, list, sleeps, workmap, keep, net, loop, used>>

\* ReceiveWorkerProc: the end of the stream is read.  RawNotifyHup clears the
\* status of the own thread, then closes the descriptor; not when the descriptor
\* has come to stand for another connection since the work started.
ReadEof(t) ==
  LET f == wp[t]
      mine == gen[t] = sock[f].gen
  IN  /\ pc[t] = "work" /\ f \in Fd
      /\ sock[f].open /\ sock[f].unread = 0 /\ sock[f].eof
      /\ st' = IF mine /\ st[t] >= WORK THEN [st EXCEPT ![t] = SLEEP] ELSE st
      /\ sock' = IF mine THEN [sock EXCEPT ![f].open = FALSE] ELSE sock
      /\ ev' = IF mine THEN ev \ {f} ELSE ev
      /\ Goto(t, "after")
      /\ UNCHANGED <<wp, gen, list, sleeps, workmap, keep, loop, used>>

\* The work is done; the status is read without a lock.
AfterWork(t) ==
  /\ pc[t] = "after"
  /\ Goto(t, CASE st[t] > WORK  -> "again"
               [] st[t] = WORK  -> "sleep"
               [] st[t] = EXIT  -> "leave"
               [] st[t] = SLEEP -> IF keep THEN "top" ELSE "already")
  /\ UNCHANGED <<st, wp, gen, list, sleeps, workmap, keep, net, loop, used>>

\* Work was counted up meanwhile: go on with one less, or, when events are not
\* stacked, with one.
WorkAgain(t) ==
  /\ pc[t] = "again"
  /\ st' = [st EXCEPT ![t] = IF keep THEN @ - 1 ELSE WORK]
  /\ Goto(t, "top")
  /\ UNCHANGED <<wp, gen, list, sleeps, workmap, keep, net, loop, used>>

\* Faulty variant: the entry of the working map stays.
MutStayMapped(t) ==
  /\ pc[t] = "sleep"
  /\ st' = [st EXCEPT ![t] = SLEEP]
  /\ sleeps' = Append(sleeps, t)
  /\ Goto(t, "top")
  /\ UNCHANGED <<wp, gen, list, workmap, keep, net, loop, used>>

GoToSleep(t) ==
  /\ pc[t] = "sleep"
  /\ workmap' = Unmapped(t)
  /\ st' = [st EXCEPT ![t] = SLEEP]
  /\ sleeps' = Append(sleeps, t)
  /\ Goto(t, "top")
  /\ UNCHANGED <<wp, gen, list, keep, net, loop, used>>

\* Faulty variant: a thread that finds itself asleep is taken to be listed.
MutAlreadySleep(t) ==
  /\ pc[t] = "already"
  /\ workmap' = Unmapped(t)
  /\ Goto(t, "top")
  /\ UNCHANGED <<st, wp, gen, list, sleeps, keep, net, loop, used>>

\* The status is SLEEP already.  The search of the sleeping list compares its
\* iterator with begin() and so finds nothing: the thread is always pushed.
AlreadySleep(t) ==
  /\ pc[t] = "already"
  /\ workmap' = Unmapped(t)
  /\ sleeps' = Append(sleeps, t)
  /\ Goto(t, "top")
  /\ UNCHANGED <<st, wp, gen, list, keep, net, loop, used>>

\* EXIT was set during the work.
LeaveMap(t) ==
  /\ pc[t] = "leave"
  /\ workmap' = Unmapped(t)
  /\ Goto(t, "top")
  /\ UNCHANGED <<st, wp, gen, list, sleeps, keep, net, loop, used>>

\* The end of WorkerProc.
Exiting(t) ==
  /\ pc[t] = "exiting"
  /\ workmap' = Unmapped(t)
  /\ Goto(t, "gone")
  /\ UNCHANGED <<st, wp, gen, list, sleeps, keep, net, loop, used>>

Worker(t) ==
  \/ LoopHead(t) \/ CondWait(t) \/ Woken(t)
  \/ ReadMessage(t) \/ NothingLeft(t) \/ ReadEof(t)
  \/ AfterWork(t) \/ WorkAgain(t) \/ GoToSleep(t) \/ AlreadySleep(t) \/ LeaveMap(t)
  \/ Exiting(t)

EventLoop ==
  \/ \E f \in Fd : Receive(f)
  \/ DispatchThread
  \/ \E t \in Thread : ExitThread(t)
  \/ WaitExitThread

Reload == ShrinkPool \/ \E t \in Thread : CreateThread(t)

Environment ==
  \/ \E f \in Fd : Arrive(f) \/ PeerCloses(f) \/ Reopen(f)
  \/ \E t \in Thread : SpuriousWakeup(t)

Next == EventLoop \/ Reload \/ Environment \/ \E t \in Thread : Worker(t)

Spec == Init /\ [][Next]_vars

\* The operating system runs every thread that can run.
FairSpec ==
  Spec /\ WF_vars(EventLoop) /\ \A t \in Thread : WF_vars(Worker(t))

-----------------------------------------------------------------------------
(* Properties.                                                             *)

\* No socket was closed, no wait returned without a signal and the pool was not
\* resized so far.
Steady == hups = 0 /\ spurs = 0 /\ resizes = 0

\* Two threads never read the same open socket: DispatchThread keeps one
\* thread per descriptor, so the bytes of a stream are read in order.  A thread
\* that exits, and one that finds its status to be SLEEP already (after
\* RawNotifyHup or a spurious wake-up), erases the entry of its parameter even
\* when it is another thread's, which breaks this: see the README.
OneReader ==
  Steady => \A t, u \in Thread :
              t # u /\ pc[t] = "work" /\ pc[u] = "work" /\ wp[t] = wp[u] => wp[t] \notin Fd

\* The working map never names a thread that works for another descriptor or
\* sleeps in pthread_cond_wait: a count-up reaches the thread it is meant for.
\* The same erasures break this too.
MapAccurate ==
  Steady => \A f \in Fd : LET t == workmap[f]
                          IN  t # NoThread => wp[t] = f /\ pc[t] # "waiting"

\* A thread that waits in pthread_cond_wait can be found: it is on the list
\* DispatchThread searches and its status is SLEEP.  Otherwise the pool loses a
\* thread for good.
Dispatchable ==
  \A t \in list : pc[t] = "waiting" => st[t] = SLEEP /\ Contains(sleeps, t)

\* Whatever sockets close and however the pool is resized, the event loop never
\* hangs in DispatchThread or ExitThreads: it comes back to epoll_wait.
LoopReturns == []<>(loop = Idle)

\* "We use edge triggered epoll ... we must read more until EAGAIN.  Otherwise
\* we lost data": when every thread sleeps and no event is on its way, no socket
\* has unread data.
NoLostWakeup ==
  (loop = Idle /\ ev = {} /\ \A t \in list : pc[t] = "waiting")
    => \A f \in Fd : sock[f].open => sock[f].unread = 0 /\ ~sock[f].eof

\* "already set": no thread is on the sleeping list twice.
SleepsOnce == IsInjective(sleeps)
=============================================================================
