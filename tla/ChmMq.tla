------------------------------- MODULE ChmMq -------------------------------
(***************************************************************************)
(* Messages between the chmpx process and its clients over POSIX message   *)
(* queues (lib/chmeventmq.cc, lib/chmcntrl.cc).                            *)
(*                                                                         *)
(* A message is stored in a k2hash table that all processes share, under a *)
(* key made of the sender's and the receiver's msgid and a serial number.  *)
(* Through the receiver's queue goes one word: the sender's msgid and the  *)
(* serial.  The receiver builds the key, takes the data and removes the    *)
(* key.  With MQACK the chmpx process answers a client's message with an   *)
(* ACK word: two bits of the serial say ACK and failure.                   *)
(*                                                                         *)
(* Clients send and receive with one thread each; the chmpx process        *)
(* receives on its boxes (in the event loop, or in worker threads that     *)
(* read until the queue is empty) and hands messages from its sockets to   *)
(* clients (Deliverer: the threads that do so).                            *)
(***************************************************************************)
EXTENDS Integers, Sequences, FiniteSets

CONSTANTS
  Client,       \* the msgids of the clients
  Box,          \* the msgids of the chmpx process
  Deliverer,    \* threads of the chmpx process that send to clients
  SerialLimit,  \* MAX_MQ_SERIAL_NUMBER + 1
  UseThreads,   \* MQTHREADCNT is not 0
  Late,         \* a wait for an ACK may run into its time-out
  RetryCount,   \* MQRETRYCNT
  MaxQueue,     \* mq_maxmsg
  MaxSend,      \* bound: messages of each client
  MaxDeliver    \* bound: messages of each Deliverer

\* No message stays unread for as long as it takes to use up all serial numbers.
ASSUME SerialAssumption ==
  SerialLimit \in Nat /\ SerialLimit >= MaxSend /\ SerialLimit >= MaxDeliver

ASSUME MqAssumption ==
  /\ Client # {} /\ Box # {}
  /\ SerialLimit \in Nat \ {0} /\ RetryCount \in Nat \ {0} /\ MaxQueue \in Nat \ {0}
  /\ UseThreads \in BOOLEAN /\ Late \in BOOLEAN
  /\ MaxSend \in Nat /\ MaxDeliver \in Nat

\* A msgid belongs to a client or to the chmpx process.
ASSUME NamesAssumption ==
  Client \cap (Box \cup Deliverer) = {} /\ "chmpx" \notin Client

Sender == Client \cup Deliverer
UpMsg  == Client \X (1 .. MaxSend)
Msg    == UpMsg \cup (Deliverer \X (1 .. MaxDeliver))
Proc   == Client \cup {"chmpx"}
NoMsg  == <<"none", 0>>

VARIABLES
  serial,   \* serial_num of each process
  q,        \* the message queues
  kv,       \* the k2hash table: the stored messages by key
  sd,       \* what each sending thread does
  rx,       \* what the chmpx process does with the queue of each box
  ev,       \* boxes epoll reports (edge triggered)
  fate,     \* what has become of each message
  told      \* what Send has returned for it

vars == <<serial, q, kv, sd, rx, ev, fate, told>>

-----------------------------------------------------------------------------
(* Serial numbers, ACK bits and keys.                                      *)

Wrap(n) == IF n + 1 > SerialLimit - 1 THEN 0 ELSE n + 1

AckBits(ack) ==
  CASE ack = "none"    -> 0
    [] ack = "success" -> 2 * SerialLimit
    [] ack = "failure" -> 3 * SerialLimit

ComposeSerial(num, ack) == num + AckBits(ack)

NumberOf(w)     == w % SerialLimit
IsAck(w)        == (w \div (2 * SerialLimit)) % 2 = 1
IsAckSuccess(w) == IsAck(w) /\ (w \div SerialLimit) % 2 = 0

Word(id, num, ack) == [id |-> id, w |-> ComposeSerial(num, ack)]

Key(dept, term, num) == <<dept, term, num>>

Stored(k, m) == [x \in DOMAIN kv \cup {k} |-> IF x = k THEN m ELSE kv[x]]
Removed(k)   == [x \in DOMAIN kv \ {k} |-> kv[x]]

-----------------------------------------------------------------------------

IdleSend == [pc |-> "idle", msg |-> NoMsg, num |-> 0, dept |-> "none", term |-> "none",
             cnt |-> 0, n |-> 0]
IdleRecv == [pc |-> "idle", msg |-> NoMsg, num |-> 0, to |-> "none", ok |-> FALSE, cnt |-> 0]

Init ==
  /\ serial = [p \in Proc |-> 0]
  /\ q = [i \in Client \cup Box |-> << >>]
  /\ kv = << >>
  /\ sd = [s \in Sender |-> IdleSend]
  /\ rx = [b \in Box |-> IdleRecv]
  /\ ev = {}
  /\ fate = [m \in Msg |-> "new"]
  /\ told = [m \in Msg |-> "nothing"]

Fated(m, f) == IF m \in Msg THEN [fate EXCEPT ![m] = f] ELSE fate

\* Send returns r: the thread is free for its next message.
Return(s, r) ==
  /\ sd' = [sd EXCEPT ![s] = [IdleSend EXCEPT !.n = sd[s].n]]
  /\ told' = [told EXCEPT ![sd[s].msg] = r]

-----------------------------------------------------------------------------
(* Send.                                                                   *)

\* RawSend of a client: BuildC2CHeadEx takes a serial number and one of the
\* msgids of the chmpx process.
BuildSendHead(c, b) ==
  /\ sd[c].pc = "idle" /\ sd[c].n < MaxSend
  /\ sd' = [sd EXCEPT ![c] = [IdleSend EXCEPT !.pc = "set", !.msg = <<c, sd[c].n + 1>>,
                                !.num = serial[c], !.dept = c, !.term = b, !.n = sd[c].n + 1]]
  /\ serial' = [serial EXCEPT ![c] = Wrap(@)]
  /\ UNCHANGED <<q, kv, rx, ev, fate, told>>

\* Processing of a COM_C2C from a socket: a client is chosen, serial_num is read...
DeliverHead(d, b, c) ==
  /\ sd[d].pc = "idle" /\ sd[d].n < MaxDeliver
  /\ sd' = [sd EXCEPT ![d] = [IdleSend EXCEPT !.pc = "number", !.msg = <<d, sd[d].n + 1>>,
                                !.num = serial["chmpx"], !.dept = b, !.term = c,
                                !.n = sd[d].n + 1]]
  /\ UNCHANGED <<serial, q, kv, rx, ev, fate, told>>

\* Faulty variant: the number is read but not counted up.
MutGetSerialNumber(d) ==
  /\ sd[d].pc = "number"
  /\ sd' = [sd EXCEPT ![d].pc = "set"]
  /\ UNCHANGED <<serial, q, kv, rx, ev, fate, told>>

\* ... and counted up, without a lock: from the value just read, or read again.
GetSerialNumber(d) ==
  /\ sd[d].pc = "number"
  /\ \E n \in {sd[d].num, serial["chmpx"]} : serial' = [serial EXCEPT !["chmpx"] = Wrap(n)]
  /\ sd' = [sd EXCEPT ![d].pc = "set"]
  /\ UNCHANGED <<q, kv, rx, ev, fate, told>>

KeyOf(s) == Key(sd[s].dept, sd[s].term, sd[s].num)

\* Head and body are stored.
SetData(s) ==
  /\ sd[s].pc = "set"
  /\ kv' = Stored(KeyOf(s), sd[s].msg)
  /\ sd' = [sd EXCEPT ![s].pc = "send"]
  /\ UNCHANGED <<serial, q, rx, ev, fate, told>>

\* The table is full: what was stored is removed.
SetFails(s) ==
  /\ sd[s].pc = "set"
  /\ kv' = Removed(KeyOf(s))
  /\ Return(s, "failure")
  /\ UNCHANGED <<serial, q, rx, ev, fate>>

WaitsForAck(s) == s \in Client

MqSend(s) ==
  LET t == sd[s].term
  IN  /\ sd[s].pc = "send" /\ Len(q[t]) < MaxQueue
      /\ q' = [q EXCEPT ![t] = Append(@, Word(sd[s].dept, sd[s].num, "none"))]
      /\ ev' = IF t \in Box THEN ev \cup {t} ELSE ev
      /\ fate' = Fated(sd[s].msg, "sent")
      /\ IF WaitsForAck(s)
         THEN sd' = [sd EXCEPT ![s].pc = "ack", ![s].cnt = 0] /\ UNCHANGED told
         ELSE Return(s, "success")
      /\ UNCHANGED <<serial, kv, rx>>

\* Faulty variant: the keys of a message that was not sent stay.
MutMqFull(s) ==
  /\ sd[s].pc = "send" /\ Len(q[sd[s].term]) = MaxQueue
  /\ IF sd[s].cnt + 1 < RetryCount
     THEN sd' = [sd EXCEPT ![s].cnt = @ + 1] /\ UNCHANGED told
     ELSE Return(s, "failure")
  /\ UNCHANGED <<serial, q, kv, rx, ev, fate>>

\* The queue is full: sleep and try again, at most RetryCount times.
MqFull(s) ==
  /\ sd[s].pc = "send" /\ Len(q[sd[s].term]) = MaxQueue
  /\ IF sd[s].cnt + 1 < RetryCount
     THEN sd' = [sd EXCEPT ![s].cnt = @ + 1] /\ UNCHANGED <<kv, told>>
     ELSE kv' = Removed(KeyOf(s)) /\ Return(s, "failure")
  /\ UNCHANGED <<serial, q, rx, ev, fate>>

-----------------------------------------------------------------------------
(* ReceiveAck: the client polls its own queue RetryCount times.            *)

\* Faulty variant: an empty queue does not use up a retry.
MutAckEmpty(c) == FALSE /\ UNCHANGED vars

AckEmpty(c) ==
  /\ Late /\ sd[c].pc = "ack" /\ q[c] = << >>
  /\ IF sd[c].cnt + 1 < RetryCount
     THEN sd' = [sd EXCEPT ![c].cnt = @ + 1] /\ UNCHANGED told
     ELSE Return(c, "failure")
  /\ UNCHANGED <<serial, q, kv, rx, ev, fate>>

\* Faulty variant: the failure bit is not looked at.
MutAckTaken(c) ==
  /\ sd[c].pc = "ack" /\ q[c] # << >> /\ IsAck(Head(q[c]).w)
  /\ q' = [q EXCEPT ![c] = Tail(@)]
  /\ Return(c, "success")
  /\ UNCHANGED <<serial, kv, rx, ev, fate>>

\* Any ACK ends the wait; its serial number is not compared.
AckTaken(c) ==
  /\ sd[c].pc = "ack" /\ q[c] # << >> /\ IsAck(Head(q[c]).w)
  /\ q' = [q EXCEPT ![c] = Tail(@)]
  /\ Return(c, IF IsAckSuccess(Head(q[c]).w) THEN "success" ELSE "failure")
  /\ UNCHANGED <<serial, kv, rx, ev, fate>>

KeyAt(c) == Key(Head(q[c]).id, c, NumberOf(Head(q[c]).w))

\* A message in between is received at once: RawReceive takes its data and
\* calls Processing, which in a client has no object for a COM_C2C and does
\* nothing.  Such a message does not use up a retry, but for the first one.
AckInterrupted(c) ==
  LET k == KeyAt(c)
      n == IF sd[c].cnt = 0 THEN 1 ELSE sd[c].cnt
  IN  /\ sd[c].pc = "ack" /\ q[c] # << >> /\ ~IsAck(Head(q[c]).w)
      /\ q' = [q EXCEPT ![c] = Tail(@)]
      /\ kv' = Removed(k)
      /\ fate' = IF k \in DOMAIN kv THEN Fated(kv[k], "dropped") ELSE fate
      /\ IF n < RetryCount THEN sd' = [sd EXCEPT ![c].cnt = n] /\ UNCHANGED told
         ELSE Return(c, "failure")
      /\ UNCHANGED <<serial, rx, ev>>

\* ChmCntrl::Receive: the user gets the data of the first word.  A word that is
\* a left-over ACK has no data: it is taken off the queue and an error returned.
ClientReceive(c) ==
  LET k == KeyAt(c)
  IN  /\ sd[c].pc = "idle" /\ q[c] # << >>
      /\ q' = [q EXCEPT ![c] = Tail(@)]
      /\ kv' = Removed(k)
      /\ fate' = IF k \in DOMAIN kv THEN Fated(kv[k], "handled") ELSE fate
      /\ UNCHANGED <<serial, sd, rx, ev, told>>

-----------------------------------------------------------------------------
(* The chmpx process receives.                                             *)

\* Faulty variant: a worker thread, too, reads one word only.
MutGoesOn(b) == FALSE

\* A worker thread goes on until the queue is empty, the event loop reads one
\* word per event.
GoesOn(b) == UseThreads /\ Len(q[b]) > 1

\* ReceiveComposedMsgid and ReceiveHead: without data nothing is answered.  The
\* event of a word that came while the thread was reading is reported afterwards.
TakeWord(b) ==
  LET k == KeyAt(b)
  IN  /\ rx[b].pc = "idle" /\ b \in ev /\ q[b] # << >>
      /\ q' = [q EXCEPT ![b] = Tail(@)]
      /\ \/ ev' = IF GoesOn(b) THEN ev ELSE ev \ {b}
         \/ UseThreads /\ ev' = ev
      /\ kv' = Removed(k)
      /\ rx' = IF k \in DOMAIN kv
               THEN [rx EXCEPT ![b] = [IdleRecv EXCEPT !.pc = "process", !.msg = kv[k],
                                         !.num = NumberOf(Head(q[b]).w), !.to = Head(q[b]).id]]
               ELSE rx
      /\ UNCHANGED <<serial, sd, fate, told>>

\* An event for a queue that has been read already.
NoWord(b) ==
  /\ rx[b].pc = "idle" /\ b \in ev /\ q[b] = << >>
  /\ ev' = ev \ {b}
  /\ UNCHANGED <<serial, q, kv, sd, rx, fate, told>>

\* Processing: the socket object sends the message on, or fails to.
Process(b, ok) ==
  /\ rx[b].pc = "process"
  /\ fate' = Fated(rx[b].msg, IF ok THEN "handled" ELSE "refused")
  /\ rx' = [rx EXCEPT ![b].pc = "ack", ![b].ok = ok]
  /\ UNCHANGED <<serial, q, kv, sd, ev, told>>

\* SendAck, tried again while the queue is full.
SendAck(b) ==
  LET c == rx[b].to
  IN  /\ rx[b].pc = "ack" /\ Len(q[c]) < MaxQueue
      /\ q' = [q EXCEPT ![c] = Append(@, Word(c, rx[b].num,
                                 IF rx[b].ok THEN "success" ELSE "failure"))]
      /\ rx' = [rx EXCEPT ![b] = IdleRecv]
      /\ UNCHANGED <<serial, kv, sd, ev, fate, told>>

SendAckFull(b) ==
  /\ rx[b].pc = "ack" /\ Len(q[rx[b].to]) = MaxQueue
  /\ rx' = IF rx[b].cnt + 1 < RetryCount THEN [rx EXCEPT ![b].cnt = @ + 1]
                                         ELSE [rx EXCEPT ![b] = IdleRecv]
  /\ UNCHANGED <<serial, q, kv, sd, ev, fate, told>>

-----------------------------------------------------------------------------

Sending(s) ==
  SetData(s) \/ SetFails(s) \/ MqSend(s) \/ MqFull(s)

ClientStep(c) ==
  \/ Sending(c) \/ AckEmpty(c) \/ AckTaken(c) \/ AckInterrupted(c) \/ ClientReceive(c)

DelivererStep(d) == GetSerialNumber(d) \/ Sending(d)

BoxStep(b) ==
  TakeWord(b) \/ NoWord(b) \/ (\E ok \in BOOLEAN : Process(b, ok)) \/ SendAck(b) \/ SendAckFull(b)

Next ==
  \/ \E c \in Client : ClientStep(c) \/ \E b \in Box : BuildSendHead(c, b)
  \/ \E d \in Deliverer : DelivererStep(d) \/ \E b \in Box, c \in Client : DeliverHead(d, b, c)
  \/ \E b \in Box : BoxStep(b)

Spec == Init /\ [][Next]_vars

\* Threads that can run do run; nothing makes a client send or a socket deliver.
FairSpec ==
  /\ Spec
  /\ \A c \in Client : WF_vars(ClientStep(c))
  /\ \A d \in Deliverer : WF_vars(DelivererStep(d))
  /\ \A b \in Box : WF_vars(BoxStep(b))

-----------------------------------------------------------------------------
(* Properties.                                                             *)

Words == [id : Client \cup Box, w : 0 .. 4 * SerialLimit - 1]

TypeOK ==
  /\ serial \in [Proc -> 0 .. SerialLimit - 1]
  /\ \A i \in Client \cup Box : q[i] \in Seq(Words) /\ Len(q[i]) <= MaxQueue
  /\ \A k \in DOMAIN kv : kv[k] \in Msg
  /\ \A s \in Sender : sd[s].pc \in {"idle", "number", "set", "send", "ack"}
                       /\ sd[s].cnt \in 0 .. RetryCount
  /\ \A b \in Box : rx[b].pc \in {"idle", "process", "ack"}
  /\ ev \subseteq Box
  /\ fate \in [Msg -> {"new", "sent", "handled", "refused", "dropped"}]
  /\ told \in [Msg -> {"nothing", "success", "failure"}]

\* "NUM will not be allocated to the same MQ at same time": the data of every
\* word that waits in a queue is still in the table, under its own key.
WordHasData ==
  \A i \in Client \cup Box : \A j \in DOMAIN q[i] :
    IsAck(q[i][j].w) \/ Key(q[i][j].id, i, NumberOf(q[i][j].w)) \in DOMAIN kv

Quiescent ==
  /\ \A s \in Sender : sd[s].pc = "idle"
  /\ \A b \in Box : rx[b].pc = "idle"
  /\ ev = {}

\* Whatever failed or timed out on the way, once all is read the table is empty:
\* no path of Send, ReceiveAck or RawReceive leaves data behind for good.
NothingLeft ==
  Quiescent /\ (\A i \in Client \cup Box : q[i] = << >>) => kv = << >>

\* "we must read more until EAGAIN.  Otherwise we lost data": when the chmpx
\* process has nothing more to do, none of its queues holds a word.
NoStuckWord == Quiescent => \A b \in Box : q[b] = << >>

EarlierOf(m) == {<<m[1], n>> : n \in 1 .. m[2] - 1}

Delivery == INSTANCE ChmDelivery WITH Msg <- UpMsg, Earlier <- EarlierOf,
              fate <- [m \in UpMsg |-> fate[m]], told <- [m \in UpMsg |-> told[m]]

\* Send with MQACK implements ChmDelivery, for all serials, retries, time-outs and
\* failures in between: a client is told success only for a message the chmpx process
\* has handled, until a Send has been given up whose message was handled after all,
\* and no message is handled twice.
DeliverySpec == Delivery!Spec

\* Send always returns, however many words interrupt the wait for the ACK.
SendReturns == \A s \in Sender : sd[s].pc # "idle" ~> sd[s].pc = "idle"

\* "continue to wait after processing this interrupt request": a message that
\* arrives while its receiver waits for an ACK is not lost.
NoDrop == \A m \in Msg : fate[m] # "dropped"

\* The ACK a client takes tells it about the message it has just sent.
AckIsMine == \A m \in UpMsg : told[m] = "success" => fate[m] = "handled"
=============================================================================
