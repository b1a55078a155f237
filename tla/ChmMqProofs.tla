---------------------------- MODULE ChmMqProofs ----------------------------
(***************************************************************************)
(* Proofs about ChmMq, for any clients, boxes, threads and bounds: that it *)
(* implements ChmDelivery, that no data is left in the table and no word   *)
(* in a queue, and that a word's data is there.                            *)
(*                                                                         *)
(* The argument follows the messages of the clients.  From mq_send on and  *)
(* until its ACK is taken, such a message is at one place: its word waits  *)
(* in a box, a thread of the chmpx process works on it, or its ACK waits   *)
(* in the client's queue.                                                  *)
(***************************************************************************)
EXTENDS ChmMq, TLAPS, SequenceTheorems

DownMsg == Deliverer \X (1 .. MaxDeliver)
Num(m)  == m[2] - 1

DataWord(m)   == Word(m[1], Num(m), "none")
AckWord(m, a) == Word(m[1], Num(m), a)
Results       == {"success", "failure"}

\* The places of message m: at position i of queue z, or in the hands of the
\* thread that reads box z.
DataAt(z, i, m) == z \in Box /\ i \in 1 .. Len(q[z]) /\ q[z][i] = DataWord(m)
InRx(z, m)      == z \in Box /\ rx[z].pc # "idle" /\ rx[z].msg = m
AckAt(i, m, a)  == i \in 1 .. Len(q[m[1]]) /\ q[m[1]][i] = AckWord(m, a)

At(kind, z, i, m) ==
  \/ kind = "data" /\ DataAt(z, i, m)
  \/ kind = "rx" /\ i = 0 /\ InRx(z, m)
  \/ kind = "ack" /\ z = m[1] /\ \E a \in Results : AckAt(i, m, a)

Kinds  == {"data", "rx", "ack"}
Queues == Client \cup Box

-----------------------------------------------------------------------------
(* The inductive invariant.                                                *)

SendType == [pc : {"idle", "number", "set", "send", "ack"}, msg : Msg \cup {NoMsg},
             num : 0 .. SerialLimit - 1, dept : Queues \cup {"none"},
             term : Queues \cup {"none"}, cnt : Nat, n : Nat]
RecvType == [pc : {"idle", "process", "ack"}, msg : UpMsg \cup {NoMsg},
             num : 0 .. SerialLimit - 1, to : Client \cup {"none"}, ok : BOOLEAN, cnt : Nat]
WordType == [id : Queues, w : Int]

Types ==
  /\ serial \in [Proc -> 0 .. SerialLimit - 1]
  /\ q \in [Queues -> Seq(WordType)]
  /\ sd \in [Sender -> SendType]
  /\ rx \in [Box -> RecvType]
  /\ ev \subseteq Box
  /\ fate \in [Msg -> {"new", "sent", "handled", "refused", "dropped"}]
  /\ told \in [Msg -> {"nothing", "success", "failure"}]

\* A client sends its messages one after the other, each with a serial of its own.
Current(c) == <<c, sd[c].n>>
ClientOK(c) ==
  /\ sd[c].n \in 0 .. MaxSend /\ sd[c].pc # "number"
  /\ serial[c] = IF sd[c].n = SerialLimit THEN 0 ELSE sd[c].n
  /\ sd[c].pc # "idle" =>
       /\ sd[c].n >= 1 /\ sd[c].msg = Current(c) /\ sd[c].num = sd[c].n - 1
       /\ sd[c].dept = c /\ sd[c].term \in Box
       /\ told[Current(c)] = "nothing"
  /\ sd[c].pc \in {"set", "send"} => fate[Current(c)] = "new"
  /\ sd[c].pc = "ack" => fate[Current(c)] # "new"
  /\ \A j \in 1 .. MaxSend :
       IF j > sd[c].n THEN fate[<<c, j>>] = "new" /\ told[<<c, j>>] = "nothing"
       ELSE j < sd[c].n \/ sd[c].pc = "idle" => told[<<c, j>>] # "nothing"

DelivererOK(d) ==
  /\ sd[d].n \in 0 .. MaxDeliver /\ sd[d].pc # "ack"
  /\ sd[d].pc # "idle" =>
       sd[d].msg \in DownMsg /\ sd[d].dept \in Box /\ sd[d].term \in Client

\* The table holds a client's message under the key with its serial.
TableOK ==
  \A x \in DOMAIN kv :
    \/ \E m \in UpMsg, b \in Box : x = Key(m[1], b, Num(m)) /\ kv[x] = m
    \/ \E b \in Box, c \in Client, n \in 0 .. SerialLimit - 1 :
         x = Key(b, c, n) /\ kv[x] \in DownMsg

WordsOK ==
  /\ \A b \in Box : \A i \in 1 .. Len(q[b]) : \E m \in UpMsg : q[b][i] = DataWord(m)
  /\ \A c \in Client : \A i \in 1 .. Len(q[c]) :
       \/ \E b \in Box, n \in 0 .. SerialLimit - 1 : q[c][i] = Word(b, n, "none")
       \/ \E m \in UpMsg, a \in Results : m[1] = c /\ q[c][i] = AckWord(m, a)

\* What is on its way to the chmpx process is sent, what comes back has its result.
FateOK ==
  \A m \in UpMsg :
    /\ \A b \in Box : \A i \in 1 .. Len(q[b]) : DataAt(b, i, m) => fate[m] = "sent"
    /\ \A i \in 1 .. Len(q[m[1]]) : \A a \in Results :
         AckAt(i, m, a) => fate[m] = IF a = "success" THEN "handled" ELSE "refused"

RxOK ==
  \A b \in Box : rx[b].pc # "idle" =>
    /\ rx[b].msg \in UpMsg
    /\ rx[b].to = rx[b].msg[1] /\ rx[b].num = Num(rx[b].msg)
    /\ fate[rx[b].msg] = IF rx[b].pc = "process" THEN "sent"
                         ELSE IF rx[b].ok THEN "handled" ELSE "refused"

\* No message is at two places.
OnePlace(m) ==
  \A k1, k2 \in Kinds, z1, z2 \in Queues, i1, i2 \in Nat :
    At(k1, z1, i1, m) /\ At(k2, z2, i2, m) => k1 = k2 /\ z1 = z2 /\ i1 = i2

\* A message that was told success by the ACK of another one is still somewhere only
\* if an earlier one was given up and handled.
ToldOK(m) ==
  told[m] = "success" =>
    \A kind \in Kinds, z \in Queues, i \in Nat : At(kind, z, i, m) => Delivery!Unsure(m)

MqInv ==
  /\ Types
  /\ \A c \in Client : ClientOK(c)
  /\ \A d \in Deliverer : DelivererOK(d)
  /\ TableOK /\ WordsOK /\ FateOK /\ RxOK
  /\ \A m \in UpMsg : OnePlace(m) /\ ToldOK(m)

-----------------------------------------------------------------------------
(* Words and sequences.                                                    *)

\* The bits of a word: the serial, ACK and failure can be read back.
LEMMA WordBits ==
  ASSUME NEW n \in 0 .. SerialLimit - 1
  PROVE  /\ \A a \in {"none", "success", "failure"} :
              /\ ComposeSerial(n, a) \in Int
              /\ NumberOf(ComposeSerial(n, a)) = n
         /\ ~IsAck(ComposeSerial(n, "none"))
         /\ \A a \in Results : IsAck(ComposeSerial(n, a))
         /\ IsAckSuccess(ComposeSerial(n, "success"))
         /\ ~IsAckSuccess(ComposeSerial(n, "failure"))
<1> DEFINE L == SerialLimit
<1>1. L \in Nat \ {0}
  BY MqAssumption
<1>2. /\ ComposeSerial(n, "none") = n
      /\ ComposeSerial(n, "success") = n + 2 * L
      /\ ComposeSerial(n, "failure") = n + 3 * L
  BY <1>1 DEF ComposeSerial, AckBits
<1> HIDE DEF L
<1>3. n \in Nat /\ n < L
  BY <1>1 DEF L
<1>4. /\ n % L = n /\ (n + 2 * L) % L = n /\ (n + 3 * L) % L = n
      /\ (n + 2 * L) \div L = 2 /\ (n + 3 * L) \div L = 3
      /\ n \div (2 * L) = 0
      /\ (n + 2 * L) \div (2 * L) = 1 /\ (n + 3 * L) \div (2 * L) = 1
  BY <1>1, <1>3, Z3
<1>5. 0 % 2 = 0 /\ 1 % 2 = 1 /\ 2 % 2 = 0 /\ 3 % 2 = 1
  BY Z3
<1>6. n + 2 * L \in Int /\ n + 3 * L \in Int
  BY <1>1
<1> QED
  BY <1>2, <1>3, <1>4, <1>5, <1>6 DEF NumberOf, IsAck, IsAckSuccess, Results, L

\* Two words are equal only if their parts are.
LEMMA WordEqual ==
  ASSUME NEW x, NEW y, NEW n \in 0 .. SerialLimit - 1, NEW k \in 0 .. SerialLimit - 1,
         NEW a \in {"none", "success", "failure"}, NEW b \in {"none", "success", "failure"},
         Word(x, n, a) = Word(y, k, b)
  PROVE  x = y /\ n = k /\ a = b
<1>1. x = y /\ ComposeSerial(n, a) = ComposeSerial(k, b)
  BY DEF Word
<1>2. n = k
  BY <1>1, WordBits
<1>3. a = b
  BY <1>1, <1>2, WordBits DEF Results
<1> QED BY <1>1, <1>2, <1>3

\* A serial is never as large as SerialLimit.
LEMMA NumRange == \A m \in UpMsg : m[1] \in Client /\ Num(m) \in 0 .. SerialLimit - 1
  BY MqAssumption, SerialAssumption DEF UpMsg, Num

LEMMA Appended ==
  ASSUME NEW S, NEW s \in Seq(S), NEW e \in S
  PROVE  /\ Append(s, e) \in Seq(S) /\ Len(Append(s, e)) = Len(s) + 1
         /\ \A i \in 1 .. Len(s) : Append(s, e)[i] = s[i]
         /\ Append(s, e)[Len(s) + 1] = e
  BY AppendProperties

LEMMA Tailed ==
  ASSUME NEW S, NEW s \in Seq(S), s # << >>
  PROVE  /\ Head(s) = s[1] /\ Head(s) \in S /\ Len(s) \in Nat /\ Len(s) >= 1
         /\ Tail(s) \in Seq(S) /\ Len(Tail(s)) = Len(s) - 1
         /\ \A i \in 1 .. Len(s) - 1 : Tail(s)[i] = s[i + 1]
  BY HeadTailProperties, EmptySeq, LenProperties

-----------------------------------------------------------------------------
(* The types.                                                              *)

\* The values that actions write.
LEMMA Values ==
  /\ IdleSend \in SendType /\ IdleRecv \in RecvType
  /\ \A n \in 0 .. SerialLimit - 1 : Wrap(n) \in 0 .. SerialLimit - 1
  /\ \A i \in Queues, n \in 0 .. SerialLimit - 1, a \in {"none", "success", "failure"} :
       Word(i, n, a) \in WordType
<1>1. 0 \in 0 .. SerialLimit - 1
  BY MqAssumption
<1>2. IdleSend \in SendType
  BY <1>1 DEF IdleSend, SendType
<1>3. IdleRecv \in RecvType
  BY <1>1 DEF IdleRecv, RecvType
<1>4. \A n \in 0 .. SerialLimit - 1 : Wrap(n) \in 0 .. SerialLimit - 1
  BY MqAssumption DEF Wrap
<1>5. ASSUME NEW i \in Queues, NEW n \in 0 .. SerialLimit - 1, NEW a \in {"none", "success", "failure"}
      PROVE  Word(i, n, a) \in WordType
  BY <1>5, WordBits DEF Word, WordType
<1> QED BY <1>2, <1>3, <1>4, <1>5

LEMMA SendRecord ==
  ASSUME NEW r \in SendType, NEW p \in {"idle", "number", "set", "send", "ack"},
         NEW m \in Msg, NEW x \in 0 .. SerialLimit - 1, NEW d \in Queues, NEW t \in Queues,
         NEW n \in Nat
  PROVE  /\ [r EXCEPT !.pc = p] \in SendType /\ [r EXCEPT !.cnt = n] \in SendType
         /\ [r EXCEPT !.pc = p, !.cnt = n] \in SendType
         /\ [r EXCEPT !.pc = p, !.msg = m, !.num = x, !.dept = d, !.term = t, !.n = n]
              \in SendType
  BY DEF SendType

\* A sending thread goes on to phase p, or tries for the n-th time.
LEMMA SendUpdated ==
  ASSUME Types, NEW s \in Sender, NEW p \in {"idle", "number", "set", "send", "ack"},
         NEW n \in Nat
  PROVE  /\ [sd EXCEPT ![s].pc = p] \in [Sender -> SendType]
         /\ [sd EXCEPT ![s].cnt = n] \in [Sender -> SendType]
         /\ [sd EXCEPT ![s].pc = p, ![s].cnt = n] \in [Sender -> SendType]
<1>1. sd \in [Sender -> SendType] /\ sd[s] \in SendType
  BY DEF Types
<1>2. /\ [sd[s] EXCEPT !.pc = p] \in SendType /\ [sd[s] EXCEPT !.cnt = n] \in SendType
      /\ [sd[s] EXCEPT !.pc = p, !.cnt = n] \in SendType
  BY <1>1 DEF SendType
<1>3. /\ [sd EXCEPT ![s].pc = p] = [sd EXCEPT ![s] = [sd[s] EXCEPT !.pc = p]]
      /\ [sd EXCEPT ![s].cnt = n] = [sd EXCEPT ![s] = [sd[s] EXCEPT !.cnt = n]]
      /\ [sd EXCEPT ![s].pc = p, ![s].cnt = n]
           = [sd EXCEPT ![s] = [sd[s] EXCEPT !.pc = p, !.cnt = n]]
  BY <1>1 DEF SendType
<1> QED BY <1>1, <1>2, <1>3

LEMMA CountTypes == Types => \A s \in Sender : sd[s].cnt \in Nat /\ sd[s].cnt + 1 \in Nat
  BY DEF Types, SendType

\* A message given to Return becomes told; the thread is idle.
LEMMA ReturnTypes ==
  ASSUME Types, NEW s \in Sender, NEW r \in Results, Return(s, r)
  PROVE  sd' \in [Sender -> SendType]
         /\ told' \in [Msg -> {"nothing", "success", "failure"}]
<1>1. [IdleSend EXCEPT !.n = sd[s].n] \in SendType
  BY Values DEF Types, SendType
<1>2. sd' \in [Sender -> SendType]
  BY <1>1 DEF Return, Types
<1>3. told' \in [Msg -> {"nothing", "success", "failure"}]
  BY DEF Return, Types, Results
<1> QED BY <1>2, <1>3

LEMMA FatedTypes ==
  ASSUME Types, NEW m, NEW f \in {"new", "sent", "handled", "refused", "dropped"}
  PROVE  Fated(m, f) \in [Msg -> {"new", "sent", "handled", "refused", "dropped"}]
  BY DEF Types, Fated

LEMMA QueueTypes ==
  ASSUME Types, NEW z \in Queues
  PROVE  /\ q[z] \in Seq(WordType)
         /\ \A e \in WordType : [q EXCEPT ![z] = Append(@, e)] \in [Queues -> Seq(WordType)]
         /\ q[z] # << >> => [q EXCEPT ![z] = Tail(@)] \in [Queues -> Seq(WordType)]
  BY Appended, Tailed DEF Types

LEMMA InitTypes == Init => MqInv
<1> SUFFICES ASSUME Init PROVE MqInv
  OBVIOUS
<1>1. Types
  <2>1. << >> \in Seq(WordType)
    OBVIOUS
  <2> QED BY <2>1, Values, MqAssumption DEF Types, Init, Queues
<1>2. ASSUME NEW c \in Client PROVE ClientOK(c)
  <2>1. \A j \in 1 .. MaxSend : <<c, j>> \in Msg
    BY DEF Msg, UpMsg
  <2> QED BY <2>1, MqAssumption DEF Init, ClientOK, IdleSend, Sender, Proc
<1>3. ASSUME NEW d \in Deliverer PROVE DelivererOK(d)
  BY MqAssumption DEF Init, DelivererOK, IdleSend, Sender
<1>4. TableOK
  BY DEF Init, TableOK
<1>5. \A z \in Queues : Len(q[z]) = 0
  BY DEF Init, Queues
<1>6. WordsOK
  BY <1>5 DEF WordsOK, Queues
<1>7. FateOK
  BY <1>5, NumRange DEF FateOK, Queues, DataAt, AckAt
<1>8. RxOK
  BY DEF RxOK, Init, IdleRecv
<1>9. ASSUME NEW m \in UpMsg, NEW kind, NEW z, NEW i PROVE ~At(kind, z, i, m)
  <2>1. ~InRx(z, m)
    BY DEF InRx, Init, IdleRecv
  <2>2. ~DataAt(z, i, m) /\ \A a : ~AckAt(i, m, a)
    BY <1>5, NumRange DEF DataAt, AckAt, Queues
  <2> QED BY <2>1, <2>2 DEF At
<1> QED
  BY <1>1, <1>2, <1>3, <1>4, <1>6, <1>7, <1>8, <1>9 DEF MqInv, OnePlace, ToldOK

LEMMA SameMessage ==
  ASSUME NEW m \in UpMsg, NEW n \in UpMsg, m[1] = n[1], Num(m) = Num(n)
  PROVE  m = n
  BY DEF UpMsg, Num

\* A word in a box and the message whose data its key leads to.
LEMMA BoxKey ==
  ASSUME MqInv, NEW b \in Box, q[b] # << >>
  PROVE  \E m \in UpMsg :
           /\ DataAt(b, 1, m) /\ Head(q[b]) = DataWord(m)
           /\ Head(q[b]).id = m[1] /\ NumberOf(Head(q[b]).w) = Num(m)
           /\ KeyAt(b) = Key(m[1], b, Num(m))
           /\ KeyAt(b) \in DOMAIN kv => kv[KeyAt(b)] = m
<1>1. Head(q[b]) = q[b][1] /\ 1 \in 1 .. Len(q[b])
  BY QueueTypes, Tailed DEF Queues, MqInv
<1>2. PICK m \in UpMsg : q[b][1] = DataWord(m)
  BY <1>1 DEF MqInv, WordsOK
<1>3. Head(q[b]).id = m[1] /\ NumberOf(Head(q[b]).w) = Num(m)
  BY <1>1, <1>2, NumRange, WordBits DEF DataWord, Word
<1>4. KeyAt(b) = Key(m[1], b, Num(m))
  BY <1>3 DEF KeyAt
<1>5. ASSUME KeyAt(b) \in DOMAIN kv PROVE kv[KeyAt(b)] = m
  <2>1. CASE \E n \in UpMsg, e \in Box : KeyAt(b) = Key(n[1], e, Num(n)) /\ kv[KeyAt(b)] = n
    BY <1>4, <2>1, SameMessage DEF Key
  <2>2. CASE \E e \in Box, c \in Client, n \in 0 .. SerialLimit - 1 : KeyAt(b) = Key(e, c, n)
    BY <1>4, <2>2, NumRange, NamesAssumption DEF Key
  <2> QED BY <1>5, <2>1, <2>2 DEF MqInv, TableOK
<1> QED BY <1>1, <1>2, <1>3, <1>4, <1>5 DEF DataAt

\* A word in a client's queue: its data is of a message from the RING, and an ACK is
\* about a message of the client.
LEMMA ClientKey ==
  ASSUME MqInv, NEW c \in Client, q[c] # << >>
  PROVE  /\ KeyAt(c) \in DOMAIN kv => kv[KeyAt(c)] \in DownMsg
         /\ IsAck(Head(q[c]).w) =>
              \E m \in UpMsg, a \in Results :
                 /\ m[1] = c /\ AckAt(1, m, a)
                 /\ IsAckSuccess(Head(q[c]).w) <=> a = "success"
<1>1. Head(q[c]) = q[c][1] /\ 1 \in 1 .. Len(q[c])
  BY QueueTypes, Tailed DEF Queues, MqInv
<1>2. ASSUME KeyAt(c) \in DOMAIN kv PROVE kv[KeyAt(c)] \in DownMsg
  <2>1. KeyAt(c)[2] = c
    BY DEF KeyAt, Key
  <2> QED BY <1>2, <2>1, NamesAssumption DEF MqInv, TableOK, Key
<1>3. ASSUME IsAck(Head(q[c]).w)
      PROVE  \E m \in UpMsg, a \in Results :
               /\ m[1] = c /\ AckAt(1, m, a)
               /\ IsAckSuccess(Head(q[c]).w) <=> a = "success"
  <2>1. ~\E b \in Box, n \in 0 .. SerialLimit - 1 : q[c][1] = Word(b, n, "none")
    <3> SUFFICES ASSUME NEW b \in Box, NEW n \in 0 .. SerialLimit - 1, q[c][1] = Word(b, n, "none")
                 PROVE  FALSE
      OBVIOUS
    <3>1. Word(b, n, "none").w = ComposeSerial(n, "none")
      BY DEF Word
    <3> QED BY <1>1, <1>3, <3>1, WordBits
  <2>2. PICK m \in UpMsg, a \in Results : m[1] = c /\ q[c][1] = AckWord(m, a)
    BY <1>1, <2>1 DEF MqInv, WordsOK
  <2>3. IsAckSuccess(Head(q[c]).w) <=> a = "success"
    BY <1>1, <2>2, NumRange, WordBits DEF AckWord, Word, Results
  <2> QED BY <1>1, <2>2, <2>3 DEF AckAt
<1> QED BY <1>2, <1>3

\* Every step of the system keeps the types.
LEMMA NextTypes == MqInv /\ Next => Types'
<1> SUFFICES ASSUME MqInv, Next PROVE Types'
  OBVIOUS
<1> USE DEF MqInv
<1>1. ASSUME NEW c \in Client, NEW b \in Box, BuildSendHead(c, b) PROVE Types'
  <2>1. serial[c] \in 0 .. SerialLimit - 1 /\ <<c, sd[c].n + 1>> \in Msg /\ c \in Sender
    BY <1>1, MqAssumption DEF BuildSendHead, Types, ClientOK, Proc, Msg, UpMsg, Sender
  <2>2. [IdleSend EXCEPT !.pc = "set", !.msg = <<c, sd[c].n + 1>>, !.num = serial[c],
                         !.dept = c, !.term = b, !.n = sd[c].n + 1] \in SendType
    <3>1. sd[c].n + 1 \in Nat /\ c \in Queues /\ b \in Queues
      BY DEF ClientOK, Queues
    <3> QED BY <2>1, <3>1, Values, SendRecord
  <2>3. sd' \in [Sender -> SendType]
    BY <1>1, <2>2 DEF BuildSendHead, Types
  <2>4. serial' \in [Proc -> 0 .. SerialLimit - 1]
    BY <1>1, <2>1, Values DEF BuildSendHead, Types
  <2> QED BY <1>1, <2>3, <2>4 DEF BuildSendHead, Types
<1>2. ASSUME NEW d \in Deliverer, NEW b \in Box, NEW c \in Client, DeliverHead(d, b, c) PROVE Types'
  <2>1. serial["chmpx"] \in 0 .. SerialLimit - 1 /\ <<d, sd[d].n + 1>> \in Msg /\ d \in Sender
    BY <1>2, MqAssumption DEF DeliverHead, Types, DelivererOK, Proc, Msg, Sender
  <2>2. [IdleSend EXCEPT !.pc = "number", !.msg = <<d, sd[d].n + 1>>, !.num = serial["chmpx"],
                         !.dept = b, !.term = c, !.n = sd[d].n + 1] \in SendType
    <3>1. sd[d].n + 1 \in Nat /\ b \in Queues /\ c \in Queues
      BY DEF DelivererOK, Queues
    <3> QED BY <2>1, <3>1, Values, SendRecord
  <2>3. sd' \in [Sender -> SendType]
    BY <1>2, <2>2 DEF DeliverHead, Types
  <2> QED BY <1>2, <2>3 DEF DeliverHead, Types
<1>3. ASSUME NEW d \in Deliverer, GetSerialNumber(d) PROVE Types'
  <2>1. d \in Sender
    BY DEF Sender
  <2>2. sd' \in [Sender -> SendType]
    BY <1>3, <2>1, SendUpdated DEF GetSerialNumber
  <2>3. serial' \in [Proc -> 0 .. SerialLimit - 1]
    BY <1>3, <2>1, Values DEF GetSerialNumber, Types, Proc, SendType
  <2> QED BY <1>3, <2>2, <2>3 DEF GetSerialNumber, Types
<1>4. ASSUME NEW s \in Sender, Sending(s) PROVE Types'
  <2>1. CASE SetData(s)
    <3>1. sd' \in [Sender -> SendType]
      BY <2>1, SendUpdated DEF SetData
    <3> QED BY <2>1, <3>1 DEF SetData, Types
  <2>2. CASE SetFails(s)
    BY <2>2, ReturnTypes DEF SetFails, Types, Results
  <2>3. CASE MqSend(s)
    <3>1. sd[s].term \in Queues /\ sd[s].dept \in Queues /\ sd[s].num \in 0 .. SerialLimit - 1
      BY <2>3 DEF MqSend, Types, ClientOK, DelivererOK, Sender, SendType, Queues
    <3>2. q' \in [Queues -> Seq(WordType)]
      BY <2>3, <3>1, QueueTypes, Values DEF MqSend
    <3>3. fate' \in [Msg -> {"new", "sent", "handled", "refused", "dropped"}]
      BY <2>3, FatedTypes DEF MqSend
    <3>4. /\ sd' \in [Sender -> SendType]
          /\ told' \in [Msg -> {"nothing", "success", "failure"}]
      <4>1. CASE WaitsForAck(s)
        <5>1. sd' = [sd EXCEPT ![s].pc = "ack", ![s].cnt = 0] /\ told' = told
          BY <2>3, <4>1 DEF MqSend
        <5> QED BY <5>1, SendUpdated DEF Types
      <4>2. CASE ~WaitsForAck(s)
        BY <2>3, <4>2, ReturnTypes DEF MqSend, Results
      <4> QED BY <4>1, <4>2
    <3>5. ev' \subseteq Box
      BY <2>3 DEF MqSend, Types
    <3> QED BY <2>3, <3>2, <3>3, <3>4, <3>5 DEF MqSend, Types
  <2>4. CASE MqFull(s)
    <3>1. CASE sd[s].cnt + 1 < RetryCount
      <4>1. sd' = [sd EXCEPT ![s].cnt = sd[s].cnt + 1]
        BY <2>4, <3>1 DEF MqFull
      <4>2. sd' \in [Sender -> SendType]
        BY <4>1, SendUpdated, CountTypes
      <4> QED BY <2>4, <3>1, <4>2 DEF MqFull, Types
    <3>2. CASE ~(sd[s].cnt + 1 < RetryCount)
      BY <2>4, <3>2, ReturnTypes DEF MqFull, Results, Types
    <3> QED BY <3>1, <3>2
  <2> QED BY <1>4, <2>1, <2>2, <2>3, <2>4 DEF Sending
<1>5. ASSUME NEW c \in Client, AckEmpty(c) PROVE Types'
  <2>1. CASE sd[c].cnt + 1 < RetryCount
    <3>1. c \in Sender /\ sd' = [sd EXCEPT ![c].cnt = sd[c].cnt + 1]
      BY <1>5, <2>1 DEF AckEmpty, Sender
    <3>2. sd' \in [Sender -> SendType]
      BY <3>1, SendUpdated, CountTypes
    <3> QED BY <1>5, <2>1, <3>2 DEF AckEmpty, Types
  <2>2. CASE ~(sd[c].cnt + 1 < RetryCount)
    BY <1>5, <2>2, ReturnTypes DEF AckEmpty, Results, Types, Sender
  <2> QED BY <2>1, <2>2
<1>6. ASSUME NEW c \in Client, AckTaken(c) PROVE Types'
  <2>1. q' \in [Queues -> Seq(WordType)]
    BY <1>6, QueueTypes DEF AckTaken, Queues
  <2> QED BY <1>6, <2>1, ReturnTypes DEF AckTaken, Results, Types, Sender
<1>7. ASSUME NEW c \in Client, AckInterrupted(c) PROVE Types'
  <2>1. q' \in [Queues -> Seq(WordType)]
    BY <1>7, QueueTypes DEF AckInterrupted, Queues
  <2>2. fate' \in [Msg -> {"new", "sent", "handled", "refused", "dropped"}]
    BY <1>7, FatedTypes DEF AckInterrupted, Types
  <2>3. /\ sd' \in [Sender -> SendType]
        /\ told' \in [Msg -> {"nothing", "success", "failure"}]
    <3> DEFINE n == IF sd[c].cnt = 0 THEN 1 ELSE sd[c].cnt
    <3>1. CASE n < RetryCount
      <4>1. n \in Nat
        BY CountTypes DEF Sender
      <4> HIDE DEF n
      <4>2. sd' = [sd EXCEPT ![c].cnt = n] /\ told' = told
        BY <1>7, <3>1 DEF AckInterrupted, n
      <4> QED BY <4>1, <4>2, SendUpdated DEF Types, Sender
    <3>2. CASE ~(n < RetryCount)
      BY <1>7, <3>2, ReturnTypes DEF AckInterrupted, Results, Sender
    <3> QED BY <3>1, <3>2
  <2> QED BY <1>7, <2>1, <2>2, <2>3 DEF AckInterrupted, Types
<1>8. ASSUME NEW c \in Client, ClientReceive(c) PROVE Types'
  <2>1. q' \in [Queues -> Seq(WordType)]
    BY <1>8, QueueTypes DEF ClientReceive, Queues
  <2>2. fate' \in [Msg -> {"new", "sent", "handled", "refused", "dropped"}]
    BY <1>8, FatedTypes DEF ClientReceive, Types
  <2> QED BY <1>8, <2>1, <2>2 DEF ClientReceive, Types
<1>9. ASSUME NEW b \in Box, TakeWord(b) PROVE Types'
  <2>1. q' \in [Queues -> Seq(WordType)]
    BY <1>9, QueueTypes DEF TakeWord, Queues
  <2>2. PICK m \in UpMsg :
           /\ Head(q[b]).id = m[1] /\ NumberOf(Head(q[b]).w) = Num(m)
           /\ KeyAt(b) \in DOMAIN kv => kv[KeyAt(b)] = m
    BY <1>9, BoxKey DEF TakeWord
  <2>3. KeyAt(b) \in DOMAIN kv =>
          [IdleRecv EXCEPT !.pc = "process", !.msg = kv[KeyAt(b)],
             !.num = NumberOf(Head(q[b]).w), !.to = Head(q[b]).id] \in RecvType
    BY <2>2, NumRange, Values DEF RecvType
  <2>4. rx' \in [Box -> RecvType]
    BY <1>9, <2>3 DEF TakeWord, Types
  <2>5. ev' \subseteq Box
    BY <1>9 DEF TakeWord, Types
  <2> QED BY <1>9, <2>1, <2>4, <2>5 DEF TakeWord, Types
<1>10. ASSUME NEW b \in Box, NoWord(b) PROVE Types'
  BY <1>10 DEF NoWord, Types
<1>11. ASSUME NEW b \in Box, NEW ok \in BOOLEAN, Process(b, ok) PROVE Types'
  <2>1. fate' \in [Msg -> {"new", "sent", "handled", "refused", "dropped"}]
    BY <1>11, FatedTypes DEF Process
  <2>2. rx' \in [Box -> RecvType]
    <3>1. [rx[b] EXCEPT !.pc = "ack", !.ok = ok] \in RecvType
      BY DEF Types, RecvType
    <3>2. rx' = [rx EXCEPT ![b] = [rx[b] EXCEPT !.pc = "ack", !.ok = ok]]
      BY <1>11 DEF Process, Types, RecvType
    <3> QED BY <3>1, <3>2 DEF Types
  <2> QED BY <1>11, <2>1, <2>2 DEF Process, Types
<1>12. ASSUME NEW b \in Box, SendAck(b) PROVE Types'
  <2>1. rx[b].to \in Queues /\ rx[b].num \in 0 .. SerialLimit - 1
    BY <1>12, NumRange DEF SendAck, RxOK, Queues, Types, RecvType
  <2>2. q' \in [Queues -> Seq(WordType)]
    BY <1>12, <2>1, QueueTypes, Values DEF SendAck
  <2>3. rx' \in [Box -> RecvType]
    BY <1>12, Values DEF SendAck, Types
  <2> QED BY <1>12, <2>2, <2>3 DEF SendAck, Types
<1>13. ASSUME NEW b \in Box, SendAckFull(b) PROVE Types'
  <2>1. rx' \in [Box -> RecvType]
    <3>1. [rx[b] EXCEPT !.cnt = rx[b].cnt + 1] \in RecvType
      <4>1. \A r \in RecvType : [r EXCEPT !.cnt = r.cnt + 1] \in RecvType
        BY DEF RecvType
      <4> QED BY <4>1 DEF Types
    <3>2. [rx EXCEPT ![b].cnt = @ + 1] = [rx EXCEPT ![b] = [rx[b] EXCEPT !.cnt = rx[b].cnt + 1]]
      BY DEF Types, RecvType
    <3> QED BY <1>13, <3>1, <3>2, Values DEF SendAckFull, Types
  <2> QED BY <1>13, <2>1 DEF SendAckFull, Types
<1> QED
  BY <1>1, <1>2, <1>3, <1>4, <1>5, <1>6, <1>7, <1>8, <1>9, <1>10, <1>11, <1>12, <1>13
  DEF Next, ClientStep, DelivererStep, BoxStep, Sender

-----------------------------------------------------------------------------
(* The abstract specification.                                             *)

AbsFate == [m \in UpMsg |-> fate[m]]
AbsTold == [m \in UpMsg |-> told[m]]
AbsStep == Delivery!Next \/ UNCHANGED <<AbsFate, AbsTold>>

\* Kept(P): what is known of the clients' messages in the step.
SameFate == \A m \in UpMsg : fate'[m] = fate[m]
SameTold == \A m \in UpMsg : told'[m] = told[m]

LEMMA UpIsMsg == UpMsg \subseteq Msg /\ \A m \in UpMsg : EarlierOf(m) \subseteq UpMsg
  BY MqAssumption DEF Msg, UpMsg, EarlierOf

LEMMA UnsureIs ==
  ASSUME NEW m \in UpMsg
  PROVE  /\ Delivery!Unsure(m)
              <=> \E e \in EarlierOf(m) : told[e] = "failure" /\ fate[e] = "handled"
         /\ Delivery!Unsure(m)'
              <=> \E e \in EarlierOf(m) : told'[e] = "failure" /\ fate'[e] = "handled"
  BY UpIsMsg DEF Delivery!Unsure

LEMMA UnsureStays ==
  ASSUME NEW m \in UpMsg, Delivery!Unsure(m),
         \A e \in UpMsg : told[e] = "failure" => told'[e] = "failure",
         \A e \in UpMsg : fate[e] = "handled" => fate'[e] = "handled"
  PROVE  Delivery!Unsure(m)'
  BY UnsureIs, UpIsMsg

LEMMA Stutters == SameFate /\ SameTold => AbsStep
  BY DEF SameFate, SameTold, AbsStep, AbsFate, AbsTold

LEMMA FailStep ==
  ASSUME SameFate, NEW m \in UpMsg, told[m] = "nothing", told'[m] = "failure",
         \A e \in UpMsg \ {m} : told'[e] = told[e]
  PROVE  AbsStep
<1>1. AbsFate' = AbsFate
  BY DEF SameFate, AbsFate
<1>2. AbsTold' = [AbsTold EXCEPT ![m] = "failure"]
  BY DEF AbsTold
<1>3. Delivery!Fail(m)
  BY <1>1, <1>2 DEF Delivery!Fail, AbsFate, AbsTold
<1> QED BY <1>3 DEF AbsStep, Delivery!Next

LEMMA ConfirmStep ==
  ASSUME SameFate, NEW m \in UpMsg, told[m] = "nothing", told'[m] = "success",
         \A e \in UpMsg \ {m} : told'[e] = told[e],
         fate[m] = "handled" \/ (fate[m] # "new" /\ Delivery!Unsure(m))
  PROVE  AbsStep
<1>1. AbsFate' = AbsFate
  BY DEF SameFate, AbsFate
<1>2. AbsTold' = [AbsTold EXCEPT ![m] = "success"]
  BY DEF AbsTold
<1>3. Delivery!Confirm(m)
  BY <1>1, <1>2 DEF Delivery!Confirm, AbsFate, AbsTold
<1> QED BY <1>3 DEF AbsStep, Delivery!Next

LEMMA SubmitStep ==
  ASSUME SameTold, NEW m \in UpMsg, fate[m] = "new", told[m] = "nothing", fate'[m] = "sent",
         \A e \in UpMsg \ {m} : fate'[e] = fate[e]
  PROVE  AbsStep
<1>1. AbsTold' = AbsTold
  BY DEF SameTold, AbsTold
<1>2. AbsFate' = [AbsFate EXCEPT ![m] = "sent"]
  BY DEF AbsFate
<1>3. Delivery!Submit(m)
  BY <1>1, <1>2 DEF Delivery!Submit, AbsFate, AbsTold
<1> QED BY <1>3 DEF AbsStep, Delivery!Next

LEMMA HandleStep ==
  ASSUME SameTold, NEW m \in UpMsg, fate[m] = "sent", fate'[m] \in {"handled", "refused"},
         \A e \in UpMsg \ {m} : fate'[e] = fate[e]
  PROVE  AbsStep
<1>1. AbsTold' = AbsTold
  BY DEF SameTold, AbsTold
<1>2. AbsFate' = [AbsFate EXCEPT ![m] = fate'[m]]
  BY DEF AbsFate
<1>3. Delivery!Handle(m)
  BY <1>1, <1>2 DEF Delivery!Handle, AbsFate, AbsTold
<1> QED BY <1>3 DEF AbsStep, Delivery!Next

-----------------------------------------------------------------------------
(* What a step leaves alone.                                               *)

LEMMA Disjoint ==
  /\ Client \cap Deliverer = {} /\ UpMsg \cap DownMsg = {}
  /\ NoMsg \notin UpMsg /\ NoMsg \notin DownMsg
  /\ \A c \in Client, j \in 1 .. MaxSend : <<c, j>> \in UpMsg
  /\ \A m \in UpMsg : m = <<m[1], m[2]>> /\ m[1] \in Client /\ m[2] \in 1 .. MaxSend
  BY NamesAssumption, MqAssumption DEF UpMsg, DownMsg, NoMsg

LEMMA CurrentIsUp ==
  ASSUME MqInv, NEW c \in Client, sd[c].pc # "idle"
  PROVE  /\ Current(c) \in UpMsg /\ sd[c].msg = Current(c) /\ Current(c)[1] = c
         /\ told[Current(c)] = "nothing" /\ sd[c].dept = c /\ sd[c].term \in Box
         /\ sd[c].num = Num(Current(c))
  BY MqAssumption DEF MqInv, ClientOK, UpMsg, Current, Num

LEMMA ClientFrame ==
  ASSUME NEW c \in Client, ClientOK(c), sd'[c] = sd[c], serial'[c] = serial[c],
         \A m \in UpMsg : m[1] = c =>
            told'[m] = told[m] /\ (fate'[m] = "new" <=> fate[m] = "new")
  PROVE  ClientOK(c)'
<1>1. \A j \in 1 .. MaxSend :
        told'[<<c, j>>] = told[<<c, j>>] /\ (fate'[<<c, j>>] = "new" <=> fate[<<c, j>>] = "new")
  BY Disjoint
<1>2. sd[c].pc # "idle" => sd[c].n \in 1 .. MaxSend
  BY MqAssumption DEF ClientOK
<1>3. sd[c].pc \in {"set", "send", "ack"} => sd[c].pc # "idle"
  OBVIOUS
<1>4. Current(c)' = Current(c)
  BY DEF Current
<1>5. sd[c].pc # "idle" =>
        told'[Current(c)] = told[Current(c)] /\ (fate'[Current(c)] = "new" <=> fate[Current(c)] = "new")
  BY <1>1, <1>2 DEF Current
<1> QED BY <1>1, <1>3, <1>4, <1>5 DEF ClientOK

LEMMA DelivererFrame ==
  ASSUME NEW d \in Deliverer, DelivererOK(d), sd'[d] = sd[d]
  PROVE  DelivererOK(d)'
  BY DEF DelivererOK

\* Return touches the thread and its message only.
LEMMA ReturnEffect ==
  ASSUME MqInv, NEW s \in Sender, sd[s].pc # "idle", NEW r \in Results, Return(s, r)
  PROVE  /\ sd'[s] = [IdleSend EXCEPT !.n = sd[s].n]
         /\ \A t \in Sender \ {s} : sd'[t] = sd[t]
         /\ s \in Client => told'[Current(s)] = r
         /\ \A m \in UpMsg : (s \in Client /\ m = Current(s)) \/ told'[m] = told[m]
         /\ \A m \in UpMsg : told[m] # "nothing" => told'[m] = told[m]
<1>1. /\ sd'[s] = [IdleSend EXCEPT !.n = sd[s].n]
      /\ \A t \in Sender \ {s} : sd'[t] = sd[t]
  BY DEF MqInv, Types, Return
<1>2. sd[s].msg \in Msg /\ \A m \in Msg : told'[m] = IF m = sd[s].msg THEN r ELSE told[m]
  <2>1. sd[s].msg \in Msg
    BY CurrentIsUp, UpIsMsg DEF MqInv, DelivererOK, Sender, Msg, DownMsg
  <2> QED BY <2>1 DEF MqInv, Types, Return
<1>3. s \in Client => sd[s].msg = Current(s) /\ told[sd[s].msg] = "nothing"
  BY CurrentIsUp
<1>4. s \notin Client => sd[s].msg \in DownMsg
  BY DEF MqInv, DelivererOK, Sender
<1> QED BY <1>1, <1>2, <1>3, <1>4, UpIsMsg, Disjoint

LEMMA ReturnClient ==
  ASSUME MqInv, NEW c \in Client, sd[c].pc # "idle", NEW r \in Results, Return(c, r),
         serial'[c] = serial[c], SameFate
  PROVE  ClientOK(c)'
<1>1. /\ sd'[c] = [IdleSend EXCEPT !.n = sd[c].n]
      /\ told'[Current(c)] = r
      /\ \A m \in UpMsg : m = Current(c) \/ told'[m] = told[m]
  BY ReturnEffect DEF Sender
<1>2. sd'[c].pc = "idle" /\ sd'[c].n = sd[c].n
  BY <1>1 DEF IdleSend
<1>3. sd[c].n \in 1 .. MaxSend
  BY MqAssumption DEF MqInv, ClientOK
<1>4. ASSUME NEW j \in 1 .. MaxSend
      PROVE  IF j > sd[c].n THEN fate'[<<c, j>>] = "new" /\ told'[<<c, j>>] = "nothing"
             ELSE told'[<<c, j>>] # "nothing"
  <2>1. <<c, j>> \in UpMsg /\ (<<c, j>> = Current(c) <=> j = sd[c].n)
    BY Disjoint DEF Current
  <2>2. CASE j > sd[c].n
    BY <1>1, <1>3, <2>1, <2>2 DEF MqInv, ClientOK, SameFate
  <2>3. CASE j = sd[c].n
    BY <1>1, <2>1, <2>3, <1>3 DEF Results
  <2>4. CASE j < sd[c].n
    <3>1. told[<<c, j>>] # "nothing"
      BY <1>3, <2>4 DEF MqInv, ClientOK
    <3> QED BY <1>1, <1>3, <2>1, <2>4, <3>1
  <2> QED BY <1>3, <2>2, <2>3, <2>4
<1> QED BY <1>2, <1>3, <1>4 DEF MqInv, ClientOK

\* Steps that move no message.
LEMMA Unmoved ==
  ASSUME MqInv, q' = q, rx' = rx, SameFate,
         \A m \in UpMsg : told'[m] = "success" => told[m] = "success",
         \A m \in UpMsg : told[m] = "failure" => told'[m] = "failure"
  PROVE  /\ WordsOK' /\ FateOK' /\ RxOK'
         /\ \A m \in UpMsg : OnePlace(m)' /\ ToldOK(m)'
<1>1. WordsOK'
  BY DEF MqInv, WordsOK
<1>2. FateOK'
  BY DEF MqInv, FateOK, SameFate, DataAt, AckAt
<1>3. RxOK'
  BY DEF MqInv, RxOK, SameFate
<1>4. ASSUME NEW m \in UpMsg PROVE OnePlace(m)' /\ ToldOK(m)'
  <2>1. \A kind, z, i : At(kind, z, i, m)' <=> At(kind, z, i, m)
    BY DEF At, DataAt, InRx, AckAt
  <2>2. OnePlace(m) /\ ToldOK(m)
    BY DEF MqInv
  <2>3. Delivery!Unsure(m) => Delivery!Unsure(m)'
    BY UnsureStays DEF SameFate
  <2>4. OnePlace(m)'
    BY <2>1, <2>2 DEF OnePlace
  <2>5. ToldOK(m)'
    BY <2>1, <2>2, <2>3 DEF ToldOK
  <2> QED BY <2>4, <2>5
<1> QED BY <1>1, <1>2, <1>3, <1>4

-----------------------------------------------------------------------------
(* The steps of a sending thread.                                          *)

LEMMA BuildSendHeadStep ==
  ASSUME MqInv, Types', NEW c \in Client, NEW b \in Box, BuildSendHead(c, b)
  PROVE  MqInv' /\ AbsStep
<1>1. /\ sd'[c] = [IdleSend EXCEPT !.pc = "set", !.msg = <<c, sd[c].n + 1>>, !.num = serial[c],
                                   !.dept = c, !.term = b, !.n = sd[c].n + 1]
      /\ \A s \in Sender \ {c} : sd'[s] = sd[s]
      /\ serial'[c] = Wrap(serial[c]) /\ \A p \in Proc \ {c} : serial'[p] = serial[p]
  BY DEF MqInv, Types, BuildSendHead, Sender, Proc
<1>2. UNCHANGED <<q, kv, rx, ev, fate, told>> /\ sd[c].pc = "idle" /\ sd[c].n < MaxSend
  BY DEF BuildSendHead
<1>3. /\ sd'[c].pc = "set" /\ sd'[c].msg = <<c, sd[c].n + 1>> /\ sd'[c].num = serial[c]
      /\ sd'[c].dept = c /\ sd'[c].term = b /\ sd'[c].n = sd[c].n + 1
  BY <1>1 DEF IdleSend
<1>4. ClientOK(c)'
  <2>1. sd[c].n \in 0 .. MaxSend - 1 /\ serial[c] = sd[c].n
    BY <1>2, SerialAssumption, MqAssumption DEF MqInv, ClientOK
  <2>2. sd'[c].n \in 1 .. MaxSend
        /\ serial'[c] = IF sd'[c].n = SerialLimit THEN 0 ELSE sd'[c].n
    BY <1>1, <1>3, <2>1, SerialAssumption, MqAssumption DEF Wrap
  <2>3. Current(c)' = <<c, sd[c].n + 1>>
    BY <1>3 DEF Current
  <2>4. \A j \in 1 .. MaxSend :
          IF j > sd[c].n THEN fate[<<c, j>>] = "new" /\ told[<<c, j>>] = "nothing"
          ELSE told[<<c, j>>] # "nothing"
    BY <1>2 DEF MqInv, ClientOK
  <2>5. fate[<<c, sd[c].n + 1>>] = "new" /\ told[<<c, sd[c].n + 1>>] = "nothing"
    BY <2>1, <2>4, MqAssumption
  <2> QED BY <1>2, <1>3, <2>1, <2>2, <2>3, <2>4, <2>5 DEF ClientOK
<1>5. \A e \in Client \ {c} : ClientOK(e)'
  BY <1>1, <1>2, ClientFrame DEF MqInv, Sender, Proc
<1>6. \A d \in Deliverer : DelivererOK(d)'
  BY <1>1, DelivererFrame, Disjoint DEF MqInv, Sender
<1>7. TableOK'
  BY <1>2 DEF MqInv, TableOK
<1>8. SameFate /\ SameTold
  BY <1>2 DEF SameFate, SameTold
<1> QED BY <1>2, <1>4, <1>5, <1>6, <1>7, <1>8, Unmoved, Stutters DEF MqInv

LEMMA DelivererStepKeeps ==
  ASSUME MqInv, Types', NEW d \in Deliverer, DelivererOK(d)',
         \A s \in Sender \ {d} : sd'[s] = sd[s],
         \A c \in Client : serial'[c] = serial[c],
         UNCHANGED <<q, kv, rx, ev, fate, told>>
  PROVE  MqInv' /\ AbsStep
<1>1. \A c \in Client : ClientOK(c)'
  BY ClientFrame, Disjoint DEF MqInv, Sender
<1>2. \A e \in Deliverer : DelivererOK(e)'
  BY DelivererFrame DEF MqInv, Sender
<1>3. TableOK'
  BY DEF MqInv, TableOK
<1>4. SameFate /\ SameTold
  BY DEF SameFate, SameTold
<1> QED BY <1>1, <1>2, <1>3, <1>4, Unmoved, Stutters DEF MqInv

LEMMA DeliverHeadStep ==
  ASSUME MqInv, Types', NEW d \in Deliverer, NEW b \in Box, NEW c \in Client,
         DeliverHead(d, b, c)
  PROVE  MqInv' /\ AbsStep
<1>1. /\ sd'[d] = [IdleSend EXCEPT !.pc = "number", !.msg = <<d, sd[d].n + 1>>,
                     !.num = serial["chmpx"], !.dept = b, !.term = c, !.n = sd[d].n + 1]
      /\ \A s \in Sender \ {d} : sd'[s] = sd[s]
  BY DEF MqInv, Types, DeliverHead, Sender
<1>2. sd[d].n < MaxDeliver /\ sd[d].n \in 0 .. MaxDeliver
  BY DEF DeliverHead, MqInv, DelivererOK
<1>3. /\ sd'[d].pc = "number" /\ sd'[d].msg = <<d, sd[d].n + 1>> /\ sd'[d].dept = b
      /\ sd'[d].term = c /\ sd'[d].n = sd[d].n + 1
  BY <1>1 DEF IdleSend
<1>4. DelivererOK(d)'
  BY <1>2, <1>3, MqAssumption DEF DelivererOK, DownMsg
<1> QED BY <1>1, <1>4, DelivererStepKeeps DEF DeliverHead

LEMMA GetSerialNumberStep ==
  ASSUME MqInv, Types', NEW d \in Deliverer, GetSerialNumber(d)
  PROVE  MqInv' /\ AbsStep
<1>1. /\ sd'[d] = [sd[d] EXCEPT !.pc = "set"] /\ sd[d].pc = "number"
      /\ \A s \in Sender \ {d} : sd'[s] = sd[s]
  BY DEF MqInv, Types, GetSerialNumber, Sender
<1>2. \A c \in Client : serial'[c] = serial[c]
  BY NamesAssumption DEF MqInv, Types, GetSerialNumber, Proc
<1>3. /\ sd'[d].pc = "set" /\ sd'[d].msg = sd[d].msg /\ sd'[d].dept = sd[d].dept
      /\ sd'[d].term = sd[d].term /\ sd'[d].n = sd[d].n
  BY <1>1 DEF MqInv, Types, SendType, Sender
<1>4. DelivererOK(d)'
  BY <1>1, <1>3 DEF DelivererOK, MqInv
<1> QED BY <1>1, <1>2, <1>4, DelivererStepKeeps DEF GetSerialNumber

\* SetData, SetFails and MqFull change the thread, the table and what is told.
LEMMA TableKept ==
  ASSUME MqInv
  PROVE  /\ \A x : kv' = Removed(x) => TableOK'
         /\ \A s \in Sender : sd[s].pc # "idle" /\ kv' = Stored(KeyOf(s), sd[s].msg) => TableOK'
         /\ kv' = kv => TableOK'
<1>1. ASSUME NEW x, kv' = Removed(x) PROVE TableOK'
  BY <1>1 DEF MqInv, TableOK, Removed
<1>2. ASSUME NEW s \in Sender, sd[s].pc # "idle", kv' = Stored(KeyOf(s), sd[s].msg) PROVE TableOK'
  <2>1. DOMAIN kv' = DOMAIN kv \cup {KeyOf(s)}
        /\ \A x \in DOMAIN kv' : kv'[x] = IF x = KeyOf(s) THEN sd[s].msg ELSE kv[x]
    BY <1>2 DEF Stored
  <2>2. \/ \E m \in UpMsg, b \in Box : KeyOf(s) = Key(m[1], b, Num(m)) /\ sd[s].msg = m
        \/ \E b \in Box, c \in Client, n \in 0 .. SerialLimit - 1 :
             KeyOf(s) = Key(b, c, n) /\ sd[s].msg \in DownMsg
    <3>1. CASE s \in Client
      BY <1>2, <3>1, CurrentIsUp DEF KeyOf
    <3>2. CASE s \in Deliverer
      BY <1>2, <3>2 DEF KeyOf, MqInv, DelivererOK, Types, SendType, Sender
    <3> QED BY <3>1, <3>2 DEF Sender
  <2> QED BY <2>1, <2>2 DEF MqInv, TableOK
<1>3. ASSUME kv' = kv PROVE TableOK'
  BY <1>3 DEF MqInv, TableOK
<1> QED BY <1>1, <1>2, <1>3

\* A thread changes its phase or counter without leaving its message.
LEMMA PhaseKeeps ==
  ASSUME MqInv, NEW s \in Sender, NEW p,
         sd[s].pc # "idle",
         p = sd[s].pc \/ (sd[s].pc = "set" /\ p = "send"),
         sd'[s].pc = p, sd'[s].msg = sd[s].msg, sd'[s].num = sd[s].num,
         sd'[s].dept = sd[s].dept, sd'[s].term = sd[s].term, sd'[s].n = sd[s].n,
         \A t \in Sender \ {s} : sd'[t] = sd[t],
         UNCHANGED <<serial, fate, told>>
  PROVE  (\A c \in Client : ClientOK(c)') /\ (\A d \in Deliverer : DelivererOK(d)')
<1>1. ASSUME NEW c \in Client PROVE ClientOK(c)'
  <2>1. CASE c = s
    BY <2>1 DEF MqInv, ClientOK, Current
  <2>2. CASE c # s
    BY <2>2, ClientFrame DEF MqInv, Sender
  <2> QED BY <2>1, <2>2
<1>2. ASSUME NEW d \in Deliverer PROVE DelivererOK(d)'
  <2>1. CASE d = s
    BY <2>1 DEF MqInv, DelivererOK
  <2>2. CASE d # s
    BY <2>2, DelivererFrame DEF MqInv, Sender
  <2> QED BY <2>1, <2>2
<1> QED BY <1>1, <1>2

\* A Send that gives up: nothing moves, the caller is told failure.
LEMMA GiveUpKeeps ==
  ASSUME MqInv, Types', NEW s \in Sender, sd[s].pc # "idle", Return(s, "failure"),
         TableOK', UNCHANGED <<serial, q, rx, fate>>
  PROVE  MqInv' /\ AbsStep
<1>1. /\ sd'[s] = [IdleSend EXCEPT !.n = sd[s].n]
      /\ \A t \in Sender \ {s} : sd'[t] = sd[t]
      /\ s \in Client => told'[Current(s)] = "failure"
      /\ \A m \in UpMsg : (s \in Client /\ m = Current(s)) \/ told'[m] = told[m]
      /\ \A m \in UpMsg : told[m] # "nothing" => told'[m] = told[m]
  BY ReturnEffect DEF Results
<1>2. SameFate
  BY DEF SameFate
<1>3. ASSUME NEW c \in Client PROVE ClientOK(c)'
  <2>1. CASE c = s
    BY <2>1, <1>2, ReturnClient DEF Results
  <2>2. CASE c # s
    BY <1>1, <2>2, ClientFrame DEF MqInv, Sender, Current
  <2> QED BY <2>1, <2>2
<1>4. ASSUME NEW d \in Deliverer PROVE DelivererOK(d)'
  <2>1. CASE d = s
    BY <1>1, <2>1 DEF MqInv, DelivererOK, IdleSend
  <2>2. CASE d # s
    BY <1>1, <2>2, DelivererFrame DEF MqInv, Sender
  <2> QED BY <2>1, <2>2
<1>5. WordsOK' /\ FateOK' /\ RxOK' /\ \A m \in UpMsg : OnePlace(m)' /\ ToldOK(m)'
  BY <1>1, <1>2, Unmoved
<1>6. AbsStep
  <2>1. CASE s \in Client
    <3>1. Current(s) \in UpMsg /\ told[Current(s)] = "nothing"
      BY <2>1, CurrentIsUp
    <3> QED BY <1>1, <1>2, <2>1, <3>1, FailStep
  <2>2. CASE s \notin Client
    BY <1>1, <1>2, <2>2, Stutters DEF SameTold
  <2> QED BY <2>1, <2>2
<1> QED BY <1>3, <1>4, <1>5, <1>6 DEF MqInv

LEMMA SetDataStep ==
  ASSUME MqInv, Types', NEW s \in Sender, SetData(s)
  PROVE  MqInv' /\ AbsStep
<1>1. /\ sd[s].pc = "set" /\ sd'[s] = [sd[s] EXCEPT !.pc = "send"]
      /\ \A t \in Sender \ {s} : sd'[t] = sd[t]
  BY DEF SetData, MqInv, Types
<1>2. /\ sd'[s].pc = "send" /\ sd'[s].msg = sd[s].msg /\ sd'[s].num = sd[s].num
      /\ sd'[s].dept = sd[s].dept /\ sd'[s].term = sd[s].term /\ sd'[s].n = sd[s].n
  BY <1>1 DEF MqInv, Types, SendType
<1>3. UNCHANGED <<serial, q, rx, ev, fate, told>>
  BY DEF SetData
<1>4. (\A c \in Client : ClientOK(c)') /\ (\A d \in Deliverer : DelivererOK(d)')
  BY <1>1, <1>2, <1>3, PhaseKeeps
<1>5. TableOK'
  BY <1>1, TableKept DEF SetData
<1>6. SameFate /\ SameTold
  BY <1>3 DEF SameFate, SameTold
<1> QED BY <1>3, <1>4, <1>5, <1>6, Unmoved, Stutters DEF MqInv

\* One more try: the counter goes up and nothing else happens.
LEMMA RetryKeeps ==
  ASSUME MqInv, Types', NEW s \in Sender, sd[s].pc # "idle", NEW n \in Nat,
         sd' = [sd EXCEPT ![s].cnt = n], UNCHANGED <<serial, q, kv, rx, fate, told>>
  PROVE  MqInv' /\ AbsStep
<1>1. /\ sd'[s] = [sd[s] EXCEPT !.cnt = n] /\ \A t \in Sender \ {s} : sd'[t] = sd[t]
  BY DEF MqInv, Types
<1>2. /\ sd'[s].pc = sd[s].pc /\ sd'[s].msg = sd[s].msg /\ sd'[s].num = sd[s].num
      /\ sd'[s].dept = sd[s].dept /\ sd'[s].term = sd[s].term /\ sd'[s].n = sd[s].n
  BY <1>1 DEF MqInv, Types, SendType
<1>3. (\A c \in Client : ClientOK(c)') /\ (\A d \in Deliverer : DelivererOK(d)')
  BY <1>1, <1>2, PhaseKeeps
<1>4. SameFate /\ SameTold
  BY DEF SameFate, SameTold
<1> QED BY <1>3, <1>4, TableKept, Unmoved, Stutters DEF MqInv

LEMMA SetFailsStep ==
  ASSUME MqInv, Types', NEW s \in Sender, SetFails(s)
  PROVE  MqInv' /\ AbsStep
  BY TableKept, GiveUpKeeps DEF SetFails

LEMMA MqFullStep ==
  ASSUME MqInv, Types', NEW s \in Sender, MqFull(s)
  PROVE  MqInv' /\ AbsStep
<1>1. CASE sd[s].cnt + 1 < RetryCount
  <2>1. sd[s].cnt + 1 \in Nat
    BY CountTypes DEF MqInv
  <2>2. sd' = [sd EXCEPT ![s].cnt = sd[s].cnt + 1] /\ sd[s].pc # "idle"
    BY <1>1 DEF MqFull
  <2> QED BY <1>1, <2>1, <2>2, RetryKeeps DEF MqFull
<1>2. CASE ~(sd[s].cnt + 1 < RetryCount)
  <2>1. TableOK' /\ Return(s, "failure") /\ sd[s].pc # "idle"
    BY <1>2, TableKept DEF MqFull
  <2> QED BY <2>1, GiveUpKeeps DEF MqFull
<1> QED BY <1>1, <1>2

LEMMA AckEmptyStep ==
  ASSUME MqInv, Types', NEW c \in Client, AckEmpty(c)
  PROVE  MqInv' /\ AbsStep
<1>1. c \in Sender
  BY DEF Sender
<1>2. CASE sd[c].cnt + 1 < RetryCount
  <2>1. sd[c].cnt + 1 \in Nat
    BY <1>1, CountTypes DEF MqInv
  <2>2. sd' = [sd EXCEPT ![c].cnt = sd[c].cnt + 1] /\ sd[c].pc # "idle"
    BY <1>2 DEF AckEmpty
  <2> QED BY <1>1, <1>2, <2>1, <2>2, RetryKeeps DEF AckEmpty
<1>3. CASE ~(sd[c].cnt + 1 < RetryCount)
  <2>1. TableOK' /\ Return(c, "failure") /\ sd[c].pc # "idle"
    BY <1>3, TableKept DEF AckEmpty
  <2> QED BY <1>1, <2>1, GiveUpKeeps DEF AckEmpty
<1> QED BY <1>2, <1>3

-----------------------------------------------------------------------------
(* mq_send.                                                                *)

\* Word e in queue z is a place of message m.
WordOf(z, e, kind, m) ==
  \/ kind = "data" /\ z \in Box /\ e = DataWord(m)
  \/ kind = "ack" /\ z = m[1] /\ \E a \in Results : e = AckWord(m, a)

\* A word put into a queue adds the place of the message it is about.
LEMMA AppendedPlaces ==
  ASSUME MqInv, NEW z \in Queues, NEW e \in WordType,
         \A x \in Box, m \in UpMsg : InRx(x, m)' => InRx(x, m),
         q' = [q EXCEPT ![z] = Append(@, e)]
  PROVE  /\ \A x \in Queues : \A i \in 1 .. Len(q'[x]) :
              (i \in 1 .. Len(q[x]) /\ q'[x][i] = q[x][i])
                \/ (x = z /\ i = Len(q[z]) + 1 /\ q'[x][i] = e)
         /\ \A m \in UpMsg, kind \in Kinds, x \in Queues, i \in Nat :
              At(kind, x, i, m)' =>
                \/ At(kind, x, i, m)
                \/ x = z /\ i = Len(q[z]) + 1 /\ WordOf(z, e, kind, m)
<1>1. q[z] \in Seq(WordType) /\ q'[z] = Append(q[z], e) /\ \A x \in Queues \ {z} : q'[x] = q[x]
  BY DEF MqInv, Types
<1>2. Len(q[z]) \in Nat /\ Len(q'[z]) = Len(q[z]) + 1
      /\ (\A i \in 1 .. Len(q[z]) : q'[z][i] = q[z][i]) /\ q'[z][Len(q[z]) + 1] = e
  BY <1>1, Appended, LenProperties
<1>3. ASSUME NEW x \in Queues, NEW i \in 1 .. Len(q'[x])
      PROVE  (i \in 1 .. Len(q[x]) /\ q'[x][i] = q[x][i])
                \/ (x = z /\ i = Len(q[z]) + 1 /\ q'[x][i] = e)
  <2>1. CASE x = z
    BY <1>2, <2>1
  <2>2. CASE x # z
    BY <1>1, <2>2
  <2> QED BY <2>1, <2>2
<1>4. ASSUME NEW m \in UpMsg, NEW kind \in Kinds, NEW x \in Queues, NEW i \in Nat,
             At(kind, x, i, m)'
      PROVE  \/ At(kind, x, i, m)
             \/ x = z /\ i = Len(q[z]) + 1 /\ WordOf(z, e, kind, m)
  <2>1. CASE kind = "data"
    <3>1. x \in Box /\ i \in 1 .. Len(q'[x]) /\ q'[x][i] = DataWord(m)
      BY <1>4, <2>1 DEF At, DataAt
    <3> QED BY <1>3, <2>1, <3>1 DEF At, DataAt, WordOf
  <2>2. CASE kind = "rx"
    <3>1. x \in Box /\ InRx(x, m)' /\ i = 0
      BY <1>4, <2>2 DEF At, InRx
    <3> QED BY <2>2, <3>1 DEF At
  <2>3. CASE kind = "ack"
    <3>1. PICK a \in Results : x = m[1] /\ i \in 1 .. Len(q'[x]) /\ q'[x][i] = AckWord(m, a)
      BY <1>4, <2>3 DEF At, AckAt
    <3> QED BY <1>3, <2>3, <3>1 DEF At, AckAt, WordOf
  <2> QED BY <1>4, <2>1, <2>2, <2>3 DEF Kinds
<1> QED BY <1>3, <1>4

\* Messages that stay where they are, or lose a place, satisfy what they did.
LEMMA FewerPlaces ==
  ASSUME NEW m \in UpMsg, OnePlace(m), ToldOK(m),
         \A kind \in Kinds, x \in Queues, i \in Nat : At(kind, x, i, m)' => At(kind, x, i, m),
         told'[m] = "success" => told[m] = "success",
         Delivery!Unsure(m) => Delivery!Unsure(m)'
  PROVE  OnePlace(m)' /\ ToldOK(m)'
<1>1. OnePlace(m)'
  BY DEF OnePlace
<1>2. ToldOK(m)'
  BY DEF ToldOK
<1> QED BY <1>1, <1>2

\* A message that has not been sent is nowhere.
LEMMA NewIsNowhere ==
  ASSUME MqInv, NEW m \in UpMsg, fate[m] = "new", NEW kind \in Kinds, NEW x, NEW i
  PROVE  ~At(kind, x, i, m)
<1>1. ~DataAt(x, i, m)
  BY DEF MqInv, FateOK, DataAt
<1>2. ~InRx(x, m)
  BY DEF MqInv, RxOK, InRx
<1>3. \A a \in Results : ~AckAt(i, m, a)
  BY DEF MqInv, FateOK, AckAt
<1> QED BY <1>1, <1>2, <1>3 DEF At

LEMMA WordsOfMessages ==
  ASSUME NEW m \in UpMsg
  PROVE  /\ DataWord(m) \in WordType /\ \A a \in Results : AckWord(m, a) \in WordType
         /\ \A n \in UpMsg : DataWord(m) = DataWord(n) => m = n
         /\ \A n \in UpMsg, a, b \in Results : AckWord(m, a) = AckWord(n, b) => m = n /\ a = b
         /\ \A z : \A k \in 0 .. SerialLimit - 1, a \in Results :
              Word(z, k, "none") # AckWord(m, a)
<1>1. m[1] \in Queues /\ Num(m) \in 0 .. SerialLimit - 1
  BY NumRange DEF Queues
<1>2. DataWord(m) \in WordType /\ \A a \in Results : AckWord(m, a) \in WordType
  BY <1>1, Values DEF DataWord, AckWord, Results
<1>3. ASSUME NEW n \in UpMsg, DataWord(m) = DataWord(n) PROVE m = n
  BY <1>1, <1>3, NumRange, WordEqual, SameMessage DEF DataWord
<1>4. ASSUME NEW n \in UpMsg, NEW a \in Results, NEW b \in Results, AckWord(m, a) = AckWord(n, b)
      PROVE  m = n /\ a = b
  BY <1>1, <1>4, NumRange, WordEqual, SameMessage DEF AckWord, Results
<1>5. ASSUME NEW z, NEW k \in 0 .. SerialLimit - 1, NEW a \in Results,
             Word(z, k, "none") = AckWord(m, a)
      PROVE  FALSE
  BY <1>1, <1>5, WordEqual DEF AckWord, Results
<1> QED BY <1>2, <1>3, <1>4, <1>5

LEMMA ClientMqSend ==
  ASSUME MqInv, Types', NEW c \in Client, MqSend(c)
  PROVE  MqInv' /\ AbsStep
<1>0. PICK m, t : m = Current(c) /\ t = sd[c].term
  OBVIOUS
<1>1. /\ m \in UpMsg /\ m[1] = c /\ t \in Box /\ told[m] = "nothing" /\ fate[m] = "new"
      /\ sd[c].msg = m /\ c \in Sender /\ sd[c].pc = "send"
      /\ Word(sd[c].dept, sd[c].num, "none") = DataWord(m)
  BY <1>0, CurrentIsUp DEF MqSend, DataWord, MqInv, ClientOK, Sender
<1>2. /\ q' = [q EXCEPT ![t] = Append(@, DataWord(m))]
      /\ sd' = [sd EXCEPT ![c].pc = "ack", ![c].cnt = 0]
      /\ fate' = [fate EXCEPT ![m] = "sent"]
      /\ UNCHANGED <<serial, kv, rx, told>>
  BY <1>0, <1>1, UpIsMsg DEF MqSend, WaitsForAck, Fated
<1>3. t \in Queues /\ DataWord(m) \in WordType
  BY <1>1, WordsOfMessages DEF Queues
<1>4. fate'[m] = "sent" /\ \A n \in UpMsg \ {m} : fate'[n] = fate[n]
  BY <1>1, <1>2, UpIsMsg DEF MqInv, Types
<1>5. /\ \A x \in Queues : \A i \in 1 .. Len(q'[x]) :
           (i \in 1 .. Len(q[x]) /\ q'[x][i] = q[x][i])
             \/ (x = t /\ i = Len(q[t]) + 1 /\ q'[x][i] = DataWord(m))
      /\ \A n \in UpMsg, kind \in Kinds, x \in Queues, i \in Nat :
           At(kind, x, i, n)' =>
             \/ At(kind, x, i, n)
             \/ x = t /\ i = Len(q[t]) + 1 /\ kind = "data" /\ n = m
  <2>1. t \notin Client
    BY <1>1, NamesAssumption
  <2>2. /\ \A x \in Queues : \A i \in 1 .. Len(q'[x]) :
              (i \in 1 .. Len(q[x]) /\ q'[x][i] = q[x][i])
                \/ (x = t /\ i = Len(q[t]) + 1 /\ q'[x][i] = DataWord(m))
        /\ \A n \in UpMsg, kind \in Kinds, x \in Queues, i \in Nat :
              At(kind, x, i, n)' =>
                \/ At(kind, x, i, n)
                \/ x = t /\ i = Len(q[t]) + 1 /\ WordOf(t, DataWord(m), kind, n)
    <3>1. PICK e : e = DataWord(m)
      OBVIOUS
    <3>2. /\ q' = [q EXCEPT ![t] = Append(@, e)] /\ e \in WordType
          /\ \A x \in Box, n \in UpMsg : InRx(x, n)' => InRx(x, n)
      BY <1>2, <1>3, <3>1 DEF InRx
    <3>3. /\ \A x \in Queues : \A i \in 1 .. Len(q'[x]) :
              (i \in 1 .. Len(q[x]) /\ q'[x][i] = q[x][i])
                \/ (x = t /\ i = Len(q[t]) + 1 /\ q'[x][i] = e)
          /\ \A n \in UpMsg, kind \in Kinds, x \in Queues, i \in Nat :
              At(kind, x, i, n)' =>
                \/ At(kind, x, i, n)
                \/ x = t /\ i = Len(q[t]) + 1 /\ WordOf(t, e, kind, n)
      <4>1. MqInv /\ t \in Queues
        BY <1>3
      <4>2. \A x \in Queues : \A i \in 1 .. Len(q'[x]) :
              (i \in 1 .. Len(q[x]) /\ q'[x][i] = q[x][i])
                \/ (x = t /\ i = Len(q[t]) + 1 /\ q'[x][i] = e)
        BY <3>2, <4>1, AppendedPlaces
      <4>3. \A n \in UpMsg, kind \in Kinds, x \in Queues, i \in Nat :
              At(kind, x, i, n)' =>
                \/ At(kind, x, i, n)
                \/ x = t /\ i = Len(q[t]) + 1 /\ WordOf(t, e, kind, n)
        BY <3>2, <4>1, AppendedPlaces
      <4> QED BY <4>2, <4>3
    <3> QED BY <3>1, <3>3
  <2>3. \A n \in UpMsg : n[1] # t /\ (DataWord(m) = DataWord(n) => n = m)
    BY <1>1, <2>1, NumRange, WordsOfMessages
  <2> QED BY <2>2, <2>3 DEF WordOf
<1>6. ASSUME NEW e \in Client PROVE ClientOK(e)'
  <2>1. CASE e = c
    <3>1. /\ sd'[c].pc = "ack" /\ sd'[c].msg = sd[c].msg /\ sd'[c].num = sd[c].num
          /\ sd'[c].dept = sd[c].dept /\ sd'[c].term = sd[c].term /\ sd'[c].n = sd[c].n
      BY <1>1, <1>2 DEF MqInv, Types, SendType
    <3>2. \A j \in 1 .. MaxSend : <<c, j>> \in UpMsg /\ (<<c, j>> = m => j = sd[c].n)
      BY <1>0, Disjoint DEF Current
    <3>3. \A j \in 1 .. MaxSend :
            IF j > sd[c].n THEN fate'[<<c, j>>] = "new" /\ told'[<<c, j>>] = "nothing"
            ELSE j < sd[c].n => told'[<<c, j>>] # "nothing"
      <4>1. sd[c].n \in 0 .. MaxSend
        BY DEF MqInv, ClientOK
      <4> QED BY <1>1, <1>2, <1>4, <3>2, <4>1 DEF MqInv, ClientOK
    <3>4. Current(c)' = m
      BY <1>0, <3>1 DEF Current
    <3>5. told'[m] = "nothing" /\ fate'[m] # "new"
      BY <1>1, <1>2, <1>4
    <3>6. /\ sd[c].n \in 0 .. MaxSend /\ sd[c].n >= 1 /\ sd[c].num = sd[c].n - 1
          /\ serial[c] = IF sd[c].n = SerialLimit THEN 0 ELSE sd[c].n
          /\ sd[c].dept = c /\ sd[c].term \in Box
      BY <1>1 DEF MqInv, ClientOK
    <3>7. ClientOK(c)'
      BY <1>1, <1>2, <3>1, <3>3, <3>4, <3>5, <3>6 DEF ClientOK
    <3> QED BY <2>1, <3>7
  <2>2. CASE e # c
    <3>1. sd'[e] = sd[e]
      BY <1>2, <2>2 DEF MqInv, Types, Sender
    <3> QED BY <1>1, <1>2, <1>4, <2>2, <3>1, ClientFrame DEF MqInv
  <2> QED BY <2>1, <2>2
<1>7. ASSUME NEW d \in Deliverer PROVE DelivererOK(d)'
  <2>1. sd'[d] = sd[d]
    BY <1>2, Disjoint DEF MqInv, Types, Sender
  <2> QED BY <2>1, DelivererFrame DEF MqInv
<1>8. TableOK'
  BY <1>2, TableKept
<1>9. WordsOK'
  <2>1. ASSUME NEW b \in Box, NEW i \in 1 .. Len(q'[b]) PROVE \E n \in UpMsg : q'[b][i] = DataWord(n)
    <3>1. b \in Queues
      BY DEF Queues
    <3> QED BY <1>1, <1>5, <3>1 DEF MqInv, WordsOK
  <2>2. ASSUME NEW e \in Client PROVE q'[e] = q[e]
    BY <1>1, <1>2, NamesAssumption DEF MqInv, Types, Queues
  <2> QED BY <2>1, <2>2 DEF MqInv, WordsOK
<1>10. FateOK'
  <2>1. ASSUME NEW n \in UpMsg, NEW b \in Box, NEW i \in 1 .. Len(q'[b]), DataAt(b, i, n)'
        PROVE  fate'[n] = "sent"
    <3>1. q'[b][i] = DataWord(n) /\ b \in Queues
      BY <2>1 DEF DataAt, Queues
    <3>2. CASE i \in 1 .. Len(q[b]) /\ q'[b][i] = q[b][i]
      <4>1. fate[n] = "sent"
        BY <3>1, <3>2 DEF MqInv, FateOK, DataAt
      <4> QED BY <1>4, <4>1
    <3>3. CASE q'[b][i] = DataWord(m)
      BY <1>1, <1>4, <3>1, <3>3, WordsOfMessages
    <3> QED BY <1>5, <3>1, <3>2, <3>3
  <2>2. ASSUME NEW n \in UpMsg, NEW i \in 1 .. Len(q'[n[1]]), NEW a \in Results, AckAt(i, n, a)'
        PROVE  fate'[n] = IF a = "success" THEN "handled" ELSE "refused"
    <3>1. q'[n[1]] = q[n[1]]
      BY <1>1, <1>2, NamesAssumption, NumRange DEF MqInv, Types, Queues
    <3>2. AckAt(i, n, a)
      BY <2>2, <3>1 DEF AckAt
    <3>3. fate[n] = IF a = "success" THEN "handled" ELSE "refused"
      BY <3>1, <3>2 DEF MqInv, FateOK
    <3> QED BY <1>1, <1>4, <3>3
  <2> QED BY <2>1, <2>2 DEF FateOK
<1>11. RxOK'
  <2>1. \A b \in Box : rx[b].pc # "idle" => rx[b].msg # m
    BY <1>1 DEF MqInv, RxOK
  <2> QED BY <1>2, <1>4, <2>1 DEF MqInv, RxOK
<1>12. ASSUME NEW n \in UpMsg PROVE OnePlace(n)' /\ ToldOK(n)'
  <2>1. CASE n = m
    <3>1. ASSUME NEW kind \in Kinds, NEW x \in Queues, NEW i \in Nat, At(kind, x, i, m)'
          PROVE  x = t /\ i = Len(q[t]) + 1 /\ kind = "data"
      BY <1>1, <1>5, <3>1, NewIsNowhere
    <3>2. OnePlace(m)'
      BY <3>1 DEF OnePlace
    <3>3. ToldOK(m)'
      BY <1>1, <1>2 DEF ToldOK
    <3> QED BY <2>1, <3>2, <3>3
  <2>2. CASE n # m
    <3>1. Delivery!Unsure(n) => Delivery!Unsure(n)'
      BY <1>1, <1>2, <1>4, UnsureStays
    <3> QED BY <1>2, <1>5, <2>2, <3>1, FewerPlaces DEF MqInv
  <2> QED BY <2>1, <2>2
<1>13. AbsStep
  BY <1>1, <1>2, <1>4, SubmitStep DEF SameTold
<1> QED BY <1>6, <1>7, <1>8, <1>9, <1>10, <1>11, <1>12, <1>13 DEF MqInv
\* A message from the RING goes to a client: no message of a client is concerned.
LEMMA DelivererMqSend ==
  ASSUME MqInv, Types', NEW d \in Deliverer, MqSend(d)
  PROVE  MqInv' /\ AbsStep
<1>1. /\ d \in Sender /\ d \notin Client /\ sd[d].pc = "send"
      /\ sd[d].dept \in Box /\ sd[d].term \in Client /\ sd[d].msg \in DownMsg
      /\ sd[d].num \in 0 .. SerialLimit - 1
  BY Disjoint DEF MqSend, MqInv, DelivererOK, Sender, Types, SendType
<1>2. PICK t, e : t = sd[d].term /\ e = Word(sd[d].dept, sd[d].num, "none")
  OBVIOUS
<1>3. /\ t \in Queues /\ t \in Client /\ t \notin Box /\ e \in WordType
      /\ q' = [q EXCEPT ![t] = Append(@, e)] /\ Return(d, "success")
      /\ UNCHANGED <<serial, kv, rx>>
  BY <1>1, <1>2, Values, NamesAssumption DEF MqSend, WaitsForAck, Queues
<1>4. \A m \in UpMsg, a \in Results : e # AckWord(m, a)
  BY <1>1, <1>2, WordsOfMessages
<1>5. SameFate
  BY <1>1, Disjoint DEF MqSend, Fated, SameFate, MqInv, Types
<1>6. /\ sd'[d] = [IdleSend EXCEPT !.n = sd[d].n]
      /\ \A s \in Sender \ {d} : sd'[s] = sd[s]
      /\ \A m \in UpMsg : told'[m] = told[m]
  BY <1>1, <1>3, ReturnEffect DEF Results
<1>7. \A c \in Client : ClientOK(c)'
  BY <1>1, <1>3, <1>5, <1>6, ClientFrame DEF MqInv, Sender, SameFate
<1>8. ASSUME NEW f \in Deliverer PROVE DelivererOK(f)'
  <2>1. CASE f = d
    BY <1>6, <2>1 DEF MqInv, DelivererOK, IdleSend
  <2>2. CASE f # d
    BY <1>6, <2>2, DelivererFrame DEF MqInv, Sender
  <2> QED BY <2>1, <2>2
<1>9. TableOK'
  BY <1>3, TableKept
<1>10. /\ \A x \in Queues : \A i \in 1 .. Len(q'[x]) :
            (i \in 1 .. Len(q[x]) /\ q'[x][i] = q[x][i]) \/ (x = t /\ q'[x][i] = e)
       /\ \A n \in UpMsg, kind \in Kinds, x \in Queues, i \in Nat :
            At(kind, x, i, n)' => At(kind, x, i, n)
  <2>1. \A x \in Box, n \in UpMsg : InRx(x, n)' => InRx(x, n)
    BY <1>3 DEF InRx
  <2>2. /\ \A x \in Queues : \A i \in 1 .. Len(q'[x]) :
              (i \in 1 .. Len(q[x]) /\ q'[x][i] = q[x][i])
                \/ (x = t /\ i = Len(q[t]) + 1 /\ q'[x][i] = e)
        /\ \A n \in UpMsg, kind \in Kinds, x \in Queues, i \in Nat :
              At(kind, x, i, n)' =>
                \/ At(kind, x, i, n)
                \/ x = t /\ i = Len(q[t]) + 1 /\ WordOf(t, e, kind, n)
    BY <1>3, <2>1, AppendedPlaces
  <2> QED BY <1>3, <1>4, <2>2 DEF WordOf
<1>11. WordsOK'
  <2>1. ASSUME NEW b \in Box, NEW i \in 1 .. Len(q'[b]) PROVE \E m \in UpMsg : q'[b][i] = DataWord(m)
    BY <1>3, <1>10, <2>1 DEF MqInv, WordsOK, Queues
  <2>2. ASSUME NEW c \in Client, NEW i \in 1 .. Len(q'[c])
        PROVE  \/ \E b \in Box, n \in 0 .. SerialLimit - 1 : q'[c][i] = Word(b, n, "none")
               \/ \E m \in UpMsg, a \in Results : m[1] = c /\ q'[c][i] = AckWord(m, a)
    <3>1. c \in Queues
      BY DEF Queues
    <3>2. CASE i \in 1 .. Len(q[c]) /\ q'[c][i] = q[c][i]
      BY <3>2 DEF MqInv, WordsOK
    <3>3. CASE q'[c][i] = e
      BY <1>1, <1>2, <3>3
    <3> QED BY <1>10, <3>1, <3>2, <3>3
  <2> QED BY <2>1, <2>2 DEF WordsOK
<1>12. FateOK'
  <2>1. ASSUME NEW m \in UpMsg, NEW b \in Box, NEW i \in 1 .. Len(q'[b]), DataAt(b, i, m)'
        PROVE  fate'[m] = "sent"
    <3>1. q'[b][i] = q[b][i] /\ i \in 1 .. Len(q[b])
      BY <1>3, <1>10 DEF Queues
    <3> QED BY <1>5, <2>1, <3>1 DEF MqInv, FateOK, DataAt, SameFate
  <2>2. ASSUME NEW m \in UpMsg, NEW i \in 1 .. Len(q'[m[1]]), NEW a \in Results, AckAt(i, m, a)'
        PROVE  fate'[m] = IF a = "success" THEN "handled" ELSE "refused"
    <3>1. q'[m[1]][i] = AckWord(m, a) /\ m[1] \in Queues
      BY <2>2, NumRange DEF AckAt, Queues
    <3>2. q'[m[1]][i] = q[m[1]][i] /\ i \in 1 .. Len(q[m[1]])
      BY <1>4, <1>10, <3>1
    <3> QED BY <1>5, <3>1, <3>2 DEF MqInv, FateOK, AckAt, SameFate
  <2> QED BY <2>1, <2>2 DEF FateOK
<1>13. RxOK'
  BY <1>3, <1>5 DEF MqInv, RxOK, SameFate
<1>14. ASSUME NEW m \in UpMsg PROVE OnePlace(m)' /\ ToldOK(m)'
  <2>1. Delivery!Unsure(m) => Delivery!Unsure(m)'
    BY <1>5, <1>6, UnsureStays DEF SameFate
  <2> QED BY <1>6, <1>10, <2>1, FewerPlaces DEF MqInv
<1>15. AbsStep
  BY <1>5, <1>6, Stutters DEF SameTold
<1> QED BY <1>7, <1>8, <1>9, <1>11, <1>12, <1>13, <1>14, <1>15 DEF MqInv

-----------------------------------------------------------------------------
(* A word is taken off a queue.                                            *)

\* Where a place was before the first word of queue z was taken.
Before(kind, x, z, i) == IF kind # "rx" /\ x = z THEN i + 1 ELSE i

\* The queue without its first word.
LEMMA TailedQueue ==
  ASSUME MqInv, NEW z \in Queues, q[z] # << >>, q' = [q EXCEPT ![z] = Tail(@)]
  PROVE  /\ Len(q[z]) \in Nat /\ Len(q[z]) >= 1 /\ Len(q'[z]) = Len(q[z]) - 1
         /\ \A i \in 1 .. Len(q[z]) - 1 : q'[z][i] = q[z][i + 1]
         /\ Head(q[z]) = q[z][1] /\ \A x \in Queues \ {z} : q'[x] = q[x]
<1>1. PICK s : s = q[z]
  OBVIOUS
<1>2. s \in Seq(WordType) /\ s # << >> /\ q'[z] = Tail(s) /\ \A x \in Queues \ {z} : q'[x] = q[x]
  BY <1>1 DEF MqInv, Types
<1>3. /\ Head(s) = s[1] /\ Head(s) \in WordType /\ Len(s) \in Nat /\ Len(s) >= 1
      /\ Tail(s) \in Seq(WordType) /\ Len(Tail(s)) = Len(s) - 1
      /\ \A i \in 1 .. Len(s) - 1 : Tail(s)[i] = s[i + 1]
  BY <1>2, Tailed
<1> QED BY <1>1, <1>2, <1>3

LEMMA TailedWords ==
  ASSUME MqInv, NEW z \in Queues, q[z] # << >>, q' = [q EXCEPT ![z] = Tail(@)]
  PROVE  \A x \in Queues, i \in Int : i \in 1 .. Len(q'[x]) =>
           \E j \in 1 .. Len(q[x]) :
             q'[x][i] = q[x][j] /\ j = IF x = z THEN i + 1 ELSE i
<1>1. \A x \in Queues \ {z} : q'[x] = q[x]
  BY TailedQueue
<1>2. Len(q[z]) \in Nat /\ Len(q'[z]) = Len(q[z]) - 1
      /\ \A i \in 1 .. Len(q[z]) - 1 : q'[z][i] = q[z][i + 1]
  BY TailedQueue
<1>3. ASSUME NEW x \in Queues, NEW i \in 1 .. Len(q'[x])
      PROVE  \E j \in 1 .. Len(q[x]) : q'[x][i] = q[x][j] /\ j = IF x = z THEN i + 1 ELSE i
  <2>1. CASE x = z
    <3>1. i + 1 \in 1 .. Len(q[x]) /\ q'[x][i] = q[x][i + 1]
      BY <1>2, <2>1
    <3> QED BY <2>1, <3>1
  <2>2. CASE x # z
    BY <1>1, <2>2
  <2> QED BY <2>1, <2>2
<1> QED BY <1>3

LEMMA TailedPlaces ==
  ASSUME MqInv, NEW z \in Queues, q[z] # << >>, q' = [q EXCEPT ![z] = Tail(@)],
         NEW m \in UpMsg
  PROVE  \A kind \in Kinds, x \in Queues, i \in Nat :
           At(kind, x, i, m)' /\ (kind = "rx" => InRx(x, m)) =>
             At(kind, x, Before(kind, x, z, i), m) /\ (kind # "rx" => i >= 1)
<1> SUFFICES ASSUME NEW kind \in Kinds, NEW x \in Queues, NEW i \in Nat,
                    At(kind, x, i, m)', kind = "rx" => InRx(x, m)
             PROVE  At(kind, x, Before(kind, x, z, i), m) /\ (kind # "rx" => i >= 1)
  OBVIOUS
<1>0. i \in 1 .. Len(q'[x]) =>
        \E j \in 1 .. Len(q[x]) : q'[x][i] = q[x][j] /\ j = IF x = z THEN i + 1 ELSE i
  <2>1. \A y \in Queues, j \in Int : j \in 1 .. Len(q'[y]) =>
          \E k \in 1 .. Len(q[y]) : q'[y][j] = q[y][k] /\ k = IF y = z THEN j + 1 ELSE j
    BY TailedWords
  <2> QED BY <2>1
<1>1. CASE kind = "data"
  <2>1. x \in Box /\ i \in 1 .. Len(q'[x]) /\ q'[x][i] = DataWord(m)
    BY <1>1 DEF At, DataAt
  <2>2. PICK j \in 1 .. Len(q[x]) : q'[x][i] = q[x][j] /\ j = IF x = z THEN i + 1 ELSE i
    BY <1>0, <2>1
  <2>3. j = Before(kind, x, z, i)
    BY <1>1, <2>2 DEF Before
  <2> QED BY <1>1, <2>1, <2>2, <2>3 DEF At, DataAt
<1>2. CASE kind = "rx"
  BY <1>2 DEF At, Before
<1>3. CASE kind = "ack"
  <2>1. PICK a \in Results : x = m[1] /\ i \in 1 .. Len(q'[x]) /\ q'[x][i] = AckWord(m, a)
    BY <1>3 DEF At, AckAt
  <2>2. PICK j \in 1 .. Len(q[x]) : q'[x][i] = q[x][j] /\ j = IF x = z THEN i + 1 ELSE i
    BY <1>0, <2>1
  <2>3. j = Before(kind, x, z, i)
    BY <1>3, <2>2 DEF Before
  <2> QED BY <1>3, <2>1, <2>2, <2>3 DEF At, AckAt
<1> QED BY <1>1, <1>2, <1>3 DEF Kinds

\* The remaining messages stay where they were or move up.
LEMMA MovedUp ==
  ASSUME NEW m \in UpMsg, OnePlace(m), NEW z \in Queues,
         \A kind \in Kinds, x \in Queues, i \in Nat :
           At(kind, x, i, m)' => At(kind, x, Before(kind, x, z, i), m)
  PROVE  /\ OnePlace(m)'
         /\ ToldOK(m) /\ (told'[m] = "success" => told[m] = "success")
              /\ (Delivery!Unsure(m) => Delivery!Unsure(m)') => ToldOK(m)'
<1>1. \A kind \in Kinds, x \in Queues, i \in Nat : Before(kind, x, z, i) \in Nat
  BY DEF Before
<1>2. \A kind \in Kinds, x \in Queues, i, j \in Nat :
        Before(kind, x, z, i) = Before(kind, x, z, j) => i = j
  BY DEF Before
<1>3. OnePlace(m)'
  <2> SUFFICES ASSUME NEW k1 \in Kinds, NEW k2 \in Kinds, NEW z1 \in Queues, NEW z2 \in Queues,
                      NEW i1 \in Nat, NEW i2 \in Nat, At(k1, z1, i1, m)', At(k2, z2, i2, m)'
               PROVE  k1 = k2 /\ z1 = z2 /\ i1 = i2
    BY DEF OnePlace
  <2>1. At(k1, z1, Before(k1, z1, z, i1), m) /\ At(k2, z2, Before(k2, z2, z, i2), m)
    OBVIOUS
  <2>2. k1 = k2 /\ z1 = z2 /\ Before(k1, z1, z, i1) = Before(k2, z2, z, i2)
    BY <1>1, <2>1 DEF OnePlace
  <2> QED BY <1>2, <2>2
<1>4. ASSUME ToldOK(m), told'[m] = "success" => told[m] = "success",
             Delivery!Unsure(m) => Delivery!Unsure(m)'
      PROVE  ToldOK(m)'
  <2> SUFFICES ASSUME told'[m] = "success", NEW kind \in Kinds, NEW x \in Queues, NEW i \in Nat,
                      At(kind, x, i, m)'
               PROVE  Delivery!Unsure(m)'
    BY DEF ToldOK
  <2>1. At(kind, x, Before(kind, x, z, i), m)
    OBVIOUS
  <2> QED BY <1>1, <1>4, <2>1 DEF ToldOK
<1> QED BY <1>3, <1>4

LEMMA TailedKeeps ==
  ASSUME MqInv, NEW z \in Queues, q[z] # << >>, q' = [q EXCEPT ![z] = Tail(@)], SameFate
  PROVE  WordsOK' /\ FateOK'
<1>1. \A x \in Queues, i \in Int : i \in 1 .. Len(q'[x]) =>
        \E j \in 1 .. Len(q[x]) : q'[x][i] = q[x][j]
  BY TailedWords
<1>2. WordsOK'
  <2>1. ASSUME NEW b \in Box, NEW i \in 1 .. Len(q'[b]) PROVE \E m \in UpMsg : q'[b][i] = DataWord(m)
    <3>1. PICK j \in 1 .. Len(q[b]) : q'[b][i] = q[b][j]
      BY <1>1 DEF Queues
    <3> QED BY <3>1 DEF MqInv, WordsOK
  <2>2. ASSUME NEW c \in Client, NEW i \in 1 .. Len(q'[c])
        PROVE  \/ \E b \in Box, n \in 0 .. SerialLimit - 1 : q'[c][i] = Word(b, n, "none")
               \/ \E m \in UpMsg, a \in Results : m[1] = c /\ q'[c][i] = AckWord(m, a)
    <3>1. PICK j \in 1 .. Len(q[c]) : q'[c][i] = q[c][j]
      BY <1>1 DEF Queues
    <3> QED BY <3>1 DEF MqInv, WordsOK
  <2> QED BY <2>1, <2>2 DEF WordsOK
<1>3. FateOK'
  <2>1. ASSUME NEW m \in UpMsg, NEW b \in Box, NEW i \in 1 .. Len(q'[b]), DataAt(b, i, m)'
        PROVE  fate'[m] = "sent"
    BY <1>1, <2>1 DEF MqInv, FateOK, DataAt, SameFate, Queues
  <2>2. ASSUME NEW m \in UpMsg, NEW i \in 1 .. Len(q'[m[1]]), NEW a \in Results, AckAt(i, m, a)'
        PROVE  fate'[m] = IF a = "success" THEN "handled" ELSE "refused"
    <3>1. m[1] \in Queues /\ q'[m[1]][i] = AckWord(m, a)
      BY <2>2, NumRange DEF AckAt, Queues
    <3>2. PICK j \in 1 .. Len(q[m[1]]) : q'[m[1]][i] = q[m[1]][j]
      BY <1>1, <3>1
    <3>3. AckAt(j, m, a)
      BY <3>1, <3>2 DEF AckAt
    <3>4. fate[m] = IF a = "success" THEN "handled" ELSE "refused"
      BY <3>3 DEF MqInv, FateOK
    <3> QED BY <3>4 DEF SameFate
  <2> QED BY <2>1, <2>2 DEF FateOK
<1> QED BY <1>2, <1>3
\* What stays when a word is taken: no thread changes its message, nothing is told.
LEMMA SendersKept ==
  ASSUME MqInv, UNCHANGED <<serial, sd, told>>,
         \A m \in UpMsg : fate'[m] = "new" <=> fate[m] = "new"
  PROVE  (\A c \in Client : ClientOK(c)') /\ (\A d \in Deliverer : DelivererOK(d)')
<1>1. ASSUME NEW c \in Client PROVE ClientOK(c)'
  BY ClientFrame DEF MqInv
<1>2. ASSUME NEW d \in Deliverer PROVE DelivererOK(d)'
  BY DelivererFrame DEF MqInv
<1> QED BY <1>1, <1>2

\* A client takes the first word of its queue.
LEMMA ClientTakes ==
  ASSUME MqInv, NEW c \in Client, q[c] # << >>, q' = [q EXCEPT ![c] = Tail(@)], SameFate, rx' = rx,
         NEW m \in UpMsg, told'[m] = "success" => told[m] = "success",
         \A e \in UpMsg : told[e] = "failure" => told'[e] = "failure"
  PROVE  OnePlace(m)' /\ ToldOK(m)'
<1>1. c \in Queues /\ OnePlace(m) /\ ToldOK(m)
  BY DEF Queues, MqInv
<1>2. \A kind \in Kinds, x \in Queues, i \in Nat :
        At(kind, x, i, m)' => At(kind, x, Before(kind, x, c, i), m)
  <2>1. \A kind, x, i : At(kind, x, i, m)' /\ kind = "rx" => InRx(x, m)
    BY DEF At, InRx
  <2> QED BY <1>1, <2>1, TailedPlaces
<1>3. Delivery!Unsure(m) => Delivery!Unsure(m)'
  BY UnsureStays DEF SameFate
<1> QED BY <1>1, <1>2, <1>3, MovedUp

\* An ACK of an earlier message can only mislead a client that was told failure before.
LEMMA AckTells ==
  ASSUME MqInv, NEW c \in Client, sd[c].pc = "ack", NEW e \in UpMsg, e[1] = c,
         AckAt(1, e, "success")
  PROVE  fate[e] = "handled" /\ (e = Current(c) \/ Delivery!Unsure(Current(c)))
<1>1. fate[e] = "handled"
  BY DEF MqInv, FateOK, AckAt, Results
<1>2. PICK m : m = Current(c)
  OBVIOUS
<1>3. m \in UpMsg /\ m[1] = c /\ m[2] = sd[c].n /\ sd[c].n \in 0 .. MaxSend
  BY <1>2, CurrentIsUp DEF Current, MqInv, ClientOK
<1>4. e = <<c, e[2]>> /\ e[2] \in 1 .. MaxSend
  BY Disjoint
<1>5. e[2] <= m[2]
  <2>1. ~(e[2] > sd[c].n)
    BY <1>1, <1>4 DEF MqInv, ClientOK
  <2> QED BY <1>3, <1>4, <2>1
<1>6. CASE e = m
  BY <1>1, <1>2, <1>6
<1>7. CASE e # m
  <2>1. e[2] < m[2]
    BY <1>3, <1>4, <1>5, <1>7, Disjoint
  <2>2. e \in EarlierOf(m) /\ EarlierOf(e) \subseteq EarlierOf(m)
    BY <1>3, <1>4, <2>1, MqAssumption DEF EarlierOf
  <2>3. told[e] \in {"success", "failure"}
    <3>1. told[e] # "nothing"
      BY <1>3, <1>4, <2>1 DEF MqInv, ClientOK
    <3> QED BY <3>1, UpIsMsg DEF MqInv, Types
  <2>4. CASE told[e] = "failure"
    BY <1>1, <1>2, <1>3, <2>2, <2>4, UnsureIs
  <2>5. CASE told[e] = "success"
    <3>1. At("ack", c, 1, e) /\ c \in Queues
      BY DEF At, Results, Queues
    <3>2. ToldOK(e)
      BY DEF MqInv
    <3>3. Delivery!Unsure(e)
      BY <2>5, <3>1, <3>2 DEF ToldOK, Kinds
    <3> QED BY <1>1, <1>2, <1>3, <2>2, <3>3, UnsureIs
  <2> QED BY <2>3, <2>4, <2>5
<1> QED BY <1>6, <1>7

LEMMA AckTakenStep ==
  ASSUME MqInv, Types', NEW c \in Client, AckTaken(c)
  PROVE  MqInv' /\ AbsStep
<1>1. /\ c \in Sender /\ c \in Queues /\ sd[c].pc = "ack" /\ q[c] # << >>
      /\ q' = [q EXCEPT ![c] = Tail(@)] /\ UNCHANGED <<serial, kv, rx, ev, fate>>
  BY DEF AckTaken, Sender, Queues
<1>2. PICK e \in UpMsg, a \in Results :
        e[1] = c /\ AckAt(1, e, a) /\ (IsAckSuccess(Head(q[c]).w) <=> a = "success")
  BY ClientKey DEF AckTaken
<1>3. Return(c, a)
  BY <1>2 DEF AckTaken, Results
<1>4. PICK m : m = Current(c)
  OBVIOUS
<1>5. m \in UpMsg /\ told[m] = "nothing" /\ fate[m] # "new"
  BY <1>1, <1>4, CurrentIsUp DEF MqInv, ClientOK
<1>6. /\ sd'[c] = [IdleSend EXCEPT !.n = sd[c].n]
      /\ \A t \in Sender \ {c} : sd'[t] = sd[t]
      /\ told'[m] = a
      /\ \A n \in UpMsg \ {m} : told'[n] = told[n]
      /\ \A n \in UpMsg : told[n] # "nothing" => told'[n] = told[n]
  BY <1>1, <1>3, <1>4, ReturnEffect
<1>7. SameFate
  BY <1>1 DEF SameFate
<1>8. a = "success" => fate[e] = "handled" /\ (e = m \/ Delivery!Unsure(m))
  BY <1>1, <1>2, <1>4, AckTells
<1>9. ASSUME NEW f \in Client PROVE ClientOK(f)'
  <2>1. CASE f = c
    BY <1>1, <1>3, <1>7, <2>1, ReturnClient
  <2>2. CASE f # c
    BY <1>1, <1>4, <1>6, <2>2, ClientFrame DEF MqInv, Sender, Current
  <2> QED BY <2>1, <2>2
<1>10. ASSUME NEW d \in Deliverer PROVE DelivererOK(d)'
  BY <1>6, Disjoint, DelivererFrame DEF MqInv, Sender
<1>11. TableOK'
  BY <1>1, TableKept
<1>12. WordsOK' /\ FateOK'
  BY <1>1, <1>7, TailedKeeps
<1>13. RxOK'
  BY <1>1 DEF MqInv, RxOK
<1>14. ASSUME NEW n \in UpMsg PROVE OnePlace(n)' /\ ToldOK(n)'
  <2>1. CASE told'[n] = "success" => told[n] = "success"
    BY <1>1, <1>6, <1>7, <2>1, ClientTakes
  <2>2. CASE ~(told'[n] = "success" => told[n] = "success")
    <3>1. n = m /\ a = "success"
      BY <1>6, <2>2
    <3>2. OnePlace(m) /\ \A kind \in Kinds, x \in Queues, i \in Nat :
            At(kind, x, i, m)' =>
              At(kind, x, Before(kind, x, c, i), m) /\ (kind # "rx" => i >= 1)
      <4>1. \A kind, x, i : At(kind, x, i, m)' /\ kind = "rx" => InRx(x, m)
        BY <1>1 DEF At, InRx
      <4> QED BY <1>1, <1>5, <4>1, TailedPlaces DEF MqInv
    <3>3. OnePlace(m)'
      BY <1>1, <1>5, <3>2, MovedUp
    <3>4. ToldOK(m)'
      <4>1. CASE e = m
        <5> SUFFICES ASSUME NEW kind \in Kinds, NEW x \in Queues, NEW i \in Nat,
                            At(kind, x, i, m)'
                     PROVE  FALSE
          BY DEF ToldOK
        <5>1. At(kind, x, Before(kind, x, c, i), m) /\ (kind # "rx" => i >= 1)
          BY <3>2
        <5>2. At("ack", c, 1, m)
          BY <1>2, <4>1 DEF At
        <5>3. Before(kind, x, c, i) \in Nat
          BY DEF Before
        <5>4. kind = "ack" /\ x = c /\ Before(kind, x, c, i) = 1
          BY <1>1, <3>2, <5>1, <5>2, <5>3 DEF OnePlace, Kinds
        <5> QED BY <5>1, <5>4 DEF Before
      <4>2. CASE e # m
        <5>1. Delivery!Unsure(m)
          BY <1>8, <3>1, <4>2
        <5>2. Delivery!Unsure(m)'
          BY <1>5, <1>6, <1>7, <5>1, UnsureStays DEF SameFate
        <5> QED BY <5>2 DEF ToldOK
      <4> QED BY <4>1, <4>2
    <3> QED BY <3>1, <3>3, <3>4
  <2> QED BY <2>1, <2>2
<1>15. AbsStep
  <2>1. CASE a = "success"
    BY <1>5, <1>6, <1>7, <1>8, <2>1, ConfirmStep
  <2>2. CASE a = "failure"
    BY <1>5, <1>6, <1>7, <2>2, FailStep
  <2> QED BY <2>1, <2>2 DEF Results
<1> QED BY <1>9, <1>10, <1>11, <1>12, <1>13, <1>14, <1>15 DEF MqInv

\* Data that a client takes out of the table is of no message of a client.
LEMMA TakenFate ==
  ASSUME MqInv, NEW c \in Client, q[c] # << >>, NEW f,
         fate' = IF KeyAt(c) \in DOMAIN kv THEN Fated(kv[KeyAt(c)], f) ELSE fate
  PROVE  SameFate
<1>1. CASE KeyAt(c) \in DOMAIN kv
  <2>1. kv[KeyAt(c)] \notin UpMsg
    BY <1>1, ClientKey, Disjoint
  <2> QED BY <1>1, <2>1, UpIsMsg DEF Fated, SameFate, MqInv, Types
<1>2. CASE KeyAt(c) \notin DOMAIN kv
  BY <1>2 DEF SameFate
<1> QED BY <1>1, <1>2

LEMMA AckInterruptedStep ==
  ASSUME MqInv, Types', NEW c \in Client, AckInterrupted(c)
  PROVE  MqInv' /\ AbsStep
<1>1. /\ c \in Sender /\ c \in Queues /\ sd[c].pc # "idle" /\ q[c] # << >>
      /\ q' = [q EXCEPT ![c] = Tail(@)] /\ kv' = Removed(KeyAt(c))
      /\ UNCHANGED <<serial, rx, ev>>
  BY DEF AckInterrupted, Sender, Queues
<1>2. SameFate
  BY <1>1, TakenFate DEF AckInterrupted
<1>3. TableOK' /\ WordsOK' /\ FateOK'
  BY <1>1, <1>2, TableKept, TailedKeeps
<1>4. RxOK'
  BY <1>1, <1>2 DEF MqInv, RxOK, SameFate
<1>5. PICK n : n = IF sd[c].cnt = 0 THEN 1 ELSE sd[c].cnt
  OBVIOUS
<1>6. CASE n < RetryCount
  <2>1. sd' = [sd EXCEPT ![c].cnt = n] /\ told' = told
    BY <1>5, <1>6 DEF AckInterrupted
  <2>2. /\ \A t \in Sender \ {c} : sd'[t] = sd[t]
        /\ sd'[c].pc = sd[c].pc /\ sd'[c].msg = sd[c].msg /\ sd'[c].num = sd[c].num
        /\ sd'[c].dept = sd[c].dept /\ sd'[c].term = sd[c].term /\ sd'[c].n = sd[c].n
    BY <1>1, <2>1 DEF MqInv, Types, SendType
  <2>3. ASSUME NEW e \in Client PROVE ClientOK(e)'
    <3>1. CASE e = c
      <4>1. Current(c)' = Current(c) /\ Current(c) \in UpMsg
        BY <1>1, <2>2, CurrentIsUp DEF Current
      <4>2. \A j \in 1 .. MaxSend : <<c, j>> \in UpMsg
        BY Disjoint
      <4>3. ClientOK(c)'
        BY <1>1, <1>2, <2>1, <2>2, <4>1, <4>2 DEF MqInv, ClientOK, SameFate
      <4> QED BY <3>1, <4>3
    <3>2. CASE e # c
      BY <1>1, <1>2, <2>1, <2>2, <3>2, ClientFrame DEF MqInv, Sender, SameFate
    <3> QED BY <3>1, <3>2
  <2>4. ASSUME NEW d \in Deliverer PROVE DelivererOK(d)'
    BY <2>2, Disjoint, DelivererFrame DEF MqInv, Sender
  <2>5. \A m \in UpMsg : OnePlace(m)' /\ ToldOK(m)'
    BY <1>1, <1>2, <2>1, ClientTakes
  <2>6. AbsStep
    BY <1>2, <2>1, Stutters DEF SameTold
  <2> QED BY <1>3, <1>4, <2>3, <2>4, <2>5, <2>6 DEF MqInv
<1>7. CASE ~(n < RetryCount)
  <2>1. Return(c, "failure")
    BY <1>5, <1>7 DEF AckInterrupted
  <2>2. /\ \A t \in Sender \ {c} : sd'[t] = sd[t]
        /\ told'[Current(c)] = "failure"
        /\ \A m \in UpMsg : m = Current(c) \/ told'[m] = told[m]
        /\ \A m \in UpMsg : told[m] # "nothing" => told'[m] = told[m]
    BY <1>1, <2>1, ReturnEffect DEF Results
  <2>3. ASSUME NEW e \in Client PROVE ClientOK(e)'
    <3>1. CASE e = c
      BY <1>1, <1>2, <2>1, <3>1, ReturnClient DEF Results
    <3>2. CASE e # c
      BY <1>1, <1>2, <2>2, <3>2, ClientFrame DEF MqInv, Sender, SameFate, Current
    <3> QED BY <3>1, <3>2
  <2>4. ASSUME NEW d \in Deliverer PROVE DelivererOK(d)'
    BY <2>2, Disjoint, DelivererFrame DEF MqInv, Sender
  <2>5. \A m \in UpMsg : OnePlace(m)' /\ ToldOK(m)'
    <3>1. \A m \in UpMsg : told'[m] = "success" => told[m] = "success"
      BY <2>2
    <3>2. \A m \in UpMsg : told[m] = "failure" => told'[m] = "failure"
      BY <2>2
    <3> QED BY <1>1, <1>2, <3>1, <3>2, ClientTakes
  <2>6. AbsStep
    <3>1. Current(c) \in UpMsg /\ told[Current(c)] = "nothing"
      BY <1>1, CurrentIsUp
    <3> QED BY <1>2, <2>2, <3>1, FailStep
  <2> QED BY <1>3, <1>4, <2>3, <2>4, <2>5, <2>6 DEF MqInv
<1> QED BY <1>6, <1>7

LEMMA ClientReceiveStep ==
  ASSUME MqInv, Types', NEW c \in Client, ClientReceive(c)
  PROVE  MqInv' /\ AbsStep
<1>1. /\ c \in Queues /\ q[c] # << >>
      /\ q' = [q EXCEPT ![c] = Tail(@)] /\ kv' = Removed(KeyAt(c))
      /\ UNCHANGED <<serial, sd, rx, ev, told>>
  BY DEF ClientReceive, Queues
<1>2. SameFate
  BY <1>1, TakenFate DEF ClientReceive
<1>3. TableOK' /\ WordsOK' /\ FateOK'
  BY <1>1, <1>2, TableKept, TailedKeeps
<1>4. RxOK'
  BY <1>1, <1>2 DEF MqInv, RxOK, SameFate
<1>5. (\A e \in Client : ClientOK(e)') /\ (\A d \in Deliverer : DelivererOK(d)')
  BY <1>1, <1>2, SendersKept DEF SameFate
<1>6. \A m \in UpMsg : OnePlace(m)' /\ ToldOK(m)'
  BY <1>1, <1>2, ClientTakes
<1>7. AbsStep
  BY <1>1, <1>2, Stutters DEF SameTold
<1> QED BY <1>3, <1>4, <1>5, <1>6, <1>7 DEF MqInv
-----------------------------------------------------------------------------
(* The steps of the chmpx process.                                         *)

\* The word of m leaves the box; with its data m goes to the thread that reads it.
LEMMA TakeWordStep ==
  ASSUME MqInv, Types', NEW b \in Box, TakeWord(b)
  PROVE  MqInv' /\ AbsStep
<1>1. /\ b \in Queues /\ rx[b].pc = "idle" /\ q[b] # << >>
      /\ q' = [q EXCEPT ![b] = Tail(@)] /\ kv' = Removed(KeyAt(b))
      /\ UNCHANGED <<serial, sd, fate, told>>
  BY DEF TakeWord, Queues
<1>2. PICK m \in UpMsg :
         /\ DataAt(b, 1, m) /\ Head(q[b]).id = m[1] /\ NumberOf(Head(q[b]).w) = Num(m)
         /\ KeyAt(b) \in DOMAIN kv => kv[KeyAt(b)] = m
  BY <1>1, BoxKey
<1>3. /\ \A x \in Box \ {b} : rx'[x] = rx[x]
      /\ \/ rx'[b] = rx[b]
         \/ /\ rx'[b].pc = "process" /\ rx'[b].msg = m /\ rx'[b].num = Num(m)
            /\ rx'[b].to = m[1]
  <2>1. CASE KeyAt(b) \in DOMAIN kv
    <3>1. rx' = [rx EXCEPT ![b] = [IdleRecv EXCEPT !.pc = "process", !.msg = m,
                                     !.num = Num(m), !.to = m[1]]]
      BY <1>2, <2>1 DEF TakeWord
    <3> QED BY <3>1 DEF MqInv, Types, IdleRecv
  <2>2. CASE KeyAt(b) \notin DOMAIN kv
    BY <2>2 DEF TakeWord
  <2> QED BY <2>1, <2>2
<1>4. SameFate /\ SameTold
  BY <1>1 DEF SameFate, SameTold
<1>5. TableOK' /\ WordsOK' /\ FateOK'
  BY <1>1, <1>4, TableKept, TailedKeeps
<1>6. fate[m] = "sent" /\ At("data", b, 1, m)
  <2>1. 1 \in 1 .. Len(q[b])
    BY <1>2 DEF DataAt
  <2> QED BY <1>2, <2>1 DEF MqInv, FateOK, At
<1>7. RxOK'
  <2> SUFFICES ASSUME NEW x \in Box, rx'[x].pc # "idle"
               PROVE  /\ rx'[x].msg \in UpMsg
                      /\ rx'[x].to = rx'[x].msg[1] /\ rx'[x].num = Num(rx'[x].msg)
                      /\ fate[rx'[x].msg] = IF rx'[x].pc = "process" THEN "sent"
                                            ELSE IF rx'[x].ok THEN "handled" ELSE "refused"
    BY <1>1 DEF RxOK
  <2>1. CASE rx'[x] = rx[x]
    BY <2>1 DEF MqInv, RxOK
  <2>2. CASE rx'[x] # rx[x]
    BY <1>3, <1>6, <2>2
  <2> QED BY <2>1, <2>2
<1>8. (\A c \in Client : ClientOK(c)') /\ (\A d \in Deliverer : DelivererOK(d)')
  BY <1>1, SendersKept
<1>9. ASSUME NEW n \in UpMsg PROVE OnePlace(n)' /\ ToldOK(n)'
  <2>1. Delivery!Unsure(n) => Delivery!Unsure(n)'
    BY <1>1, UnsureStays
  <2>2. OnePlace(n) /\ ToldOK(n) /\ (told'[n] = "success" => told[n] = "success")
    BY <1>1 DEF MqInv
  <2>3. \A kind \in Kinds, x \in Queues, i \in Nat :
          At(kind, x, i, n)' /\ (kind = "rx" => InRx(x, n)) =>
            At(kind, x, Before(kind, x, b, i), n) /\ (kind # "rx" => i >= 1)
    BY <1>1, TailedPlaces
  <2>4. CASE \A x : InRx(x, n)' => InRx(x, n)
    <3>1. \A kind, x, i : At(kind, x, i, n)' /\ kind = "rx" => InRx(x, n)
      BY <2>4 DEF At
    <3> QED BY <1>1, <2>1, <2>2, <2>3, <3>1, MovedUp
  <2>5. CASE ~\A x : InRx(x, n)' => InRx(x, n)
    <3>1. PICK y : InRx(y, n)' /\ ~InRx(y, n)
      BY <2>5
    <3>2. n = m
      BY <1>3, <3>1 DEF InRx
    <3>3. ASSUME NEW kind \in Kinds, NEW x \in Queues, NEW i \in Nat, At(kind, x, i, n)'
          PROVE  kind = "rx" /\ x = b /\ i = 0
      <4>1. CASE kind = "rx" /\ ~InRx(x, n)
        <5>1. i = 0 /\ InRx(x, n)'
          BY <3>3, <4>1 DEF At
        <5>2. x = b
          BY <1>3, <4>1, <5>1 DEF InRx
        <5> QED BY <4>1, <5>1, <5>2
      <4>2. CASE ~(kind = "rx" /\ ~InRx(x, n))
        <5>1. At(kind, x, Before(kind, x, b, i), n) /\ (kind # "rx" => i >= 1)
          BY <2>3, <3>3, <4>2
        <5>2. Before(kind, x, b, i) \in Nat
          BY DEF Before
        <5>3. kind = "data" /\ x = b /\ Before(kind, x, b, i) = 1
          BY <1>1, <1>6, <2>2, <3>2, <5>1, <5>2 DEF OnePlace, Kinds
        <5> QED BY <5>1, <5>3 DEF Before
      <4> QED BY <4>1, <4>2
    <3>4. OnePlace(n)'
      BY <3>3 DEF OnePlace
    <3>5. ToldOK(n)'
      <4>1. told[n] = "success" => Delivery!Unsure(n)
        BY <1>1, <1>6, <2>2, <3>2 DEF ToldOK, Kinds
      <4> QED BY <2>1, <2>2, <4>1 DEF ToldOK
    <3> QED BY <3>4, <3>5
  <2> QED BY <2>4, <2>5
<1>10. AbsStep
  BY <1>4, Stutters
<1> QED BY <1>5, <1>7, <1>8, <1>9, <1>10 DEF MqInv

LEMMA NoWordStep ==
  ASSUME MqInv, Types', NEW b \in Box, NoWord(b)
  PROVE  MqInv' /\ AbsStep
<1>1. UNCHANGED <<serial, q, kv, sd, rx, fate, told>>
  BY DEF NoWord
<1>2. SameFate /\ SameTold
  BY <1>1 DEF SameFate, SameTold
<1>3. (\A c \in Client : ClientOK(c)') /\ (\A d \in Deliverer : DelivererOK(d)')
  BY <1>1, SendersKept
<1>4. TableOK' /\ WordsOK' /\ FateOK' /\ RxOK' /\ \A m \in UpMsg : OnePlace(m)' /\ ToldOK(m)'
  BY <1>1, <1>2, TableKept, Unmoved
<1> QED BY <1>2, <1>3, <1>4, Stutters DEF MqInv

\* What has become of m is decided while m is in the hands of the thread only.
LEMMA ProcessStep ==
  ASSUME MqInv, Types', NEW b \in Box, NEW ok \in BOOLEAN, Process(b, ok)
  PROVE  MqInv' /\ AbsStep
<1>1. PICK m, f : m = rx[b].msg /\ f = IF ok THEN "handled" ELSE "refused"
  OBVIOUS
<1>2. /\ rx[b].pc = "process" /\ m \in UpMsg /\ fate[m] = "sent"
      /\ rx[b].to = m[1] /\ rx[b].num = Num(m)
  BY <1>1 DEF Process, MqInv, RxOK
<1>3. /\ fate'[m] = f /\ \A n \in UpMsg \ {m} : fate'[n] = fate[n]
      /\ UNCHANGED <<serial, q, kv, sd, ev, told>>
  BY <1>1, <1>2, UpIsMsg DEF Process, Fated, MqInv, Types
<1>4. /\ rx'[b].pc = "ack" /\ rx'[b].msg = m /\ rx'[b].to = m[1] /\ rx'[b].num = Num(m)
      /\ rx'[b].ok = ok /\ \A x \in Box \ {b} : rx'[x] = rx[x]
  BY <1>1, <1>2 DEF Process, MqInv, Types, RecvType
<1>5. \A kind, x, i, n : At(kind, x, i, n)' <=> At(kind, x, i, n)
  <2>1. \A x, n : InRx(x, n)' <=> InRx(x, n)
    BY <1>1, <1>2, <1>4 DEF InRx
  <2> QED BY <1>3, <2>1 DEF At, DataAt, AckAt
<1>6. At("rx", b, 0, m) /\ b \in Queues
  BY <1>1, <1>2 DEF At, InRx, Queues
<1>7. ASSUME NEW kind \in Kinds, NEW x \in Queues, NEW i \in Nat, At(kind, x, i, m)
      PROVE  kind = "rx" /\ x = b
  BY <1>2, <1>6, <1>7 DEF MqInv, OnePlace, Kinds
<1>8. TableOK' /\ WordsOK'
  BY <1>3, TableKept DEF MqInv, WordsOK
<1>9. FateOK'
  <2>1. ASSUME NEW n \in UpMsg, NEW z \in Box, NEW i \in 1 .. Len(q[z]), DataAt(z, i, n)
        PROVE  fate'[n] = "sent"
    <3>1. At("data", z, i, n) /\ z \in Queues /\ i \in Nat
      BY <2>1 DEF At, Queues
    <3>2. n # m
      BY <1>7, <3>1 DEF Kinds
    <3> QED BY <1>3, <2>1, <3>2 DEF MqInv, FateOK
  <2>2. ASSUME NEW n \in UpMsg, NEW i \in 1 .. Len(q[n[1]]), NEW a \in Results, AckAt(i, n, a)
        PROVE  fate'[n] = IF a = "success" THEN "handled" ELSE "refused"
    <3>1. At("ack", n[1], i, n) /\ n[1] \in Queues /\ i \in Nat
      BY <2>2, NumRange DEF At, Queues
    <3>2. n # m
      BY <1>7, <3>1 DEF Kinds
    <3> QED BY <1>3, <2>2, <3>2 DEF MqInv, FateOK
  <2>3. \A n, z, i : DataAt(z, i, n)' <=> DataAt(z, i, n)
    BY <1>3 DEF DataAt
  <2>4. \A n, i, a : AckAt(i, n, a)' <=> AckAt(i, n, a)
    BY <1>3 DEF AckAt
  <2> QED BY <1>3, <2>1, <2>2, <2>3, <2>4 DEF FateOK
<1>10. RxOK'
  <2> SUFFICES ASSUME NEW x \in Box, rx'[x].pc # "idle"
               PROVE  /\ rx'[x].msg \in UpMsg
                      /\ rx'[x].to = rx'[x].msg[1] /\ rx'[x].num = Num(rx'[x].msg)
                      /\ fate'[rx'[x].msg] = IF rx'[x].pc = "process" THEN "sent"
                                             ELSE IF rx'[x].ok THEN "handled" ELSE "refused"
    BY DEF RxOK
  <2>1. CASE x = b
    BY <1>1, <1>2, <1>3, <1>4, <2>1
  <2>2. CASE x # b
    <3>1. rx'[x] = rx[x] /\ rx[x].msg \in UpMsg
      BY <1>4, <2>2 DEF MqInv, RxOK
    <3>2. rx[x].msg # m
      <4> SUFFICES ASSUME rx[x].msg = m PROVE FALSE
        OBVIOUS
      <4>1. At("rx", x, 0, m) /\ x \in Queues
        BY <3>1 DEF At, InRx, Queues
      <4> QED BY <1>7, <2>2, <4>1 DEF Kinds
    <3> QED BY <1>3, <3>1, <3>2 DEF MqInv, RxOK
  <2> QED BY <2>1, <2>2
<1>11. (\A c \in Client : ClientOK(c)') /\ (\A d \in Deliverer : DelivererOK(d)')
  BY <1>1, <1>2, <1>3, SendersKept
<1>12. ASSUME NEW n \in UpMsg PROVE OnePlace(n)' /\ ToldOK(n)'
  <2>1. Delivery!Unsure(n) => Delivery!Unsure(n)'
    BY <1>1, <1>2, <1>3, UnsureStays
  <2> QED BY <1>3, <1>5, <2>1, FewerPlaces DEF MqInv
<1>13. AbsStep
  BY <1>1, <1>2, <1>3, HandleStep DEF SameTold
<1> QED BY <1>8, <1>9, <1>10, <1>11, <1>12, <1>13 DEF MqInv

\* The ACK of m enters the queue of its sender when the thread lets go of m.
LEMMA SendAckStep ==
  ASSUME MqInv, Types', NEW b \in Box, SendAck(b)
  PROVE  MqInv' /\ AbsStep
<1>1. PICK m, a : m = rx[b].msg /\ a = IF rx[b].ok THEN "success" ELSE "failure"
  OBVIOUS
<1>2. /\ rx[b].pc = "ack" /\ m \in UpMsg /\ rx[b].to = m[1] /\ rx[b].num = Num(m)
      /\ m[1] \in Client /\ a \in Results
      /\ fate[m] = IF a = "success" THEN "handled" ELSE "refused"
  BY <1>1, NumRange DEF SendAck, MqInv, RxOK, Results
<1>3. PICK c, e : c = m[1] /\ e = AckWord(m, a)
  OBVIOUS
<1>4. /\ q' = [q EXCEPT ![c] = Append(@, e)] /\ rx' = [rx EXCEPT ![b] = IdleRecv]
      /\ UNCHANGED <<serial, kv, sd, ev, fate, told>>
  BY <1>1, <1>2, <1>3 DEF SendAck, AckWord
<1>5. c \in Queues /\ c \in Client /\ c \notin Box /\ e \in WordType
  BY <1>2, <1>3, WordsOfMessages, NamesAssumption DEF Queues
<1>6. rx'[b].pc = "idle" /\ \A x \in Box \ {b} : rx'[x] = rx[x]
  BY <1>4 DEF MqInv, Types, IdleRecv
<1>7. \A x \in Box, n \in UpMsg : InRx(x, n)' => InRx(x, n) /\ x # b
  BY <1>6 DEF InRx
<1>8. /\ \A x \in Queues : \A i \in 1 .. Len(q'[x]) :
            (i \in 1 .. Len(q[x]) /\ q'[x][i] = q[x][i])
              \/ (x = c /\ i = Len(q[c]) + 1 /\ q'[x][i] = e)
      /\ \A n \in UpMsg, kind \in Kinds, x \in Queues, i \in Nat :
            At(kind, x, i, n)' =>
              \/ At(kind, x, i, n)
              \/ x = c /\ i = Len(q[c]) + 1 /\ WordOf(c, e, kind, n)
  BY <1>4, <1>5, <1>7, AppendedPlaces
<1>9. \A n \in UpMsg, r \in Results : e = AckWord(n, r) => n = m /\ r = a
  BY <1>2, <1>3, WordsOfMessages
<1>10. SameFate /\ SameTold
  BY <1>4 DEF SameFate, SameTold
<1>11. At("rx", b, 0, m) /\ b \in Queues
  BY <1>1, <1>2 DEF At, InRx, Queues
<1>12. WordsOK'
  <2>1. ASSUME NEW z \in Box, NEW i \in 1 .. Len(q'[z]) PROVE \E n \in UpMsg : q'[z][i] = DataWord(n)
    <3>1. z \in Queues
      BY DEF Queues
    <3> QED BY <1>5, <1>8, <3>1 DEF MqInv, WordsOK
  <2>2. ASSUME NEW z \in Client, NEW i \in 1 .. Len(q'[z])
        PROVE  \/ \E x \in Box, n \in 0 .. SerialLimit - 1 : q'[z][i] = Word(x, n, "none")
               \/ \E n \in UpMsg, r \in Results : n[1] = z /\ q'[z][i] = AckWord(n, r)
    <3>1. z \in Queues
      BY DEF Queues
    <3>2. CASE i \in 1 .. Len(q[z]) /\ q'[z][i] = q[z][i]
      BY <3>2 DEF MqInv, WordsOK
    <3>3. CASE z = c /\ q'[z][i] = e
      BY <1>2, <1>3, <3>3
    <3> QED BY <1>8, <3>1, <3>2, <3>3
  <2> QED BY <2>1, <2>2 DEF WordsOK
<1>13. FateOK'
  <2>1. ASSUME NEW n \in UpMsg, NEW z \in Box, NEW i \in 1 .. Len(q'[z]), DataAt(z, i, n)'
        PROVE  fate'[n] = "sent"
    <3>1. z \in Queues /\ q'[z][i] = DataWord(n)
      BY <2>1 DEF DataAt, Queues
    <3>2. i \in 1 .. Len(q[z]) /\ q'[z][i] = q[z][i]
      BY <1>5, <1>8, <3>1
    <3> QED BY <1>10, <3>1, <3>2 DEF MqInv, FateOK, DataAt, SameFate
  <2>2. ASSUME NEW n \in UpMsg, NEW i \in 1 .. Len(q'[n[1]]), NEW r \in Results, AckAt(i, n, r)'
        PROVE  fate'[n] = IF r = "success" THEN "handled" ELSE "refused"
    <3>1. n[1] \in Queues /\ q'[n[1]][i] = AckWord(n, r)
      BY <2>2, NumRange DEF AckAt, Queues
    <3>2. CASE i \in 1 .. Len(q[n[1]]) /\ q'[n[1]][i] = q[n[1]][i]
      <4>1. AckAt(i, n, r)
        BY <3>1, <3>2 DEF AckAt
      <4>2. fate[n] = IF r = "success" THEN "handled" ELSE "refused"
        BY <3>2, <4>1 DEF MqInv, FateOK
      <4> QED BY <1>10, <4>2 DEF SameFate
    <3>3. CASE q'[n[1]][i] = e
      <4>1. n = m /\ r = a
        BY <1>9, <3>1, <3>3
      <4> QED BY <1>2, <1>10, <4>1 DEF SameFate
    <3> QED BY <1>8, <3>1, <3>2, <3>3
  <2> QED BY <2>1, <2>2 DEF FateOK
<1>14. RxOK'
  BY <1>4, <1>6 DEF MqInv, RxOK
<1>15. (\A f \in Client : ClientOK(f)') /\ (\A d \in Deliverer : DelivererOK(d)')
  BY <1>4, SendersKept
<1>16. TableOK'
  BY <1>4, TableKept
<1>17. ASSUME NEW n \in UpMsg PROVE OnePlace(n)' /\ ToldOK(n)'
  <2>1. Delivery!Unsure(n) => Delivery!Unsure(n)'
    BY <1>4, UnsureStays
  <2>2. OnePlace(n) /\ ToldOK(n) /\ (told'[n] = "success" => told[n] = "success")
    BY <1>4 DEF MqInv
  <2>3. CASE n # m
    <3>1. \A kind \in Kinds, x \in Queues, i \in Nat : At(kind, x, i, n)' => At(kind, x, i, n)
      BY <1>5, <1>8, <1>9, <2>3 DEF WordOf
    <3> QED BY <2>1, <2>2, <3>1, FewerPlaces
  <2>4. CASE n = m
    <3>1. ASSUME NEW kind \in Kinds, NEW x \in Queues, NEW i \in Nat, At(kind, x, i, n)'
          PROVE  kind = "ack" /\ x = c /\ i = Len(q[c]) + 1
      <4>1. ~At(kind, x, i, n)
        <5> SUFFICES ASSUME At(kind, x, i, n) PROVE FALSE
          OBVIOUS
        <5>1. kind = "rx" /\ x = b /\ i = 0
          BY <1>11, <2>2, <2>4 DEF OnePlace, Kinds
        <5>2. InRx(b, n)'
          BY <3>1, <5>1 DEF At
        <5> QED BY <1>7, <5>2
      <4> QED BY <1>5, <1>8, <3>1, <4>1 DEF WordOf
    <3>2. OnePlace(n)'
      BY <3>1 DEF OnePlace
    <3>3. told[n] = "success" => Delivery!Unsure(n)
      BY <1>11, <2>2, <2>4 DEF ToldOK, Kinds
    <3>4. ToldOK(n)'
      BY <2>1, <2>2, <3>3 DEF ToldOK
    <3> QED BY <3>2, <3>4
  <2> QED BY <2>3, <2>4
<1>18. AbsStep
  BY <1>10, Stutters
<1> QED BY <1>12, <1>13, <1>14, <1>15, <1>16, <1>17, <1>18 DEF MqInv

\* An ACK that cannot be sent is tried again or given up.
LEMMA SendAckFullStep ==
  ASSUME MqInv, Types', NEW b \in Box, SendAckFull(b)
  PROVE  MqInv' /\ AbsStep
<1>1. UNCHANGED <<serial, q, kv, sd, ev, fate, told>>
  BY DEF SendAckFull
<1>2. /\ \A x \in Box \ {b} : rx'[x] = rx[x]
      /\ \/ rx'[b].pc = "idle"
         \/ /\ rx'[b].pc = rx[b].pc /\ rx'[b].msg = rx[b].msg /\ rx'[b].num = rx[b].num
            /\ rx'[b].to = rx[b].to /\ rx'[b].ok = rx[b].ok
  <2>1. CASE rx[b].cnt + 1 < RetryCount
    BY <2>1 DEF SendAckFull, MqInv, Types, RecvType
  <2>2. CASE ~(rx[b].cnt + 1 < RetryCount)
    BY <2>2 DEF SendAckFull, MqInv, Types, IdleRecv
  <2> QED BY <2>1, <2>2
<1>3. SameFate /\ SameTold
  BY <1>1 DEF SameFate, SameTold
<1>4. (\A c \in Client : ClientOK(c)') /\ (\A d \in Deliverer : DelivererOK(d)')
  BY <1>1, SendersKept
<1>5. TableOK' /\ WordsOK'
  BY <1>1, TableKept DEF MqInv, WordsOK
<1>6. FateOK'
  BY <1>1 DEF MqInv, FateOK, DataAt, AckAt
<1>7. RxOK'
  BY <1>1, <1>2 DEF MqInv, RxOK
<1>8. ASSUME NEW n \in UpMsg PROVE OnePlace(n)' /\ ToldOK(n)'
  <2>1. Delivery!Unsure(n) => Delivery!Unsure(n)'
    BY <1>1, UnsureStays
  <2>2. \A x : InRx(x, n)' => InRx(x, n)
    BY <1>2 DEF InRx
  <2>3. \A kind, x, i : At(kind, x, i, n)' => At(kind, x, i, n)
    BY <1>1, <2>2 DEF At, DataAt, AckAt
  <2> QED BY <1>1, <2>1, <2>3, FewerPlaces DEF MqInv
<1> QED BY <1>3, <1>4, <1>5, <1>6, <1>7, <1>8, Stutters DEF MqInv

-----------------------------------------------------------------------------

LEMMA NextStep == MqInv /\ [Next]_vars => MqInv' /\ AbsStep
<1> SUFFICES ASSUME MqInv, [Next]_vars PROVE MqInv' /\ AbsStep
  OBVIOUS
<1>1. CASE UNCHANGED vars
  <2>1. UNCHANGED <<serial, q, kv, sd, rx, ev, fate, told>>
    BY <1>1 DEF vars
  <2>2. Types'
    BY <2>1 DEF MqInv, Types
  <2>3. SameFate /\ SameTold
    BY <2>1 DEF SameFate, SameTold
  <2>4. (\A c \in Client : ClientOK(c)') /\ (\A d \in Deliverer : DelivererOK(d)')
    BY <2>1, SendersKept
  <2> QED BY <2>1, <2>2, <2>3, <2>4, TableKept, Unmoved, Stutters DEF MqInv
<1>2. CASE Next
  <2>1. Types'
    BY <1>2, NextTypes
  <2>2. ASSUME NEW s \in Sender, Sending(s) PROVE MqInv' /\ AbsStep
    BY <2>1, <2>2, SetDataStep, SetFailsStep, ClientMqSend, DelivererMqSend, MqFullStep
    DEF Sending, Sender
  <2>3. ASSUME NEW c \in Client, ClientStep(c) PROVE MqInv' /\ AbsStep
    BY <2>1, <2>2, <2>3, AckEmptyStep, AckTakenStep, AckInterruptedStep, ClientReceiveStep
    DEF ClientStep, Sender
  <2>4. ASSUME NEW d \in Deliverer, DelivererStep(d) PROVE MqInv' /\ AbsStep
    BY <2>1, <2>2, <2>4, GetSerialNumberStep DEF DelivererStep, Sender
  <2>5. ASSUME NEW b \in Box, BoxStep(b) PROVE MqInv' /\ AbsStep
    BY <2>1, <2>5, TakeWordStep, NoWordStep, ProcessStep, SendAckStep, SendAckFullStep
    DEF BoxStep
  <2> QED BY <1>2, <2>1, <2>3, <2>4, <2>5, BuildSendHeadStep, DeliverHeadStep DEF Next
<1> QED BY <1>1, <1>2

\* The invariant the other theorems rest on: a message of a client is at one place at
\* most between mq_send and the moment its ACK is taken, its word, the thread that
\* works on it and its ACK agree with what has become of it, and a message that was
\* told success while it is still on its way had an earlier one that misled its sender.
THEOREM MqInvariant == Spec => []MqInv
<1>1. Init => MqInv
  BY InitTypes
<1>2. MqInv /\ [Next]_vars => MqInv'
  BY NextStep
<1> QED BY <1>1, <1>2, PTL DEF Spec

\* Send with MQACK implements ChmDelivery, whatever the number of clients, boxes and
\* threads, the retries and the size of the queues.
THEOREM Implements == Spec => DeliverySpec
<1>1. Init => Delivery!Init
  BY UpIsMsg DEF Init, Delivery!Init
<1>2. MqInv /\ [Next]_vars => [Delivery!Next]_<<AbsFate, AbsTold>>
  BY NextStep DEF AbsStep
<1> QED BY <1>1, <1>2, MqInvariant, PTL DEF Spec, DeliverySpec, Delivery!Spec, AbsFate, AbsTold
-----------------------------------------------------------------------------
(* The table and the queues.                                               *)

\* The data of word i in queue z.
KeyOfWord(z, i) == Key(q[z][i].id, z, NumberOf(q[z][i].w))
IsDataWord(z, i) == z \in Queues /\ i \in 1 .. Len(q[z]) /\ ~IsAck(q[z][i].w)

\* A key belongs to the thread that stored it, and then to a word in a queue.
KeysOwned ==
  /\ kv = [x \in DOMAIN kv |-> kv[x]]
  /\ \A k \in DOMAIN kv :
       \/ \E s \in Sender : sd[s].pc = "send" /\ k = KeyOf(s)
       \/ \E z \in Queues, i \in Nat : IsDataWord(z, i) /\ k = KeyOfWord(z, i)

\* A box with a word in it is one that epoll reports.
Woken == \A b \in Box : q[b] # << >> => b \in ev

\* The data of client's messages: stored before the word is sent, there until it is read.
UpData ==
  /\ \A c \in Client : sd[c].pc = "send" => KeyOf(c) \in DOMAIN kv
  /\ \A b \in Box, i \in Nat : IsDataWord(b, i) => KeyOfWord(b, i) \in DOMAIN kv

\* A word in a client's queue from the thread d, when it is the only one: no other word
\* of the queue has its serial, nor has the message d is about to send.
DownWord(c, i, b, n) == IsDataWord(c, i) /\ b \in Box /\ q[c][i] = Word(b, n, "none")
Bound(d) == IF sd[d].pc = "idle" THEN sd[d].n ELSE sd[d].num
Numbers(d) ==
  /\ serial["chmpx"] = IF sd[d].pc = "number" THEN sd[d].num
                       ELSE IF sd[d].n = SerialLimit THEN 0 ELSE sd[d].n
  /\ sd[d].pc # "idle" => sd[d].n >= 1 /\ sd[d].num = sd[d].n - 1
DownNumbers(d) ==
  /\ Numbers(d)
  /\ \A c \in Client, i \in Nat, b \in Box, n \in 0 .. SerialLimit - 1 :
       DownWord(c, i, b, n) => n < Bound(d)
  /\ \A c \in Client, i, j \in Nat, b \in Box, n \in 0 .. SerialLimit - 1 :
       DownWord(c, i, b, n) /\ DownWord(c, j, b, n) => i = j

DownData(d) ==
  /\ sd[d].pc = "send" => KeyOf(d) \in DOMAIN kv
  /\ \A c \in Client, i \in Nat : IsDataWord(c, i) => KeyOfWord(c, i) \in DOMAIN kv

-----------------------------------------------------------------------------
(* What a step does to the table and the queues.                           *)

\* Thread t goes on to send what it has stored, or has nothing to send.
SendKept(t) ==
  /\ sd'[t].pc = "send" <=> sd[t].pc = "send"
  /\ sd[t].pc = "send" => KeyOf(t)' = KeyOf(t)
OthersKept(s) == \A t \in Sender \ {s} : SendKept(t)
AllKept       == \A t \in Sender : SendKept(t)

Quiet    == kv' = kv /\ q' = q /\ AllKept
Puts(s)  == /\ sd[s].pc = "set" /\ kv' = Stored(KeyOf(s), sd[s].msg) /\ q' = q
            /\ sd'[s].pc = "send" /\ KeyOf(s)' = KeyOf(s) /\ OthersKept(s)
Drops(s) == /\ sd[s].pc \in {"set", "send"} /\ kv' = Removed(KeyOf(s)) /\ q' = q
            /\ sd'[s].pc = "idle" /\ OthersKept(s)
Posts(s) == /\ sd[s].pc = "send" /\ kv' = kv
            /\ q' = [q EXCEPT ![sd[s].term] = Append(@, Word(sd[s].dept, sd[s].num, "none"))]
            /\ sd'[s].pc # "send" /\ OthersKept(s)
Takes(z) == /\ q[z] # << >> /\ q' = [q EXCEPT ![z] = Tail(@)] /\ AllKept
            /\ kv' = Removed(KeyAt(z)) \/ (kv' = kv /\ IsAck(Head(q[z]).w))
Acks(m, a) == kv' = kv /\ q' = [q EXCEPT ![m[1]] = Append(@, AckWord(m, a))] /\ AllKept

LEMMA SameKept ==
  /\ \A t : sd'[t] = sd[t] => SendKept(t)
  /\ \A t : sd[t].pc # "send" /\ sd'[t].pc # "send" => SendKept(t)
  /\ sd' = sd => AllKept
  BY DEF SendKept, AllKept, KeyOf

\* The end of a Send.
LEMMA ReturnKept ==
  ASSUME MqInv, NEW s \in Sender, sd[s].pc # "idle", NEW r \in Results, Return(s, r)
  PROVE  OthersKept(s) /\ sd'[s].pc = "idle"
  BY ReturnEffect, SameKept DEF OthersKept, IdleSend

\* The sending thread counts a try.
LEMMA CountKept ==
  ASSUME MqInv, NEW s \in Sender, NEW n, sd' = [sd EXCEPT ![s].cnt = n]
  PROVE  AllKept
<1>1. /\ \A t \in Sender \ {s} : sd'[t] = sd[t]
      /\ sd'[s].pc = sd[s].pc /\ sd'[s].num = sd[s].num
      /\ sd'[s].dept = sd[s].dept /\ sd'[s].term = sd[s].term
  BY DEF MqInv, Types, SendType
<1>2. SendKept(s)
  BY <1>1 DEF SendKept, KeyOf
<1> QED BY <1>1, <1>2, SameKept DEF AllKept

LEMMA SendingEffect ==
  ASSUME MqInv, NEW s \in Sender, Sending(s)
  PROVE  Quiet \/ Puts(s) \/ Drops(s) \/ Posts(s)
<1>1. CASE SetData(s)
  <2>1. /\ \A t \in Sender \ {s} : sd'[t] = sd[t]
        /\ sd'[s].pc = "send" /\ sd'[s].num = sd[s].num
        /\ sd'[s].dept = sd[s].dept /\ sd'[s].term = sd[s].term
    BY <1>1 DEF SetData, MqInv, Types, SendType
  <2> QED BY <1>1, <2>1, SameKept DEF SetData, Puts, OthersKept, KeyOf
<1>2. CASE SetFails(s)
  BY <1>2, ReturnKept DEF SetFails, Drops, Results
<1>3. CASE MqSend(s)
  <2>1. CASE WaitsForAck(s)
    <3>1. sd' = [sd EXCEPT ![s].pc = "ack", ![s].cnt = 0]
      BY <1>3, <2>1 DEF MqSend
    <3>2. sd'[s].pc = "ack" /\ \A t \in Sender \ {s} : sd'[t] = sd[t]
      BY <3>1 DEF MqInv, Types, SendType
    <3> QED BY <1>3, <3>2, SameKept DEF MqSend, Posts, OthersKept
  <2>2. CASE ~WaitsForAck(s)
    BY <1>3, <2>2, ReturnKept DEF MqSend, Posts, Results
  <2> QED BY <2>1, <2>2
<1>4. CASE MqFull(s)
  <2>1. CASE sd[s].cnt + 1 < RetryCount
    <3>1. sd' = [sd EXCEPT ![s].cnt = sd[s].cnt + 1]
      BY <1>4, <2>1 DEF MqFull
    <3> QED BY <1>4, <2>1, <3>1, CountKept DEF MqFull, Quiet
  <2>2. CASE ~(sd[s].cnt + 1 < RetryCount)
    BY <1>4, <2>2, ReturnKept DEF MqFull, Drops, Results
  <2> QED BY <2>1, <2>2
<1> QED BY <1>1, <1>2, <1>3, <1>4 DEF Sending

LEMMA TableEffect ==
  ASSUME MqInv, [Next]_vars
  PROVE  \/ Quiet
         \/ \E s \in Sender : Puts(s) \/ Drops(s) \/ Posts(s)
         \/ \E z \in Queues : Takes(z)
         \/ \E m \in UpMsg, a \in Results : Acks(m, a)
<1>1. CASE UNCHANGED vars
  BY <1>1, SameKept DEF vars, Quiet
<1>2. ASSUME NEW c \in Client, NEW b \in Box, BuildSendHead(c, b) PROVE Quiet
  <2>1. /\ sd'[c].pc = "set" /\ sd[c].pc = "idle" /\ \A t \in Sender \ {c} : sd'[t] = sd[t]
    BY <1>2 DEF BuildSendHead, MqInv, Types, IdleSend, Sender
  <2> QED BY <1>2, <2>1, SameKept DEF BuildSendHead, Quiet, AllKept
<1>3. ASSUME NEW d \in Deliverer, NEW b \in Box, NEW c \in Client, DeliverHead(d, b, c) PROVE Quiet
  <2>1. /\ sd'[d].pc = "number" /\ sd[d].pc = "idle" /\ \A t \in Sender \ {d} : sd'[t] = sd[t]
    BY <1>3 DEF DeliverHead, MqInv, Types, IdleSend, Sender
  <2> QED BY <1>3, <2>1, SameKept DEF DeliverHead, Quiet, AllKept
<1>4. ASSUME NEW d \in Deliverer, GetSerialNumber(d) PROVE Quiet
  <2>1. /\ sd'[d].pc = "set" /\ sd[d].pc = "number" /\ \A t \in Sender \ {d} : sd'[t] = sd[t]
    BY <1>4 DEF GetSerialNumber, MqInv, Types, SendType, Sender
  <2> QED BY <1>4, <2>1, SameKept DEF GetSerialNumber, Quiet, AllKept
<1>5. ASSUME NEW c \in Client, AckEmpty(c) PROVE Quiet
  <2>1. c \in Sender /\ sd[c].pc = "ack"
    BY <1>5 DEF AckEmpty, Sender
  <2>2. CASE sd[c].cnt + 1 < RetryCount
    <3>1. sd' = [sd EXCEPT ![c].cnt = sd[c].cnt + 1]
      BY <1>5, <2>2 DEF AckEmpty
    <3> QED BY <1>5, <2>1, <3>1, CountKept DEF AckEmpty, Quiet
  <2>3. CASE ~(sd[c].cnt + 1 < RetryCount)
    <3>1. OthersKept(c) /\ sd'[c].pc = "idle"
      BY <1>5, <2>1, <2>3, ReturnKept DEF AckEmpty, Results
    <3> QED BY <1>5, <2>1, <3>1, SameKept DEF AckEmpty, Quiet, AllKept, OthersKept
  <2> QED BY <2>2, <2>3
<1>6. ASSUME NEW c \in Client, AckTaken(c) PROVE Takes(c)
  <2>1. c \in Sender /\ sd[c].pc = "ack"
    BY <1>6 DEF AckTaken, Sender
  <2>2. OthersKept(c) /\ sd'[c].pc = "idle"
    BY <1>6, <2>1, ReturnKept DEF AckTaken, Results
  <2> QED BY <1>6, <2>1, <2>2, SameKept DEF AckTaken, Takes, AllKept, OthersKept
<1>7. ASSUME NEW c \in Client, AckInterrupted(c) PROVE Takes(c)
  <2>1. c \in Sender /\ sd[c].pc = "ack"
    BY <1>7 DEF AckInterrupted, Sender
  <2>2. PICK n : n = IF sd[c].cnt = 0 THEN 1 ELSE sd[c].cnt
    OBVIOUS
  <2>3. AllKept
    <3>1. CASE n < RetryCount
      BY <1>7, <2>1, <2>2, <3>1, CountKept DEF AckInterrupted
    <3>2. CASE ~(n < RetryCount)
      <4>1. OthersKept(c) /\ sd'[c].pc = "idle"
        BY <1>7, <2>1, <2>2, <3>2, ReturnKept DEF AckInterrupted, Results
      <4> QED BY <2>1, <4>1, SameKept DEF AllKept, OthersKept
    <3> QED BY <3>1, <3>2
  <2> QED BY <1>7, <2>3 DEF AckInterrupted, Takes
<1>8. ASSUME NEW c \in Client, ClientReceive(c) PROVE Takes(c)
  BY <1>8, SameKept DEF ClientReceive, Takes
<1>9. ASSUME NEW b \in Box, TakeWord(b) PROVE Takes(b)
  BY <1>9, SameKept DEF TakeWord, Takes
<1>10. ASSUME NEW b \in Box, NoWord(b) \/ (\E ok \in BOOLEAN : Process(b, ok)) \/ SendAckFull(b)
       PROVE  Quiet
  BY <1>10, SameKept DEF NoWord, Process, SendAckFull, Quiet
<1>11. ASSUME NEW b \in Box, SendAck(b) PROVE \E m \in UpMsg, a \in Results : Acks(m, a)
  <2>1. PICK m, a : m = rx[b].msg /\ a = IF rx[b].ok THEN "success" ELSE "failure"
    OBVIOUS
  <2>2. m \in UpMsg /\ a \in Results /\ rx[b].to = m[1] /\ rx[b].num = Num(m)
    BY <1>11, <2>1 DEF SendAck, MqInv, RxOK, Results
  <2>3. Acks(m, a)
    BY <1>11, <2>1, <2>2, SameKept DEF SendAck, Acks, AckWord
  <2> QED BY <2>2, <2>3
<1> QED
  BY <1>1, <1>2, <1>3, <1>4, <1>5, <1>6, <1>7, <1>8, <1>9, <1>10, <1>11, SendingEffect
  DEF Next, ClientStep, DelivererStep, BoxStep, Sender, Queues

\* The data words of a queue that grows, and of one whose first word is taken.
LEMMA DataAppended ==
  ASSUME MqInv, NEW z \in Queues, NEW e \in WordType, q' = [q EXCEPT ![z] = Append(@, e)]
  PROVE  /\ \A x, i : IsDataWord(x, i)' =>
              \/ IsDataWord(x, i) /\ KeyOfWord(x, i)' = KeyOfWord(x, i) /\ q'[x][i] = q[x][i]
              \/ /\ x = z /\ i = Len(q[z]) + 1 /\ ~IsAck(e.w) /\ q'[x][i] = e
                 /\ KeyOfWord(x, i)' = Key(e.id, z, NumberOf(e.w))
         /\ \A x, i : IsDataWord(x, i) =>
              IsDataWord(x, i)' /\ KeyOfWord(x, i)' = KeyOfWord(x, i)
         /\ ~IsAck(e.w) =>
              \E i \in Nat : IsDataWord(z, i)' /\ KeyOfWord(z, i)' = Key(e.id, z, NumberOf(e.w))
<1>1. q[z] \in Seq(WordType) /\ q'[z] = Append(q[z], e) /\ \A x \in Queues \ {z} : q'[x] = q[x]
  BY DEF MqInv, Types
<1>2. Len(q[z]) \in Nat /\ Len(q'[z]) = Len(q[z]) + 1
      /\ (\A i \in 1 .. Len(q[z]) : q'[z][i] = q[z][i]) /\ q'[z][Len(q[z]) + 1] = e
  BY <1>1, Appended, LenProperties
<1>3. ASSUME NEW x, NEW i, IsDataWord(x, i)'
      PROVE  \/ IsDataWord(x, i) /\ KeyOfWord(x, i)' = KeyOfWord(x, i) /\ q'[x][i] = q[x][i]
             \/ /\ x = z /\ i = Len(q[z]) + 1 /\ ~IsAck(e.w) /\ q'[x][i] = e
                /\ KeyOfWord(x, i)' = Key(e.id, z, NumberOf(e.w))
  <2>1. x \in Queues /\ i \in 1 .. Len(q'[x]) /\ ~IsAck(q'[x][i].w)
    BY <1>3 DEF IsDataWord
  <2>2. CASE x = z /\ i = Len(q[z]) + 1
    BY <1>2, <2>1, <2>2 DEF KeyOfWord
  <2>3. CASE ~(x = z /\ i = Len(q[z]) + 1)
    <3>1. i \in 1 .. Len(q[x]) /\ q'[x][i] = q[x][i]
      BY <1>1, <1>2, <2>1, <2>3
    <3> QED BY <2>1, <3>1 DEF IsDataWord, KeyOfWord
  <2> QED BY <2>2, <2>3
<1>4. ASSUME NEW x, NEW i, IsDataWord(x, i)
      PROVE  IsDataWord(x, i)' /\ KeyOfWord(x, i)' = KeyOfWord(x, i)
  <2>1. i \in 1 .. Len(q'[x]) /\ q'[x][i] = q[x][i]
    BY <1>1, <1>2, <1>4 DEF IsDataWord
  <2> QED BY <1>4, <2>1 DEF IsDataWord, KeyOfWord
<1>5. ASSUME ~IsAck(e.w)
      PROVE  \E i \in Nat : IsDataWord(z, i)' /\ KeyOfWord(z, i)' = Key(e.id, z, NumberOf(e.w))
  <2>1. PICK n : n = Len(q[z]) + 1
    OBVIOUS
  <2>2. n \in Nat /\ n \in 1 .. Len(q'[z]) /\ q'[z][n] = e
    BY <1>2, <2>1
  <2> QED BY <1>5, <2>2 DEF IsDataWord, KeyOfWord
<1> QED BY <1>3, <1>4, <1>5

LEMMA DataTailed ==
  ASSUME MqInv, NEW z \in Queues, q[z] # << >>, q' = [q EXCEPT ![z] = Tail(@)]
  PROVE  /\ \A x, i : IsDataWord(x, i)' =>
              \E j \in Nat : /\ IsDataWord(x, j) /\ KeyOfWord(x, i)' = KeyOfWord(x, j)
                             /\ q'[x][i] = q[x][j] /\ j = IF x = z THEN i + 1 ELSE i
                             /\ x = z => j > 1
         /\ \A x, j : IsDataWord(x, j) /\ ~(x = z /\ j = 1) =>
              \E i \in Nat : IsDataWord(x, i)' /\ KeyOfWord(x, i)' = KeyOfWord(x, j)
         /\ 1 \in 1 .. Len(q[z]) /\ Head(q[z]) = q[z][1] /\ KeyAt(z) = KeyOfWord(z, 1)
<1>1. \A x \in Queues \ {z} : q'[x] = q[x]
  BY TailedQueue
<1>2. /\ Len(q[z]) \in Nat /\ Len(q[z]) >= 1 /\ Len(q'[z]) = Len(q[z]) - 1
      /\ \A i \in 1 .. Len(q[z]) - 1 : q'[z][i] = q[z][i + 1]
      /\ Head(q[z]) = q[z][1]
  BY TailedQueue
<1>3. ASSUME NEW x, NEW i, IsDataWord(x, i)'
      PROVE  \E j \in Nat : /\ IsDataWord(x, j) /\ KeyOfWord(x, i)' = KeyOfWord(x, j)
                            /\ q'[x][i] = q[x][j] /\ j = IF x = z THEN i + 1 ELSE i
                            /\ x = z => j > 1
  <2>1. x \in Queues /\ i \in 1 .. Len(q'[x]) /\ ~IsAck(q'[x][i].w)
    BY <1>3 DEF IsDataWord
  <2>2. PICK j : j = IF x = z THEN i + 1 ELSE i
    OBVIOUS
  <2>3. /\ j \in 1 .. Len(q[x]) /\ q'[x][i] = q[x][j] /\ (x = z => j > 1)
        /\ j \in Nat
    BY <1>1, <1>2, <2>1, <2>2
  <2>4. IsDataWord(x, j) /\ KeyOfWord(x, i)' = KeyOfWord(x, j)
    BY <2>1, <2>3 DEF IsDataWord, KeyOfWord
  <2> QED BY <2>2, <2>3, <2>4
<1>4. ASSUME NEW x, NEW j, IsDataWord(x, j), ~(x = z /\ j = 1)
      PROVE  \E i \in Nat : IsDataWord(x, i)' /\ KeyOfWord(x, i)' = KeyOfWord(x, j)
  <2>1. x \in Queues /\ j \in 1 .. Len(q[x])
    BY <1>4 DEF IsDataWord
  <2>2. PICK i : i = IF x = z THEN j - 1 ELSE j
    OBVIOUS
  <2>3. i \in 1 .. Len(q'[x]) /\ q'[x][i] = q[x][j] /\ i \in Nat
    BY <1>1, <1>2, <1>4, <2>1, <2>2
  <2> QED BY <1>4, <2>3 DEF IsDataWord, KeyOfWord
<1>5. 1 \in 1 .. Len(q[z]) /\ Head(q[z]) = q[z][1] /\ KeyAt(z) = KeyOfWord(z, 1)
  BY <1>2 DEF KeyAt, KeyOfWord
<1> QED BY <1>3, <1>4, <1>5

\* A word that is sent: where it goes and what it says.
LEMMA PostedWord ==
  ASSUME MqInv, NEW s \in Sender, sd[s].pc = "send"
  PROVE  /\ sd[s].term \in Queues /\ sd[s].dept \in Queues /\ sd[s].num \in 0 .. SerialLimit - 1
         /\ s \in Client => sd[s].dept = s /\ sd[s].term \in Box
         /\ s \in Deliverer => sd[s].dept \in Box /\ sd[s].term \in Client
         /\ \E e \in WordType :
              /\ e = Word(sd[s].dept, sd[s].num, "none") /\ ~IsAck(e.w)
              /\ Key(e.id, sd[s].term, NumberOf(e.w)) = KeyOf(s)
<1>1. /\ s \in Client => sd[s].dept = s /\ sd[s].term \in Box
      /\ s \in Deliverer => sd[s].dept \in Box /\ sd[s].term \in Client
      /\ sd[s].num \in 0 .. SerialLimit - 1
  BY DEF MqInv, ClientOK, DelivererOK, Types, SendType
<1>2. sd[s].term \in Queues /\ sd[s].dept \in Queues
  BY <1>1 DEF Sender, Queues
<1>3. PICK e : e = Word(sd[s].dept, sd[s].num, "none")
  OBVIOUS
<1>4. e \in WordType /\ e.id = sd[s].dept /\ e.w = ComposeSerial(sd[s].num, "none")
  BY <1>1, <1>2, <1>3, Values DEF Word
<1>5. ~IsAck(e.w) /\ NumberOf(e.w) = sd[s].num
  BY <1>1, <1>4, WordBits
<1> QED BY <1>1, <1>2, <1>3, <1>4, <1>5 DEF KeyOf

\* An ACK is no data word.
LEMMA AckedWord ==
  ASSUME MqInv, NEW m \in UpMsg, NEW a \in Results, Acks(m, a)
  PROVE  /\ \A x, i : IsDataWord(x, i)' =>
              IsDataWord(x, i) /\ KeyOfWord(x, i)' = KeyOfWord(x, i) /\ q'[x][i] = q[x][i]
         /\ \A x, i : IsDataWord(x, i) =>
              IsDataWord(x, i)' /\ KeyOfWord(x, i)' = KeyOfWord(x, i)
<1>1. m[1] \in Queues /\ Num(m) \in 0 .. SerialLimit - 1
  BY NumRange DEF Queues
<1>2. PICK e : e = AckWord(m, a)
  OBVIOUS
<1>3. e \in WordType /\ IsAck(e.w)
  BY <1>1, <1>2, WordsOfMessages, WordBits DEF AckWord, Word
<1>4. q' = [q EXCEPT ![m[1]] = Append(@, e)]
  BY <1>2 DEF Acks
<1> QED BY <1>1, <1>3, <1>4, DataAppended

-----------------------------------------------------------------------------
(* No data is left behind.                                                 *)

LEMMA KeysOwnedStep == MqInv /\ KeysOwned /\ [Next]_vars => KeysOwned'
<1> SUFFICES ASSUME MqInv, KeysOwned, [Next]_vars PROVE KeysOwned'
  OBVIOUS
<1> DEFINE Owned(k) == \/ \E s \in Sender : sd[s].pc = "send" /\ k = KeyOf(s)
                       \/ \E z \in Queues, i \in Nat : IsDataWord(z, i) /\ k = KeyOfWord(z, i)
<1>1. \A k \in DOMAIN kv : Owned(k)
  BY DEF KeysOwned
<1>2. kv = [x \in DOMAIN kv |-> kv[x]]
  BY DEF KeysOwned
<1>3. CASE Quiet
  <2>1. \A z, i : IsDataWord(z, i) => IsDataWord(z, i)' /\ KeyOfWord(z, i)' = KeyOfWord(z, i)
    BY <1>3 DEF Quiet, IsDataWord, KeyOfWord
  <2> QED BY <1>1, <1>2, <1>3, <2>1 DEF Quiet, AllKept, SendKept, KeysOwned
<1>4. ASSUME NEW s \in Sender, Puts(s) PROVE KeysOwned'
  <2>1. \A z, i : IsDataWord(z, i) => IsDataWord(z, i)' /\ KeyOfWord(z, i)' = KeyOfWord(z, i)
    BY <1>4 DEF Puts, IsDataWord, KeyOfWord
  <2>2. DOMAIN kv' = DOMAIN kv \cup {KeyOf(s)} /\ kv' = [x \in DOMAIN kv' |-> kv'[x]]
    BY <1>4 DEF Puts, Stored
  <2>3. ASSUME NEW k \in DOMAIN kv' PROVE Owned(k)'
    <3>1. CASE k = KeyOf(s)
      BY <1>4, <3>1 DEF Puts
    <3>2. CASE k \in DOMAIN kv
      <4>1. Owned(k)
        BY <1>1, <3>2
      <4> QED BY <1>4, <2>1, <4>1 DEF Puts, OthersKept, SendKept
    <3> QED BY <2>2, <3>1, <3>2
  <2> QED BY <2>2, <2>3 DEF KeysOwned
<1>5. ASSUME NEW s \in Sender, Drops(s) PROVE KeysOwned'
  <2>1. \A z, i : IsDataWord(z, i) => IsDataWord(z, i)' /\ KeyOfWord(z, i)' = KeyOfWord(z, i)
    BY <1>5 DEF Drops, IsDataWord, KeyOfWord
  <2>2. DOMAIN kv' = DOMAIN kv \ {KeyOf(s)} /\ kv' = [x \in DOMAIN kv' |-> kv'[x]]
    BY <1>5 DEF Drops, Removed
  <2>3. ASSUME NEW k \in DOMAIN kv' PROVE Owned(k)'
    <3>1. Owned(k) /\ k # KeyOf(s)
      BY <1>1, <2>2
    <3> QED BY <1>5, <2>1, <3>1 DEF Drops, OthersKept, SendKept
  <2> QED BY <2>2, <2>3 DEF KeysOwned
<1>6. ASSUME NEW s \in Sender, Posts(s) PROVE KeysOwned'
  <2>1. PICK e \in WordType :
          /\ e = Word(sd[s].dept, sd[s].num, "none") /\ ~IsAck(e.w)
          /\ Key(e.id, sd[s].term, NumberOf(e.w)) = KeyOf(s)
    BY <1>6, PostedWord DEF Posts
  <2>2. PICK t : t = sd[s].term
    OBVIOUS
  <2>3. t \in Queues /\ q' = [q EXCEPT ![t] = Append(@, e)]
    BY <1>6, <2>1, <2>2, PostedWord DEF Posts
  <2>4. /\ \A x, i : IsDataWord(x, i) => IsDataWord(x, i)' /\ KeyOfWord(x, i)' = KeyOfWord(x, i)
        /\ \E i \in Nat : IsDataWord(t, i)' /\ KeyOfWord(t, i)' = KeyOf(s)
    <3>1. ~IsAck(e.w) /\ Key(e.id, t, NumberOf(e.w)) = KeyOf(s)
      BY <2>1, <2>2
    <3>2. \A x, i : IsDataWord(x, i) => IsDataWord(x, i)' /\ KeyOfWord(x, i)' = KeyOfWord(x, i)
      BY <2>3, DataAppended
    <3>3. ~IsAck(e.w) =>
            \E i \in Nat : IsDataWord(t, i)' /\ KeyOfWord(t, i)' = Key(e.id, t, NumberOf(e.w))
      BY <2>3, DataAppended
    <3> QED BY <3>1, <3>2, <3>3
  <2>5. PICK n \in Nat : IsDataWord(t, n)' /\ KeyOfWord(t, n)' = KeyOf(s)
    BY <2>4
  <2>6. ASSUME NEW k \in DOMAIN kv PROVE Owned(k)'
    <3>1. Owned(k)
      BY <1>1
    <3> QED BY <1>6, <2>3, <2>4, <2>5, <3>1 DEF Posts, OthersKept, SendKept
  <2> QED BY <1>2, <1>6, <2>6 DEF KeysOwned, Posts
<1>7. ASSUME NEW z \in Queues, Takes(z) PROVE KeysOwned'
  <2>1. /\ \A x, j : IsDataWord(x, j) /\ ~(x = z /\ j = 1) =>
             \E i \in Nat : IsDataWord(x, i)' /\ KeyOfWord(x, i)' = KeyOfWord(x, j)
        /\ Head(q[z]) = q[z][1] /\ KeyAt(z) = KeyOfWord(z, 1)
    BY <1>7, DataTailed DEF Takes
  <2>2. /\ DOMAIN kv' \subseteq DOMAIN kv /\ kv' = [x \in DOMAIN kv' |-> kv'[x]]
        /\ KeyAt(z) \in DOMAIN kv' => IsAck(Head(q[z]).w)
    BY <1>2, <1>7 DEF Takes, Removed
  <2>3. ASSUME NEW k \in DOMAIN kv' PROVE Owned(k)'
    <3>1. Owned(k)
      BY <1>1, <2>2
    <3>2. CASE \E s \in Sender : sd[s].pc = "send" /\ k = KeyOf(s)
      BY <1>7, <3>2 DEF Takes, AllKept, SendKept
    <3>3. CASE \E x \in Queues, j \in Nat : IsDataWord(x, j) /\ k = KeyOfWord(x, j)
      <4>1. PICK x \in Queues, j \in Nat : IsDataWord(x, j) /\ k = KeyOfWord(x, j)
        BY <3>3
      <4>2. ~(x = z /\ j = 1)
        BY <2>1, <2>2, <4>1 DEF IsDataWord
      <4> QED BY <2>1, <4>1, <4>2
    <3> QED BY <3>1, <3>2, <3>3
  <2> QED BY <2>2, <2>3 DEF KeysOwned
<1>8. ASSUME NEW m \in UpMsg, NEW a \in Results, Acks(m, a) PROVE KeysOwned'
  <2>1. \A x, i : IsDataWord(x, i) => IsDataWord(x, i)' /\ KeyOfWord(x, i)' = KeyOfWord(x, i)
    BY <1>8, AckedWord
  <2> QED BY <1>1, <1>2, <1>8, <2>1 DEF Acks, AllKept, SendKept, KeysOwned
<1> QED BY <1>3, <1>4, <1>5, <1>6, <1>7, <1>8, TableEffect

\* Whatever failed or timed out, once no thread sends and all queues are read the table
\* is empty.
THEOREM NoDataLeft == Spec => []NothingLeft
<1>1. Init => KeysOwned
  <2>1. << >> = [x \in {} |-> << >>[x]] /\ DOMAIN << >> = {}
    OBVIOUS
  <2> QED BY <2>1 DEF Init, KeysOwned
<1>2. KeysOwned => NothingLeft
  <2> SUFFICES ASSUME KeysOwned, Quiescent, \A z \in Queues : q[z] = << >> PROVE kv = << >>
    BY DEF NothingLeft, Queues
  <2>1. \A z, i : ~IsDataWord(z, i)
    BY DEF IsDataWord
  <2>2. \A s \in Sender : sd[s].pc # "send"
    BY DEF Quiescent
  <2>3. DOMAIN kv = {} /\ kv = [x \in DOMAIN kv |-> kv[x]]
    BY <2>1, <2>2 DEF KeysOwned
  <2> QED BY <2>3
<1> QED BY <1>1, <1>2, KeysOwnedStep, MqInvariant, PTL DEF Spec

-----------------------------------------------------------------------------
(* No word stays in a box.                                                 *)

LEMMA WokenStep ==
  ASSUME UseThreads, MqInv, Woken, [Next]_vars
  PROVE  Woken'
<1>1. CASE UNCHANGED vars
  BY <1>1 DEF vars, Woken
<1>2. \A c \in Client : c \notin Box
  BY NamesAssumption
<1>3. ASSUME NEW c \in Client, UNCHANGED ev, NEW e, q' = [q EXCEPT ![c] = e] PROVE Woken'
  <2>1. \A b \in Box : q'[b] = q[b]
    BY <1>2, <1>3 DEF MqInv, Types, Queues
  <2> QED BY <1>3, <2>1 DEF Woken
<1>4. UNCHANGED <<q, ev>> => Woken'
  BY DEF Woken
<1>5. ASSUME NEW s \in Sender, Sending(s) PROVE Woken'
  <2>1. CASE MqSend(s)
    <3>1. PICK t : t = sd[s].term
      OBVIOUS
    <3>2. /\ t \in Queues /\ \A b \in Box \ {t} : q'[b] = q[b]
          /\ ev' = IF t \in Box THEN ev \cup {t} ELSE ev
      BY <2>1, <3>1, PostedWord DEF MqSend, MqInv, Types
    <3> QED BY <3>2 DEF Woken
  <2>2. CASE ~MqSend(s)
    BY <1>4, <1>5, <2>2 DEF Sending, SetData, SetFails, MqFull
  <2> QED BY <2>1, <2>2
<1>6. ASSUME NEW b \in Box, TakeWord(b) PROVE Woken'
  <2>1. q[b] \in Seq(WordType) /\ q[b] # << >> /\ b \in Queues
    BY <1>6 DEF TakeWord, MqInv, Types, Queues
  <2>2. q'[b] = Tail(q[b]) /\ \A x \in Box \ {b} : q'[x] = q[x]
    BY <1>6, <2>1 DEF TakeWord, MqInv, Types, Queues
  <2>3. ev' = ev \/ (ev' = ev \ {b} /\ ~(Len(q[b]) > 1))
    BY <1>6 DEF TakeWord, GoesOn
  <2>4. ~(Len(q[b]) > 1) => Tail(q[b]) = << >>
    BY <2>1, Tailed, EmptySeq
  <2>5. b \in ev
    BY <1>6 DEF TakeWord
  <2> SUFFICES ASSUME NEW x \in Box, q'[x] # << >> PROVE x \in ev'
    BY DEF Woken
  <2>6. CASE x = b
    BY <2>2, <2>3, <2>4, <2>5, <2>6
  <2>7. CASE x # b
    BY <2>2, <2>3, <2>7 DEF Woken
  <2> QED BY <2>6, <2>7
<1>7. ASSUME NEW b \in Box, NoWord(b) PROVE Woken'
  BY <1>7 DEF NoWord, Woken
<1>8. ASSUME NEW b \in Box, SendAck(b) PROVE Woken'
  <2>1. rx[b].to \in Client
    BY <1>8, NumRange DEF SendAck, MqInv, RxOK
  <2> QED BY <1>3, <1>8, <2>1 DEF SendAck
<1>9. ASSUME NEW c \in Client, AckTaken(c) \/ AckInterrupted(c) \/ ClientReceive(c) PROVE Woken'
  BY <1>3, <1>9 DEF AckTaken, AckInterrupted, ClientReceive
<1>10. ASSUME NEW c \in Client, AckEmpty(c) PROVE Woken'
  BY <1>4, <1>10 DEF AckEmpty
<1>11. ASSUME NEW b \in Box, (\E ok \in BOOLEAN : Process(b, ok)) \/ SendAckFull(b) PROVE Woken'
  BY <1>4, <1>11 DEF Process, SendAckFull
<1>12. ASSUME NEW d \in Deliverer, GetSerialNumber(d) PROVE Woken'
  BY <1>4, <1>12 DEF GetSerialNumber
<1>13. \A c \in Client, b \in Box : BuildSendHead(c, b) => Woken'
  BY <1>4 DEF BuildSendHead
<1>14. \A d \in Deliverer, b \in Box, c \in Client : DeliverHead(d, b, c) => Woken'
  BY <1>4 DEF DeliverHead
<1> QED
  BY <1>1, <1>5, <1>6, <1>7, <1>8, <1>9, <1>10, <1>11, <1>12, <1>13, <1>14
  DEF Next, ClientStep, DelivererStep, BoxStep, Sender

\* With worker threads, a box that holds a word is always one that will be read: when
\* the chmpx process has nothing more to do, its queues are empty.
THEOREM NoWordStuck == ASSUME UseThreads PROVE Spec => []NoStuckWord
<1>1. Init => Woken
  BY DEF Init, Woken, Queues
<1>2. Woken => NoStuckWord
  BY DEF Woken, NoStuckWord, Quiescent
<1>3. MqInv /\ Woken /\ [Next]_vars => Woken'
  BY WokenStep
<1> QED BY <1>1, <1>2, <1>3, MqInvariant, PTL DEF Spec

-----------------------------------------------------------------------------
(* The data of a word is there.                                            *)

\* The message whose word waits in a box, and its key.
LEMMA BoxWord ==
  ASSUME MqInv, NEW b \in Box, NEW i, IsDataWord(b, i)
  PROVE  \E m \in UpMsg : /\ DataAt(b, i, m) /\ fate[m] = "sent" /\ At("data", b, i, m)
                          /\ KeyOfWord(b, i) = Key(m[1], b, Num(m))
<1>1. i \in 1 .. Len(q[b])
  BY DEF IsDataWord
<1>2. PICK m \in UpMsg : q[b][i] = DataWord(m)
  BY <1>1 DEF MqInv, WordsOK
<1>3. KeyOfWord(b, i) = Key(m[1], b, Num(m))
  BY <1>2, NumRange, WordBits DEF KeyOfWord, DataWord, Word
<1>4. DataAt(b, i, m) /\ fate[m] = "sent"
  BY <1>1, <1>2 DEF DataAt, MqInv, FateOK
<1> QED BY <1>3, <1>4 DEF At

\* A word with data in a client's queue is of a message from the RING.
LEMMA ClientWord ==
  ASSUME MqInv, NEW c \in Client, NEW i, IsDataWord(c, i)
  PROVE  \E b \in Box, n \in 0 .. SerialLimit - 1 :
           DownWord(c, i, b, n) /\ KeyOfWord(c, i) = Key(b, c, n)
<1>1. i \in 1 .. Len(q[c]) /\ ~IsAck(q[c][i].w)
  BY DEF IsDataWord
<1>2. ~\E m \in UpMsg, a \in Results : q[c][i] = AckWord(m, a)
  <2> SUFFICES ASSUME NEW m \in UpMsg, NEW a \in Results, q[c][i] = AckWord(m, a) PROVE FALSE
    OBVIOUS
  <2>1. q[c][i].w = ComposeSerial(Num(m), a)
    BY DEF AckWord, Word
  <2> QED BY <1>1, <2>1, NumRange, WordBits
<1>3. PICK b \in Box, n \in 0 .. SerialLimit - 1 : q[c][i] = Word(b, n, "none")
  BY <1>1, <1>2 DEF MqInv, WordsOK
<1>4. KeyOfWord(c, i) = Key(b, c, n)
  BY <1>3, WordBits DEF KeyOfWord, Word
<1> QED BY <1>3, <1>4 DEF DownWord

\* The message a client is about to send has its own key.
LEMMA ClientSendKey ==
  ASSUME MqInv, NEW c \in Client, sd[c].pc \in {"set", "send"}
  PROVE  /\ Current(c) \in UpMsg /\ fate[Current(c)] = "new" /\ sd[c].term \in Box
         /\ KeyOf(c) = Key(c, sd[c].term, Num(Current(c))) /\ Current(c)[1] = c
         /\ \A b \in Box : \A i : IsDataWord(b, i) => KeyOfWord(b, i) # KeyOf(c)
<1>1. /\ Current(c) \in UpMsg /\ fate[Current(c)] = "new" /\ sd[c].term \in Box
      /\ KeyOf(c) = Key(c, sd[c].term, Num(Current(c))) /\ Current(c)[1] = c
  BY CurrentIsUp DEF MqInv, ClientOK, KeyOf
<1>2. ASSUME NEW b \in Box, NEW i, IsDataWord(b, i) PROVE KeyOfWord(b, i) # KeyOf(c)
  <2>1. PICK m \in UpMsg : fate[m] = "sent" /\ KeyOfWord(b, i) = Key(m[1], b, Num(m))
    BY <1>2, BoxWord
  <2> QED BY <1>1, <2>1, SameMessage DEF Key
<1> QED BY <1>1, <1>2

LEMMA UpDataStep == MqInv /\ UpData /\ [Next]_vars => UpData'
<1> SUFFICES ASSUME MqInv, UpData, [Next]_vars PROVE UpData'
  OBVIOUS
<1>1. /\ \A c \in Client : sd[c].pc = "send" => KeyOf(c) \in DOMAIN kv
      /\ \A b \in Box, i \in Nat : IsDataWord(b, i) => KeyOfWord(b, i) \in DOMAIN kv
  BY DEF UpData
<1>2. \A b \in Box : b \in Queues /\ b \notin Client
  BY NamesAssumption DEF Queues
<1>3. CASE Quiet
  <2>1. \A z, i : IsDataWord(z, i)' => IsDataWord(z, i) /\ KeyOfWord(z, i)' = KeyOfWord(z, i)
    BY <1>3 DEF Quiet, IsDataWord, KeyOfWord
  <2> QED BY <1>1, <1>3, <2>1 DEF Quiet, AllKept, SendKept, UpData, Sender
<1>4. ASSUME NEW s \in Sender, Puts(s) PROVE UpData'
  <2>1. \A z, i : IsDataWord(z, i)' => IsDataWord(z, i) /\ KeyOfWord(z, i)' = KeyOfWord(z, i)
    BY <1>4 DEF Puts, IsDataWord, KeyOfWord
  <2>2. DOMAIN kv' = DOMAIN kv \cup {KeyOf(s)}
    BY <1>4 DEF Puts, Stored
  <2>3. \A c \in Client : sd'[c].pc = "send" => KeyOf(c)' \in DOMAIN kv'
    BY <1>1, <1>4, <2>2 DEF Puts, OthersKept, SendKept, Sender
  <2>4. \A b \in Box, i \in Nat : IsDataWord(b, i)' => KeyOfWord(b, i)' \in DOMAIN kv'
    BY <1>1, <2>1, <2>2
  <2> QED BY <2>3, <2>4 DEF UpData
<1>5. ASSUME NEW s \in Sender, Drops(s) PROVE UpData'
  <2>1. \A z, i : IsDataWord(z, i)' => IsDataWord(z, i) /\ KeyOfWord(z, i)' = KeyOfWord(z, i)
    BY <1>5 DEF Drops, IsDataWord, KeyOfWord
  <2>2. DOMAIN kv' = DOMAIN kv \ {KeyOf(s)} /\ sd[s].pc \in {"set", "send"} /\ sd'[s].pc = "idle"
    BY <1>5 DEF Drops, Removed
  <2>3. s \in Deliverer => sd[s].dept \in Box /\ sd[s].term \in Client
    BY <2>2 DEF MqInv, DelivererOK
  <2>4. ASSUME NEW c \in Client, sd'[c].pc = "send" PROVE KeyOf(c)' \in DOMAIN kv'
    <3>1. c # s /\ sd[c].pc = "send" /\ KeyOf(c)' = KeyOf(c) /\ KeyOf(c) \in DOMAIN kv
      BY <1>1, <1>5, <2>2, <2>4 DEF Drops, OthersKept, SendKept, Sender
    <3>2. KeyOf(c) # KeyOf(s)
      <4>1. CASE s \in Client
        BY <2>2, <3>1, <4>1, ClientSendKey DEF Key
      <4>2. CASE s \in Deliverer
        BY <1>2, <2>3, <3>1, <4>2, ClientSendKey DEF Key, KeyOf
      <4> QED BY <4>1, <4>2 DEF Sender
    <3> QED BY <2>2, <3>1, <3>2
  <2>5. ASSUME NEW b \in Box, NEW i \in Nat, IsDataWord(b, i)' PROVE KeyOfWord(b, i)' \in DOMAIN kv'
    <3>1. IsDataWord(b, i) /\ KeyOfWord(b, i)' = KeyOfWord(b, i) /\ KeyOfWord(b, i) \in DOMAIN kv
      BY <1>1, <2>1, <2>5
    <3>2. KeyOfWord(b, i) # KeyOf(s)
      <4>1. CASE s \in Client
        BY <2>2, <3>1, <4>1, ClientSendKey
      <4>2. CASE s \in Deliverer
        BY <1>2, <2>3, <4>2 DEF Key, KeyOf, KeyOfWord
      <4> QED BY <4>1, <4>2 DEF Sender
    <3> QED BY <2>2, <3>1, <3>2
  <2> QED BY <2>4, <2>5 DEF UpData
<1>6. ASSUME NEW s \in Sender, Posts(s) PROVE UpData'
  <2>1. PICK e \in WordType :
          /\ e = Word(sd[s].dept, sd[s].num, "none") /\ ~IsAck(e.w)
          /\ Key(e.id, sd[s].term, NumberOf(e.w)) = KeyOf(s)
    BY <1>6, PostedWord DEF Posts
  <2>2. PICK t : t = sd[s].term
    OBVIOUS
  <2>3. /\ t \in Queues /\ q' = [q EXCEPT ![t] = Append(@, e)]
        /\ s \in Deliverer => t \in Client
    BY <1>6, <2>1, <2>2, PostedWord DEF Posts
  <2>4. \A x, i : IsDataWord(x, i)' =>
          \/ IsDataWord(x, i) /\ KeyOfWord(x, i)' = KeyOfWord(x, i)
          \/ x = t /\ KeyOfWord(x, i)' = KeyOf(s)
    <3>1. Key(e.id, t, NumberOf(e.w)) = KeyOf(s)
      BY <2>1, <2>2
    <3>2. \A x, i : IsDataWord(x, i)' =>
            \/ IsDataWord(x, i) /\ KeyOfWord(x, i)' = KeyOfWord(x, i) /\ q'[x][i] = q[x][i]
            \/ /\ x = t /\ i = Len(q[t]) + 1 /\ ~IsAck(e.w) /\ q'[x][i] = e
               /\ KeyOfWord(x, i)' = Key(e.id, t, NumberOf(e.w))
      BY <2>3, DataAppended
    <3> QED BY <3>1, <3>2
  <2>5. ASSUME NEW b \in Box, NEW i \in Nat, IsDataWord(b, i)' PROVE KeyOfWord(b, i)' \in DOMAIN kv
    <3>1. CASE IsDataWord(b, i) /\ KeyOfWord(b, i)' = KeyOfWord(b, i)
      BY <1>1, <3>1
    <3>2. CASE b = t /\ KeyOfWord(b, i)' = KeyOf(s)
      <4>1. s \in Client
        BY <1>2, <2>3, <3>2 DEF Sender
      <4> QED BY <1>1, <1>6, <3>2, <4>1 DEF Posts
    <3> QED BY <2>4, <2>5, <3>1, <3>2
  <2>6. \A c \in Client : sd'[c].pc = "send" => KeyOf(c)' \in DOMAIN kv
    BY <1>1, <1>6 DEF Posts, OthersKept, SendKept, Sender
  <2> QED BY <1>6, <2>5, <2>6 DEF UpData, Posts
<1>7. ASSUME NEW z \in Queues, Takes(z) PROVE UpData'
  <2>1. /\ \A x, i : IsDataWord(x, i)' =>
             \E j \in Nat : /\ IsDataWord(x, j) /\ KeyOfWord(x, i)' = KeyOfWord(x, j)
                            /\ x = z => j > 1
        /\ 1 \in 1 .. Len(q[z]) /\ Head(q[z]) = q[z][1] /\ KeyAt(z) = KeyOfWord(z, 1)
    BY <1>7, DataTailed DEF Takes
  <2>2. \A k \in DOMAIN kv : k = KeyAt(z) \/ k \in DOMAIN kv'
    BY <1>7 DEF Takes, Removed
  <2>3. z \in Box => IsDataWord(z, 1)
    <3> SUFFICES ASSUME z \in Box PROVE IsDataWord(z, 1)
      OBVIOUS
    <3>1. PICK m \in UpMsg : q[z][1] = DataWord(m)
      BY <2>1 DEF MqInv, WordsOK
    <3>2. ~IsAck(q[z][1].w)
      BY <3>1, NumRange, WordBits DEF DataWord, Word
    <3> QED BY <2>1, <3>2 DEF IsDataWord
  <2>4. KeyAt(z)[2] = z
    BY DEF KeyAt, Key
  <2>5. ASSUME NEW c \in Client, sd'[c].pc = "send" PROVE KeyOf(c)' \in DOMAIN kv'
    <3>1. sd[c].pc = "send" /\ KeyOf(c)' = KeyOf(c) /\ KeyOf(c) \in DOMAIN kv
      BY <1>1, <1>7, <2>5 DEF Takes, AllKept, SendKept, Sender
    <3>2. KeyOf(c) # KeyAt(z)
      <4>1. CASE z \in Box
        BY <2>1, <2>3, <3>1, <4>1, ClientSendKey
      <4>2. CASE z \in Client
        BY <1>2, <2>4, <3>1, <4>2, ClientSendKey DEF Key
      <4> QED BY <4>1, <4>2 DEF Queues
    <3> QED BY <2>2, <3>1, <3>2
  <2>6. ASSUME NEW b \in Box, NEW i \in Nat, IsDataWord(b, i)' PROVE KeyOfWord(b, i)' \in DOMAIN kv'
    <3>1. PICK j \in Nat : /\ IsDataWord(b, j) /\ KeyOfWord(b, i)' = KeyOfWord(b, j)
                           /\ b = z => j > 1
      BY <2>1, <2>6
    <3>2. KeyOfWord(b, j) # KeyAt(z)
      <4>1. CASE z # b
        BY <2>4, <4>1 DEF KeyOfWord, Key
      <4>2. CASE z = b
        <5>1. PICK m \in UpMsg : At("data", b, 1, m) /\ KeyOfWord(b, 1) = Key(m[1], b, Num(m))
          BY <2>3, <4>2, BoxWord
        <5>2. PICK n \in UpMsg : At("data", b, j, n) /\ KeyOfWord(b, j) = Key(n[1], b, Num(n))
          BY <3>1, BoxWord
        <5>3. m # n
          BY <1>2, <3>1, <4>2, <5>1, <5>2 DEF MqInv, OnePlace, Kinds
        <5> QED BY <2>1, <4>2, <5>1, <5>2, <5>3, SameMessage DEF Key
      <4> QED BY <4>1, <4>2
    <3> QED BY <1>1, <2>2, <3>1, <3>2
  <2> QED BY <2>5, <2>6 DEF UpData
<1>8. ASSUME NEW m \in UpMsg, NEW a \in Results, Acks(m, a) PROVE UpData'
  <2>1. \A x, i : IsDataWord(x, i)' => IsDataWord(x, i) /\ KeyOfWord(x, i)' = KeyOfWord(x, i)
    BY <1>8, AckedWord
  <2> QED BY <1>1, <1>8, <2>1 DEF Acks, AllKept, SendKept, UpData, Sender
<1> QED BY <1>3, <1>4, <1>5, <1>6, <1>7, <1>8, TableEffect

LEMMA InitData ==
  ASSUME Init
  PROVE  UpData /\ \A d \in Deliverer : DownNumbers(d) /\ DownData(d)
<1>1. \A z, i : ~IsDataWord(z, i)
  BY DEF Init, IsDataWord, Queues
<1>2. \A s \in Sender : sd[s].pc = "idle" /\ sd[s].n = 0
  BY DEF Init, IdleSend
<1>3. serial["chmpx"] = 0
  BY DEF Init, Proc
<1> QED BY <1>1, <1>2, <1>3, MqAssumption DEF UpData, DownNumbers, Numbers, DownData, DownWord, Sender

\* The data of every word that waits for the chmpx process is in the table under the
\* word's own key, however many clients, threads and boxes share the table.
THEOREM UpWordHasData ==
  Spec => [](\A b \in Box, i \in Nat : IsDataWord(b, i) => KeyOfWord(b, i) \in DOMAIN kv)
<1>1. Init => UpData
  BY InitData
<1>2. UpData => \A b \in Box, i \in Nat : IsDataWord(b, i) => KeyOfWord(b, i) \in DOMAIN kv
  BY DEF UpData
<1> QED BY <1>1, <1>2, UpDataStep, MqInvariant, PTL DEF Spec

-----------------------------------------------------------------------------
(* The messages of the only Deliverer.                                     *)

\* Only d and its own steps change the phase of d and the serial of the chmpx process.
LEMMA DelivererEffect ==
  ASSUME MqInv, NEW d \in Deliverer, \A e \in Deliverer : e = d, [Next]_vars
  PROVE  \/ sd'[d] = sd[d] /\ serial'["chmpx"] = serial["chmpx"]
         \/ \E b \in Box, c \in Client : DeliverHead(d, b, c)
         \/ GetSerialNumber(d)
         \/ Sending(d)
<1> DEFINE Same == sd'[d] = sd[d] /\ serial'["chmpx"] = serial["chmpx"]
<1>1. UNCHANGED <<serial, sd>> => Same
  OBVIOUS
<1>2. \A c \in Client : c # d /\ c # "chmpx" /\ c \in Sender
  BY Disjoint, NamesAssumption DEF Sender
<1>3. \A c \in Client : serial' = serial /\ (\A t \in Sender \ {c} : sd'[t] = sd[t]) => Same
  BY <1>2 DEF Sender
<1>4. \A c \in Client : \A r : Return(c, r) => \A t \in Sender \ {c} : sd'[t] = sd[t]
  BY DEF Return, MqInv, Types
<1>5. ASSUME NEW c \in Client, NEW b \in Box, BuildSendHead(c, b) PROVE Same
  BY <1>2, <1>5 DEF BuildSendHead, MqInv, Types, Proc, Sender
<1>6. ASSUME NEW c \in Client, Sending(c) PROVE Same
  <2>1. serial' = serial
    BY <1>6 DEF Sending, SetData, SetFails, MqSend, MqFull
  <2>2. CASE \E r : Return(c, r)
    BY <1>3, <1>4, <2>1, <2>2
  <2>3. CASE ~\E r : Return(c, r)
    <3>1. \A t \in Sender \ {c} : sd'[t] = sd[t]
      BY <1>2, <1>6, <2>3 DEF Sending, SetData, SetFails, MqSend, MqFull, MqInv, Types
    <3> QED BY <1>3, <2>1, <3>1
  <2> QED BY <2>2, <2>3
<1>7. ASSUME NEW c \in Client, AckEmpty(c) \/ AckTaken(c) \/ AckInterrupted(c) PROVE Same
  <2>1. serial' = serial
    BY <1>7 DEF AckEmpty, AckTaken, AckInterrupted
  <2>2. CASE \E r : Return(c, r)
    BY <1>3, <1>4, <2>1, <2>2
  <2>3. CASE ~\E r : Return(c, r)
    <3>1. \A t \in Sender \ {c} : sd'[t] = sd[t]
      BY <1>2, <1>7, <2>3 DEF AckEmpty, AckTaken, AckInterrupted, MqInv, Types
    <3> QED BY <1>3, <2>1, <3>1
  <2> QED BY <2>2, <2>3
<1>8. ASSUME NEW c \in Client, ClientReceive(c) PROVE Same
  BY <1>1, <1>8 DEF ClientReceive
<1>9. ASSUME NEW b \in Box, BoxStep(b) PROVE Same
  BY <1>1, <1>9 DEF BoxStep, TakeWord, NoWord, Process, SendAck, SendAckFull
<1>10. UNCHANGED vars => Same
  BY DEF vars
<1> QED
  BY <1>5, <1>6, <1>7, <1>8, <1>9, <1>10 DEF Next, ClientStep, DelivererStep

LEMMA NumbersStep ==
  ASSUME MqInv, NEW d \in Deliverer, \A e \in Deliverer : e = d, Numbers(d), [Next]_vars
  PROVE  /\ Numbers(d)' /\ Bound(d) \in Int /\ Bound(d)' \in Int /\ Bound(d)' >= Bound(d)
         /\ sd[d].pc = "send" /\ sd'[d].pc # "send" => Bound(d)' > sd[d].num
<1>1. /\ sd[d] \in SendType /\ sd[d].n \in 0 .. MaxDeliver /\ d \in Sender /\ sd[d].pc # "ack"
      /\ sd[d].num \in 0 .. SerialLimit - 1 /\ serial["chmpx"] \in 0 .. SerialLimit - 1
  BY DEF MqInv, Types, DelivererOK, Sender, SendType, Proc
<1>2. Bound(d) \in Int
  BY <1>1, MqAssumption DEF Bound
<1>3. CASE sd'[d] = sd[d] /\ serial'["chmpx"] = serial["chmpx"]
  BY <1>2, <1>3 DEF Numbers, Bound
<1>4. CASE \E b \in Box, c \in Client : DeliverHead(d, b, c)
  <2>1. /\ sd[d].pc = "idle" /\ sd[d].n < MaxDeliver /\ serial' = serial
        /\ sd'[d].pc = "number" /\ sd'[d].num = serial["chmpx"] /\ sd'[d].n = sd[d].n + 1
    BY <1>1, <1>4 DEF DeliverHead, MqInv, Types, IdleSend
  <2>2. serial["chmpx"] = sd[d].n
    BY <1>1, <2>1, SerialAssumption, MqAssumption DEF Numbers
  <2> QED BY <1>1, <1>2, <2>1, <2>2, MqAssumption DEF Numbers, Bound
<1>5. CASE GetSerialNumber(d)
  <2>1. /\ sd[d].pc = "number" /\ sd'[d].pc = "set" /\ sd'[d].num = sd[d].num
        /\ sd'[d].n = sd[d].n
    BY <1>1, <1>5 DEF GetSerialNumber, MqInv, Types, SendType
  <2>2. serial["chmpx"] = sd[d].num /\ sd[d].num = sd[d].n - 1
    BY <2>1 DEF Numbers
  <2>3. serial'["chmpx"] = Wrap(sd[d].num)
    BY <1>5, <2>2 DEF GetSerialNumber, MqInv, Types, Proc
  <2>4. Wrap(sd[d].num) = IF sd[d].n = SerialLimit THEN 0 ELSE sd[d].n
    BY <1>1, <2>2, MqAssumption DEF Wrap
  <2> QED BY <1>1, <1>2, <2>1, <2>2, <2>3, <2>4, MqAssumption DEF Numbers, Bound
<1>6. CASE Sending(d)
  <2>1. /\ serial' = serial /\ sd[d].pc \in {"set", "send"} /\ sd'[d].n = sd[d].n
        /\ \/ sd'[d].pc = "idle"
           \/ sd'[d].pc \in {"set", "send"} /\ sd'[d].num = sd[d].num
                /\ (sd[d].pc = "send" => sd'[d].pc = "send")
    <3>1. serial' = serial /\ sd[d].pc \in {"set", "send"}
      BY <1>6 DEF Sending, SetData, SetFails, MqSend, MqFull
    <3>2. CASE \E r : Return(d, r)
      <4>1. sd'[d] = [IdleSend EXCEPT !.n = sd[d].n]
        BY <1>1, <3>2 DEF Return, MqInv, Types
      <4> QED BY <3>1, <4>1 DEF IdleSend
    <3>3. CASE ~\E r : Return(d, r)
      <4>1. CASE SetData(d)
        BY <1>1, <4>1 DEF SetData, MqInv, Types, SendType
      <4>2. CASE MqFull(d)
        BY <1>1, <3>3, <4>2 DEF MqFull, MqInv, Types, SendType
      <4>3. ~SetFails(d) /\ ~MqSend(d)
        BY <3>3, Disjoint DEF SetFails, MqSend, WaitsForAck
      <4> QED BY <1>6, <4>1, <4>2, <4>3 DEF Sending
    <3> QED BY <3>2, <3>3
  <2>2. sd[d].n >= 1 /\ sd[d].num = sd[d].n - 1
    BY <2>1 DEF Numbers
  <2> QED BY <1>1, <1>2, <2>1, <2>2, MqAssumption DEF Numbers, Bound
<1> QED BY <1>3, <1>4, <1>5, <1>6, DelivererEffect

LEMMA DownWordsStep ==
  ASSUME MqInv, NEW d \in Deliverer, \A e \in Deliverer : e = d, DownNumbers(d), [Next]_vars
  PROVE  DownNumbers(d)'
<1>1. /\ Numbers(d)
      /\ \A c \in Client, i \in Nat, b \in Box, n \in 0 .. SerialLimit - 1 :
           DownWord(c, i, b, n) => n < Bound(d)
      /\ \A c \in Client, i, j \in Nat, b \in Box, n \in 0 .. SerialLimit - 1 :
           DownWord(c, i, b, n) /\ DownWord(c, j, b, n) => i = j
  BY DEF DownNumbers
<1>2. /\ Numbers(d)' /\ Bound(d) \in Int /\ Bound(d)' \in Int /\ Bound(d)' >= Bound(d)
      /\ sd[d].pc = "send" /\ sd'[d].pc # "send" => Bound(d)' > sd[d].num
  BY <1>1, NumbersStep
<1>3. ASSUME \A c \in Client, i \in Nat, b \in Box, n \in 0 .. SerialLimit - 1 :
               DownWord(c, i, b, n)' => DownWord(c, i, b, n)
      PROVE  DownNumbers(d)'
  <2>1. \A c \in Client, i \in Nat, b \in Box, n \in 0 .. SerialLimit - 1 :
          DownWord(c, i, b, n)' => n < Bound(d)'
    <3> SUFFICES ASSUME NEW c \in Client, NEW i \in Nat, NEW b \in Box,
                        NEW n \in 0 .. SerialLimit - 1, DownWord(c, i, b, n)'
                 PROVE  n < Bound(d)'
      OBVIOUS
    <3>1. n < Bound(d)
      BY <1>1, <1>3
    <3> QED BY <1>2, <3>1, MqAssumption
  <2> QED BY <1>1, <1>2, <1>3, <2>1 DEF DownNumbers
<1>4. CASE q' = q
  BY <1>3, <1>4 DEF DownWord, IsDataWord
<1>5. ASSUME NEW m \in UpMsg, NEW a \in Results, Acks(m, a) PROVE DownNumbers(d)'
  <2>1. \A x, i : IsDataWord(x, i)' => IsDataWord(x, i) /\ q'[x][i] = q[x][i]
    BY <1>5, AckedWord
  <2> QED BY <1>3, <2>1 DEF DownWord
<1>6. ASSUME NEW z \in Queues, Takes(z) PROVE DownNumbers(d)'
  <2>1. \A x, i : IsDataWord(x, i)' =>
          \E j \in Nat : /\ IsDataWord(x, j) /\ q'[x][i] = q[x][j]
                         /\ j = IF x = z THEN i + 1 ELSE i
    <3>1. \A x, i : IsDataWord(x, i)' =>
            \E j \in Nat : /\ IsDataWord(x, j) /\ KeyOfWord(x, i)' = KeyOfWord(x, j)
                           /\ q'[x][i] = q[x][j] /\ j = IF x = z THEN i + 1 ELSE i
                           /\ x = z => j > 1
      BY <1>6, DataTailed DEF Takes
    <3> QED BY <3>1
  <2>2. ASSUME NEW c \in Client, NEW i \in Nat, NEW b \in Box, NEW n \in 0 .. SerialLimit - 1,
               DownWord(c, i, b, n)'
        PROVE  \E j \in Nat : DownWord(c, j, b, n) /\ j = IF c = z THEN i + 1 ELSE i
    BY <2>1, <2>2 DEF DownWord
  <2>3. \A c \in Client, i \in Nat, b \in Box, n \in 0 .. SerialLimit - 1 :
          DownWord(c, i, b, n)' => n < Bound(d)'
    <3> SUFFICES ASSUME NEW c \in Client, NEW i \in Nat, NEW b \in Box,
                        NEW n \in 0 .. SerialLimit - 1, DownWord(c, i, b, n)'
                 PROVE  n < Bound(d)'
      OBVIOUS
    <3>1. n < Bound(d)
      BY <1>1, <2>2
    <3> QED BY <1>2, <3>1, MqAssumption
  <2>4. ASSUME NEW c \in Client, NEW i \in Nat, NEW j \in Nat, NEW b \in Box,
               NEW n \in 0 .. SerialLimit - 1, DownWord(c, i, b, n)', DownWord(c, j, b, n)'
        PROVE  i = j
    <3>1. PICK k \in Nat : DownWord(c, k, b, n) /\ k = IF c = z THEN i + 1 ELSE i
      BY <2>2, <2>4
    <3>2. PICK l \in Nat : DownWord(c, l, b, n) /\ l = IF c = z THEN j + 1 ELSE j
      BY <2>2, <2>4
    <3>3. k = l
      BY <1>1, <3>1, <3>2
    <3> QED BY <3>1, <3>2, <3>3
  <2> QED BY <1>2, <2>3, <2>4 DEF DownNumbers
<1>7. ASSUME NEW s \in Sender, Posts(s) PROVE DownNumbers(d)'
  <2>1. PICK t, e : t = sd[s].term /\ e = Word(sd[s].dept, sd[s].num, "none")
    OBVIOUS
  <2>2. /\ t \in Queues /\ e \in WordType /\ q' = [q EXCEPT ![t] = Append(@, e)]
        /\ s \in Client => t \in Box
        /\ sd[s].num \in 0 .. SerialLimit - 1
    BY <1>7, <2>1, PostedWord DEF Posts
  <2>3. \A x, i : IsDataWord(x, i)' =>
          \/ IsDataWord(x, i) /\ q'[x][i] = q[x][i]
          \/ x = t /\ i = Len(q[t]) + 1 /\ q'[x][i] = e
    <3>1. \A x, i : IsDataWord(x, i)' =>
            \/ IsDataWord(x, i) /\ KeyOfWord(x, i)' = KeyOfWord(x, i) /\ q'[x][i] = q[x][i]
            \/ /\ x = t /\ i = Len(q[t]) + 1 /\ ~IsAck(e.w) /\ q'[x][i] = e
               /\ KeyOfWord(x, i)' = Key(e.id, t, NumberOf(e.w))
      BY <2>2, DataAppended
    <3> QED BY <3>1
  <2>4. CASE s \in Client
    <3>1. t \notin Client
      BY <2>2, <2>4, NamesAssumption
    <3> QED BY <1>3, <2>3, <3>1 DEF DownWord
  <2>5. CASE s \in Deliverer
    <3>1. s = d /\ Bound(d)' > sd[d].num /\ Bound(d) = sd[d].num
      BY <1>2, <1>7, <2>5 DEF Posts, Bound
    <3>2. ASSUME NEW c \in Client, NEW i \in Nat, NEW b \in Box, NEW n \in 0 .. SerialLimit - 1,
                 DownWord(c, i, b, n)'
          PROVE  DownWord(c, i, b, n) \/ (c = t /\ i = Len(q[t]) + 1 /\ n = sd[d].num)
      <4>1. CASE IsDataWord(c, i) /\ q'[c][i] = q[c][i]
        BY <3>2, <4>1 DEF DownWord
      <4>2. CASE c = t /\ i = Len(q[t]) + 1 /\ q'[c][i] = e
        <5>1. Word(b, n, "none") = Word(sd[s].dept, sd[s].num, "none")
          BY <2>1, <3>2, <4>2 DEF DownWord
        <5>2. \A x, y \in 0 .. SerialLimit - 1 :
                Word(b, x, "none") = Word(sd[s].dept, y, "none") => x = y
          BY WordEqual
        <5> QED BY <2>2, <3>1, <4>2, <5>1, <5>2
      <4> QED BY <2>3, <3>2, <4>1, <4>2 DEF DownWord
    <3>3. ASSUME NEW c \in Client, NEW i \in Nat, NEW b \in Box, NEW n \in 0 .. SerialLimit - 1,
                 DownWord(c, i, b, n)'
          PROVE  n < Bound(d)'
      <4>1. DownWord(c, i, b, n) \/ n = sd[d].num
        BY <3>2, <3>3
      <4>2. DownWord(c, i, b, n) => n < Bound(d)
        BY <1>1
      <4> QED BY <1>2, <2>2, <3>1, <4>1, <4>2, MqAssumption
    <3>4. ASSUME NEW c \in Client, NEW i \in Nat, NEW j \in Nat, NEW b \in Box,
                 NEW n \in 0 .. SerialLimit - 1, DownWord(c, i, b, n)', DownWord(c, j, b, n)'
          PROVE  i = j
      <4>1. DownWord(c, i, b, n) => n < sd[d].num
        BY <1>1, <3>1
      <4>2. DownWord(c, j, b, n) => n < sd[d].num
        BY <1>1, <3>1
      <4>3. ~(n < n)
        BY MqAssumption
      <4> QED BY <1>1, <3>2, <3>4, <4>1, <4>2, <4>3
    <3> QED BY <1>2, <3>3, <3>4 DEF DownNumbers
  <2> QED BY <2>4, <2>5 DEF Sender
<1> QED BY <1>4, <1>5, <1>6, <1>7, TableEffect DEF Quiet, Puts, Drops

LEMMA DownDataStep ==
  ASSUME MqInv, NEW d \in Deliverer, \A e \in Deliverer : e = d, DownNumbers(d), DownData(d),
         [Next]_vars
  PROVE  DownData(d)'
<1>1. /\ sd[d].pc = "send" => KeyOf(d) \in DOMAIN kv
      /\ \A c \in Client, i \in Nat : IsDataWord(c, i) => KeyOfWord(c, i) \in DOMAIN kv
      /\ d \in Sender
  BY DEF DownData, Sender
<1>2. /\ \A c \in Client, i \in Nat, b \in Box, n \in 0 .. SerialLimit - 1 :
           DownWord(c, i, b, n) => n < Bound(d)
      /\ \A c \in Client, i, j \in Nat, b \in Box, n \in 0 .. SerialLimit - 1 :
           DownWord(c, i, b, n) /\ DownWord(c, j, b, n) => i = j
      /\ sd[d].pc # "idle" =>
           /\ Bound(d) = sd[d].num /\ sd[d].num \in Int
           /\ sd[d].dept \in Box /\ sd[d].term \in Client
  BY <1>1 DEF DownNumbers, Bound, MqInv, Types, DelivererOK, SendType
<1>3. \A c \in Client : c \in Queues /\ c \notin Box
  BY NamesAssumption DEF Queues
\* No word in a queue has the key of the message that d is about to send.
<1>4. ASSUME NEW c \in Client, NEW i \in Nat, IsDataWord(c, i), sd[d].pc # "idle"
      PROVE  KeyOfWord(c, i) # KeyOf(d)
  <2>1. PICK b \in Box, n \in 0 .. SerialLimit - 1 :
          DownWord(c, i, b, n) /\ KeyOfWord(c, i) = Key(b, c, n)
    BY <1>4, ClientWord
  <2>2. n < sd[d].num
    BY <1>2, <1>4, <2>1
  <2> QED BY <1>2, <1>4, <2>1, <2>2, MqAssumption DEF Key, KeyOf
<1>5. CASE Quiet
  <2>1. \A z, i : IsDataWord(z, i)' => IsDataWord(z, i) /\ KeyOfWord(z, i)' = KeyOfWord(z, i)
    BY <1>5 DEF Quiet, IsDataWord, KeyOfWord
  <2> QED BY <1>1, <1>5, <2>1 DEF Quiet, AllKept, SendKept, DownData
<1>6. ASSUME NEW s \in Sender, Puts(s) PROVE DownData(d)'
  <2>1. \A z, i : IsDataWord(z, i)' => IsDataWord(z, i) /\ KeyOfWord(z, i)' = KeyOfWord(z, i)
    BY <1>6 DEF Puts, IsDataWord, KeyOfWord
  <2>2. DOMAIN kv' = DOMAIN kv \cup {KeyOf(s)}
    BY <1>6 DEF Puts, Stored
  <2>3. sd'[d].pc = "send" => KeyOf(d)' \in DOMAIN kv'
    BY <1>1, <1>6, <2>2 DEF Puts, OthersKept, SendKept
  <2>4. \A c \in Client, i \in Nat : IsDataWord(c, i)' => KeyOfWord(c, i)' \in DOMAIN kv'
    BY <1>1, <2>1, <2>2
  <2> QED BY <2>3, <2>4 DEF DownData
<1>7. ASSUME NEW s \in Sender, Drops(s) PROVE DownData(d)'
  <2>1. \A z, i : IsDataWord(z, i)' => IsDataWord(z, i) /\ KeyOfWord(z, i)' = KeyOfWord(z, i)
    BY <1>7 DEF Drops, IsDataWord, KeyOfWord
  <2>2. DOMAIN kv' = DOMAIN kv \ {KeyOf(s)} /\ sd[s].pc \in {"set", "send"} /\ sd'[s].pc = "idle"
    BY <1>7 DEF Drops, Removed
  <2>3. s \in Client => KeyOf(s)[1] \in Client
    BY <2>2, ClientSendKey DEF Key
  <2>4. s \notin Client => s = d
    BY DEF Sender
  <2>5. sd'[d].pc = "send" => KeyOf(d)' \in DOMAIN kv'
    <3> SUFFICES ASSUME sd'[d].pc = "send" PROVE KeyOf(d)' \in DOMAIN kv'
      OBVIOUS
    <3>1. s # d /\ sd[d].pc = "send" /\ KeyOf(d)' = KeyOf(d) /\ KeyOf(d) \in DOMAIN kv
      BY <1>1, <1>7, <2>2 DEF Drops, OthersKept, SendKept
    <3>2. KeyOf(d)[1] \in Box
      BY <1>2, <3>1 DEF KeyOf, Key
    <3> QED BY <1>3, <2>2, <2>3, <2>4, <3>1, <3>2
  <2>6. ASSUME NEW c \in Client, NEW i \in Nat, IsDataWord(c, i)' PROVE KeyOfWord(c, i)' \in DOMAIN kv'
    <3>1. IsDataWord(c, i) /\ KeyOfWord(c, i)' = KeyOfWord(c, i) /\ KeyOfWord(c, i) \in DOMAIN kv
      BY <1>1, <2>1, <2>6
    <3>2. KeyOfWord(c, i)[1] \in Box
      BY <3>1, ClientWord DEF Key
    <3>3. KeyOfWord(c, i) # KeyOf(s)
      BY <1>3, <1>4, <2>2, <2>3, <2>4, <3>1, <3>2
    <3> QED BY <2>2, <3>1, <3>3
  <2> QED BY <2>5, <2>6 DEF DownData
<1>8. ASSUME NEW s \in Sender, Posts(s) PROVE DownData(d)'
  <2>1. PICK e \in WordType :
          /\ e = Word(sd[s].dept, sd[s].num, "none") /\ ~IsAck(e.w)
          /\ Key(e.id, sd[s].term, NumberOf(e.w)) = KeyOf(s)
    BY <1>8, PostedWord DEF Posts
  <2>2. PICK t : t = sd[s].term
    OBVIOUS
  <2>3. /\ t \in Queues /\ q' = [q EXCEPT ![t] = Append(@, e)]
        /\ s \in Client => t \in Box
    BY <1>8, <2>1, <2>2, PostedWord DEF Posts
  <2>4. \A x, i : IsDataWord(x, i)' =>
          \/ IsDataWord(x, i) /\ KeyOfWord(x, i)' = KeyOfWord(x, i)
          \/ x = t /\ KeyOfWord(x, i)' = KeyOf(s)
    <3>1. Key(e.id, t, NumberOf(e.w)) = KeyOf(s)
      BY <2>1, <2>2
    <3>2. \A x, i : IsDataWord(x, i)' =>
            \/ IsDataWord(x, i) /\ KeyOfWord(x, i)' = KeyOfWord(x, i) /\ q'[x][i] = q[x][i]
            \/ /\ x = t /\ i = Len(q[t]) + 1 /\ ~IsAck(e.w) /\ q'[x][i] = e
               /\ KeyOfWord(x, i)' = Key(e.id, t, NumberOf(e.w))
      BY <2>3, DataAppended
    <3> QED BY <3>1, <3>2
  <2>5. ASSUME NEW c \in Client, NEW i \in Nat, IsDataWord(c, i)' PROVE KeyOfWord(c, i)' \in DOMAIN kv
    <3>1. CASE IsDataWord(c, i) /\ KeyOfWord(c, i)' = KeyOfWord(c, i)
      BY <1>1, <3>1
    <3>2. CASE c = t /\ KeyOfWord(c, i)' = KeyOf(s)
      <4>1. s = d
        BY <1>3, <2>3, <3>2 DEF Sender
      <4> QED BY <1>1, <1>8, <3>2, <4>1 DEF Posts
    <3> QED BY <2>4, <2>5, <3>1, <3>2
  <2>6. sd'[d].pc = "send" => KeyOf(d)' \in DOMAIN kv
    BY <1>1, <1>8 DEF Posts, OthersKept, SendKept
  <2> QED BY <1>8, <2>5, <2>6 DEF DownData, Posts
<1>9. ASSUME NEW z \in Queues, Takes(z) PROVE DownData(d)'
  <2>1. /\ \A x, i : IsDataWord(x, i)' =>
             \E j \in Nat : /\ IsDataWord(x, j) /\ KeyOfWord(x, i)' = KeyOfWord(x, j)
                            /\ x = z => j > 1
        /\ 1 \in 1 .. Len(q[z]) /\ Head(q[z]) = q[z][1] /\ KeyAt(z) = KeyOfWord(z, 1)
    <3>1. q[z] # << >> /\ q' = [q EXCEPT ![z] = Tail(@)]
      BY <1>9 DEF Takes
    <3>2. \A x, i : IsDataWord(x, i)' =>
             \E j \in Nat : /\ IsDataWord(x, j) /\ KeyOfWord(x, i)' = KeyOfWord(x, j)
                            /\ q'[x][i] = q[x][j] /\ j = IF x = z THEN i + 1 ELSE i
                            /\ x = z => j > 1
      BY <3>1, DataTailed
    <3>3. 1 \in 1 .. Len(q[z]) /\ Head(q[z]) = q[z][1] /\ KeyAt(z) = KeyOfWord(z, 1)
      BY <3>1, DataTailed
    <3> QED BY <3>2, <3>3
  <2>2. \A k \in DOMAIN kv : k = KeyAt(z) \/ k \in DOMAIN kv'
    BY <1>9 DEF Takes, Removed
  <2>3. KeyAt(z)[2] = z /\ KeyAt(z)[1] = q[z][1].id
    BY <2>1 DEF KeyAt, Key
  \* An ACK at the head of a client's queue carries the client's own msgid.
  <2>4. z \in Client /\ KeyAt(z)[1] \in Box => IsDataWord(z, 1)
    <3> SUFFICES ASSUME z \in Client, q[z][1].id \in Box PROVE IsDataWord(z, 1)
      BY <2>3
    <3>1. ~\E m \in UpMsg, a \in Results : m[1] = z /\ q[z][1] = AckWord(m, a)
      <4> SUFFICES ASSUME NEW m \in UpMsg, NEW a \in Results, m[1] = z, q[z][1] = AckWord(m, a)
                   PROVE  FALSE
        OBVIOUS
      <4>1. q[z][1].id = m[1]
        BY DEF AckWord, Word
      <4> QED BY <1>3, <4>1
    <3>2. PICK b \in Box, n \in 0 .. SerialLimit - 1 : q[z][1] = Word(b, n, "none")
      BY <2>1, <3>1 DEF MqInv, WordsOK
    <3>3. ~IsAck(q[z][1].w)
      BY <3>2, WordBits DEF Word
    <3> QED BY <2>1, <3>3 DEF IsDataWord
  <2>5. ASSUME sd'[d].pc = "send" PROVE KeyOf(d)' \in DOMAIN kv'
    <3>1. sd[d].pc = "send" /\ KeyOf(d)' = KeyOf(d) /\ KeyOf(d) \in DOMAIN kv
      BY <1>1, <1>9, <2>5 DEF Takes, AllKept, SendKept
    <3>2. KeyOf(d)[1] \in Box /\ KeyOf(d)[2] \in Client
      BY <1>2, <3>1 DEF KeyOf, Key
    <3>3. KeyOf(d) # KeyAt(z)
      BY <1>4, <2>1, <2>3, <2>4, <3>1, <3>2
    <3> QED BY <2>2, <3>1, <3>3
  <2>6. ASSUME NEW c \in Client, NEW i \in Nat, IsDataWord(c, i)' PROVE KeyOfWord(c, i)' \in DOMAIN kv'
    <3>1. PICK j \in Nat : /\ IsDataWord(c, j) /\ KeyOfWord(c, i)' = KeyOfWord(c, j)
                           /\ c = z => j > 1
      BY <2>1, <2>6
    <3>2. KeyOfWord(c, j) # KeyAt(z)
      <4> SUFFICES ASSUME KeyOfWord(c, j) = KeyAt(z) PROVE FALSE
        OBVIOUS
      <4>1. PICK b \in Box, n \in 0 .. SerialLimit - 1 :
              DownWord(c, j, b, n) /\ KeyOfWord(c, j) = Key(b, c, n)
        BY <3>1, ClientWord
      <4>2. z = c /\ IsDataWord(c, 1)
        BY <2>3, <2>4, <4>1 DEF Key
      <4>3. PICK f \in Box, k \in 0 .. SerialLimit - 1 :
              DownWord(c, 1, f, k) /\ KeyOfWord(c, 1) = Key(f, c, k)
        BY <4>2, ClientWord
      <4>4. DownWord(c, 1, b, n)
        BY <2>1, <4>1, <4>2, <4>3 DEF Key
      <4>5. j = 1
        BY <1>2, <4>1, <4>4
      <4> QED BY <3>1, <4>2, <4>5
    <3> QED BY <1>1, <2>2, <3>1, <3>2
  <2> QED BY <2>5, <2>6 DEF DownData
<1>10. ASSUME NEW m \in UpMsg, NEW a \in Results, Acks(m, a) PROVE DownData(d)'
  <2>1. \A x, i : IsDataWord(x, i)' => IsDataWord(x, i) /\ KeyOfWord(x, i)' = KeyOfWord(x, i)
    BY <1>10, AckedWord
  <2> QED BY <1>1, <1>10, <2>1 DEF Acks, AllKept, SendKept, DownData
<1> QED BY <1>5, <1>6, <1>7, <1>8, <1>9, <1>10, TableEffect

\* With one thread of the chmpx process that sends to clients, the data of every word in
\* every queue is there.  (Two such threads may take the same serial number.)
THEOREM AllWordsHaveData ==
  ASSUME NEW d, Deliverer = {d}
  PROVE  Spec => []WordHasData
<1> DEFINE DataInv == UpData /\ DownNumbers(d) /\ DownData(d)
<1>1. d \in Deliverer /\ \A e \in Deliverer : e = d
  OBVIOUS
<1>2. Init => DataInv
  BY <1>1, InitData
<1>3. MqInv /\ DataInv /\ [Next]_vars => DataInv'
  BY <1>1, UpDataStep, DownWordsStep, DownDataStep
<1>4. MqInv /\ DataInv => WordHasData
  <2> SUFFICES ASSUME MqInv, DataInv, NEW i \in Client \cup Box, NEW j \in DOMAIN q[i],
                      ~IsAck(q[i][j].w)
               PROVE  KeyOfWord(i, j) \in DOMAIN kv
    BY DEF WordHasData, KeyOfWord
  <2>1. j \in 1 .. Len(q[i]) /\ j \in Nat /\ i \in Queues
    <3>1. q[i] \in Seq(WordType)
      BY DEF MqInv, Types, Queues
    <3> QED BY <3>1, LenProperties DEF Queues
  <2>2. IsDataWord(i, j)
    BY <2>1 DEF IsDataWord
  <2> QED BY <2>1, <2>2 DEF UpData, DownData
<1> HIDE DEF DataInv
<1> QED BY <1>2, <1>3, <1>4, MqInvariant, PTL DEF Spec
=============================================================================
