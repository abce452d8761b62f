------------------------- MODULE MqttTransferProofs -------------------------
(***************************************************************************)
(* For every plan, every number of operations the firmware accepts and     *)
(* every identifier space that holds two identifiers per operation: the    *)
(* device publishes only with valid packet identifiers, the round          *)
(* implements the abstract round of TransferAgreement, and no end fails    *)
(* without a fault of the transport.                                       *)
(*                                                                         *)
(* The last two rest on RoundInv.  It numbers what both ends send, says    *)
(* that every queue holds a run of consecutive numbers behind at most one  *)
(* acknowledgement, and bounds how far the controller can be ahead of the  *)
(* device (Allowed): the strict reads meet what they wait for because      *)
(* nothing else can be on its way.                                         *)
(***************************************************************************)
EXTENDS MqttTransfer, FiniteSetTheorems, TLAPS

(* Identifiers taken when k operations are complete and d more publishes of  *)
(* the current one are done.                                                *)
IdAfter(d) == (FirstId + d + 2 * dev.k) % IdSpace

(* The counter at every program point of the device; an operation that       *)
(* failed takes no further identifier.                                      *)
Counter ==
  /\ DOMAIN dev = {"pc", "n", "k", "id", "op", "valid"}
  /\ dev.id \in Nat /\ dev.k \in Nat /\ dev.n \in 0 .. MaxOps
  /\ dev.valid \in BOOLEAN
  /\ dev.pc \in {"start", "suback", "readyack", "begin"} => dev.k = 0
  /\ dev.pc = "start" => dev.id = IdAfter(0)
  /\ dev.pc = "suback" => dev.id = IdAfter(1)
  /\ dev.pc \in {"readyack", "begin"} => dev.id = IdAfter(2)
  /\ dev.pc \in {"control", "data"} => dev.id = IdAfter(2) /\ dev.k < dev.n
  /\ dev.pc \in {"dataack", "downack", "ackup"} =>
       dev.id = IdAfter(3) /\ dev.k < dev.n
  /\ dev.pc = "metricsack" /\ dev.valid => dev.id = IdAfter(2) /\ dev.k <= dev.n

(* The packets under way to the broker; what they carry does not matter.     *)
IsSequence == \E S : up \in Seq(S)
Inv == Counter /\ IsSequence /\ IdsValid

LEMMA Grown ==
    ASSUME NEW s, NEW S, s \in Seq(S), NEW e
    PROVE  /\ Append(s, e) \in Seq(S \cup {e})
           /\ DOMAIN Append(s, e) = 1 .. (Len(s) + 1)
           /\ DOMAIN s = 1 .. Len(s) /\ Len(s) \in Nat
           /\ \A i \in 1 .. Len(s) : Append(s, e)[i] = s[i]
           /\ Append(s, e)[Len(s) + 1] = e
<1>1. s \in Seq(S \cup {e})
  <2>1. /\ Len(s) \in Nat /\ DOMAIN s = 1 .. Len(s)
        /\ \A i \in 1 .. Len(s) : s[i] \in S
    OBVIOUS
  <2>2. s \in [1 .. Len(s) -> S \cup {e}]
    BY <2>1
  <2> QED BY <2>1, <2>2
<1> QED BY <1>1

LEMMA Shrunk ==
    ASSUME NEW s, NEW S, s \in Seq(S), s # <<>>
    PROVE  /\ Tail(s) \in Seq(S)
           /\ DOMAIN s = 1 .. Len(s) /\ Len(s) \in Nat
           /\ DOMAIN Tail(s) = 1 .. (Len(s) - 1)
           /\ \A i \in 1 .. (Len(s) - 1) : Tail(s)[i] = s[i + 1]
    OBVIOUS

(* The counter does not wrap as long as the space is not used up.            *)
LEMMA NextId ==
    ASSUME NEW x \in Nat, x < IdSpace
    PROVE  x % IdSpace = x
<1>1. \A n \in Nat, a \in Nat : a < n => a % n = a
  OBVIOUS
<1> QED BY <1>1, IdRoom

(* A publish with a valid identifier keeps the packets valid.                *)
LEMMA SendsValid ==
    ASSUME IsSequence, IdsValid, NEW p, p.id \in 1 .. (IdSpace - 1), DevSend(p)
    PROVE  IsSequence' /\ IdsValid'
<1>1. CASE link
  <2>1. up' = Append(up, p) BY <1>1 DEF DevSend
  <2>2. PICK S : up \in Seq(S) BY DEF IsSequence
  <2>3. up' \in Seq(S \cup {p}) BY <2>1, <2>2, Grown
  <2>4. \A i \in DOMAIN up' : up'[i].id \in 1 .. (IdSpace - 1)
    BY <2>1, <2>2, Grown DEF IdsValid
  <2> QED BY <2>3, <2>4 DEF IsSequence, IdsValid
<1>2. CASE ~link
  <2>1. up' = up BY <1>2 DEF DevSend
  <2> QED BY <2>1 DEF IsSequence, IdsValid
<1> QED BY <1>1, <1>2

(* Everyone but the device leaves its state alone and only takes packets     *)
(* from the front of what it sent, or drops them all.                       *)
LEMMA OthersKeep ==
    ASSUME Inv, dev' = dev,
           \/ up' = up
           \/ up # <<>> /\ up' = Tail(up)
           \/ up' = <<>>
    PROVE  Inv'
<1>1. Counter' BY DEF Inv, Counter, IdAfter
<1>2. CASE up' = up BY <1>1, <1>2 DEF Inv, IsSequence, IdsValid
<1>3. CASE up # <<>> /\ up' = Tail(up)
  <2>1. PICK S : up \in Seq(S) BY DEF Inv, IsSequence
  <2>2. up' \in Seq(S) BY <1>3, <2>1, Shrunk
  <2>3. \A i \in DOMAIN up' : up'[i].id \in 1 .. (IdSpace - 1)
    BY <1>3, <2>1, Shrunk DEF Inv, IdsValid
  <2> QED BY <1>1, <2>2, <2>3 DEF Inv, IsSequence, IdsValid
<1>4. CASE up' = <<>>
  <2>1. up' \in Seq({}) /\ DOMAIN up' = {} BY <1>4
  <2> QED BY <1>1, <2>1 DEF Inv, IsSequence, IdsValid
<1> QED BY <1>2, <1>3, <1>4

(* The identifier of the next publish of the current operation.              *)
LEMMA Room ==
    ASSUME Counter, NEW d \in 0 .. 3,
           d \in {0, 1} => dev.k = 0,
           d \in {2, 3} => dev.k < dev.n,
           dev.id = IdAfter(d)
    PROVE  /\ dev.id \in 1 .. (IdSpace - 1)
           /\ TakeId = (FirstId + (d + 1) + 2 * dev.k) % IdSpace
           /\ TakeId \in Nat
<1> DEFINE x == FirstId + d + 2 * dev.k
<1>1. x \in Nat /\ 0 < x /\ x < IdSpace
  BY IdRoom DEF Counter
<1>2. dev.id = x BY <1>1, NextId DEF IdAfter
<1>3. TakeId = (x + 1) % IdSpace BY <1>1, <1>2 DEF TakeId
<1>4. (x + 1) % IdSpace \in Nat BY <1>1, IdRoom
<1>5. x + 1 = FirstId + (d + 1) + 2 * dev.k BY IdRoom DEF Counter
<1> QED BY <1>1, <1>2, <1>3, <1>4, <1>5, IdRoom

(* An operation's metrics: the counter and the operation count move on.      *)
LEMMA MetricsKeeps ==
    ASSUME Inv, NEW good \in BOOLEAN, NEW used, Metrics(good, used),
           \/ dev.pc \in {"dataack", "downack", "ackup"}
           \/ dev.pc = "data" /\ ~good
    PROVE  Inv'
<1>1. PICK d \in {2, 3} : dev.id = IdAfter(d) /\ (good => d = 3)
  BY DEF Inv, Counter
<1>2. dev.k < dev.n BY DEF Inv, Counter
<1>3. /\ dev.id \in 1 .. (IdSpace - 1) /\ TakeId \in Nat
      /\ TakeId = (FirstId + (d + 1) + 2 * dev.k) % IdSpace
  BY <1>1, <1>2, Room DEF Inv
<1>4. IsSequence' /\ IdsValid'
  BY <1>3, SendsValid DEF Inv, Metrics, DevPublish, Request
<1>5. Counter'
  <2>1. good => FirstId + (d + 1) + 2 * dev.k = FirstId + 2 + 2 * (dev.k + 1)
    BY <1>1, IdRoom DEF Inv, Counter
  <2> QED BY <1>1, <1>2, <1>3, <2>1 DEF Inv, Counter, Metrics, IdAfter
<1> QED BY <1>4, <1>5 DEF Inv

(* Every step of the device keeps the counter where its program is.          *)
LEMMA DeviceKeeps == ASSUME Inv, Device PROVE Inv'
<1>1. CASE DevSubscribe
  <2>1. /\ dev.pc = "start" /\ dev.id = IdAfter(0) /\ dev.k = 0
        /\ dev' = [dev EXCEPT !.pc = "suback", !.id = TakeId]
    BY <1>1 DEF DevSubscribe, Inv, Counter
  <2>2. /\ dev.id \in 1 .. (IdSpace - 1) /\ TakeId \in Nat
        /\ TakeId = (FirstId + 1 + 2 * dev.k) % IdSpace
    BY <2>1, Room, 0 + 1 = 1 DEF Inv
  <2>3. IsSequence' /\ IdsValid'
    BY <1>1, <2>2, SendsValid DEF Inv, DevSubscribe, Subscribe
  <2>4. Counter' BY <2>1, <2>2 DEF Inv, Counter, IdAfter
  <2> QED BY <2>3, <2>4 DEF Inv
<1>2. CASE DevReady
  <2>1. /\ dev.pc = "suback" /\ dev.id = IdAfter(1) /\ dev.k = 0
        /\ dev' = [dev EXCEPT !.pc = "readyack", !.id = TakeId]
    BY <1>2 DEF DevReady, Strict, Inv, Counter
  <2>2. /\ dev.id \in 1 .. (IdSpace - 1) /\ TakeId \in Nat
        /\ TakeId = (FirstId + 2 + 2 * dev.k) % IdSpace
    BY <2>1, Room, 1 + 1 = 2 DEF Inv
  <2>3. IsSequence' /\ IdsValid'
    BY <1>2, <2>2, SendsValid DEF Inv, DevReady, DevPublish, Request
  <2>4. Counter' BY <2>1, <2>2 DEF Inv, Counter, IdAfter
  <2> QED BY <2>3, <2>4 DEF Inv
<1>3. CASE DevReadyAck \/ DevDataAck
  <2>1. up' = up BY <1>3 DEF DevReadyAck, DevDataAck
  <2>2. CASE DevReadyAck
    <3>1. /\ dev.pc = "readyack" /\ dev.id = IdAfter(2) /\ dev.k = 0
          /\ dev' = [dev EXCEPT !.pc = "begin"]
      BY <2>2 DEF DevReadyAck, Strict, Inv, Counter
    <3>2. Counter' BY <3>1 DEF Inv, Counter, IdAfter
    <3> QED BY <2>1, <3>2 DEF Inv, IsSequence, IdsValid
  <2>3. CASE DevDataAck
    <3>1. /\ dev.pc = "dataack" /\ dev.id = IdAfter(3) /\ dev.k < dev.n
          /\ dev' = [dev EXCEPT !.pc = "ackup"]
      BY <2>3 DEF DevDataAck, Strict, Inv, Counter
    <3>2. Counter' BY <3>1 DEF Inv, Counter, IdAfter
    <3> QED BY <2>1, <3>2 DEF Inv, IsSequence, IdsValid
  <2> QED BY <1>3, <2>2, <2>3
<1>4. CASE DevBegin
  <2>1. up' = up BY <1>4 DEF DevBegin
  <2>2. PICK n \in 1 .. MaxOps : dev' = [dev EXCEPT !.pc = "control", !.n = n]
    BY <1>4 DEF DevBegin
  <2>3. dev.pc = "begin" /\ dev.id = IdAfter(2) /\ dev.k = 0
    BY <1>4 DEF DevBegin, Inv, Counter
  <2>4. n \in 0 .. MaxOps /\ 0 < n BY IdRoom
  <2>5. Counter' BY <2>2, <2>3, <2>4 DEF Inv, Counter, IdAfter
  <2> QED BY <2>1, <2>5 DEF Inv, IsSequence, IdsValid
<1>5. CASE DevControl
  <2>1. dev.pc = "control" /\ dev.id = IdAfter(2) /\ dev.k < dev.n
    BY <1>5 DEF DevControl, Inv, Counter
  <2>2. /\ dev.id \in 1 .. (IdSpace - 1) /\ TakeId \in Nat
        /\ TakeId = (FirstId + 3 + 2 * dev.k) % IdSpace
    BY <2>1, Room, 2 + 1 = 3 DEF Inv
  <2>3. CASE up' = up /\ dev' = [dev EXCEPT !.pc = "data",
                                  !.op = Head(down).seq, !.valid = FALSE]
    <3>1. Counter' BY <2>1, <2>3 DEF Inv, Counter, IdAfter
    <3> QED BY <2>3, <3>1 DEF Inv, IsSequence, IdsValid
  <2>4. CASE /\ DevSend(Request(dev.id, Pub("up", "data", Head(down).seq,
                                            Head(down).seq, TRUE)))
             /\ dev' = [dev EXCEPT !.pc = "dataack", !.op = Head(down).seq,
                                   !.id = TakeId, !.valid = FALSE]
    <3>1. IsSequence' /\ IdsValid'
      BY <2>2, <2>4, SendsValid DEF Inv, Request
    <3>2. Counter' BY <2>1, <2>2, <2>4 DEF Inv, Counter, IdAfter
    <3> QED BY <3>1, <3>2 DEF Inv
  <2> QED BY <1>5, <2>3, <2>4 DEF DevControl
<1>6. CASE DevData
  <2> DEFINE good == Head(down).payload = dev.op /\ Head(down).ok
  <2>1. /\ dev.pc = "data" /\ dev.id = IdAfter(2) /\ dev.k < dev.n
        /\ dev' = [dev EXCEPT !.pc = "downack", !.id = TakeId, !.valid = good]
    BY <1>6 DEF DevData, Inv, Counter
  <2>2. /\ dev.id \in 1 .. (IdSpace - 1) /\ TakeId \in Nat
        /\ TakeId = (FirstId + 3 + 2 * dev.k) % IdSpace
    BY <2>1, Room, 2 + 1 = 3 DEF Inv
  <2>3. IsSequence' /\ IdsValid'
    BY <1>6, <2>2, SendsValid DEF Inv, DevData, DevPublish, Request
  <2>5. good \in BOOLEAN OBVIOUS
  <2> HIDE DEF good
  <2>4. Counter' BY <2>5, <2>1, <2>2 DEF Inv, Counter, IdAfter
  <2> QED BY <2>3, <2>4 DEF Inv
<1>7. CASE DevDownAck
  <2>1. dev.valid \in BOOLEAN /\ dev.pc = "downack" /\ Metrics(dev.valid, TRUE)
    BY <1>7 DEF DevDownAck, Strict, Inv, Counter
  <2> QED BY <2>1, MetricsKeeps
<1>8. CASE DevAckUp
  BY <1>8, MetricsKeeps DEF DevAckUp
<1>9. CASE DevMetricsAck
  <2>1. up' = up BY <1>9 DEF DevMetricsAck
  <2>2. Counter' BY <1>9 DEF DevMetricsAck, Strict, Inv, Counter, IdAfter
  <2> QED BY <2>1, <2>2 DEF Inv, IsSequence, IdsValid
<1>10. CASE DevReadFails
  <2>1. CASE dev.pc \in {"data", "dataack", "downack", "ackup"}
    BY <1>10, <2>1, MetricsKeeps DEF DevReadFails
  <2>2. CASE dev.pc \notin {"data", "dataack", "downack", "ackup"}
    <3>1. up' = up /\ dev' = [dev EXCEPT !.pc = "failed"]
      BY <1>10, <2>2 DEF DevReadFails
    <3>2. Counter' BY <3>1 DEF Inv, Counter, IdAfter
    <3> QED BY <3>1, <3>2 DEF Inv, IsSequence, IdsValid
  <2> QED BY <2>1, <2>2
<1>11. CASE DevHangsUp
  BY <1>11, OthersKeep DEF DevHangsUp
<1> QED BY <1>1, <1>2, <1>3, <1>4, <1>5, <1>6, <1>7, <1>8, <1>9, <1>10, <1>11
        DEF Device

(* The counter at boot.                                                      *)
LEMMA InitCounts == ASSUME Init PROVE Inv
<1>1. /\ dev.pc = "start" /\ dev.k = 0 /\ dev.n = 0 /\ dev.id = FirstId
      /\ dev.valid = FALSE
      /\ DOMAIN dev = {"pc", "n", "k", "id", "op", "valid"}
  BY DEF Init
<1>2. IdAfter(0) = FirstId
  BY <1>1, IdRoom, NextId DEF IdAfter
<1>5. FirstId \in Nat /\ 0 \in 0 .. MaxOps BY IdRoom
<1>6. dev.valid \in BOOLEAN BY <1>1
<1>7. dev.id \in Nat /\ dev.k \in Nat /\ dev.n \in 0 .. MaxOps
  BY <1>1, <1>5
<1>8. dev.id = IdAfter(0) BY <1>1, <1>2
<1>3. Counter BY <1>1, <1>6, <1>7, <1>8, Zenon DEF Counter
<1>4. up \in Seq({}) /\ DOMAIN up = {} BY DEF Init
<1> QED BY <1>3, <1>4 DEF Inv, IsSequence, IdsValid

(* Every step keeps it.                                                      *)
LEMMA NextCounts == ASSUME Inv, [Next]_vars PROVE Inv'
<1>1. CASE Broker
  BY <1>1, OthersKeep DEF Broker, BrokerDevice, BrokerController
<1>2. CASE Device BY <1>2, DeviceKeeps
<1>3. CASE Controller
  BY <1>3, OthersKeep DEF Controller, CtlSubscribe, CtlStore, CtlSuback,
     CtlReady, CtlCommand, CtlCommandAck, CtlDataAck, CtlDeviceAck,
     CtlPattern, CtlAckUp, CtlMetrics, CtlFails, CtlClose, CtlKeeps
<1>4. CASE Alter \/ LinkDown \/ TimePasses \/ Done \/ UNCHANGED vars
  BY <1>4, OthersKeep DEF Alter, LinkDown, TimePasses, Done, vars
<1> QED BY <1>1, <1>2, <1>3, <1>4 DEF Next

(* For every plan and every fault of the transport the device publishes only *)
(* with packet identifiers from 1 to 65535 (mqtt_transfer.c 206, 241, 362).  *)
THEOREM PacketIdsValid == Spec => []IdsValid
<1>1. Init => Inv BY InitCounts
<1>2. Inv /\ [Next]_vars => Inv' BY NextCounts
<1>3. Inv => IdsValid BY DEF Inv
<1> QED BY <1>1, <1>2, <1>3, PTL DEF Spec

-----------------------------------------------------------------------------
(***************************************************************************)
(* The two directions as numbered streams.  The controller issues item 0   *)
(* (BEGIN), item 2i + 1 (the command of operation i + 1) and item 2i + 2   *)
(* (its payload, or ACK_UP for a payload it received).  The device         *)
(* publishes message 0 (READY), message 2i + 1 (ACK_DOWN, or its payload)  *)
(* and message 2i + 2 (metrics).  What lies in a queue is a run of         *)
(* consecutive numbers behind at most one acknowledgement.                 *)
(***************************************************************************)
IsSeq(s) == \E S : s \in Seq(S)

Live == link /\ dev.pc # "failed" /\ (dev.pc = "metricsack" => dev.valid)
Fine == Live \/ dev.pc = "success"
Active == ctl.pc \notin {"complete", "failed"}

DevAwaits ==
  dev.pc \in {"suback", "readyack", "dataack", "downack", "metricsack"}
CtlAwaits == ctl.pc \in {"suback", "begin", "command", "data", "ack_up"}

(* Items the device has read; messages it has published and the broker has.  *)
Received ==
  IF dev.pc \in {"start", "suback", "readyack", "begin"} THEN 0
  ELSE IF dev.pc \in {"data", "dataack", "ackup"} THEN 2 * dev.k + 2
  ELSE IF dev.pc = "downack" THEN 2 * dev.k + 3
  ELSE 2 * dev.k + 1
Published ==
  IF dev.pc \in {"start", "suback"} THEN 0
  ELSE IF dev.pc \in {"dataack", "downack", "ackup"} THEN 2 * dev.k + 2
  ELSE 2 * dev.k + 1
Delivered ==
  IF up # <<>> /\ dev.pc # "suback" THEN Published - 1 ELSE Published

(* Messages the controller has used and items it has issued.                 *)
Consumed ==
  IF ctl.pc \in {"start", "suback", "ready"} THEN 0
  ELSE IF ctl.pc \in {"ack_up", "metrics"} THEN 2 * ctl.k + 2
  ELSE 2 * ctl.k + 1
Issued ==
  IF ctl.pc \in {"start", "suback", "ready"} THEN 0
  ELSE IF ctl.pc \in {"begin", "complete"} THEN 2 * ctl.k + 1
  ELSE IF ctl.pc \in {"command", "pattern"} THEN 2 * ctl.k + 2
  ELSE 2 * ctl.k + 3

PubFields == {"t", "topic", "what", "seq", "payload", "ok"}
ToDev(pl, i) == pl[i].direction = "server_to_device"

(* Packet p is item number j of plan pl when m payloads have arrived; it is  *)
(* marked bad only if something went wrong.                                  *)
Item(pl, m, f, j, p) ==
  /\ DOMAIN p = PubFields /\ p.t = "PUBLISH"
  /\ j = 0 => p.topic = "control" /\ p.what = "BEGIN" /\ p.seq = Total
  /\ \A i \in Nat : j = 2 * i + 1 =>
       /\ p.topic = "control" /\ p.seq = i + 1
       /\ p.what = IF ToDev(pl, i + 1) THEN "DOWN" ELSE "UP"
  /\ \A i \in Nat : j = 2 * i + 2 =>
       IF ToDev(pl, i + 1) THEN p.payload = i + 1
       ELSE p.what = "ACK_UP" /\ p.seq = i + 1 /\ (p.ok => i < m)
  /\ p.ok \/ f # {}

(* Packet p is message number j.                                             *)
Msg(pl, f, j, p) ==
  /\ DOMAIN p = PubFields /\ p.t = "PUBLISH"
  /\ j = 0 => p.topic = "up" /\ p.what = "READY"
  /\ \A i \in Nat : j = 2 * i + 1 =>
       /\ p.seq = i + 1 /\ p.payload = i + 1
       /\ p.topic = IF ToDev(pl, i + 1) THEN "device_ack" ELSE "up"
  /\ \A i \in Nat : j = 2 * i + 2 => p.topic = "metrics"
  /\ p.ok \/ f # {}

(* Queue q holds, behind a acknowledgements, packets numbered from n.        *)
Fits(to, pl, m, f, j, p) ==
  IF to = "device" THEN Item(pl, m, f, j, p) ELSE Msg(pl, f, j, p)
Run(to, pl, m, f, q, a, n) ==
  \A j \in DOMAIN q : j > a => Fits(to, pl, m, f, n + j - a - 1, q[j])

(* The acknowledgement in front of each queue, and the stream positions.     *)
DownAck == IF DevAwaits /\ up = <<>> THEN 1 ELSE 0
RxAck == IF CtlAwaits /\ tx = <<>> THEN 1 ELSE 0
Sent == Received + Len(down) - DownAck
TxItem == IF tx # <<>> /\ tx[1].t = "PUBLISH" THEN 1 ELSE 0
Arrived == Consumed + Len(ctl.inbox) + Len(rx) - RxAck

(* How far the controller can be ahead of the device.                        *)
Ahead(i) == IF i < Total THEN IF IsDown(i + 1) THEN 2 * i + 3 ELSE 2 * i + 2
            ELSE 2 * i + 1
Allowed ==
  IF dev.pc \in {"start", "suback"} \/ (dev.pc = "readyack" /\ up # <<>>) THEN 0
  ELSE IF dev.pc = "metricsack" /\ up # <<>> THEN 2 * dev.k + 1
  ELSE IF dev.pc \in {"dataack", "downack", "ackup"} /\ up = <<>>
       THEN 2 * dev.k + 3
  ELSE Ahead(dev.k)

CtlFields == {"pc", "k", "id", "inbox", "ok"}
CtlPoints == {"start", "suback", "ready", "begin", "command", "data",
              "device_ack", "pattern", "ack_up", "metrics", "complete", "failed"}
DevPoints == {"start", "suback", "readyack", "begin", "control", "data", "dataack",
              "downack", "ackup", "metricsack", "success", "failed"}

Types ==
  /\ DOMAIN ctl = CtlFields /\ ctl.pc \in CtlPoints /\ dev.pc \in DevPoints
  /\ ctl.k \in Nat /\ moved \in Nat
  /\ IsSeq(up) /\ IsSeq(down) /\ IsSeq(tx) /\ IsSeq(rx) /\ IsSeq(ctl.inbox)
  /\ ~link => up = <<>> /\ down = <<>> /\ ~dsub

(* The counters of both ends against the payloads that arrived.              *)
Counted ==
  /\ dev.k <= moved /\ moved <= dev.k + 1
  /\ ctl.k <= moved /\ moved <= ctl.k + 1
  /\ dev.pc = "downack" /\ dev.valid => moved = dev.k + 1

(* What the controller's program point says.                                 *)
CtlPoint ==
  /\ ctl.k <= Total /\ (ctl.k = Total => ctl.pc \in {"complete", "failed"})
  /\ ctl.pc \in {"start", "suback", "ready", "begin"} => ctl.k = 0
  /\ ctl.pc \in {"start", "suback", "ready", "begin", "command", "pattern",
                 "complete"} => moved <= ctl.k
  /\ ctl.pc \in {"ack_up", "metrics"} /\ ctl.ok => moved = ctl.k + 1
  /\ ctl.pc \in {"data", "device_ack"} => IsDown(ctl.k + 1)
  /\ ctl.pc \in {"pattern", "ack_up"} => ~IsDown(ctl.k + 1)

(* What the device's program point says.                                     *)
DevPoint ==
  /\ dev.pc \in {"start", "suback", "readyack", "begin"} => dev.k = 0
  /\ dev.pc \in {"start", "suback"} => dev.op = 0
  /\ dev.pc \in {"data", "dataack", "downack", "ackup"} =>
       dev.op = dev.k + 1 /\ dev.k < Total
  /\ dev.pc \in {"data", "downack"} => IsDown(dev.k + 1)
  /\ dev.pc \in {"dataack", "ackup"} => ~IsDown(dev.k + 1)
  /\ Live => ctl.k <= dev.k
  /\ Live /\ dev.pc \notin {"dataack", "downack", "ackup"} => moved = dev.k

(* No message says that a payload arrived which did not, or carries one of a *)
(* later operation than the device is at.                                    *)
Sound(m, k, p) ==
  /\ DOMAIN p = PubFields
  /\ p.topic = "device_ack" => p.seq \in Nat /\ (p.ok => p.seq <= m)
  /\ p.topic = "up" => p.payload \in Nat /\ p.payload <= k + 1
SoundUp(m, k, q) ==
  \A j \in DOMAIN q : q[j].t = "PUBLISH" => Sound(m, k, q[j].pub)
SoundRx(m, k, q) == \A j \in DOMAIN q : q[j].t = "PUBLISH" => Sound(m, k, q[j])
SoundBox(m, k, q) == \A j \in DOMAIN q : Sound(m, k, q[j])
Sounds == SoundUp(moved, dev.k, up) /\ SoundRx(moved, dev.k, rx)
          /\ SoundBox(moved, dev.k, ctl.inbox)

(* While the device is in the round: the streams at its end.                 *)
ToDevice == Live =>
  /\ up # <<>> => /\ DevAwaits /\ down = <<>> /\ Len(up) = 1 /\ up[1].id = LastId
                  /\ up[1].t = IF dev.pc = "suback" THEN "SUBSCRIBE"
                               ELSE "PUBLISH"
                  /\ dev.pc # "suback" =>
                       Msg(plan, faults, Published - 1, up[1].pub)
  /\ DownAck = 1 =>
       /\ down # <<>> /\ down[1].id = LastId
       /\ down[1].t = IF dev.pc = "suback" THEN "SUBACK" ELSE "PUBACK"
  /\ Run("device", plan, moved, faults, down, DownAck, Received)
  /\ Len(tx) <= 1
  /\ TxItem = 1 => Item(plan, moved, faults, Sent, tx[1].pub)
  /\ Sent + TxItem <= Allowed /\ Sent + TxItem <= 2 * ctl.k + 3
  /\ ctl.pc # "failed" => Sent + TxItem = Issued
  /\ dev.pc # "start" /\ ~(dev.pc = "suback" /\ up # <<>>) => dsub

(* While both ends are in the round: the streams at the controller's end.    *)
ToController == Fine /\ Active =>
  /\ tx # <<>> => /\ CtlAwaits /\ rx = <<>> /\ Len(tx) = 1 /\ tx[1].id = ctl.id
                  /\ tx[1].t = IF ctl.pc = "suback" THEN "SUBSCRIBE"
                               ELSE "PUBLISH"
  /\ RxAck = 1 => /\ rx # <<>> /\ rx[1].id = ctl.id
                  /\ rx[1].t = IF ctl.pc = "suback" THEN "SUBACK" ELSE "PUBACK"
  /\ CtlAwaits \/ ctl.pc \in {"start", "pattern"} => ctl.inbox = <<>>
  /\ ctl.pc = "start" => rx = <<>>
  /\ csub <=> ~(ctl.pc = "start" \/ (ctl.pc = "suback" /\ tx # <<>>))
  /\ Run("controller", plan, moved, faults, ctl.inbox, 0, Consumed)
  /\ Run("controller", plan, moved, faults, rx, RxAck, Consumed + Len(ctl.inbox))
  /\ Arrived = Delivered \/ (Arrived = 0 /\ Delivered = 1 /\ faults # {})
  /\ Received <= Issued

RoundInv == Types /\ Counted /\ CtlPoint /\ DevPoint /\ Sounds
            /\ ToDevice /\ ToController

(* Without a fault nothing is given up and nothing is judged bad.            *)
NoFault == faults = {} =>
  /\ Fine /\ ctl.pc # "failed"
  /\ dev.pc = "downack" => dev.valid
  /\ ctl.pc \in {"ack_up", "metrics"} => ctl.ok

-----------------------------------------------------------------------------
(* Facts about queues, for whatever they hold.                               *)
LEMMA SeqFacts ==
    ASSUME NEW s, IsSeq(s)
    PROVE  /\ Len(s) \in Nat /\ DOMAIN s = 1 .. Len(s)
           /\ s = <<>> <=> Len(s) = 0
BY DEF IsSeq

LEMMA SeqEmpty == IsSeq(<<>>) /\ Len(<<>>) = 0 /\ DOMAIN <<>> = {}
<1>1. <<>> \in Seq({}) OBVIOUS
<1> QED BY <1>1 DEF IsSeq

LEMMA SeqAppend ==
    ASSUME NEW s, IsSeq(s), NEW e
    PROVE  /\ IsSeq(Append(s, e)) /\ Append(s, e) # <<>>
           /\ Len(Append(s, e)) = Len(s) + 1
           /\ DOMAIN Append(s, e) = 1 .. (Len(s) + 1)
           /\ \A i \in 1 .. Len(s) : Append(s, e)[i] = s[i]
           /\ Append(s, e)[Len(s) + 1] = e
<1>1. PICK S : s \in Seq(S) BY DEF IsSeq
<1>2. /\ Append(s, e) \in Seq(S \cup {e})
      /\ DOMAIN Append(s, e) = 1 .. (Len(s) + 1)
      /\ DOMAIN s = 1 .. Len(s) /\ Len(s) \in Nat
      /\ \A i \in 1 .. Len(s) : Append(s, e)[i] = s[i]
      /\ Append(s, e)[Len(s) + 1] = e
  BY <1>1, Grown
<1>3. Len(Append(s, e)) = Len(s) + 1 BY <1>2
<1> QED BY <1>2, <1>3 DEF IsSeq

LEMMA SeqTail ==
    ASSUME NEW s, IsSeq(s), s # <<>>
    PROVE  /\ IsSeq(Tail(s)) /\ Len(Tail(s)) = Len(s) - 1
           /\ DOMAIN Tail(s) = 1 .. (Len(s) - 1)
           /\ \A i \in 1 .. (Len(s) - 1) : Tail(s)[i] = s[i + 1]
           /\ Head(s) = s[1] /\ 1 \in DOMAIN s
           /\ Len(s) = 1 => Tail(s) = <<>>
<1>1. PICK S : s \in Seq(S) BY DEF IsSeq
<1>2. Tail(s) \in Seq(S) /\ Len(Tail(s)) = Len(s) - 1 BY <1>1
<1>3. Len(s) = 1 => Tail(s) = <<>>
  <2> DEFINE t == Tail(s)
  <2>1. t \in Seq(S) BY <1>2
  <2>2. Len(s) = 1 => Len(t) = 0 BY <1>2
  <2> HIDE DEF t
  <2>3. Len(t) = 0 => t = <<>> BY <2>1
  <2> QED BY <2>2, <2>3 DEF t
<1> QED BY <1>1, <1>2, <1>3 DEF IsSeq

(* The only packet of a queue.                                               *)
LEMMA SeqOne ==
    ASSUME NEW s, s = <<>>, NEW e
    PROVE  /\ IsSeq(Append(s, e)) /\ Append(s, e) # <<>>
           /\ Len(Append(s, e)) = 1 /\ Append(s, e)[1] = e
           /\ DOMAIN Append(s, e) = {1}
<1>1. IsSeq(s) /\ Len(s) = 0 BY SeqEmpty
<1>2. /\ IsSeq(Append(s, e)) /\ Append(s, e) # <<>>
      /\ Len(Append(s, e)) = Len(s) + 1
      /\ DOMAIN Append(s, e) = 1 .. (Len(s) + 1)
      /\ Append(s, e)[Len(s) + 1] = e
  BY <1>1, SeqAppend, Zenon
<1>3. Len(s) + 1 = 1 /\ 1 .. (Len(s) + 1) = {1} BY <1>1
<1> QED BY <1>2, <1>3, Zenon

(* Removing an element leaves elements of the queue.                         *)
LEMMA SeqRemove ==
    ASSUME NEW s, IsSeq(s), NEW i \in DOMAIN s
    PROVE  /\ IsSeq(RemoveAt(s, i))
           /\ \A j \in DOMAIN RemoveAt(s, i) :
                \E l \in DOMAIN s : RemoveAt(s, i)[j] = s[l]
<1>1. PICK S : s \in Seq(S) BY DEF IsSeq
<1> DEFINE E == {s[l] : l \in DOMAIN s}
<1>2. /\ Len(s) \in Nat /\ DOMAIN s = 1 .. Len(s) /\ i \in Nat /\ 1 <= i
      /\ i <= Len(s)
  BY <1>1
<1>3. \A l \in DOMAIN s : s[l] \in E OBVIOUS
<1>4. s \in Seq(E)
  <2>1. s = [l \in 1 .. Len(s) |-> s[l]] BY <1>1
  <2>2. s \in [1 .. Len(s) -> E] BY <2>1, <1>2, <1>3
  <2> QED BY <1>2, <2>2
<1> HIDE DEF E
<1>5. SubSeq(s, 1, i - 1) \in Seq(E) BY <1>2, <1>4
<1>6. SubSeq(s, i + 1, Len(s)) \in Seq(E) BY <1>2, <1>4
<1>7. RemoveAt(s, i) \in Seq(E) BY <1>5, <1>6 DEF RemoveAt
<1>8. \A j \in DOMAIN RemoveAt(s, i) : RemoveAt(s, i)[j] \in E BY <1>7
<1> QED BY <1>7, <1>8 DEF IsSeq, E

LEMMA SeqRemoveFirst ==
    ASSUME NEW s, IsSeq(s), s # <<>>
    PROVE  RemoveAt(s, 1) = Tail(s)
<1>1. PICK S : s \in Seq(S) BY DEF IsSeq
<1>2. SubSeq(s, 1, 0) = <<>> BY <1>1
<1>3. SubSeq(s, 2, Len(s)) = Tail(s) /\ Tail(s) \in Seq(S) BY <1>1
<1>4. <<>> \o Tail(s) = Tail(s) BY <1>3
<1>5. RemoveAt(s, 1) = SubSeq(s, 1, 0) \o SubSeq(s, 2, Len(s))
  <2>1. 1 - 1 = 0 /\ 1 + 1 = 2 OBVIOUS
  <2> QED BY <2>1, Zenon DEF RemoveAt
<1> QED BY <1>2, <1>3, <1>4, <1>5, Zenon

(* wait_publish finds a packet of the inbox; if the first one has the topic, *)
(* it is that one.                                                           *)
LEMMA FirstIn ==
    ASSUME NEW S \in SUBSET Nat, S # {}
    PROVE  First(S) \in S /\ (1 \in S /\ 0 \notin S => First(S) = 1)
<1> DEFINE R == OpToRel(<, Nat)
<1>1. \A x, y \in Nat : <<y, x>> \in R <=> y < x BY DEF OpToRel
<1>2. IsWellFoundedOn(R, Nat) BY NatLessThanWellFounded
<1> HIDE DEF R
<1>3. PICK x \in S : \A y \in S : ~(<<y, x>> \in R) BY <1>2, WFMin
<1>4. ASSUME NEW y \in S PROVE x <= y
  <2>1. x \in Nat /\ y \in Nat OBVIOUS
  <2>2. ~(y < x) BY <1>1, <1>3, <2>1, Zenon
  <2> QED BY <2>1, <2>2
<1>5. First(S) \in S /\ \A j \in S : First(S) <= j BY <1>4 DEF First
<1>6. First(S) \in Nat /\ (0 \notin S => First(S) # 0) BY <1>5, Zenon
<1> QED BY <1>5, <1>6

LEMMA WaitingIn ==
    ASSUME IsSeq(ctl.inbox), NEW topic, Waiting(topic) # {}
    PROVE  /\ First(Waiting(topic)) \in DOMAIN ctl.inbox
           /\ ctl.inbox # <<>>
           /\ ctl.inbox[First(Waiting(topic))].topic = topic
           /\ ctl.inbox[1].topic = topic => First(Waiting(topic)) = 1
<1>1. /\ Len(ctl.inbox) \in Nat /\ DOMAIN ctl.inbox = 1 .. Len(ctl.inbox)
      /\ ctl.inbox = <<>> <=> Len(ctl.inbox) = 0
  BY SeqFacts
<1>2. Waiting(topic) \in SUBSET Nat /\ 0 \notin Waiting(topic)
  BY <1>1 DEF Waiting
<1>3. /\ First(Waiting(topic)) \in Waiting(topic)
      /\ 1 \in Waiting(topic) => First(Waiting(topic)) = 1
  BY <1>2, FirstIn
<1>4. ctl.inbox # <<>> /\ 1 \in DOMAIN ctl.inbox
  BY <1>1 DEF Waiting
<1> QED BY <1>3, <1>4, Zenon DEF Waiting

(* The plan has at least one operation.                                      *)
LEMMA SomeOperation == Total \in Nat \ {0}
<1> DEFINE P == (1 .. Iterations) \X (Sizes \X Directions)
           f == [t \in P |-> [iteration |-> t[1], size |-> t[2][1],
                              direction |-> t[2][2]]]
<1>1. IsFiniteSet(Directions)
  <2>1. IsFiniteSet({} \cup {"server_to_device"}) BY FS_AddElement, FS_EmptySet
  <2>2. IsFiniteSet(({} \cup {"server_to_device"}) \cup {"device_to_server"})
    BY <2>1, FS_AddElement
  <2>3. Directions = ({} \cup {"server_to_device"}) \cup {"device_to_server"}
    BY DEF Directions
  <2> QED BY <2>2, <2>3
<1>2. IsFiniteSet(1 .. Iterations) BY PlanRoom, FS_Interval
<1>3. IsFiniteSet(P) BY <1>1, <1>2, PlanRoom, FS_Product
<1>4. f \in [P -> Operations] BY DEF Operations
<1>5. ASSUME NEW o \in Operations PROVE \E t \in P : f[t] = o
  <2> DEFINE t == <<o.iteration, <<o.size, o.direction>>>>
  <2>1. t \in P BY DEF Operations
  <2>2. f[t] = o BY <2>1 DEF Operations
  <2> QED BY <2>1, <2>2
<1>6. f \in Surjection(P, Operations) BY <1>4, <1>5 DEF Surjection
<1>7. IsFiniteSet(Operations) BY <1>3, <1>6, FS_Surjection
<1>8. Operations # {}
  <2>1. PICK s : s \in Sizes BY PlanRoom
  <2>2. 1 \in 1 .. Iterations BY PlanRoom
  <2>3. [iteration |-> 1, size |-> s, direction |-> "server_to_device"]
          \in Operations
    BY <2>1, <2>2 DEF Operations, Directions
  <2> QED BY <2>3
<1>9. Cardinality(Operations) \in Nat BY <1>7, FS_CardinalityType
<1>10. Cardinality(Operations) # 0 BY <1>7, <1>8, FS_EmptySet
<1> QED BY <1>9, <1>10 DEF Total

(* The identifier a PUBACK must carry is the one of the last publish, also   *)
(* where the counter wraps.                                                  *)
LEMMA IdBack ==
    ASSUME NEW x \in 1 .. (IdSpace - 1)
    PROVE  (((x + 1) % IdSpace) - 1) % IdSpace = x
<1>1. /\ \A n \in Nat : 0 < n => n % n = 0 /\ (0 - 1) % n = n - 1
      /\ \A n \in Nat, a \in Nat : a < n => a % n = a
  <2>1. \A n \in Nat : 0 < n => n % n = 0 OBVIOUS
  <2>2. \A n \in Nat : 0 < n => (0 - 1) % n = n - 1 OBVIOUS
  <2>3. \A n \in Nat, a \in Nat : a < n => a % n = a OBVIOUS
  <2> QED BY <2>1, <2>2, <2>3
<1>2. IdSpace \in Nat /\ 0 < IdSpace /\ x \in Nat /\ x < IdSpace
  BY IdRoom
<1>3. CASE x + 1 < IdSpace
  <2>1. (x + 1) % IdSpace = x + 1 BY <1>1, <1>2, <1>3
  <2>2. x + 1 - 1 = x /\ x % IdSpace = x BY <1>1, <1>2
  <2> QED BY <2>1, <2>2
<1>4. CASE x + 1 = IdSpace
  <2>1. (x + 1) % IdSpace = 0 BY <1>1, <1>2, <1>4
  <2>2. (0 - 1) % IdSpace = IdSpace - 1 BY <1>1, <1>2
  <2>3. IdSpace - 1 = x BY <1>2, <1>4
  <2> QED BY <2>1, <2>2, <2>3
<1> QED BY <1>2, <1>3, <1>4

(* Packets that are an item or a message, and what being one says.           *)
LEMMA ItemKept ==
    ASSUME NEW pl, NEW m \in Nat, NEW n \in Nat, m <= n, NEW f, NEW g,
           f # {} => g # {}, NEW j, NEW p, Item(pl, m, f, j, p)
    PROVE  Item(pl, n, g, j, p)
BY DEF Item

LEMMA MsgKept ==
    ASSUME NEW pl, NEW f, NEW g, f # {} => g # {}, NEW j, NEW p,
           Msg(pl, f, j, p)
    PROVE  Msg(pl, g, j, p)
BY DEF Msg

LEMMA FitsAltered ==
    ASSUME NEW to, NEW pl, NEW m \in Nat, NEW f, NEW g, g # {}, NEW j, NEW p,
           Fits(to, pl, m, f, j, p)
    PROVE  Fits(to, pl, m, g, j, [p EXCEPT !.ok = FALSE])
<1> DEFINE q == [p EXCEPT !.ok = FALSE]
<1>1. DOMAIN p = PubFields BY DEF Fits, Item, Msg
<1>2. /\ DOMAIN q = PubFields /\ q.t = p.t /\ q.topic = p.topic
      /\ q.what = p.what /\ q.seq = p.seq /\ q.payload = p.payload
      /\ q.ok = FALSE
  BY <1>1 DEF PubFields
<1> HIDE DEF q
<1>3. CASE to = "device" BY <1>2, <1>3 DEF Fits, Item
<1>4. CASE to # "device" BY <1>2, <1>4 DEF Fits, Msg
<1> QED BY <1>3, <1>4 DEF q

(* Runs of numbered packets under the operations on a queue.                 *)
LEMMA RunKept ==
    ASSUME NEW pl, NEW m \in Nat, NEW n \in Nat, m <= n, NEW f, NEW g,
           f # {} => g # {}
    PROVE  \A to, q, a, x : Run(to, pl, m, f, q, a, x) => Run(to, pl, n, g, q, a, x)
BY ItemKept, MsgKept DEF Run, Fits

LEMMA RunNone ==
    ASSUME NEW to, NEW pl, NEW m, NEW f, NEW a, NEW x
    PROVE  Run(to, pl, m, f, <<>>, a, x)
BY SeqEmpty DEF Run

LEMMA RunAck ==
    ASSUME NEW to, NEW pl, NEW m, NEW f, NEW x, NEW q, DOMAIN q = {1}
    PROVE  Run(to, pl, m, f, q, 1, x)
BY DEF Run

LEMMA RunTail ==
    ASSUME NEW to, NEW pl, NEW m, NEW f, NEW q, IsSeq(q), q # <<>>,
           NEW a \in {0, 1}, NEW x \in Nat, Run(to, pl, m, f, q, a, x)
    PROVE  /\ Run(to, pl, m, f, Tail(q), 0, x + 1 - a)
           /\ a = 0 => Fits(to, pl, m, f, x, q[1])
<1>1. /\ DOMAIN Tail(q) = 1 .. (Len(q) - 1) /\ 1 \in DOMAIN q
      /\ \A i \in 1 .. (Len(q) - 1) : Tail(q)[i] = q[i + 1]
      /\ Len(q) \in Nat /\ DOMAIN q = 1 .. Len(q)
  BY SeqTail, SeqFacts
<1>2. ASSUME NEW j \in DOMAIN Tail(q)
      PROVE  Fits(to, pl, m, f, (x + 1 - a) + j - 0 - 1, Tail(q)[j])
  <2>1. j \in Nat /\ j + 1 \in DOMAIN q /\ j + 1 > a BY <1>1
  <2>2. Tail(q)[j] = q[j + 1] BY <1>1
  <2>3. (x + 1 - a) + j - 0 - 1 = x + (j + 1) - a - 1 BY <2>1
  <2>4. Fits(to, pl, m, f, x + (j + 1) - a - 1, q[j + 1])
    BY <2>1, Zenon DEF Run
  <2> QED BY <2>2, <2>3, <2>4
<1>3. a = 0 => Fits(to, pl, m, f, x, q[1])
  <2>1. a = 0 => 1 > a /\ x + 1 - a - 1 = x OBVIOUS
  <2>2. 1 > a => Fits(to, pl, m, f, x + 1 - a - 1, q[1])
    BY <1>1, Zenon DEF Run
  <2> QED BY <2>1, <2>2
<1> QED BY <1>2, <1>3, Zenon DEF Run

LEMMA RunAppend ==
    ASSUME NEW to, NEW pl, NEW m, NEW f, NEW q, IsSeq(q),
           NEW a \in {0, 1}, NEW x \in Nat, Run(to, pl, m, f, q, a, x),
           NEW p, a <= Len(q), Fits(to, pl, m, f, x + Len(q) - a, p)
    PROVE  Run(to, pl, m, f, Append(q, p), a, x)
<1> DEFINE r == Append(q, p)
<1>1. /\ DOMAIN r = 1 .. (Len(q) + 1) /\ r[Len(q) + 1] = p
      /\ \A i \in 1 .. Len(q) : r[i] = q[i]
      /\ Len(q) \in Nat /\ DOMAIN q = 1 .. Len(q)
  BY SeqAppend, SeqFacts
<1> HIDE DEF r
<1>2. ASSUME NEW j \in DOMAIN r, j > a
      PROVE  Fits(to, pl, m, f, x + j - a - 1, r[j])
  <2>1. CASE j \in 1 .. Len(q) BY <1>1, <1>2, <2>1 DEF Run
  <2>2. CASE j = Len(q) + 1
    <3>1. x + j - a - 1 = x + Len(q) - a BY <1>1, <2>2
    <3> QED BY <1>1, <2>2, <3>1
  <2> QED BY <1>1, <2>1, <2>2
<1> QED BY <1>2, Zenon DEF Run, r

(* One packet of a queue is marked bad.                                      *)
LEMMA SeqAltered ==
    ASSUME NEW q, IsSeq(q), NEW i \in DOMAIN q
    PROVE  LET r == [q EXCEPT ![i].ok = FALSE] IN
           /\ IsSeq(r) /\ Len(r) = Len(q) /\ DOMAIN r = DOMAIN q
           /\ \A j \in DOMAIN q :
                r[j] = IF j = i THEN [q[i] EXCEPT !.ok = FALSE] ELSE q[j]
<1>1. PICK S : q \in Seq(S) BY DEF IsSeq
<1> DEFINE e == [q[i] EXCEPT !.ok = FALSE]
           r == [q EXCEPT ![i] = e]
<1> HIDE DEF e
<1>2. /\ Len(q) \in Nat /\ DOMAIN q = 1 .. Len(q)
      /\ q \in [1 .. Len(q) -> S]
  BY <1>1
<1>3. r \in [1 .. Len(q) -> S \cup {e}] BY <1>2
<1>4. r \in Seq(S \cup {e}) /\ Len(r) = Len(q) BY <1>2, <1>3
<1>5. \A j \in DOMAIN q : r[j] = IF j = i THEN e ELSE q[j] BY <1>2
<1> QED BY <1>2, <1>3, <1>4, <1>5 DEF IsSeq, e

LEMMA RunAltered ==
    ASSUME NEW to, NEW pl, NEW m \in Nat, NEW f, NEW g, g # {}, NEW q, IsSeq(q),
           NEW a, NEW x, NEW i \in DOMAIN q, Run(to, pl, m, f, q, a, x)
    PROVE  Run(to, pl, m, g, [q EXCEPT ![i].ok = FALSE], a, x)
<1> DEFINE r == [q EXCEPT ![i].ok = FALSE]
<1>1. /\ DOMAIN r = DOMAIN q
      /\ \A j \in DOMAIN q :
           r[j] = IF j = i THEN [q[i] EXCEPT !.ok = FALSE] ELSE q[j]
  BY SeqAltered
<1>2. Run(to, pl, m, g, q, a, x) BY RunKept
<1> HIDE DEF r
<1>3. ASSUME NEW j \in DOMAIN r, j > a
      PROVE  Fits(to, pl, m, g, x + j - a - 1, r[j])
  <2>1. Fits(to, pl, m, g, x + j - a - 1, q[j]) BY <1>1, <1>2, <1>3 DEF Run
  <2>2. CASE j = i BY <1>1, <2>1, <2>2, FitsAltered
  <2>3. CASE j # i BY <1>1, <2>1, <2>3
  <2> QED BY <2>2, <2>3
<1> QED BY <1>3, Zenon DEF Run, r

(* What the messages claim stays true as payloads arrive and the device goes *)
(* on, and under the operations on a queue.                                  *)
LEMMA SoundKept ==
    ASSUME NEW m \in Nat, NEW n \in Nat, m <= n, NEW k \in Nat, NEW l \in Nat,
           k <= l, NEW q
    PROVE  /\ SoundUp(m, k, q) => SoundUp(n, l, q)
           /\ SoundRx(m, k, q) => SoundRx(n, l, q)
           /\ SoundBox(m, k, q) => SoundBox(n, l, q)
<1>1. ASSUME NEW p, Sound(m, k, p) PROVE Sound(n, l, p)
  BY <1>1 DEF Sound
<1> QED BY <1>1 DEF SoundUp, SoundRx, SoundBox

LEMMA SoundNone ==
    ASSUME NEW m, NEW k
    PROVE  SoundUp(m, k, <<>>) /\ SoundRx(m, k, <<>>) /\ SoundBox(m, k, <<>>)
BY SeqEmpty DEF SoundUp, SoundRx, SoundBox

LEMMA SoundAppend ==
    ASSUME NEW m, NEW k, NEW q, IsSeq(q), NEW e
    PROVE  /\ SoundUp(m, k, q) /\ (e.t = "PUBLISH" => Sound(m, k, e.pub)) =>
                SoundUp(m, k, Append(q, e))
           /\ SoundRx(m, k, q) /\ (e.t = "PUBLISH" => Sound(m, k, e)) =>
                SoundRx(m, k, Append(q, e))
           /\ SoundBox(m, k, q) /\ Sound(m, k, e) => SoundBox(m, k, Append(q, e))
<1> DEFINE r == Append(q, e)
<1>1. /\ DOMAIN r = 1 .. (Len(q) + 1) /\ r[Len(q) + 1] = e
      /\ \A i \in 1 .. Len(q) : r[i] = q[i]
      /\ Len(q) \in Nat /\ DOMAIN q = 1 .. Len(q)
  BY SeqAppend, SeqFacts
<1>2. \A j \in DOMAIN r : (j \in DOMAIN q /\ r[j] = q[j]) \/ r[j] = e
  BY <1>1
<1> HIDE DEF r
<1> QED BY <1>2 DEF SoundUp, SoundRx, SoundBox, r

LEMMA SoundTail ==
    ASSUME NEW m, NEW k, NEW q, IsSeq(q), q # <<>>
    PROVE  /\ SoundUp(m, k, q) =>
                /\ SoundUp(m, k, Tail(q))
                /\ Head(q).t = "PUBLISH" => Sound(m, k, Head(q).pub)
           /\ SoundRx(m, k, q) =>
                /\ SoundRx(m, k, Tail(q))
                /\ Head(q).t = "PUBLISH" => Sound(m, k, Head(q))
<1> DEFINE r == Tail(q)  h == Head(q)
<1>1. /\ DOMAIN r = 1 .. (Len(q) - 1) /\ h = q[1] /\ 1 \in DOMAIN q
      /\ \A i \in 1 .. (Len(q) - 1) : r[i] = q[i + 1]
      /\ Len(q) \in Nat /\ DOMAIN q = 1 .. Len(q)
  BY SeqTail, SeqFacts
<1>2. \A j \in DOMAIN r : \E i \in DOMAIN q : r[j] = q[i]
  <2> SUFFICES ASSUME NEW j \in DOMAIN r PROVE \E i \in DOMAIN q : r[j] = q[i]
    OBVIOUS
  <2>1. j + 1 \in DOMAIN q BY <1>1
  <2> QED BY <1>1, <2>1
<1> HIDE DEF r, h
<1>3. SoundUp(m, k, q) =>
        SoundUp(m, k, r) /\ (h.t = "PUBLISH" => Sound(m, k, h.pub))
  BY <1>1, <1>2 DEF SoundUp
<1>4. SoundRx(m, k, q) =>
        SoundRx(m, k, r) /\ (h.t = "PUBLISH" => Sound(m, k, h))
  BY <1>1, <1>2 DEF SoundRx
<1> QED BY <1>3, <1>4 DEF r, h

LEMMA SoundRemove ==
    ASSUME NEW m, NEW k, NEW q, IsSeq(q), NEW i \in DOMAIN q, SoundBox(m, k, q)
    PROVE  SoundBox(m, k, RemoveAt(q, i)) /\ Sound(m, k, q[i])
<1> DEFINE r == RemoveAt(q, i)
<1>1. \A j \in DOMAIN r : \E l \in DOMAIN q : r[j] = q[l] BY SeqRemove
<1> HIDE DEF r
<1> QED BY <1>1 DEF SoundBox, r

LEMMA SoundAltered ==
    ASSUME NEW m, NEW k, NEW q, IsSeq(q), NEW i \in DOMAIN q,
           q[i].t = "PUBLISH", SoundRx(m, k, q)
    PROVE  SoundRx(m, k, [q EXCEPT ![i].ok = FALSE])
<1> DEFINE r == [q EXCEPT ![i].ok = FALSE]  e == [q[i] EXCEPT !.ok = FALSE]
<1>1. /\ DOMAIN r = DOMAIN q
      /\ \A j \in DOMAIN q : r[j] = IF j = i THEN e ELSE q[j]
  BY SeqAltered
<1>2. Sound(m, k, q[i]) BY DEF SoundRx
<1>3. /\ DOMAIN e = PubFields /\ e.t = "PUBLISH" /\ e.topic = q[i].topic
      /\ e.seq = q[i].seq /\ e.payload = q[i].payload /\ e.ok = FALSE
  BY <1>2 DEF PubFields, Sound
<1> HIDE DEF r, e
<1>4. Sound(m, k, e) BY <1>2, <1>3 DEF Sound
<1> QED BY <1>1, <1>4 DEF SoundRx, r

-----------------------------------------------------------------------------
(* The stream positions are numbers.                                         *)
LEMMA Numbers ==
    ASSUME Types, Counter
    PROVE  /\ Received \in Nat /\ Published \in Nat /\ Consumed \in Nat
           /\ Issued \in Nat /\ Allowed \in Nat /\ Delivered \in Int
           /\ DownAck \in {0, 1} /\ RxAck \in {0, 1} /\ TxItem \in {0, 1}
           /\ Len(up) \in Nat /\ Len(down) \in Nat /\ Len(tx) \in Nat
           /\ Len(rx) \in Nat /\ Len(ctl.inbox) \in Nat
           /\ Sent \in Int /\ Arrived \in Int
<1>1. ctl.k \in Nat /\ dev.k \in Nat BY DEF Types, Counter
<1>2. /\ Len(up) \in Nat /\ Len(down) \in Nat /\ Len(tx) \in Nat
      /\ Len(rx) \in Nat /\ Len(ctl.inbox) \in Nat
  BY SeqFacts DEF Types
<1>3. Received \in Nat /\ Published \in Nat BY <1>1 DEF Received, Published
<1>4. Consumed \in Nat /\ Issued \in Nat BY <1>1 DEF Consumed, Issued
<1>5. Allowed \in Nat BY <1>1, SomeOperation DEF Allowed, Ahead
<1>6. Delivered \in Int BY <1>3 DEF Delivered
<1>7. DownAck \in {0, 1} /\ RxAck \in {0, 1} /\ TxItem \in {0, 1}
  BY DEF DownAck, RxAck, TxItem
<1>8. Sent \in Int /\ Arrived \in Int BY <1>2, <1>3, <1>4, <1>7 DEF Sent, Arrived
<1> QED BY <1>2, <1>3, <1>4, <1>5, <1>6, <1>7, <1>8

(* The device is reading: what it reads is the acknowledgement it waits for, *)
(* or the next item.                                                         *)
LEMMA DeviceMeets ==
    ASSUME Types, Counter, ToDevice, Live, down # <<>>
    PROVE  /\ up = <<>> /\ Head(down) = down[1]
           /\ DevAwaits => /\ DownAck = 1 /\ down[1].id = LastId
                           /\ down[1].t = IF dev.pc = "suback" THEN "SUBACK"
                                          ELSE "PUBACK"
           /\ ~DevAwaits =>
                DownAck = 0 /\ Item(plan, moved, faults, Received, down[1])
<1>1. up = <<>> BY DEF ToDevice
<1>2. IsSeq(down) BY DEF Types
<1>3. Head(down) = down[1] BY <1>2, SeqTail
<1>4. DevAwaits => DownAck = 1 BY <1>1 DEF DownAck
<1>5. ~DevAwaits => DownAck = 0 BY DEF DownAck
<1>6. Run("device", plan, moved, faults, down, DownAck, Received)
  BY DEF ToDevice
<1>7. Received \in Nat /\ DownAck \in {0, 1} BY Numbers
<1>8. DownAck = 0 => Fits("device", plan, moved, faults, Received, down[1])
  BY <1>2, <1>6, <1>7, RunTail
<1> QED BY <1>1, <1>3, <1>4, <1>5, <1>8 DEF ToDevice, Fits

(* It reads a packet and publishes nothing.                                  *)
LEMMA DeviceTakes ==
    ASSUME Types, Counter, ToDevice, ToController, Live, down # <<>>,
           down' = Tail(down), up' = up,
           UNCHANGED <<plan, ctl, tx, rx, link, csub, dsub, moved, faults>>,
           Types', Live', ~DevAwaits', dev.pc # "start",
           dev'.pc \notin {"start", "suback"},
           Received' = Received + 1 - DownAck, Published' = Published,
           Allowed' = Allowed
    PROVE  ToDevice' /\ ToController'
<1>1. up = <<>> BY DeviceMeets
<1>2. /\ Received \in Nat /\ Issued \in Nat /\ Allowed \in Nat
      /\ DownAck \in {0, 1} /\ TxItem \in {0, 1} /\ Len(down) \in Nat
      /\ Sent \in Int
  BY Numbers
<1>3. /\ DownAck' = 0 /\ TxItem' = TxItem /\ RxAck' = RxAck
      /\ Issued' = Issued /\ Consumed' = Consumed /\ Active' = Active
      /\ CtlAwaits' = CtlAwaits
  BY DEF DownAck, TxItem, RxAck, Issued, Consumed, Active, CtlAwaits
<1>4. Len(down') = Len(down) - 1 /\ Len(down') \in Nat
  BY SeqTail, SeqFacts DEF Types
<1>5. Sent' = Sent BY <1>2, <1>3, <1>4 DEF Sent
<1>6. Run("device", plan, moved, faults, down', 0, Received')
  <2>1. Run("device", plan, moved, faults, down, DownAck, Received) BY DEF ToDevice
  <2> QED BY <1>2, <2>1, RunTail DEF Types
<1>7. dsub BY <1>1 DEF ToDevice
<1>8. ToDevice' BY <1>1, <1>3, <1>5, <1>6, <1>7 DEF ToDevice
<1>9. Received' <= Issued' \/ ~Active
  <2>1. Received' <= Sent' BY <1>2, <1>3, <1>4 DEF Sent
  <2>2. Active => Sent + TxItem = Issued BY DEF ToDevice, Active
  <2> QED BY <1>2, <1>3, <1>5, <2>1, <2>2
<1>10. Delivered' = Delivered /\ Arrived' = Arrived
  BY <1>1, <1>3 DEF Delivered, Arrived
<1>11. ToController' BY <1>3, <1>9, <1>10 DEF ToController, Fine
<1> QED BY <1>8, <1>11

(* It reads the only packet there is and publishes a message.                *)
LEMMA DeviceAnswers ==
    ASSUME Types, Counter, ToDevice, ToController, Live, down # <<>>,
           NEW p, down' = Tail(down), up' = Append(up, Request(dev.id, p)),
           UNCHANGED <<plan, ctl, tx, rx, link, csub, dsub, faults>>,
           Types', moved <= moved', Live', DevAwaits',
           dev.pc # "start", dev'.pc # "suback",
           LastId' = dev.id, Msg(plan, faults, Published, p),
           Received' = Received + 1 - DownAck, Published' = Published + 1,
           Allowed = Received', Allowed' = Received'
    PROVE  ToDevice' /\ ToController'
<1>1. up = <<>> BY DeviceMeets
<1>2. /\ Received \in Nat /\ Published \in Nat /\ Issued \in Nat
      /\ Allowed \in Nat /\ DownAck \in {0, 1} /\ TxItem \in {0, 1}
      /\ Len(down) \in Nat /\ Sent \in Int /\ moved \in Nat /\ moved' \in Nat
  BY Numbers DEF Types
<1>3. /\ up' # <<>> /\ Len(up') = 1 /\ up'[1] = Request(dev.id, p)
  BY <1>1, SeqOne
<1>4. /\ up'[1].id = dev.id /\ up'[1].t = "PUBLISH" /\ up'[1].pub = p
  BY <1>3 DEF Request
<1>5. /\ DownAck' = 0 /\ TxItem' = TxItem /\ RxAck' = RxAck
      /\ Issued' = Issued /\ Consumed' = Consumed /\ Active' = Active
      /\ CtlAwaits' = CtlAwaits
  BY <1>3 DEF DownAck, TxItem, RxAck, Issued, Consumed, Active, CtlAwaits
<1>6. down' = <<>> /\ Len(down') = 0 /\ Len(down) = 1
  <2>1. Sent <= Allowed BY <1>2 DEF ToDevice
  <2>2. Len(down) <= 1 BY <1>2, <2>1 DEF Sent
  <2>3. Len(down) # 0 BY SeqFacts DEF Types
  <2>4. \A n \in Nat : n <= 1 /\ n # 0 => n = 1 OBVIOUS
  <2>5. Len(down) = 1 BY <1>2, <2>2, <2>3, <2>4, Zenon
  <2> QED BY <2>5, SeqTail, SeqEmpty DEF Types
<1>7. Sent' = Sent /\ Sent' = Received' BY <1>2, <1>5, <1>6 DEF Sent
<1>8. Sent + TxItem <= Sent'
  BY <1>2, <1>7 DEF ToDevice
<1>9. Run("device", plan, moved', faults, down', 0, Received')
  BY <1>6, RunNone
<1>10. dsub BY <1>1 DEF ToDevice
<1>11. TxItem = 0 BY <1>2, <1>7, <1>8
<1>12. Published' - 1 = Published BY <1>2
<1>13. ToDevice'
  BY <1>2, <1>3, <1>4, <1>5, <1>6, <1>7, <1>9, <1>10, <1>11, <1>12 DEF ToDevice
<1>14. Received' <= Issued' \/ ~Active
  <2>1. Active => Sent + TxItem = Issued BY DEF ToDevice, Active
  <2> QED BY <1>2, <1>5, <1>7, <1>11, <2>1
<1>15. Delivered' = Delivered /\ Arrived' = Arrived
  BY <1>1, <1>2, <1>3, <1>5 DEF Delivered, Arrived
<1>16. \A to, q, a, x : Run(to, plan, moved, faults, q, a, x) =>
                        Run(to, plan, moved', faults, q, a, x)
  BY <1>2, RunKept
<1>17. ToController' BY <1>5, <1>14, <1>15, <1>16 DEF ToController, Fine
<1> QED BY <1>13, <1>17

(* The controller is reading: what it reads is the answer it waits for, or   *)
(* the next message.                                                         *)
LEMMA ControllerMeets ==
    ASSUME Types, Counter, ToController, Fine, Active, rx # <<>>
    PROVE  /\ tx = <<>> /\ Head(rx) = rx[1]
           /\ CtlAwaits => /\ RxAck = 1 /\ rx[1].id = ctl.id
                           /\ rx[1].t = IF ctl.pc = "suback" THEN "SUBACK"
                                        ELSE "PUBACK"
           /\ ~CtlAwaits =>
                /\ RxAck = 0
                /\ Msg(plan, faults, Consumed + Len(ctl.inbox), rx[1])
<1>1. tx = <<>> BY DEF ToController
<1>2. IsSeq(rx) BY DEF Types
<1>3. Head(rx) = rx[1] BY <1>2, SeqTail
<1>4. CtlAwaits => RxAck = 1 BY <1>1 DEF RxAck
<1>5. ~CtlAwaits => RxAck = 0 BY DEF RxAck
<1>6. Run("controller", plan, moved, faults, rx, RxAck, Consumed + Len(ctl.inbox))
  BY DEF ToController
<1>7. Consumed + Len(ctl.inbox) \in Nat /\ RxAck \in {0, 1} BY Numbers
<1>8. RxAck = 0 => Fits("controller", plan, moved, faults,
                        Consumed + Len(ctl.inbox), rx[1])
  BY <1>2, <1>6, <1>7, RunTail
<1> QED BY <1>1, <1>3, <1>4, <1>5, <1>8 DEF ToController, Fits

(* The oldest message it keeps.                                              *)
LEMMA ControllerKeeps ==
    ASSUME Types, Counter, ToController, Fine, Active, ctl.inbox # <<>>
    PROVE  /\ ~CtlAwaits /\ RxAck = 0 /\ tx = <<>>
           /\ Msg(plan, faults, Consumed, ctl.inbox[1])
<1>1. ~CtlAwaits /\ tx = <<>> BY DEF ToController
<1>2. IsSeq(ctl.inbox) BY DEF Types
<1>3. Run("controller", plan, moved, faults, ctl.inbox, 0, Consumed)
  BY DEF ToController
<1>4. Consumed \in Nat BY Numbers
<1>5. Fits("controller", plan, moved, faults, Consumed, ctl.inbox[1])
  BY <1>2, <1>3, <1>4, RunTail
<1> QED BY <1>1, <1>5 DEF RxAck, Fits

(* It reads the answer to its request and issues nothing.                    *)
LEMMA ControllerTakes ==
    ASSUME Types, Counter, ToDevice, ToController, rx # <<>>, CtlAwaits,
           rx' = Tail(rx),
           UNCHANGED <<plan, dev, up, down, tx, link, csub, dsub, moved, faults>>,
           ctl'.k = ctl.k, ctl'.inbox = ctl.inbox, Types', ~CtlAwaits', Active',
           ctl'.pc # "start", Issued' = Issued, Consumed' = Consumed
    PROVE  ToDevice' /\ ToController'
<1>1. /\ Live' = Live /\ Fine' = Fine /\ Active /\ ctl.pc # "failed"
      /\ DevAwaits' = DevAwaits /\ DownAck' = DownAck /\ Received' = Received
      /\ Published' = Published /\ Delivered' = Delivered /\ Allowed' = Allowed
      /\ LastId' = LastId /\ TxItem' = TxItem /\ Sent' = Sent /\ RxAck' = 0
  BY DEF Live, Fine, Active, DevAwaits, DownAck, Received, Published, Delivered,
         Allowed, Ahead, IsDown, LastId, TxItem, Sent, RxAck, CtlAwaits
<1>2. ToDevice' BY <1>1 DEF ToDevice
<1>3. ASSUME Fine PROVE ToController'
  <2>1. tx = <<>> /\ RxAck = 1 BY <1>1, <1>3, ControllerMeets
  <2>2. Consumed \in Nat /\ Len(ctl.inbox) \in Nat /\ Len(rx) \in Nat BY Numbers
  <2>3. /\ Len(rx') = Len(rx) - 1
        /\ Run("controller", plan, moved, faults, rx', 0, Consumed + Len(ctl.inbox))
    <3>1. Run("controller", plan, moved, faults, rx, 1, Consumed + Len(ctl.inbox))
      BY <1>1, <1>3, <2>1 DEF ToController
    <3>2. IsSeq(rx) BY DEF Types
    <3>3. Consumed + Len(ctl.inbox) \in Nat BY <2>2
    <3>4. Run("controller", plan, moved, faults, rx', 0,
              (Consumed + Len(ctl.inbox)) + 1 - 1)
      BY <3>1, <3>2, <3>3, RunTail
    <3>5. (Consumed + Len(ctl.inbox)) + 1 - 1 = Consumed + Len(ctl.inbox)
      BY <3>3
    <3> QED BY <3>2, <3>4, <3>5, SeqTail
  <2>4. Arrived' = Arrived BY <1>1, <2>1, <2>2, <2>3 DEF Arrived
  <2>5. ctl.inbox = <<>> /\ csub
    BY <1>1, <1>3, <2>1 DEF ToController, CtlAwaits
  <2> QED BY <1>1, <1>3, <2>1, <2>3, <2>4, <2>5 DEF ToController, CtlAwaits
<1>4. ASSUME ~Fine PROVE ToController' BY <1>1, <1>4 DEF ToController
<1> QED BY <1>2, <1>3, <1>4

(* Nothing is left for it to read, and it issues an item.                    *)
LEMMA ControllerIssues ==
    ASSUME Types, Counter, ToDevice, ToController, Active, Types',
           UNCHANGED <<plan, dev, up, down, link, csub, dsub, faults>>,
           moved <= moved', NEW p,
           tx' = Append(tx, Request(ctl'.id, p)),
           Fine => /\ tx = <<>> /\ rx' = <<>> /\ ctl'.inbox = <<>> /\ csub
                   /\ Item(plan, moved', faults, Issued, p)
                   /\ Consumed' = Delivered /\ Issued' = Issued + 1,
           CtlAwaits', ctl'.pc # "suback",
           Live => Issued + 1 <= Allowed /\ Issued + 1 <= 2 * ctl'.k + 3
    PROVE  ToDevice' /\ ToController'
<1>1. /\ Live' = Live /\ Fine' = Fine /\ ctl.pc # "failed"
      /\ DevAwaits' = DevAwaits /\ DownAck' = DownAck /\ Received' = Received
      /\ Published' = Published /\ Delivered' = Delivered /\ Allowed' = Allowed
      /\ LastId' = LastId /\ Sent' = Sent
  BY DEF Live, Fine, Active, DevAwaits, DownAck, Received, Published, Delivered,
         Allowed, Ahead, IsDown, LastId, Sent
<1>2. /\ Received \in Nat /\ Issued \in Nat /\ Sent \in Int /\ Delivered \in Int
      /\ moved \in Nat /\ moved' \in Nat
  BY Numbers DEF Types
<1>3. \A to, q, a, x : Run(to, plan, moved, faults, q, a, x) =>
                       Run(to, plan, moved', faults, q, a, x)
  BY <1>2, RunKept
<1>4. ASSUME Fine
      PROVE  /\ tx' # <<>> /\ Len(tx') = 1 /\ tx'[1].id = ctl'.id
             /\ tx'[1].t = "PUBLISH" /\ tx'[1].pub = p
             /\ TxItem = 0 /\ TxItem' = 1 /\ RxAck' = 0
  <2>1. tx' # <<>> /\ Len(tx') = 1 /\ tx'[1] = Request(ctl'.id, p)
    BY <1>4, SeqOne
  <2> QED BY <1>4, <2>1 DEF Request, TxItem, RxAck
<1>5. ToDevice'
  <2> SUFFICES ASSUME Live PROVE ToDevice' BY <1>1 DEF ToDevice
  <2>1. Fine BY DEF Fine
  <2>2. Sent = Issued
    <3>1. Sent + TxItem = Issued BY <1>1 DEF ToDevice
    <3> QED BY <1>2, <1>4, <2>1, <3>1
  <2>3. Item(plan, moved', faults, Sent', tx'[1].pub) BY <1>1, <1>4, <2>1, <2>2
  <2>4. /\ Sent' + TxItem' <= Allowed' /\ Sent' + TxItem' <= 2 * ctl'.k + 3
        /\ Sent' + TxItem' = Issued'
    BY <1>1, <1>2, <1>4, <2>1, <2>2
  <2>5. Len(tx') <= 1 BY <1>4, <2>1
  <2>6. Run("device", plan, moved', faults, down, DownAck, Received)
    BY <1>3 DEF ToDevice
  <2> QED BY <1>1, <2>3, <2>4, <2>5, <2>6 DEF ToDevice
<1>6. ToController'
  <2> SUFFICES ASSUME Fine PROVE ToController' BY <1>1 DEF ToController
  <2>1. Arrived' = Delivered'
    BY <1>1, <1>2, <1>4, SeqEmpty DEF Arrived
  <2>2. Received' <= Issued' BY <1>1, <1>2 DEF ToController
  <2>3. Run("controller", plan, moved', faults, <<>>, 0, Consumed') BY RunNone
  <2>4. Run("controller", plan, moved', faults, <<>>, RxAck',
            Consumed' + Len(ctl'.inbox))
    BY RunNone
  <2> QED BY <1>1, <1>4, <2>1, <2>2, <2>3, <2>4 DEF ToController, CtlAwaits
<1> QED BY <1>5, <1>6

-----------------------------------------------------------------------------
(* What the broker can have of the device's messages when the device has     *)
(* read so many items, and how far the controller may then go: at each place *)
(* where the controller issues an item.                                      *)
LEMMA BeginRoom ==
    ASSUME Types, Counter, DevPoint, Received <= 0
    PROVE  Delivered <= 1 /\ (Delivered = 1 => 1 <= Allowed)
<1>1. dev.k \in Nat /\ dev.pc \in DevPoints BY DEF Types, Counter
<1>2. dev.pc \in {"start", "suback", "readyack", "begin"} /\ dev.k = 0
  BY <1>1 DEF Received, DevPoints, DevPoint
<1> QED BY <1>1, <1>2, SomeOperation
        DEF Delivered, Published, Allowed, Ahead

LEMMA CommandRoom ==
    ASSUME Types, Counter, DevPoint, Received <= 1
    PROVE  Delivered <= 1 /\ (Delivered = 1 => 2 <= Allowed)
<1>1. dev.k \in Nat /\ dev.pc \in DevPoints BY DEF Types, Counter
<1>2. dev.pc \notin {"data", "dataack", "downack", "ackup"}
  BY <1>1 DEF Received
<1>3. dev.k = 0
  <2>1. CASE dev.pc \in {"start", "suback", "readyack", "begin"}
    BY <2>1 DEF DevPoint
  <2>2. CASE dev.pc \notin {"start", "suback", "readyack", "begin"}
    BY <1>1, <1>2, <2>2 DEF Received
  <2> QED BY <2>1, <2>2
<1> QED BY <1>1, <1>2, <1>3, SomeOperation
        DEF Delivered, Published, Allowed, Ahead

LEMMA PayloadRoom ==
    ASSUME Types, Counter, DevPoint, NEW c \in Nat, c < Total, IsDown(c + 1),
           Received <= 2 * c + 2
    PROVE  /\ Delivered <= 2 * c + 1
           /\ Delivered = 2 * c + 1 => 2 * c + 3 <= Allowed
<1>1. dev.k \in Nat /\ dev.pc \in DevPoints BY DEF Types, Counter
<1>2. CASE dev.pc \in {"start", "suback", "readyack", "begin"}
  <2>1. dev.k = 0 BY <1>2 DEF DevPoint
  <2>2. CASE c = 0
    BY <1>2, <2>1, <2>2, SomeOperation DEF Delivered, Published, Allowed, Ahead
  <2>3. CASE c > 0 BY <1>2, <2>1, <2>3 DEF Delivered, Published
  <2> QED BY <2>2, <2>3
<1>3. CASE dev.pc \in {"dataack", "ackup", "downack"}
  <2>1. dev.k <= c BY <1>1, <1>3 DEF Received
  <2>2. dev.k # c BY <1>1, <1>3 DEF Received, DevPoint
  <2> QED BY <1>1, <1>3, <2>1, <2>2 DEF Delivered, Published
<1>4. CASE dev.pc \notin {"start", "suback", "readyack", "begin", "dataack",
                          "ackup", "downack"}
  <2>1. dev.k <= c BY <1>1, <1>4 DEF Received, DevPoints
  <2>2. CASE dev.k = c
    BY <1>1, <1>4, <2>2, SomeOperation
       DEF Delivered, Published, Allowed, Ahead
  <2>3. CASE dev.k < c BY <1>1, <1>4, <2>3 DEF Delivered, Published
  <2> QED BY <1>1, <2>1, <2>2, <2>3
<1> QED BY <1>2, <1>3, <1>4

LEMMA AckUpRoom ==
    ASSUME Types, Counter, DevPoint, NEW c \in Nat, Received <= 2 * c + 2
    PROVE  /\ Delivered <= 2 * c + 2
           /\ Delivered = 2 * c + 2 =>
                /\ 2 * c + 3 <= Allowed /\ dev.pc \in {"dataack", "ackup"}
<1>1. dev.k \in Nat /\ dev.pc \in DevPoints BY DEF Types, Counter
<1>2. CASE dev.pc \in {"start", "suback", "readyack", "begin"}
  BY <1>1, <1>2 DEF Received, Delivered, Published, DevPoint
<1>3. CASE dev.pc \in {"dataack", "ackup", "downack"}
  BY <1>1, <1>3 DEF Received, Delivered, Published, Allowed
<1>4. CASE dev.pc \notin {"start", "suback", "readyack", "begin", "dataack",
                          "ackup", "downack"}
  BY <1>1, <1>4 DEF Received, Delivered, Published, DevPoints
<1> QED BY <1>2, <1>3, <1>4

LEMMA NextRoom ==
    ASSUME Types, Counter, DevPoint, NEW c \in Nat, Received <= 2 * c + 3
    PROVE  /\ Delivered <= 2 * c + 3
           /\ Delivered = 2 * c + 3 =>
                dev.k = c + 1 /\ (c + 1 < Total => 2 * c + 4 <= Allowed)
<1>1. dev.k \in Nat /\ dev.pc \in DevPoints BY DEF Types, Counter
<1>2. CASE dev.pc \in {"start", "suback", "readyack", "begin"}
  BY <1>1, <1>2 DEF Received, Delivered, Published, DevPoint
<1>3. CASE dev.pc \in {"dataack", "ackup", "downack"}
  BY <1>1, <1>3 DEF Received, Delivered, Published
<1>4. CASE dev.pc \notin {"start", "suback", "readyack", "begin", "dataack",
                          "ackup", "downack"}
  <2>1. dev.k <= c + 1 BY <1>1, <1>4 DEF Received, DevPoints
  <2>2. CASE dev.k = c + 1
    BY <1>1, <1>4, <2>2, SomeOperation
       DEF Delivered, Published, Allowed, Ahead
  <2>3. CASE dev.k < c + 1 BY <1>1, <1>4, <2>3 DEF Delivered, Published
  <2> QED BY <1>1, <2>1, <2>2, <2>3
<1> QED BY <1>2, <1>3, <1>4

-----------------------------------------------------------------------------
(* The packets both programs build are the items and messages of their       *)
(* place.                                                                    *)
LEMMA MsgBuilt ==
    ASSUME NEW pl, NEW f, NEW k \in Nat, NEW what, NEW s, NEW ok \in BOOLEAN,
           ok \/ f # {}
    PROVE  /\ Msg(pl, f, 0, Pub("up", "READY", s, s, ok))
           /\ Msg(pl, f, 2 * k + 1,
                  Pub(IF ToDev(pl, k + 1) THEN "device_ack" ELSE "up", what,
                      k + 1, k + 1, ok))
           /\ Msg(pl, f, 2 * k + 2, Pub("metrics", what, s, s, ok))
<1>1. \A to, w, x : DOMAIN Pub(to, w, x, x, ok) = PubFields
  BY DEF Pub, PubFields
<1>2. \A to, w, x : LET p == Pub(to, w, x, x, ok) IN
        /\ p.t = "PUBLISH" /\ p.topic = to /\ p.what = w /\ p.seq = x
        /\ p.payload = x /\ p.ok = ok
  BY DEF Pub
<1>3. \A p : p.ok = ok => p.ok \/ f # {} OBVIOUS
<1>4. Msg(pl, f, 0, Pub("up", "READY", s, s, ok))
  BY <1>1, <1>2, <1>3 DEF Msg
<1>5. Msg(pl, f, 2 * k + 1,
          Pub(IF ToDev(pl, k + 1) THEN "device_ack" ELSE "up", what,
              k + 1, k + 1, ok))
  BY <1>1, <1>2, <1>3 DEF Msg
<1>6. Msg(pl, f, 2 * k + 2, Pub("metrics", what, s, s, ok))
  BY <1>1, <1>2, <1>3 DEF Msg
<1> QED BY <1>4, <1>5, <1>6

LEMMA ItemBuilt ==
    ASSUME NEW pl, NEW m \in Nat, NEW f, NEW k \in Nat, NEW ok \in BOOLEAN,
           ok \/ f # {}
    PROVE  /\ Item(pl, m, f, 0, Control("BEGIN", Total))
           /\ Item(pl, m, f, 2 * k + 1,
                   Control(IF ToDev(pl, k + 1) THEN "DOWN" ELSE "UP", k + 1))
           /\ ToDev(pl, k + 1) =>
                Item(pl, m, f, 2 * k + 2, Pub("down", "data", k + 1, k + 1, TRUE))
           /\ ~ToDev(pl, k + 1) /\ (ok => k < m) =>
                Item(pl, m, f, 2 * k + 2,
                     [Control("ACK_UP", k + 1) EXCEPT !.ok = ok])
<1>1. /\ \A i \in Nat : 2 * k + 1 = 2 * i + 1 => i = k
      /\ \A i \in Nat : 2 * k + 2 = 2 * i + 2 => i = k
      /\ \A i \in Nat : 2 * k + 1 # 2 * i + 2 /\ 2 * k + 2 # 2 * i + 1
      /\ 2 * k + 1 # 0 /\ 2 * k + 2 # 0
  OBVIOUS
<1>3. Item(pl, m, f, 0, Control("BEGIN", Total))
  <2>1. PICK p : p = Control("BEGIN", Total) OBVIOUS
  <2>2. /\ DOMAIN p = PubFields /\ p.t = "PUBLISH" /\ p.topic = "control"
        /\ p.what = "BEGIN" /\ p.seq = Total /\ p.ok
    BY <2>1 DEF Control, Pub, PubFields
  <2> QED BY <2>1, <2>2 DEF Item
<1>4. Item(pl, m, f, 2 * k + 1,
           Control(IF ToDev(pl, k + 1) THEN "DOWN" ELSE "UP", k + 1))
  <2>1. PICK p : p = Control(IF ToDev(pl, k + 1) THEN "DOWN" ELSE "UP", k + 1)
    OBVIOUS
  <2>2. /\ DOMAIN p = PubFields /\ p.t = "PUBLISH" /\ p.topic = "control"
        /\ p.what = IF ToDev(pl, k + 1) THEN "DOWN" ELSE "UP"
        /\ p.seq = k + 1 /\ p.ok
    BY <2>1 DEF Control, Pub, PubFields
  <2> QED BY <1>1, <2>1, <2>2 DEF Item
<1>5. ASSUME ToDev(pl, k + 1)
      PROVE  Item(pl, m, f, 2 * k + 2, Pub("down", "data", k + 1, k + 1, TRUE))
  <2>1. PICK p : p = Pub("down", "data", k + 1, k + 1, TRUE) OBVIOUS
  <2>2. /\ DOMAIN p = PubFields /\ p.t = "PUBLISH" /\ p.payload = k + 1 /\ p.ok
    BY <2>1 DEF Pub, PubFields
  <2> QED BY <1>1, <1>5, <2>1, <2>2 DEF Item
<1>6. ASSUME ~ToDev(pl, k + 1), ok => k < m
      PROVE  Item(pl, m, f, 2 * k + 2,
                  [Control("ACK_UP", k + 1) EXCEPT !.ok = ok])
  <2>1. PICK p : p = [Control("ACK_UP", k + 1) EXCEPT !.ok = ok] OBVIOUS
  <2>2. /\ DOMAIN p = PubFields /\ p.t = "PUBLISH" /\ p.what = "ACK_UP"
        /\ p.seq = k + 1 /\ p.ok = ok
    BY <2>1 DEF Control, Pub, PubFields
  <2>3. p.ok \/ f # {} BY <2>2
  <2>4. p.ok => k < m BY <1>6, <2>2
  <2> QED BY <1>1, <1>6, <2>1, <2>2, <2>3, <2>4 DEF Item
<1> QED BY <1>3, <1>4, <1>5, <1>6

(* The identifier in a request is the one its PUBACK is compared with.       *)
LEMMA LastTaken ==
    ASSUME Counter, dev'.id = TakeId,
           dev.pc \in {"start", "suback", "control", "data", "dataack",
                       "downack", "ackup"}
    PROVE  LastId' = dev.id
<1>1. dev.id \in 1 .. (IdSpace - 1)
  <2>1. PICK d \in 0 .. 3 : /\ d \in {0, 1} => dev.k = 0
                            /\ d \in {2, 3} => dev.k < dev.n
                            /\ dev.id = IdAfter(d)
    <3>1. {0, 1, 2, 3} \subseteq 0 .. 3 OBVIOUS
    <3>2. CASE dev.pc = "start" BY <3>1, <3>2 DEF Counter
    <3>3. CASE dev.pc = "suback" BY <3>1, <3>3 DEF Counter
    <3>4. CASE dev.pc \in {"control", "data"} BY <3>1, <3>4 DEF Counter
    <3>5. CASE dev.pc \in {"dataack", "downack", "ackup"}
      BY <3>1, <3>5 DEF Counter
    <3> QED BY <3>2, <3>3, <3>4, <3>5
  <2> QED BY <2>1, Room
<1> QED BY <1>1, IdBack DEF LastId, TakeId

(* A packet to read means that the link is up.                               *)
LEMMA ReadsLive ==
    ASSUME Types, down # <<>>, dev.pc # "failed",
           dev.pc = "metricsack" => dev.valid
    PROVE  Live /\ link
BY DEF Types, Live

(* The device's own queue and the claims of its messages, for any step.      *)
LEMMA DeviceSends ==
    ASSUME Types, Counter, Sounds, UNCHANGED <<ctl, tx, rx, link, dsub>>,
           dev'.pc \in DevPoints, dev'.k \in Nat, dev.k <= dev'.k,
           moved' \in Nat, moved <= moved',
           down' = down \/ (down # <<>> /\ down' = Tail(down)),
           \/ up' = up
           \/ /\ link
              /\ \E r : /\ up' = Append(up, r)
                        /\ r.t = "PUBLISH" => Sound(moved', dev'.k, r.pub)
    PROVE  Types' /\ Sounds'
<1>1. dev.k \in Nat /\ moved \in Nat BY DEF Types, Counter
<1>2. /\ SoundUp(moved', dev'.k, up) /\ SoundRx(moved', dev'.k, rx)
      /\ SoundBox(moved', dev'.k, ctl.inbox)
  BY <1>1, SoundKept DEF Sounds
<1>3. IsSeq(down') /\ (~link => down' = <<>>) BY SeqTail DEF Types
<1>4. CASE up' = up
  BY <1>2, <1>3, <1>4 DEF Types, Sounds
<1>5. CASE /\ link
           /\ \E r : /\ up' = Append(up, r)
                     /\ r.t = "PUBLISH" => Sound(moved', dev'.k, r.pub)
  <2>1. PICK r : /\ up' = Append(up, r)
                 /\ r.t = "PUBLISH" => Sound(moved', dev'.k, r.pub)
    BY <1>5
  <2>2. IsSeq(up') /\ SoundUp(moved', dev'.k, up')
    BY <1>2, <2>1, SeqAppend, SoundAppend DEF Types
  <2> QED BY <1>2, <1>3, <1>5, <2>2 DEF Types, Sounds
<1> QED BY <1>4, <1>5

-----------------------------------------------------------------------------
(* Every step of the device keeps the streams.                               *)
LEMMA SubscribeStep ==
    ASSUME Counter, RoundInv, DevSubscribe
    PROVE  RoundInv'
<1>1. /\ dev.pc = "start" /\ dev'.pc = "suback" /\ dev'.k = dev.k
      /\ dev'.op = dev.op /\ dev'.id = TakeId
      /\ DevSend(Subscribe(dev.id))
      /\ UNCHANGED <<plan, ctl, tx, rx, link, csub, dsub, down, moved, faults>>
  BY DEF DevSubscribe, DevKeeps, Counter
<1>2. /\ Types /\ Counted /\ CtlPoint /\ DevPoint /\ Sounds /\ ToDevice
      /\ ToController
  BY DEF RoundInv
<1>3. dev.k \in Nat /\ moved \in Nat /\ dev'.pc \in DevPoints
  BY <1>1, <1>2 DEF Counter, Types, DevPoints
<1>4. up' = up \/ (link /\ up' = Append(up, Subscribe(dev.id)))
  BY <1>1 DEF DevSend
<1>5. Subscribe(dev.id).t # "PUBLISH" BY DEF Subscribe
<1>6. Types' /\ Sounds' BY <1>1, <1>2, <1>3, <1>4, <1>5, DeviceSends
<1>7. Counted' /\ CtlPoint' BY <1>1, <1>2 DEF Counted, CtlPoint, IsDown
<1>8. /\ DevPoint' /\ (Live' <=> link) /\ (Live <=> link)
      /\ (Fine' <=> link) /\ (Fine <=> link) /\ (Active' <=> Active)
  BY <1>1, <1>2 DEF DevPoint, Live, Fine, Active
<1>9. CASE ~link BY <1>2, <1>6, <1>7, <1>8, <1>9 DEF RoundInv, ToDevice, ToController
<1>10. CASE link
  <2>1. /\ Received = 0 /\ Allowed = 0 /\ DownAck = 0 /\ Published = 0
        /\ Received' = 0 /\ Allowed' = 0 /\ Published' = 0
    BY <1>1 DEF Received, Allowed, DownAck, DevAwaits, Published
  <2>2. Len(down) \in Nat /\ TxItem \in {0, 1} /\ Sent \in Int BY <1>2, Numbers
  <2>3. Sent + TxItem <= 0 /\ up = <<>>
    BY <1>1, <1>2, <1>8, <1>10, <2>1 DEF ToDevice, DevAwaits
  <2>4. Sent = Len(down) BY <2>1, <2>2 DEF Sent
  <2>5. Len(down) = 0 /\ TxItem = 0 BY <2>2, <2>3, <2>4
  <2>6. down = <<>> BY <1>2, <2>5, SeqFacts DEF Types
  <2>7. /\ up' # <<>> /\ Len(up') = 1 /\ up'[1].id = dev.id
        /\ up'[1].t = "SUBSCRIBE"
    BY <1>1, <1>10, <2>3, SeqOne DEF DevSend, Subscribe
  <2>8. LastId' = dev.id BY <1>1, LastTaken
  <2>9. /\ DownAck' = 0 /\ TxItem' = TxItem /\ RxAck' = RxAck /\ DevAwaits'
        /\ Issued' = Issued /\ Consumed' = Consumed /\ CtlAwaits' = CtlAwaits
    BY <1>1, <2>7 DEF DownAck, TxItem, RxAck, Issued, Consumed, CtlAwaits,
                      DevAwaits
  <2>10. Sent' = Sent BY <1>1, <2>1, <2>9 DEF Sent
  <2>11. ToDevice'
    BY <1>1, <1>2, <1>8, <1>10, <2>1, <2>6, <2>7, <2>8, <2>9, <2>10 DEF ToDevice
  <2>12. Delivered' = Delivered /\ Arrived' = Arrived
    BY <1>1, <2>1, <2>3, <2>9 DEF Delivered, Arrived
  <2>13. ToController'
    BY <1>1, <1>2, <1>8, <1>10, <2>1, <2>9, <2>12 DEF ToController
  <2> QED BY <1>6, <1>7, <1>8, <2>11, <2>13 DEF RoundInv
<1> QED BY <1>9, <1>10

LEMMA ReadyStep ==
    ASSUME Counter, RoundInv, DevReady
    PROVE  RoundInv'
<1> DEFINE p == Pub("up", "READY", dev.op, dev.op, TRUE)
<1>1. /\ dev.pc = "suback" /\ dev'.pc = "readyack" /\ dev'.k = dev.k
      /\ dev'.id = TakeId /\ down # <<>> /\ down' = Tail(down)
      /\ DevSend(Request(dev.id, p))
      /\ UNCHANGED <<plan, ctl, tx, rx, link, csub, dsub, moved, faults>>
  BY DEF DevReady, Strict, DevKeeps, Counter, DevPublish
<1>2. /\ Types /\ Counted /\ CtlPoint /\ DevPoint /\ Sounds /\ ToDevice
      /\ ToController
  BY DEF RoundInv
<1>3. dev.k = 0 /\ dev.op = 0 /\ moved \in Nat /\ dev'.pc \in DevPoints
  BY <1>1, <1>2 DEF DevPoint, Types, DevPoints
<1>4. Live /\ link BY <1>1, <1>2, ReadsLive
<1>5. up' = Append(up, Request(dev.id, p)) BY <1>1, <1>4 DEF DevSend
<1>6. /\ Request(dev.id, p).pub = p /\ p.topic = "up" /\ p.payload = 0
      /\ DOMAIN p = PubFields
  BY <1>3 DEF Request, Pub, PubFields
<1>7. Msg(plan, faults, 0, p) BY MsgBuilt
<1> HIDE DEF p
<1>8. Sound(moved', dev'.k, p) BY <1>1, <1>3, <1>6 DEF Sound
<1>9. Types' /\ Sounds' BY <1>1, <1>2, <1>3, <1>4, <1>5, <1>6, <1>8, DeviceSends
<1>10. Counted' /\ CtlPoint' BY <1>1, <1>2 DEF Counted, CtlPoint, IsDown
<1>11. DevPoint' /\ Live' BY <1>1, <1>2, <1>4 DEF DevPoint, Live
<1>12. DevAwaits /\ DownAck = 1 /\ up = <<>>
  BY <1>1, <1>2, <1>4, DeviceMeets DEF DevAwaits
<1>13. up' # <<>> BY <1>5, <1>12, SeqOne
<1>14. /\ Received = 0 /\ Published = 0 /\ Allowed = 0 /\ DevAwaits'
       /\ Received' = 0 /\ Published' = 1 /\ Allowed' = 0
  BY <1>1, <1>3, <1>13 DEF Received, Published, Allowed, DevAwaits
<1>15. LastId' = dev.id BY <1>1, LastTaken
<1>16. ToDevice' /\ ToController'
  BY <1>1, <1>2, <1>3, <1>4, <1>5, <1>7, <1>9, <1>11, <1>12, <1>14, <1>15,
     DeviceAnswers
<1> QED BY <1>9, <1>10, <1>11, <1>16 DEF RoundInv

(* A read that only moves the program on.                                    *)
LEMMA MovesOn ==
    ASSUME Counter, RoundInv, down # <<>>, down' = Tail(down), up' = up,
           UNCHANGED <<plan, ctl, tx, rx, link, csub, dsub, moved, faults>>,
           dev'.k = dev.k, dev'.pc \in DevPoints, dev.pc # "start",
           dev'.pc \notin {"start", "suback", "downack"}, DevPoint', ~DevAwaits',
           Live, Live', Received' = Received + 1 - DownAck,
           Published' = Published, Allowed' = Allowed
    PROVE  RoundInv'
<1>1. /\ Types /\ Counted /\ CtlPoint /\ DevPoint /\ Sounds /\ ToDevice
      /\ ToController
  BY DEF RoundInv
<1>2. dev.k \in Nat /\ moved \in Nat BY <1>1 DEF Counter, Types
<1>3. Types' /\ Sounds' BY <1>1, <1>2, DeviceSends
<1>4. Counted' /\ CtlPoint' BY <1>1 DEF Counted, CtlPoint, IsDown
<1>5. ToDevice' /\ ToController' BY <1>1, <1>3, DeviceTakes
<1> QED BY <1>3, <1>4, <1>5 DEF RoundInv

LEMMA ReadyAckStep ==
    ASSUME Counter, RoundInv, DevReadyAck
    PROVE  RoundInv'
<1>1. /\ dev.pc = "readyack" /\ dev'.pc = "begin" /\ dev'.k = dev.k
      /\ down # <<>> /\ down' = Tail(down) /\ up' = up
      /\ UNCHANGED <<plan, ctl, tx, rx, link, csub, dsub, moved, faults>>
  BY DEF DevReadyAck, Strict, DevKeeps, Counter
<1>2. Types /\ DevPoint /\ ToDevice BY DEF RoundInv
<1>3. Live BY <1>1, <1>2, ReadsLive
<1>4. Live' /\ DevPoint' /\ ~DevAwaits' /\ dev'.pc \in DevPoints
  BY <1>1, <1>2, <1>3 DEF Live, DevPoint, DevAwaits, DevPoints
<1>5. DownAck = 1 /\ up = <<>> /\ dev.k = 0
  BY <1>1, <1>2, <1>3, DeviceMeets DEF DevAwaits, DevPoint
<1>6. /\ Received = 0 /\ Received' = 0 /\ Published' = Published
      /\ Allowed' = Allowed
  BY <1>1, <1>5 DEF Received, Published, Allowed, Ahead, IsDown
<1> QED BY <1>1, <1>3, <1>4, <1>5, <1>6, MovesOn

LEMMA BeginStep ==
    ASSUME Counter, RoundInv, DevBegin
    PROVE  RoundInv'
<1>1. /\ dev.pc = "begin" /\ dev'.pc = "control" /\ dev'.k = dev.k
      /\ down # <<>> /\ down' = Tail(down) /\ up' = up
      /\ UNCHANGED <<plan, ctl, tx, rx, link, csub, dsub, moved, faults>>
  BY DEF DevBegin, DevKeeps, Counter
<1>2. Types /\ DevPoint /\ ToDevice BY DEF RoundInv
<1>3. Live BY <1>1, <1>2, ReadsLive
<1>4. Live' /\ DevPoint' /\ ~DevAwaits' /\ dev'.pc \in DevPoints
  BY <1>1, <1>2, <1>3 DEF Live, DevPoint, DevAwaits, DevPoints
<1>5. DownAck = 0 /\ up = <<>> /\ dev.k = 0
  BY <1>1, <1>2, <1>3, DeviceMeets DEF DevAwaits, DevPoint
<1>6. /\ Received = 0 /\ Received' = 1 /\ Published' = Published
      /\ Allowed' = Allowed
  BY <1>1, <1>5 DEF Received, Published, Allowed, Ahead, IsDown
<1> QED BY <1>1, <1>3, <1>4, <1>5, <1>6, MovesOn

LEMMA DataAckStep ==
    ASSUME Counter, RoundInv, DevDataAck
    PROVE  RoundInv'
<1>1. /\ dev.pc = "dataack" /\ dev'.pc = "ackup" /\ dev'.k = dev.k
      /\ dev'.op = dev.op /\ down # <<>> /\ down' = Tail(down) /\ up' = up
      /\ UNCHANGED <<plan, ctl, tx, rx, link, csub, dsub, moved, faults>>
  BY DEF DevDataAck, Strict, DevKeeps, Counter
<1>2. Types /\ DevPoint /\ ToDevice BY DEF RoundInv
<1>3. Live BY <1>1, <1>2, ReadsLive
<1>4. Live' /\ DevPoint' /\ ~DevAwaits' /\ dev'.pc \in DevPoints
  BY <1>1, <1>2, <1>3 DEF Live, DevPoint, DevAwaits, DevPoints, IsDown
<1>5. DownAck = 1 /\ up = <<>> /\ dev.k \in Nat
  BY <1>1, <1>2, <1>3, DeviceMeets DEF DevAwaits, Counter
<1>6. /\ Received = 2 * dev.k + 2 /\ Received' = 2 * dev.k + 2
      /\ Published' = Published /\ Allowed' = Allowed
  BY <1>1, <1>5 DEF Received, Published, Allowed
<1>7. Received' = Received + 1 - DownAck BY <1>5, <1>6
<1> QED BY <1>1, <1>3, <1>4, <1>5, <1>6, <1>7, MovesOn

LEMMA MetricsAckStep ==
    ASSUME Counter, RoundInv, DevMetricsAck
    PROVE  RoundInv'
<1>1. /\ dev.pc = "metricsack" /\ dev'.k = dev.k
      /\ dev'.pc = IF ~dev.valid THEN "failed"
                   ELSE IF dev.k = dev.n THEN "success" ELSE "control"
      /\ down # <<>> /\ down' = Tail(down) /\ up' = up
      /\ UNCHANGED <<plan, ctl, tx, rx, link, csub, dsub, moved, faults>>
  BY DEF DevMetricsAck, Strict, DevKeeps, Counter
<1>2. /\ Types /\ Counted /\ CtlPoint /\ DevPoint /\ Sounds /\ ToDevice
      /\ ToController
  BY DEF RoundInv
<1>3. dev.k \in Nat /\ moved \in Nat BY <1>2 DEF Counter, Types
<1>4. CASE ~dev.valid
  <2>1. dev'.pc = "failed" /\ dev'.pc \in DevPoints BY <1>1, <1>4 DEF DevPoints
  <2>2. Types' /\ Sounds' BY <1>1, <1>2, <1>3, <2>1, DeviceSends
  <2>3. Counted' /\ CtlPoint' /\ DevPoint' /\ ~Live' /\ ~Fine'
    BY <1>1, <1>2, <2>1 DEF Counted, CtlPoint, IsDown, DevPoint, Live, Fine
  <2> QED BY <2>2, <2>3 DEF RoundInv, ToDevice, ToController
<1>5. CASE dev.valid
  <2>1. dev'.pc \in {"success", "control"} /\ dev'.pc \in DevPoints
    BY <1>1, <1>5 DEF DevPoints
  <2>2. Live BY <1>1, <1>2, <1>5, ReadsLive
  <2>3. Live' /\ DevPoint' /\ ~DevAwaits'
    BY <1>1, <1>2, <2>1, <2>2 DEF Live, DevPoint, DevAwaits
  <2>4. DownAck = 1 /\ up = <<>>
    BY <1>1, <1>2, <2>2, DeviceMeets DEF DevAwaits
  <2>5. /\ Received = 2 * dev.k + 1 /\ Received' = 2 * dev.k + 1
        /\ Published' = Published /\ Allowed' = Allowed
    BY <1>1, <2>1, <2>4 DEF Received, Published, Allowed, Ahead, IsDown
  <2>6. Received' = Received + 1 - DownAck BY <1>3, <2>4, <2>5
  <2> QED BY <1>1, <2>1, <2>2, <2>3, <2>5, <2>6, MovesOn
<1> QED BY <1>4, <1>5

(* A command: the next operation of the plan, and its direction.             *)
LEMMA ControlStep ==
    ASSUME Counter, RoundInv, DevControl
    PROVE  RoundInv'
<1>1. /\ dev.pc = "control" /\ dev'.k = dev.k /\ down # <<>> /\ down' = Tail(down)
      /\ UNCHANGED <<plan, ctl, tx, rx, link, csub, dsub, moved, faults>>
  BY DEF DevControl, DevKeeps, Counter
<1>2. /\ Types /\ Counted /\ CtlPoint /\ DevPoint /\ Sounds /\ ToDevice
      /\ ToController
  BY DEF RoundInv
<1>3. Live /\ link BY <1>1, <1>2, ReadsLive
<1>4. dev.k \in Nat /\ moved \in Nat BY <1>2 DEF Counter, Types
<1>5. /\ up = <<>> /\ Head(down) = down[1] /\ DownAck = 0
      /\ Item(plan, moved, faults, Received, down[1])
  BY <1>1, <1>2, <1>3, DeviceMeets DEF DevAwaits
<1>6. /\ Received = 2 * dev.k + 1 /\ Published = 2 * dev.k + 1
      /\ Allowed = Ahead(dev.k)
  BY <1>1 DEF Received, Published, Allowed
<1>7. /\ Head(down).seq = dev.k + 1
      /\ Head(down).what = IF IsDown(dev.k + 1) THEN "DOWN" ELSE "UP"
  BY <1>4, <1>5, <1>6 DEF Item, IsDown, ToDev
<1>8. dev.k < Total
  <2>1. Len(down) \in Nat /\ Len(down) # 0 BY <1>1, <1>2, SeqFacts DEF Types
  <2>2. Sent = 2 * dev.k + 1 + Len(down) BY <1>4, <1>5, <1>6, <2>1 DEF Sent
  <2>3. TxItem \in {0, 1} BY <1>2, Numbers
  <2>4. Sent + TxItem <= Ahead(dev.k) BY <1>2, <1>3, <1>6 DEF ToDevice
  <2> QED BY <1>4, <2>1, <2>2, <2>3, <2>4, SomeOperation DEF Ahead
<1>9. CASE IsDown(dev.k + 1)
  <2>1. /\ dev'.pc = "data" /\ dev'.op = dev.k + 1 /\ up' = up
    BY <1>1, <1>7, <1>9 DEF DevControl, Counter
  <2>2. Live' /\ DevPoint' /\ ~DevAwaits' /\ dev'.pc \in DevPoints
    BY <1>1, <1>2, <1>3, <1>8, <1>9, <2>1
       DEF Live, DevPoint, DevAwaits, DevPoints, IsDown
  <2>3. Received' = 2 * dev.k + 2 /\ Published' = Published /\ Allowed' = Allowed
    BY <1>1, <1>6, <2>1 DEF Received, Published, Allowed, Ahead, IsDown
  <2>4. Received' = Received + 1 - DownAck BY <1>4, <1>5, <1>6, <2>3
  <2> QED BY <1>1, <1>3, <2>1, <2>2, <2>3, <2>4, MovesOn
<1>10. CASE ~IsDown(dev.k + 1)
  <2> DEFINE p == Pub("up", "data", dev.k + 1, dev.k + 1, TRUE)
  <2>1. /\ dev'.pc = "dataack" /\ dev'.op = dev.k + 1 /\ dev'.id = TakeId
        /\ DevSend(Request(dev.id, p))
    BY <1>1, <1>7, <1>10 DEF DevControl, Counter
  <2>2. up' = Append(up, Request(dev.id, p)) BY <1>3, <2>1 DEF DevSend
  <2>3. /\ Request(dev.id, p).pub = p /\ p.topic = "up" /\ p.payload = dev.k + 1
        /\ DOMAIN p = PubFields
    BY DEF Request, Pub, PubFields
  <2>4. Msg(plan, faults, 2 * dev.k + 1, p)
    <3>1. ~ToDev(plan, dev.k + 1) BY <1>10 DEF IsDown, ToDev
    <3> QED BY <1>4, <3>1, MsgBuilt
  <2> HIDE DEF p
  <2>5. Sound(moved', dev'.k, p) BY <1>1, <1>4, <2>3 DEF Sound
  <2>6. dev'.pc \in DevPoints BY <2>1 DEF DevPoints
  <2>7. Types' /\ Sounds'
    BY <1>1, <1>2, <1>3, <1>4, <2>2, <2>3, <2>5, <2>6, DeviceSends
  <2>8. Counted' /\ CtlPoint' BY <1>1, <1>2, <2>1 DEF Counted, CtlPoint, IsDown
  <2>9. DevPoint' /\ Live'
    BY <1>1, <1>2, <1>3, <1>8, <1>10, <2>1 DEF DevPoint, Live, IsDown
  <2>10. up' # <<>> BY <1>5, <2>2, SeqOne
  <2>11. Ahead(dev.k) = 2 * dev.k + 2 BY <1>8, <1>10 DEF Ahead
  <2>12. /\ Received' = 2 * dev.k + 2 /\ Published' = 2 * dev.k + 2
         /\ Allowed' = 2 * dev.k + 2 /\ DevAwaits'
    BY <1>1, <1>8, <1>10, <2>1, <2>10
       DEF Received, Published, Allowed, DevAwaits, Ahead, IsDown
  <2>13. /\ Received' = Received + 1 - DownAck /\ Published' = Published + 1
         /\ Allowed = Received' /\ Allowed' = Received'
    BY <1>4, <1>5, <1>6, <2>11, <2>12
  <2>14. LastId' = dev.id BY <1>1, <2>1, LastTaken
  <2>15. ToDevice' /\ ToController'
    BY <1>1, <1>2, <1>3, <1>4, <1>6, <2>1, <2>2, <2>4, <2>7, <2>9, <2>12, <2>13,
       <2>14, DeviceAnswers
  <2> QED BY <2>7, <2>8, <2>9, <2>15 DEF RoundInv
<1> QED BY <1>9, <1>10

(* The device accepts a payload only when both ends have settled all earlier *)
(* ones, and the controller then waits for its ACK_DOWN.                     *)
LEMMA PayloadMeets ==
    ASSUME Counter, RoundInv, dev.pc = "data", down # <<>>
    PROVE  /\ Live /\ link /\ up = <<>> /\ Head(down) = down[1] /\ DownAck = 0
           /\ Item(plan, moved, faults, 2 * dev.k + 2, down[1])
           /\ moved = dev.k /\ ctl.k = dev.k /\ dev.k < Total
           /\ ctl.pc \notin {"start", "suback", "ready", "begin", "command",
                             "pattern", "complete"}
           /\ Allowed = 2 * dev.k + 3 /\ IsDown(dev.k + 1) /\ dev.op = dev.k + 1
<1>1. /\ Types /\ Counted /\ CtlPoint /\ DevPoint /\ Sounds /\ ToDevice
      /\ ToController
  BY DEF RoundInv
<1>2. Live /\ link BY <1>1, ReadsLive
<1>3. dev.k \in Nat /\ moved \in Nat /\ ctl.k \in Nat /\ ctl.pc \in CtlPoints
  BY <1>1 DEF Counter, Types
<1>4. Received = 2 * dev.k + 2 BY DEF Received
<1>5. /\ up = <<>> /\ Head(down) = down[1] /\ DownAck = 0
      /\ Item(plan, moved, faults, 2 * dev.k + 2, down[1])
  BY <1>1, <1>2, <1>4, DeviceMeets DEF DevAwaits
<1>6. /\ IsDown(dev.k + 1) /\ dev.op = dev.k + 1 /\ dev.k < Total
      /\ moved = dev.k /\ ctl.k <= dev.k
  BY <1>1, <1>2 DEF DevPoint
<1>7. Allowed = 2 * dev.k + 3 BY <1>6 DEF Allowed, Ahead
<1>8. /\ Len(down) \in Nat /\ Len(down) # 0 /\ TxItem \in {0, 1}
      /\ Issued \in Nat
  BY <1>1, Numbers, SeqFacts DEF Types
<1>9. Sent = 2 * dev.k + 2 + Len(down) BY <1>3, <1>4, <1>5, <1>8 DEF Sent
<1>10. /\ Sent + TxItem <= 2 * ctl.k + 3 /\ Sent + TxItem <= Allowed
       /\ ctl.pc # "failed" => Sent + TxItem = Issued
  BY <1>1, <1>2 DEF ToDevice
<1>11. ctl.k = dev.k /\ Sent + TxItem = 2 * dev.k + 3
  <2>1. \A d, c, l, t \in Nat : l # 0 /\ c <= d /\ 2 * d + 2 + l + t <= 2 * c + 3
                                => c = d /\ 2 * d + 2 + l + t = 2 * d + 3
    OBVIOUS
  <2>2. TxItem \in Nat BY <1>8
  <2>3. 2 * dev.k + 2 + Len(down) + TxItem <= 2 * ctl.k + 3 BY <1>9, <1>10
  <2>4. ctl.k = dev.k /\ 2 * dev.k + 2 + Len(down) + TxItem = 2 * dev.k + 3
    BY <1>3, <1>6, <1>8, <2>1, <2>2, <2>3, Zenon
  <2> QED BY <1>9, <2>4
<1>12. ctl.pc \notin {"start", "suback", "ready", "begin", "command", "pattern",
                      "complete"}
  BY <1>3, <1>10, <1>11 DEF Issued
<1> QED BY <1>2, <1>5, <1>6, <1>7, <1>11, <1>12

LEMMA DataStep ==
    ASSUME Counter, RoundInv, DevData
    PROVE  RoundInv'
<1> DEFINE good == Head(down).payload = dev.op /\ Head(down).ok
           p == Pub("device_ack", "ACK_DOWN", dev.op, dev.op, good)
<1>0. good \in BOOLEAN OBVIOUS
<1>1. /\ dev.pc = "data" /\ dev'.k = dev.k /\ down # <<>> /\ down' = Tail(down)
      /\ dev'.pc = "downack" /\ dev'.op = dev.op /\ dev'.id = TakeId
      /\ dev'.valid = good /\ moved' = IF good THEN moved + 1 ELSE moved
      /\ DevSend(Request(dev.id, p))
      /\ UNCHANGED <<plan, ctl, tx, rx, link, csub, dsub, faults>>
  BY DEF DevData, DevPublish, DevKeeps, Counter
<1>2. /\ Types /\ Counted /\ CtlPoint /\ DevPoint /\ Sounds /\ ToDevice
      /\ ToController
  BY DEF RoundInv
<1>3. /\ Live /\ link /\ up = <<>> /\ Head(down) = down[1] /\ DownAck = 0
      /\ Item(plan, moved, faults, 2 * dev.k + 2, down[1])
      /\ moved = dev.k /\ ctl.k = dev.k /\ dev.k < Total
      /\ ctl.pc \notin {"start", "suback", "ready", "begin", "command",
                        "pattern", "complete"}
      /\ Allowed = 2 * dev.k + 3 /\ IsDown(dev.k + 1) /\ dev.op = dev.k + 1
  BY <1>1, PayloadMeets
<1>4. dev.k \in Nat /\ moved \in Nat BY <1>2 DEF Counter, Types
<1>5. good \/ faults # {}
  <2>1. ToDev(plan, dev.k + 1) BY <1>3 DEF IsDown, ToDev
  <2>2. down[1].payload = dev.k + 1 /\ (down[1].ok \/ faults # {})
    BY <1>3, <1>4, <2>1 DEF Item
  <2> QED BY <1>3, <2>2
<1> HIDE DEF good
<1>6. /\ Request(dev.id, p).pub = p /\ p.topic = "device_ack"
      /\ p.seq = dev.k + 1 /\ p.ok = good /\ DOMAIN p = PubFields
  BY <1>3 DEF Request, Pub, PubFields
<1>7. Msg(plan, faults, 2 * dev.k + 1, p)
  <2>1. ToDev(plan, dev.k + 1) BY <1>3 DEF IsDown, ToDev
  <2> QED BY <1>0, <1>3, <1>4, <1>5, <2>1, MsgBuilt
<1> HIDE DEF p
<1>8. /\ moved' \in Nat /\ moved <= moved' /\ moved' <= dev.k + 1
      /\ good => moved' = dev.k + 1
  BY <1>0, <1>1, <1>3, <1>4
<1>9. Sound(moved', dev'.k, p)
  <2>1. p.ok => p.seq <= moved' BY <1>4, <1>6, <1>8
  <2>2. p.seq \in Nat BY <1>4, <1>6
  <2> QED BY <1>6, <2>1, <2>2 DEF Sound
<1>10. dev'.pc \in DevPoints BY <1>1 DEF DevPoints
<1>11. up' = Append(up, Request(dev.id, p)) BY <1>1, <1>3 DEF DevSend
<1>12. Types' /\ Sounds'
  BY <1>1, <1>2, <1>3, <1>4, <1>6, <1>8, <1>9, <1>10, <1>11, DeviceSends
<1>13. Counted' BY <1>1, <1>3, <1>4, <1>8 DEF Counted
<1>14. CtlPoint'
  <2>1. ctl.pc \in {"ack_up", "metrics"} => ~ctl.ok
    BY <1>2, <1>3, <1>4 DEF CtlPoint
  <2> QED BY <1>1, <1>2, <1>3, <2>1 DEF CtlPoint, IsDown
<1>15. DevPoint' /\ Live'
  BY <1>1, <1>2, <1>3 DEF DevPoint, Live, IsDown
<1>16. up' # <<>> BY <1>3, <1>11, SeqOne
<1>17. Received = 2 * dev.k + 2 /\ Published = 2 * dev.k + 1
  BY <1>1 DEF Received, Published
<1>18. /\ Received' = 2 * dev.k + 3 /\ Published' = 2 * dev.k + 2
       /\ Allowed' = 2 * dev.k + 3 /\ DevAwaits'
  BY <1>1, <1>3, <1>16
     DEF Received, Published, Allowed, DevAwaits, Ahead, IsDown
<1>19. /\ Received' = Received + 1 - DownAck /\ Published' = Published + 1
       /\ Allowed = Received' /\ Allowed' = Received'
  BY <1>3, <1>4, <1>17, <1>18
<1>20. LastId' = dev.id BY <1>1, LastTaken
<1>21. ToDevice' /\ ToController'
  BY <1>1, <1>2, <1>3, <1>7, <1>8, <1>11, <1>12, <1>15, <1>17, <1>18, <1>19,
     <1>20, DeviceAnswers
<1> QED BY <1>12, <1>13, <1>14, <1>15, <1>21 DEF RoundInv

(* An operation that failed: metrics are still published, and the device is  *)
(* out of the round.                                                         *)
LEMMA MetricsBad ==
    ASSUME Counter, RoundInv, NEW used, Metrics(FALSE, used),
           used => down # <<>>, DevKeeps, UNCHANGED <<moved, faults>>
    PROVE  RoundInv'
<1> DEFINE p == Pub("metrics", "metrics", dev.op, dev.op, FALSE)
<1>1. /\ dev'.pc = "metricsack" /\ dev'.k = dev.k /\ dev'.valid = FALSE
      /\ DevSend(Request(dev.id, p))
      /\ down' = down \/ (down # <<>> /\ down' = Tail(down))
      /\ UNCHANGED <<plan, ctl, tx, rx, link, csub, dsub, moved, faults>>
  BY DEF Metrics, DevPublish, DevKeeps, Counter
<1>2. /\ Types /\ Counted /\ CtlPoint /\ DevPoint /\ Sounds
  BY DEF RoundInv
<1>3. dev.k \in Nat /\ moved \in Nat /\ dev'.pc \in DevPoints
  BY <1>1, <1>2 DEF Counter, Types, DevPoints
<1>4. Request(dev.id, p).pub = p /\ p.topic = "metrics" /\ DOMAIN p = PubFields
  BY DEF Request, Pub, PubFields
<1> HIDE DEF p
<1>5. Sound(moved', dev'.k, p) BY <1>4 DEF Sound
<1>6. up' = up \/ (link /\ up' = Append(up, Request(dev.id, p)))
  BY <1>1 DEF DevSend
<1>7. Types' /\ Sounds'
  BY <1>1, <1>2, <1>3, <1>4, <1>5, <1>6, DeviceSends
<1>8. Counted' /\ CtlPoint' /\ DevPoint' /\ ~Live' /\ ~Fine'
  BY <1>1, <1>2 DEF Counted, CtlPoint, IsDown, DevPoint, Live, Fine
<1> QED BY <1>7, <1>8 DEF RoundInv, ToDevice, ToController

(* An operation that counts for the device.                                  *)
LEMMA MetricsGood ==
    ASSUME Counter, RoundInv, Metrics(TRUE, TRUE), down # <<>>,
           dev.pc \in {"downack", "ackup"}, moved = dev.k + 1,
           DevKeeps, UNCHANGED <<moved, faults>>
    PROVE  RoundInv'
<1> DEFINE p == Pub("metrics", "metrics", dev.op, dev.op, TRUE)
<1>1. /\ dev'.pc = "metricsack" /\ dev'.k = dev.k + 1 /\ dev'.valid = TRUE
      /\ dev'.id = TakeId /\ DevSend(Request(dev.id, p)) /\ down' = Tail(down)
      /\ UNCHANGED <<plan, ctl, tx, rx, link, csub, dsub, moved, faults>>
  BY DEF Metrics, DevPublish, DevKeeps, Counter
<1>2. /\ Types /\ Counted /\ CtlPoint /\ DevPoint /\ Sounds /\ ToDevice
      /\ ToController
  BY DEF RoundInv
<1>3. dev.k \in Nat /\ moved \in Nat /\ ctl.k \in Nat /\ dev'.pc \in DevPoints
  BY <1>1, <1>2 DEF Counter, Types, DevPoints
<1>4. Request(dev.id, p).pub = p /\ p.topic = "metrics" /\ DOMAIN p = PubFields
  BY DEF Request, Pub, PubFields
<1>5. Msg(plan, faults, 2 * dev.k + 2, p) BY <1>3, MsgBuilt
<1> HIDE DEF p
<1>6. Sound(moved', dev'.k, p) BY <1>4 DEF Sound
<1>7. Live /\ link BY <1>2, ReadsLive
<1>8. up' = Append(up, Request(dev.id, p)) BY <1>1, <1>7 DEF DevSend
<1>9. dev'.k \in Nat /\ dev.k <= dev'.k BY <1>1, <1>3
<1>10. Types' /\ Sounds'
  BY <1>1, <1>2, <1>3, <1>4, <1>6, <1>7, <1>8, <1>9, DeviceSends
<1>11. Counted' BY <1>1, <1>2, <1>3 DEF Counted
<1>12. CtlPoint' BY <1>1, <1>2 DEF CtlPoint, IsDown
<1>13. Live' BY <1>1, <1>7 DEF Live
<1>14. DevPoint' BY <1>1, <1>2, <1>3, <1>7, <1>13 DEF DevPoint
<1>15. up = <<>> /\ DownAck = IF dev.pc = "downack" THEN 1 ELSE 0
  BY <1>2, <1>7, DeviceMeets DEF DevAwaits
<1>16. up' # <<>> BY <1>8, <1>15, SeqOne
<1>17. /\ Received = IF dev.pc = "downack" THEN 2 * dev.k + 3 ELSE 2 * dev.k + 2
       /\ Published = 2 * dev.k + 2 /\ Allowed = 2 * dev.k + 3
  BY <1>15 DEF Received, Published, Allowed
<1>18. /\ Received' = 2 * dev'.k + 1 /\ Published' = 2 * dev'.k + 1
       /\ Allowed' = 2 * dev'.k + 1 /\ DevAwaits'
  BY <1>1, <1>16 DEF Received, Published, Allowed, DevAwaits
<1>19. /\ Received' = Received + 1 - DownAck /\ Published' = Published + 1
       /\ Allowed = Received' /\ Allowed' = Received'
  <2>1. 2 * dev'.k + 1 = 2 * dev.k + 3 BY <1>1, <1>3
  <2>2. Received' = 2 * dev.k + 3 /\ Published' = 2 * dev.k + 3
    BY <1>18, <2>1, Zenon
  <2>3. Received + 1 - DownAck = 2 * dev.k + 3
    <3>1. CASE dev.pc = "downack" BY <1>3, <1>15, <1>17, <3>1
    <3>2. CASE dev.pc # "downack" BY <1>3, <1>15, <1>17, <3>2
    <3> QED BY <3>1, <3>2
  <2> QED BY <1>3, <1>17, <1>18, <2>2, <2>3
<1>20. LastId' = dev.id BY <1>1, LastTaken
<1>21. moved <= moved' BY <1>1, <1>3
<1>22. ToDevice' /\ ToController'
  BY <1>1, <1>2, <1>5, <1>7, <1>8, <1>10, <1>13, <1>17, <1>18, <1>19, <1>20,
     <1>21, DeviceAnswers
<1> QED BY <1>10, <1>11, <1>12, <1>13, <1>14, <1>22 DEF RoundInv

LEMMA DownAckStep ==
    ASSUME Counter, RoundInv, DevDownAck
    PROVE  RoundInv'
<1>1. /\ dev.pc = "downack" /\ down # <<>> /\ Metrics(dev.valid, TRUE)
      /\ DevKeeps /\ UNCHANGED <<moved, faults>> /\ dev.valid \in BOOLEAN
  BY DEF DevDownAck, Strict, Counter
<1>2. CASE dev.valid = TRUE
  <2>1. moved = dev.k + 1 BY <1>1, <1>2 DEF RoundInv, Counted
  <2> QED BY <1>1, <1>2, <2>1, MetricsGood
<1>3. CASE dev.valid = FALSE BY <1>1, <1>3, MetricsBad
<1> QED BY <1>1, <1>2, <1>3

(* ACK_UP says that the payload arrived only if it did.                      *)
LEMMA AckUpMeets ==
    ASSUME Counter, RoundInv, dev.pc = "ackup", down # <<>>
    PROVE  /\ Head(down).t = "PUBLISH" /\ Head(down).what = "ACK_UP"
           /\ Head(down).seq = dev.op
           /\ Head(down).ok => moved = dev.k + 1
           /\ Head(down).ok \/ faults # {}
<1>1. Types /\ Counted /\ DevPoint /\ ToDevice BY DEF RoundInv
<1>2. Live BY <1>1, ReadsLive
<1>3. dev.k \in Nat /\ moved \in Nat BY <1>1 DEF Counter, Types
<1>4. Received = 2 * dev.k + 2 BY DEF Received
<1>5. Head(down) = down[1] /\ Item(plan, moved, faults, 2 * dev.k + 2, down[1])
  BY <1>1, <1>2, <1>4, DeviceMeets DEF DevAwaits
<1>6. ~ToDev(plan, dev.k + 1) /\ dev.op = dev.k + 1
  BY <1>1 DEF DevPoint, IsDown, ToDev
<1>7. /\ down[1].t = "PUBLISH" /\ down[1].what = "ACK_UP"
      /\ down[1].seq = dev.k + 1 /\ (down[1].ok => dev.k < moved)
      /\ down[1].ok \/ faults # {}
  BY <1>3, <1>5, <1>6 DEF Item
<1>8. dev.k < moved => moved = dev.k + 1 BY <1>1, <1>3 DEF Counted
<1> QED BY <1>5, <1>6, <1>7, <1>8

LEMMA AckUpStep ==
    ASSUME Counter, RoundInv, DevAckUp
    PROVE  RoundInv'
<1> DEFINE good == Head(down).what = "ACK_UP" /\ Head(down).seq = dev.op
                   /\ Head(down).ok
<1>1. /\ dev.pc = "ackup" /\ down # <<>> /\ Metrics(good, TRUE)
      /\ DevKeeps /\ UNCHANGED <<moved, faults>>
  BY DEF DevAckUp
<1>2. good => moved = dev.k + 1 BY <1>1, AckUpMeets
<1>3. good \in BOOLEAN OBVIOUS
<1> HIDE DEF good
<1>4. CASE good = TRUE BY <1>1, <1>2, <1>4, MetricsGood
<1>5. CASE good = FALSE BY <1>1, <1>5, MetricsBad
<1> QED BY <1>3, <1>4, <1>5

LEMMA ReadFailsStep ==
    ASSUME Counter, RoundInv, DevReadFails
    PROVE  RoundInv'
<1>1. CASE dev.pc \in {"data", "dataack", "downack", "ackup"}
  <2>1. Metrics(FALSE, down # <<>>) /\ DevKeeps /\ UNCHANGED <<moved, faults>>
    BY <1>1 DEF DevReadFails
  <2> QED BY <2>1, MetricsBad
<1>2. CASE dev.pc \notin {"data", "dataack", "downack", "ackup"}
  <2>1. /\ dev'.pc = "failed" /\ dev'.k = dev.k
        /\ UNCHANGED <<plan, ctl, up, down, tx, rx, link, csub, dsub, moved,
                       faults>>
    BY <1>2 DEF DevReadFails, DevKeeps, Counter
  <2>2. /\ Types /\ Counted /\ CtlPoint /\ DevPoint /\ Sounds
    BY DEF RoundInv
  <2>3. Types' /\ Sounds' /\ Counted' /\ CtlPoint' /\ DevPoint' /\ ~Live' /\ ~Fine'
    BY <2>1, <2>2 DEF Types, DevPoints, Sounds, Counted, CtlPoint, IsDown,
                      DevPoint, Live, Fine
  <2> QED BY <2>3 DEF RoundInv, ToDevice, ToController
<1> QED BY <1>1, <1>2

(* The device hangs up after the round, or the link fails: only a device     *)
(* that has succeeded keeps its streams.                                     *)
LEMMA HangUpStep ==
    ASSUME Counter, RoundInv, link, link' = FALSE, dsub' = FALSE, down' = <<>>,
           up' = <<>>, dev.pc = "success" => up = <<>>,
           UNCHANGED <<plan, ctl, dev, tx, rx, csub, moved>>,
           faults # {} => faults' # {}
    PROVE  RoundInv'
<1>1. /\ Types /\ Counted /\ CtlPoint /\ DevPoint /\ Sounds /\ ToController
  BY DEF RoundInv
<1>2. moved \in Nat BY <1>1 DEF Types
<1>3. Types' BY <1>1, SeqEmpty DEF Types
<1>4. Sounds' BY <1>1, SoundNone DEF Sounds
<1>5. ~Live' BY DEF Live
<1>6. Counted' /\ CtlPoint' /\ DevPoint'
  BY <1>1, <1>5 DEF Counted, CtlPoint, IsDown, DevPoint
<1>7. ASSUME dev.pc = "success" PROVE ToController'
  <2>1. Fine /\ Fine' /\ Active' = Active BY <1>7 DEF Fine, Active
  <2>2. \A to, q, a, x : Run(to, plan, moved, faults, q, a, x) =>
                         Run(to, plan, moved, faults', q, a, x)
    BY <1>2, RunKept
  <2>3. /\ RxAck' = RxAck /\ CtlAwaits' = CtlAwaits /\ Consumed' = Consumed
        /\ Issued' = Issued /\ Received' = Received /\ Arrived' = Arrived
        /\ Delivered' = Delivered
    BY <1>7 DEF RxAck, CtlAwaits, Consumed, Issued, Received, Arrived, Delivered,
                Published
  <2> QED BY <1>1, <2>1, <2>2, <2>3 DEF ToController
<1>8. ASSUME dev.pc # "success" PROVE ~Fine' BY <1>5, <1>8 DEF Fine
<1> QED BY <1>3, <1>4, <1>5, <1>6, <1>7, <1>8
        DEF RoundInv, ToDevice, ToController

LEMMA DeviceRound == ASSUME Counter, RoundInv, Device PROVE RoundInv'
<1>1. CASE DevHangsUp BY <1>1, HangUpStep DEF DevHangsUp
<1> QED BY <1>1, SubscribeStep, ReadyStep, ReadyAckStep, BeginStep, ControlStep,
           DataStep, DataAckStep, DownAckStep, AckUpStep, MetricsAckStep,
           ReadFailsStep DEF Device

-----------------------------------------------------------------------------
(* Every step of the controller keeps the streams.  Its queues and the       *)
(* claims of the messages in them, for any step:                             *)
LEMMA ControllerSends ==
    ASSUME Types, Counter, Sounds, UNCHANGED <<dev, up, down, link, dsub>>,
           DOMAIN ctl' = CtlFields, ctl'.pc \in CtlPoints, ctl'.k \in Nat,
           moved' \in Nat, moved <= moved',
           tx' = tx \/ (\E r : tx' = Append(tx, r)),
           rx' = rx \/ (rx # <<>> /\ rx' = Tail(rx)) \/ rx' = <<>>,
           \/ ctl'.inbox = ctl.inbox
           \/ \E i \in DOMAIN ctl.inbox : ctl'.inbox = RemoveAt(ctl.inbox, i)
           \/ /\ rx # <<>> /\ Head(rx).t = "PUBLISH"
              /\ ctl'.inbox = Append(ctl.inbox, Head(rx))
    PROVE  Types' /\ Sounds'
<1>1. dev.k \in Nat /\ moved \in Nat /\ dev.k <= dev.k BY DEF Types, Counter
<1>2. /\ SoundUp(moved', dev.k, up) /\ SoundRx(moved', dev.k, rx)
      /\ SoundBox(moved', dev.k, ctl.inbox)
  BY <1>1, SoundKept DEF Sounds
<1>3. IsSeq(tx') BY SeqAppend DEF Types
<1>4. IsSeq(rx') /\ SoundRx(moved', dev.k, rx')
  <2>1. IsSeq(rx) BY DEF Types
  <2>2. CASE rx' = rx BY <1>2, <2>1, <2>2
  <2>3. CASE rx # <<>> /\ rx' = Tail(rx) BY <1>2, <2>1, <2>3, SeqTail, SoundTail
  <2>4. CASE rx' = <<>> BY <2>4, SeqEmpty, SoundNone
  <2> QED BY <2>2, <2>3, <2>4
<1>5. IsSeq(ctl'.inbox) /\ SoundBox(moved', dev.k, ctl'.inbox)
  <2>1. IsSeq(ctl.inbox) /\ IsSeq(rx) BY DEF Types
  <2>2. CASE ctl'.inbox = ctl.inbox BY <1>2, <2>1, <2>2
  <2>3. CASE \E i \in DOMAIN ctl.inbox : ctl'.inbox = RemoveAt(ctl.inbox, i)
    BY <1>2, <2>1, <2>3, SeqRemove, SoundRemove
  <2>4. CASE /\ rx # <<>> /\ Head(rx).t = "PUBLISH"
             /\ ctl'.inbox = Append(ctl.inbox, Head(rx))
    <3>1. Sound(moved', dev.k, Head(rx)) BY <1>2, <2>1, <2>4, SoundTail
    <3> QED BY <1>2, <2>1, <2>4, <3>1, SeqAppend, SoundAppend
  <2> QED BY <2>2, <2>3, <2>4
<1> QED BY <1>2, <1>3, <1>4, <1>5 DEF Types, Sounds

(* What the controller now reads is the last message on its way to it.       *)
LEMMA LastMessage ==
    ASSUME Types, Counter, ToController, Fine, Active,
           rx # <<>> \/ ctl.inbox # <<>>, Delivered <= Consumed + 1 - RxAck,
           Consumed > 0 \/ RxAck = 0
    PROVE  /\ Delivered = Consumed + 1 - RxAck
           /\ ctl.inbox # <<>> => Len(ctl.inbox) = 1 /\ rx = <<>>
           /\ ctl.inbox = <<>> => Len(rx) = 1
<1>1. /\ Consumed \in Nat /\ RxAck \in {0, 1} /\ Delivered \in Int
      /\ Len(rx) \in Nat /\ Len(ctl.inbox) \in Nat
  BY Numbers
<1>2. /\ rx = <<>> <=> Len(rx) = 0
      /\ ctl.inbox = <<>> <=> Len(ctl.inbox) = 0
  BY SeqFacts DEF Types
<1>3. \/ Arrived = Delivered
      \/ Arrived = 0 /\ Delivered = 1
  BY DEF ToController
<1>4. PICK a \in Nat, b \in Nat : a = Len(ctl.inbox) /\ b = Len(rx) BY <1>1
<1>5. a + b >= 1 BY <1>2, <1>4
<1>6. Arrived = Consumed + a + b - RxAck BY <1>4 DEF Arrived
<1>7. a + b = 1 /\ Delivered = Consumed + 1 - RxAck
  BY <1>1, <1>3, <1>5, <1>6
<1>8. (a # 0 => a = 1 /\ b = 0) /\ (a = 0 => b = 1) BY <1>7
<1> QED BY <1>2, <1>4, <1>7, <1>8

LEMMA CtlSubscribeStep ==
    ASSUME Counter, RoundInv, CtlSubscribe
    PROVE  RoundInv'
<1>1. /\ ctl.pc = "start" /\ ctl'.pc = "suback" /\ ctl'.k = ctl.k
      /\ ctl'.id = ctl.id /\ ctl'.inbox = ctl.inbox /\ ctl'.ok = ctl.ok
      /\ DOMAIN ctl' = CtlFields /\ tx' = Append(tx, Subscribe(ctl.id))
      /\ UNCHANGED <<plan, dev, up, down, rx, link, csub, dsub, moved, faults>>
  BY DEF CtlSubscribe, CtlKeeps, broker, RoundInv, Types, CtlFields
<1>2. /\ Types /\ Counted /\ CtlPoint /\ DevPoint /\ Sounds /\ ToDevice
      /\ ToController
  BY DEF RoundInv
<1>3. /\ ctl.k \in Nat /\ moved \in Nat /\ moved <= moved /\ ctl'.pc \in CtlPoints
  BY <1>1, <1>2 DEF Types, CtlPoints
<1>4. Types' /\ Sounds' BY <1>1, <1>2, <1>3, ControllerSends
<1>5. Counted' /\ CtlPoint' BY <1>1, <1>2 DEF Counted, CtlPoint
<1>6. /\ (Live' <=> Live) /\ (Fine' <=> Fine) /\ Active /\ Active'
      /\ (DevAwaits' <=> DevAwaits) /\ DownAck' = DownAck /\ Received' = Received
      /\ Published' = Published /\ Delivered' = Delivered /\ Allowed' = Allowed
      /\ LastId' = LastId /\ Sent' = Sent /\ Issued' = Issued
      /\ Consumed' = Consumed
  BY <1>1 DEF Live, Fine, Active, DevAwaits, DownAck, Received, Published,
              Delivered, Allowed, Ahead, IsDown, LastId, Sent, Issued, Consumed
<1>7. DevPoint' BY <1>1, <1>2, <1>6 DEF DevPoint, IsDown
<1>8. CASE ~Fine
  BY <1>4, <1>5, <1>6, <1>7, <1>8 DEF RoundInv, ToDevice, ToController, Fine
<1>9. CASE Fine
  <2>1. tx = <<>> /\ rx = <<>> /\ ~csub /\ ctl.inbox = <<>>
    BY <1>1, <1>2, <1>6, <1>9 DEF ToController, CtlAwaits
  <2>2. /\ tx' # <<>> /\ Len(tx') = 1 /\ tx'[1].id = ctl.id
        /\ tx'[1].t = "SUBSCRIBE"
    BY <1>1, <2>1, SeqOne DEF Subscribe
  <2>3. /\ TxItem = 0 /\ TxItem' = 0 /\ RxAck = 0 /\ RxAck' = 0
        /\ ctl.pc # "failed" /\ ctl'.pc # "failed" /\ CtlAwaits' /\ Len(tx') <= 1
    BY <1>1, <2>1, <2>2 DEF TxItem, RxAck, CtlAwaits
  <2>4. ToDevice' BY <1>1, <1>2, <1>6, <2>3 DEF ToDevice
  <2>5. Arrived' = Arrived BY <1>1, <1>6, <2>3 DEF Arrived
  <2>6. ToController'
    BY <1>1, <1>2, <1>6, <1>9, <2>1, <2>2, <2>3, <2>5 DEF ToController, CtlAwaits
  <2> QED BY <1>4, <1>5, <1>7, <2>4, <2>6 DEF RoundInv
<1> QED BY <1>8, <1>9

LEMMA CtlStoreStep ==
    ASSUME Counter, RoundInv, CtlStore
    PROVE  RoundInv'
<1>1. /\ ctl.pc \notin {"start", "pattern", "complete", "failed"}
      /\ ctl'.pc = ctl.pc /\ ctl'.k = ctl.k /\ ctl'.id = ctl.id
      /\ ctl'.ok = ctl.ok /\ ctl'.inbox = Append(ctl.inbox, Head(rx))
      /\ DOMAIN ctl' = CtlFields
      /\ rx # <<>> /\ rx' = Tail(rx) /\ Head(rx).t = "PUBLISH"
      /\ UNCHANGED <<plan, dev, up, down, tx, link, csub, dsub, moved, faults>>
  BY DEF CtlStore, CtlKeeps, broker, RoundInv, Types, CtlFields
<1>2. /\ Types /\ Counted /\ CtlPoint /\ DevPoint /\ Sounds /\ ToDevice
      /\ ToController
  BY DEF RoundInv
<1>3. /\ ctl.k \in Nat /\ moved \in Nat /\ moved <= moved /\ ctl'.pc \in CtlPoints
  BY <1>1, <1>2 DEF Types
<1>4. Types' /\ Sounds' BY <1>1, <1>2, <1>3, ControllerSends
<1>5. Counted' /\ CtlPoint' BY <1>1, <1>2 DEF Counted, CtlPoint, IsDown
<1>6. /\ (Live' <=> Live) /\ (Fine' <=> Fine) /\ Active
      /\ (DevAwaits' <=> DevAwaits) /\ DownAck' = DownAck /\ Received' = Received
      /\ Published' = Published /\ Delivered' = Delivered /\ Allowed' = Allowed
      /\ LastId' = LastId /\ Sent' = Sent /\ Issued' = Issued
      /\ Consumed' = Consumed /\ TxItem' = TxItem /\ RxAck' = RxAck
      /\ (CtlAwaits' <=> CtlAwaits)
  BY <1>1 DEF Live, Fine, Active, DevAwaits, DownAck, Received, Published,
              Delivered, Allowed, Ahead, IsDown, LastId, Sent, Issued, Consumed,
              TxItem, RxAck, CtlAwaits
<1>7. DevPoint' BY <1>1, <1>2, <1>6 DEF DevPoint, IsDown
<1>8. ToDevice' BY <1>1, <1>2, <1>6 DEF ToDevice
<1>9. ASSUME Fine PROVE ToController'
  <2>1. /\ tx = <<>> /\ Head(rx) = rx[1] /\ ~CtlAwaits /\ RxAck = 0
        /\ Msg(plan, faults, Consumed + Len(ctl.inbox), rx[1])
    <3>1. /\ Head(rx) = rx[1] /\ tx = <<>>
          /\ CtlAwaits => rx[1].t = IF ctl.pc = "suback" THEN "SUBACK"
                                    ELSE "PUBACK"
          /\ ~CtlAwaits =>
               RxAck = 0 /\ Msg(plan, faults, Consumed + Len(ctl.inbox), rx[1])
      BY <1>1, <1>2, <1>6, <1>9, ControllerMeets
    <3>2. ~CtlAwaits BY <1>1, <3>1
    <3> QED BY <3>1, <3>2
  <2>2. /\ Consumed \in Nat /\ Len(ctl.inbox) \in Nat /\ Len(rx) \in Nat
        /\ IsSeq(rx) /\ IsSeq(ctl.inbox)
    BY <1>2, Numbers DEF Types
  <2>3. Len(rx') = Len(rx) - 1 /\ Len(ctl'.inbox) = Len(ctl.inbox) + 1
    BY <1>1, <2>2, SeqTail, SeqAppend
  <2>4. Run("controller", plan, moved, faults, ctl'.inbox, 0, Consumed)
    <3>1. Run("controller", plan, moved, faults, ctl.inbox, 0, Consumed)
      BY <1>2, <1>6, <1>9 DEF ToController
    <3>2. Consumed + Len(ctl.inbox) - 0 = Consumed + Len(ctl.inbox)
          /\ 0 <= Len(ctl.inbox)
      BY <2>2
    <3>3. Fits("controller", plan, moved, faults, Consumed + Len(ctl.inbox) - 0,
               Head(rx))
      BY <2>1, <3>2 DEF Fits
    <3> QED BY <1>1, <2>2, <3>1, <3>2, <3>3, RunAppend
  <2>5. Run("controller", plan, moved, faults, rx', 0,
            Consumed + Len(ctl'.inbox))
    <3>1. Run("controller", plan, moved, faults, rx, 0, Consumed + Len(ctl.inbox))
      BY <1>2, <1>6, <1>9, <2>1 DEF ToController
    <3>2. /\ Consumed + Len(ctl.inbox) \in Nat
          /\ (Consumed + Len(ctl.inbox)) + 1 - 0 = Consumed + Len(ctl'.inbox)
      BY <2>2, <2>3
    <3>3. Run("controller", plan, moved, faults, rx', 0,
              (Consumed + Len(ctl.inbox)) + 1 - 0)
      BY <1>1, <2>2, <3>1, <3>2, RunTail
    <3> QED BY <3>2, <3>3
  <2>6. Arrived' = Arrived BY <1>6, <2>1, <2>2, <2>3 DEF Arrived
  <2> QED BY <1>1, <1>2, <1>6, <1>9, <2>1, <2>4, <2>5, <2>6 DEF ToController
<1>10. ASSUME ~Fine PROVE ToController' BY <1>6, <1>10 DEF ToController
<1> QED BY <1>4, <1>5, <1>7, <1>8, <1>9, <1>10 DEF RoundInv

(* An answer that only moves the program on.                                 *)
LEMMA CtlMovesOn ==
    ASSUME Counter, RoundInv, rx # <<>>, CtlAwaits, rx' = Tail(rx),
           UNCHANGED <<plan, dev, up, down, tx, link, csub, dsub, moved, faults>>,
           ctl'.k = ctl.k, ctl'.inbox = ctl.inbox, DOMAIN ctl' = CtlFields,
           ctl'.pc \in CtlPoints, CtlPoint', ~CtlAwaits', Active',
           ctl'.pc # "start", Issued' = Issued, Consumed' = Consumed
    PROVE  RoundInv'
<1>1. /\ Types /\ Counted /\ CtlPoint /\ DevPoint /\ Sounds /\ ToDevice
      /\ ToController
  BY DEF RoundInv
<1>2. ctl.k \in Nat /\ moved \in Nat /\ moved <= moved BY <1>1 DEF Types
<1>3. Types' /\ Sounds' BY <1>1, <1>2, ControllerSends
<1>4. Counted' /\ DevPoint' BY <1>1 DEF Counted, DevPoint, Live, IsDown
<1>5. ToDevice' /\ ToController' BY <1>1, <1>3, ControllerTakes
<1> QED BY <1>3, <1>4, <1>5 DEF RoundInv

LEMMA CtlAnsweredStep ==
    ASSUME Counter, RoundInv,
           CtlSuback \/ CtlDataAck \/ CtlAckUp \/ (CtlCommandAck /\ ~IsDown(Cur))
    PROVE  RoundInv'
<1>1. Types /\ CtlPoint BY DEF RoundInv
<1>2. ctl.k \in Nat /\ DOMAIN ctl = CtlFields BY <1>1 DEF Types
<1>3. CASE CtlSuback
  <2>1. /\ ctl.pc = "suback" /\ ctl'.pc = "ready" /\ ctl'.k = ctl.k
        /\ ctl'.inbox = ctl.inbox /\ ctl'.ok = ctl.ok /\ DOMAIN ctl' = CtlFields
        /\ rx # <<>> /\ rx' = Tail(rx)
        /\ UNCHANGED <<plan, dev, up, down, tx, link, csub, dsub, moved, faults>>
    BY <1>2, <1>3 DEF CtlSuback, CtlAnswered, CtlKeeps, broker, CtlFields
  <2>2. /\ CtlPoint' /\ CtlAwaits /\ ~CtlAwaits' /\ Active'
        /\ Issued' = Issued /\ Consumed' = Consumed /\ ctl'.pc \in CtlPoints
    BY <1>1, <2>1 DEF CtlPoint, CtlAwaits, Active, Issued, Consumed, CtlPoints
  <2> QED BY <2>1, <2>2, CtlMovesOn
<1>4. CASE CtlDataAck
  <2>1. /\ ctl.pc = "data" /\ ctl'.pc = "device_ack" /\ ctl'.k = ctl.k
        /\ ctl'.inbox = ctl.inbox /\ ctl'.ok = ctl.ok /\ DOMAIN ctl' = CtlFields
        /\ rx # <<>> /\ rx' = Tail(rx)
        /\ UNCHANGED <<plan, dev, up, down, tx, link, csub, dsub, moved, faults>>
    BY <1>2, <1>4 DEF CtlDataAck, CtlAnswered, CtlKeeps, broker, CtlFields
  <2>2. /\ CtlPoint' /\ CtlAwaits /\ ~CtlAwaits' /\ Active'
        /\ Issued' = Issued /\ Consumed' = Consumed /\ ctl'.pc \in CtlPoints
    BY <1>1, <2>1 DEF CtlPoint, CtlAwaits, Active, Issued, Consumed, CtlPoints,
                      IsDown
  <2> QED BY <2>1, <2>2, CtlMovesOn
<1>5. CASE CtlAckUp
  <2>1. /\ ctl.pc = "ack_up" /\ ctl'.pc = "metrics" /\ ctl'.k = ctl.k
        /\ ctl'.inbox = ctl.inbox /\ ctl'.ok = ctl.ok /\ DOMAIN ctl' = CtlFields
        /\ rx # <<>> /\ rx' = Tail(rx)
        /\ UNCHANGED <<plan, dev, up, down, tx, link, csub, dsub, moved, faults>>
    BY <1>2, <1>5 DEF CtlAckUp, CtlAnswered, CtlKeeps, broker, CtlFields
  <2>2. /\ CtlPoint' /\ CtlAwaits /\ ~CtlAwaits' /\ Active'
        /\ Issued' = Issued /\ Consumed' = Consumed /\ ctl'.pc \in CtlPoints
    BY <1>1, <2>1 DEF CtlPoint, CtlAwaits, Active, Issued, Consumed, CtlPoints
  <2> QED BY <2>1, <2>2, CtlMovesOn
<1>6. CASE CtlCommandAck /\ ~IsDown(Cur)
  <2>1. /\ ctl.pc = "command" /\ ctl'.pc = "pattern" /\ ctl'.k = ctl.k
        /\ ctl'.inbox = ctl.inbox /\ ctl'.ok = ctl.ok /\ DOMAIN ctl' = CtlFields
        /\ rx # <<>> /\ rx' = Tail(rx)
        /\ UNCHANGED <<plan, dev, up, down, tx, link, csub, dsub, moved, faults>>
    BY <1>2, <1>6 DEF CtlCommandAck, CtlAnswered, CtlKeeps, broker, CtlFields
  <2>2. /\ CtlPoint' /\ CtlAwaits /\ ~CtlAwaits' /\ Active'
        /\ Issued' = Issued /\ Consumed' = Consumed /\ ctl'.pc \in CtlPoints
    BY <1>1, <1>6, <2>1 DEF CtlPoint, CtlAwaits, Active, Issued, Consumed,
                            CtlPoints, IsDown, Cur
  <2> QED BY <2>1, <2>2, CtlMovesOn
<1> QED BY <1>3, <1>4, <1>5, <1>6

(* READY is the first message, and the only one on its way.                  *)
LEMMA CtlReadyStep ==
    ASSUME Counter, RoundInv, CtlReady
    PROVE  RoundInv'
<1> DEFINE i == First(Waiting("up"))
<1>1. /\ Types /\ Counted /\ CtlPoint /\ DevPoint /\ Sounds /\ ToDevice
      /\ ToController
  BY DEF RoundInv
<1>2. DOMAIN ctl = CtlFields /\ IsSeq(ctl.inbox) /\ ctl.k \in Nat /\ moved \in Nat
  BY <1>1 DEF Types
<1>3. /\ ctl.pc = "ready" /\ ctl'.pc = "begin" /\ ctl'.k = ctl.k
      /\ ctl'.inbox = RemoveAt(ctl.inbox, i) /\ ctl'.ok = ctl.ok
      /\ ctl'.id = ctl.id /\ DOMAIN ctl' = CtlFields /\ Waiting("up") # {}
      /\ tx' = Append(tx, Request(ctl'.id, Control("BEGIN", Total)))
      /\ UNCHANGED <<plan, dev, up, down, rx, link, csub, dsub, moved, faults>>
  BY <1>2 DEF CtlReady, CtlKeeps, broker, CtlFields
<1>4. /\ i \in DOMAIN ctl.inbox /\ ctl.inbox # <<>>
      /\ ctl.inbox[1].topic = "up" => i = 1
  BY <1>2, <1>3, WaitingIn
<1> HIDE DEF i
<1>5. ctl'.pc \in CtlPoints /\ moved <= moved BY <1>2, <1>3 DEF CtlPoints
<1>6. Types' /\ Sounds' BY <1>1, <1>2, <1>3, <1>4, <1>5, ControllerSends
<1>7. Counted' /\ CtlPoint' /\ DevPoint'
  BY <1>1, <1>3 DEF Counted, CtlPoint, DevPoint, Live, IsDown
<1>8. /\ Consumed = 0 /\ Issued = 0 /\ ctl.k = 0 /\ Active /\ CtlAwaits'
      /\ ctl'.pc # "suback"
  BY <1>1, <1>3 DEF Consumed, Issued, CtlPoint, Active, CtlAwaits
<1>9. Consumed' = 1 /\ Issued' = 1 BY <1>3, <1>8 DEF Consumed, Issued
<1>10. ASSUME Fine
       PROVE  /\ tx = <<>> /\ rx' = <<>> /\ ctl'.inbox = <<>> /\ csub
              /\ Delivered = 1 /\ 1 <= Allowed
  <2>1. /\ RxAck = 0 /\ tx = <<>> /\ Msg(plan, faults, 0, ctl.inbox[1])
    BY <1>1, <1>4, <1>8, <1>10, ControllerKeeps
  <2>2. i = 1 BY <1>4, <2>1 DEF Msg
  <2>3. Received <= 0 BY <1>1, <1>8, <1>10 DEF ToController
  <2>4. Delivered <= 1 /\ (Delivered = 1 => 1 <= Allowed)
    BY <1>1, <2>3, BeginRoom
  <2>5. Delivered <= Consumed + 1 - RxAck BY <1>8, <2>1, <2>4
  <2>6. /\ Delivered = Consumed + 1 - RxAck /\ Len(ctl.inbox) = 1 /\ rx = <<>>
    BY <1>1, <1>4, <1>8, <1>10, <2>1, <2>5, LastMessage
  <2>7. Delivered = 1 BY <1>8, <2>1, <2>6
  <2>8. ctl'.inbox = <<>>
    BY <1>2, <1>3, <1>4, <2>2, <2>6, SeqRemoveFirst, SeqTail
  <2>9. csub BY <1>1, <1>3, <1>8, <1>10 DEF ToController
  <2> QED BY <1>3, <2>1, <2>4, <2>6, <2>7, <2>8, <2>9
<1>11. Item(plan, moved, faults, 0, Control("BEGIN", Total))
  BY <1>2, ItemBuilt
<1>12. ToDevice' /\ ToController'
  <2>1. Live => Issued + 1 <= Allowed /\ Issued + 1 <= 2 * ctl'.k + 3
    BY <1>3, <1>8, <1>10 DEF Fine
  <2>2. Fine => Consumed' = Delivered /\ Issued' = Issued + 1
    BY <1>8, <1>9, <1>10
  <2> QED BY <1>1, <1>2, <1>3, <1>5, <1>6, <1>8, <1>10, <1>11, <2>1, <2>2,
             ControllerIssues
<1> QED BY <1>6, <1>7, <1>12 DEF RoundInv

LEMMA CtlCommandStep ==
    ASSUME Counter, RoundInv, CtlCommand
    PROVE  RoundInv'
<1>1. /\ Types /\ Counted /\ CtlPoint /\ DevPoint /\ Sounds /\ ToDevice
      /\ ToController
  BY DEF RoundInv
<1>2. DOMAIN ctl = CtlFields /\ IsSeq(rx) /\ ctl.k \in Nat /\ moved \in Nat
  BY <1>1 DEF Types
<1>3. /\ ctl.pc = "begin" /\ ctl'.pc = "command" /\ ctl'.k = ctl.k
      /\ ctl'.inbox = ctl.inbox /\ ctl'.ok = ctl.ok
      /\ ctl'.id = ctl.id + 1 /\ DOMAIN ctl' = CtlFields
      /\ rx # <<>> /\ rx' = Tail(rx)
      /\ tx' = Append(tx, Request(ctl'.id, Command(1)))
      /\ UNCHANGED <<plan, dev, up, down, link, csub, dsub, moved, faults>>
  BY <1>2 DEF CtlCommand, CtlAnswered, CtlKeeps, broker, CtlFields
<1>4. ctl'.pc \in CtlPoints /\ moved <= moved BY <1>2, <1>3 DEF CtlPoints
<1>5. Types' /\ Sounds' BY <1>1, <1>2, <1>3, <1>4, ControllerSends
<1>6. Counted' /\ CtlPoint' /\ DevPoint'
  BY <1>1, <1>3 DEF Counted, CtlPoint, DevPoint, Live, IsDown
<1>7. /\ Consumed = 1 /\ Issued = 1 /\ ctl.k = 0 /\ Active /\ CtlAwaits
      /\ CtlAwaits' /\ ctl'.pc # "suback"
  BY <1>1, <1>3 DEF Consumed, Issued, CtlPoint, Active, CtlAwaits
<1>8. Consumed' = 1 /\ Issued' = 2 BY <1>3, <1>7 DEF Consumed, Issued
<1>9. ASSUME Fine
      PROVE  /\ tx = <<>> /\ rx' = <<>> /\ ctl'.inbox = <<>> /\ csub
             /\ Delivered = 1 /\ 2 <= Allowed
  <2>1. RxAck = 1 /\ tx = <<>> BY <1>1, <1>3, <1>7, <1>9, ControllerMeets
  <2>2. ctl.inbox = <<>> /\ csub /\ Received <= 1
    BY <1>1, <1>3, <1>7, <1>9 DEF ToController
  <2>3. Delivered <= 1 /\ (Delivered = 1 => 2 <= Allowed)
    BY <1>1, <2>2, CommandRoom
  <2>4. Delivered <= Consumed + 1 - RxAck /\ Consumed > 0 BY <1>7, <2>1, <2>3
  <2>5. Delivered = Consumed + 1 - RxAck /\ Len(rx) = 1
    BY <1>1, <1>3, <1>7, <1>9, <2>2, <2>4, LastMessage
  <2>6. Delivered = 1 BY <1>7, <2>1, <2>5
  <2>7. rx' = <<>> BY <1>2, <1>3, <2>5, SeqTail
  <2> QED BY <1>3, <2>1, <2>2, <2>3, <2>6, <2>7
<1>10. Item(plan, moved, faults, 1, Command(1))
  <2>1. Item(plan, moved, faults, 2 * 0 + 1,
             Control(IF ToDev(plan, 0 + 1) THEN "DOWN" ELSE "UP", 0 + 1))
    BY <1>2, ItemBuilt
  <2>2. 2 * 0 + 1 = 1 /\ 0 + 1 = 1 OBVIOUS
  <2> QED BY <2>1, <2>2 DEF Command, IsDown, ToDev
<1>11. ToDevice' /\ ToController'
  <2>1. Live => Issued + 1 <= Allowed /\ Issued + 1 <= 2 * ctl'.k + 3
    BY <1>3, <1>7, <1>9 DEF Fine
  <2>2. Fine => Consumed' = Delivered /\ Issued' = Issued + 1
    BY <1>7, <1>8, <1>9
  <2> QED BY <1>1, <1>2, <1>3, <1>4, <1>5, <1>7, <1>9, <1>10, <2>1, <2>2,
             ControllerIssues
<1> QED BY <1>5, <1>6, <1>11 DEF RoundInv

LEMMA CtlPayloadStep ==
    ASSUME Counter, RoundInv, CtlCommandAck, IsDown(Cur)
    PROVE  RoundInv'
<1> DEFINE p == Pub("down", "data", Cur, Cur, TRUE)
<1>1. /\ Types /\ Counted /\ CtlPoint /\ DevPoint /\ Sounds /\ ToDevice
      /\ ToController
  BY DEF RoundInv
<1>2. DOMAIN ctl = CtlFields /\ IsSeq(rx) /\ ctl.k \in Nat /\ moved \in Nat
  BY <1>1 DEF Types
<1>3. /\ ctl.pc = "command" /\ ctl'.pc = "data" /\ ctl'.k = ctl.k
      /\ ctl'.inbox = ctl.inbox /\ ctl'.ok = ctl.ok
      /\ ctl'.id = ctl.id + 1 /\ DOMAIN ctl' = CtlFields
      /\ rx # <<>> /\ rx' = Tail(rx)
      /\ tx' = Append(tx, Request(ctl'.id, p))
      /\ UNCHANGED <<plan, dev, up, down, link, csub, dsub, moved, faults>>
  BY <1>2 DEF CtlCommandAck, CtlAnswered, CtlKeeps, broker, CtlFields
<1>4. ctl'.pc \in CtlPoints /\ moved <= moved BY <1>2, <1>3 DEF CtlPoints
<1>5. Types' /\ Sounds' BY <1>1, <1>2, <1>3, <1>4, ControllerSends
<1>6. Counted' /\ CtlPoint' /\ DevPoint'
  BY <1>1, <1>3 DEF Counted, CtlPoint, DevPoint, Live, IsDown, Cur
<1>7. /\ Consumed = 2 * ctl.k + 1 /\ Issued = 2 * ctl.k + 2 /\ Active
      /\ CtlAwaits /\ CtlAwaits' /\ ctl'.pc # "suback" /\ ctl.k < Total
      /\ Consumed' = 2 * ctl.k + 1 /\ Issued' = 2 * ctl.k + 3
  BY <1>1, <1>2, <1>3, SomeOperation
     DEF Consumed, Issued, CtlPoint, Active, CtlAwaits
<1>8. Item(plan, moved, faults, 2 * ctl.k + 2, p)
  BY <1>2, ItemBuilt DEF Cur, IsDown, ToDev
<1> HIDE DEF p
<1>9. ASSUME Fine
      PROVE  /\ tx = <<>> /\ rx' = <<>> /\ ctl'.inbox = <<>> /\ csub
             /\ Delivered = 2 * ctl.k + 1 /\ 2 * ctl.k + 3 <= Allowed
  <2>1. RxAck = 1 /\ tx = <<>> BY <1>1, <1>3, <1>7, <1>9, ControllerMeets
  <2>2. ctl.inbox = <<>> /\ csub /\ Received <= 2 * ctl.k + 2
    BY <1>1, <1>3, <1>7, <1>9 DEF ToController
  <2>3. /\ Delivered <= 2 * ctl.k + 1
        /\ Delivered = 2 * ctl.k + 1 => 2 * ctl.k + 3 <= Allowed
    BY <1>1, <1>2, <1>7, <2>2, PayloadRoom DEF Cur
  <2>4. Consumed + 1 - RxAck = 2 * ctl.k + 1 /\ Consumed > 0
    BY <1>2, <1>7, <2>1
  <2>5. Delivered = Consumed + 1 - RxAck /\ Len(rx) = 1
    BY <1>1, <1>3, <1>7, <1>9, <2>2, <2>3, <2>4, LastMessage
  <2>6. Delivered = 2 * ctl.k + 1 BY <2>4, <2>5
  <2>7. rx' = <<>> BY <1>2, <1>3, <2>5, SeqTail
  <2> QED BY <1>3, <2>1, <2>2, <2>3, <2>6, <2>7
<1>10. ToDevice' /\ ToController'
  <2>1. Issued + 1 = 2 * ctl.k + 3 BY <1>2, <1>7
  <2>2. Live => Issued + 1 <= Allowed /\ Issued + 1 <= 2 * ctl'.k + 3
    BY <1>2, <1>3, <1>9, <2>1 DEF Fine
  <2>3. Fine => Consumed' = Delivered /\ Issued' = Issued + 1
    BY <1>7, <1>9, <2>1
  <2>4. Item(plan, moved', faults, Issued, p) BY <1>3, <1>7, <1>8
  <2>5. moved <= moved' BY <1>2, <1>3
  <2> QED BY <1>1, <1>3, <1>5, <1>7, <1>9, <2>2, <2>3, <2>4, <2>5,
             ControllerIssues
<1> QED BY <1>5, <1>6, <1>10 DEF RoundInv

(* ACK_DOWN is the oldest message kept, and says only what happened.         *)
LEMMA CtlDeviceAckStep ==
    ASSUME Counter, RoundInv, CtlDeviceAck
    PROVE  RoundInv'
<1> DEFINE i == First(Waiting("device_ack"))
<1>1. /\ Types /\ Counted /\ CtlPoint /\ DevPoint /\ Sounds /\ ToDevice
      /\ ToController
  BY DEF RoundInv
<1>2. DOMAIN ctl = CtlFields /\ IsSeq(ctl.inbox) /\ ctl.k \in Nat /\ moved \in Nat
  BY <1>1 DEF Types
<1>3. /\ ctl.pc = "device_ack" /\ ctl'.pc = "metrics" /\ ctl'.k = ctl.k
      /\ ctl'.inbox = RemoveAt(ctl.inbox, i) /\ ctl'.id = ctl.id
      /\ ctl'.ok = (ctl.inbox[i].seq = Cur /\ ctl.inbox[i].ok)
      /\ DOMAIN ctl' = CtlFields /\ Waiting("device_ack") # {}
      /\ UNCHANGED <<plan, dev, up, down, tx, rx, link, csub, dsub, moved, faults>>
  BY <1>2 DEF CtlDeviceAck, CtlKeeps, broker, CtlFields
<1>4. /\ i \in DOMAIN ctl.inbox /\ ctl.inbox # <<>>
      /\ ctl.inbox[i].topic = "device_ack"
      /\ ctl.inbox[1].topic = "device_ack" => i = 1
  BY <1>2, <1>3, WaitingIn
<1> HIDE DEF i
<1>5. ctl'.pc \in CtlPoints /\ moved <= moved BY <1>2, <1>3 DEF CtlPoints
<1>6. Types' /\ Sounds' BY <1>1, <1>2, <1>3, <1>4, <1>5, ControllerSends
<1>7. ctl'.ok => moved = ctl.k + 1
  <2>1. Sound(moved, dev.k, ctl.inbox[i])
    BY <1>1, <1>2, <1>4, SoundRemove DEF Sounds
  <2>2. ctl'.ok => ctl.inbox[i].seq <= moved /\ ctl.inbox[i].seq = ctl.k + 1
    BY <1>3, <1>4, <2>1 DEF Sound, Cur
  <2>3. moved <= ctl.k + 1 BY <1>1 DEF Counted
  <2> QED BY <1>2, <2>2, <2>3
<1>8. Counted' /\ CtlPoint' /\ DevPoint'
  BY <1>1, <1>3, <1>7 DEF Counted, CtlPoint, DevPoint, Live, IsDown
<1>9. /\ (Live' <=> Live) /\ (Fine' <=> Fine) /\ Active /\ Active'
      /\ (DevAwaits' <=> DevAwaits) /\ DownAck' = DownAck /\ Received' = Received
      /\ Published' = Published /\ Delivered' = Delivered /\ Allowed' = Allowed
      /\ LastId' = LastId /\ Sent' = Sent /\ TxItem' = TxItem
      /\ ~CtlAwaits /\ ~CtlAwaits' /\ RxAck = 0 /\ RxAck' = 0
      /\ ctl.pc # "failed" /\ ctl'.pc # "failed"
  BY <1>3 DEF Live, Fine, Active, DevAwaits, DownAck, Received, Published,
              Delivered, Allowed, Ahead, IsDown, LastId, Sent, TxItem, CtlAwaits,
              RxAck
<1>10. /\ Issued = 2 * ctl.k + 3 /\ Issued' = 2 * ctl.k + 3
       /\ Consumed = 2 * ctl.k + 1 /\ Consumed' = 2 * ctl.k + 2
  BY <1>3 DEF Issued, Consumed
<1>11. ToDevice' BY <1>1, <1>3, <1>9, <1>10 DEF ToDevice
<1>12. ASSUME Fine PROVE ToController'
  <2>1. Msg(plan, faults, 2 * ctl.k + 1, ctl.inbox[1]) /\ tx = <<>>
    BY <1>1, <1>4, <1>9, <1>10, <1>12, ControllerKeeps
  <2>2. ToDev(plan, ctl.k + 1) BY <1>1, <1>3 DEF CtlPoint, IsDown, ToDev
  <2>3. i = 1 BY <1>2, <1>4, <2>1, <2>2 DEF Msg
  <2>4. ctl'.inbox = Tail(ctl.inbox) BY <1>2, <1>3, <1>4, <2>3, SeqRemoveFirst
  <2>5. /\ Len(ctl.inbox) \in Nat /\ Len(ctl'.inbox) = Len(ctl.inbox) - 1
        /\ Len(rx) \in Nat
    BY <1>1, <1>2, <1>4, <2>4, SeqTail, SeqFacts DEF Types
  <2>6. Consumed' + Len(ctl'.inbox) = Consumed + Len(ctl.inbox)
    <3>1. \A c, a \in Nat : (2 * c + 2) + (a - 1) = (2 * c + 1) + a OBVIOUS
    <3>2. (2 * ctl.k + 2) + (Len(ctl.inbox) - 1) = (2 * ctl.k + 1) + Len(ctl.inbox)
      BY <1>2, <2>5, <3>1, Zenon
    <3> QED BY <1>10, <2>5, <3>2, Zenon
  <2>7. Arrived' = Arrived BY <1>3, <1>9, <2>6 DEF Arrived
  <2>8. Run("controller", plan, moved, faults, Tail(ctl.inbox), 0, Consumed')
    <3>1. Run("controller", plan, moved, faults, ctl.inbox, 0, 2 * ctl.k + 1)
      BY <1>1, <1>9, <1>10, <1>12 DEF ToController
    <3>2. 2 * ctl.k + 1 \in Nat /\ (2 * ctl.k + 1) + 1 - 0 = 2 * ctl.k + 2
      BY <1>2
    <3>3. Run("controller", plan, moved, faults, Tail(ctl.inbox), 0,
              (2 * ctl.k + 1) + 1 - 0)
      BY <1>2, <1>4, <3>1, <3>2, RunTail
    <3> QED BY <1>10, <3>2, <3>3
  <2>9. Received <= Issued BY <1>1, <1>9, <1>12 DEF ToController
  <2> QED BY <1>1, <1>3, <1>9, <1>10, <1>12, <2>1, <2>4, <2>6, <2>7, <2>8, <2>9
          DEF ToController
<1>13. ASSUME ~Fine PROVE ToController' BY <1>9, <1>13 DEF ToController
<1> QED BY <1>6, <1>8, <1>11, <1>12, <1>13 DEF RoundInv

(* The streamed read of the controller meets the payload of the operation;   *)
(* a payload it accepts is the first to arrive for this operation.           *)
LEMMA PatternMeets ==
    ASSUME Counter, RoundInv, ctl.pc = "pattern", rx # <<>>
    PROVE  /\ /\ Head(rx).t = "PUBLISH" /\ Head(rx).topic = "up"
              /\ Head(rx).payload = Cur
              => moved = ctl.k /\ dev.k = ctl.k
           /\ Fine => /\ Head(rx).t = "PUBLISH" /\ Head(rx).topic = "up"
                      /\ Head(rx).payload = Cur /\ (Head(rx).ok \/ faults # {})
                      /\ tx = <<>> /\ ctl.inbox = <<>> /\ Len(rx) = 1 /\ csub
                      /\ Delivered = 2 * ctl.k + 2 /\ 2 * ctl.k + 3 <= Allowed
                      /\ dev.pc \in {"dataack", "ackup"}
<1>1. /\ Types /\ Counted /\ CtlPoint /\ DevPoint /\ Sounds /\ ToDevice
      /\ ToController
  BY DEF RoundInv
<1>2. IsSeq(rx) /\ ctl.k \in Nat /\ moved \in Nat /\ dev.k \in Nat
  BY <1>1 DEF Types, Counter
<1>3. ASSUME Head(rx).t = "PUBLISH", Head(rx).topic = "up",
             Head(rx).payload = Cur
      PROVE  moved = ctl.k /\ dev.k = ctl.k
  <2>1. Sound(moved, dev.k, Head(rx)) BY <1>1, <1>2, <1>3, SoundTail DEF Sounds
  <2>2. ctl.k + 1 <= dev.k + 1 BY <1>3, <2>1 DEF Sound, Cur
  <2>3. dev.k <= moved /\ moved <= ctl.k BY <1>1 DEF Counted, CtlPoint
  <2> QED BY <1>2, <2>2, <2>3
<1>4. /\ Consumed = 2 * ctl.k + 1 /\ Issued = 2 * ctl.k + 2 /\ Active
      /\ ~CtlAwaits
  BY DEF Consumed, Issued, Active, CtlAwaits
<1>5. ASSUME Fine
      PROVE  /\ Head(rx).t = "PUBLISH" /\ Head(rx).topic = "up"
             /\ Head(rx).payload = Cur /\ (Head(rx).ok \/ faults # {})
             /\ tx = <<>> /\ ctl.inbox = <<>> /\ Len(rx) = 1 /\ csub
             /\ Delivered = 2 * ctl.k + 2 /\ 2 * ctl.k + 3 <= Allowed
             /\ dev.pc \in {"dataack", "ackup"}
  <2>1. ctl.inbox = <<>> /\ csub /\ Received <= 2 * ctl.k + 2
    BY <1>1, <1>4, <1>5 DEF ToController
  <2>2. /\ tx = <<>> /\ Head(rx) = rx[1] /\ RxAck = 0
        /\ Msg(plan, faults, Consumed + Len(ctl.inbox), rx[1])
    BY <1>1, <1>4, <1>5, ControllerMeets
  <2>3. Consumed + Len(ctl.inbox) = 2 * ctl.k + 1
    BY <1>2, <1>4, <2>1, SeqEmpty
  <2>4. ~ToDev(plan, ctl.k + 1) BY <1>1 DEF CtlPoint, IsDown, ToDev
  <2>5. Msg(plan, faults, 2 * ctl.k + 1, rx[1]) BY <2>2, <2>3
  <2>6. /\ rx[1].t = "PUBLISH" /\ rx[1].topic = "up" /\ rx[1].payload = ctl.k + 1
        /\ rx[1].ok \/ faults # {}
    BY <1>2, <2>4, <2>5 DEF Msg
  <2>7. /\ Delivered <= 2 * ctl.k + 2
        /\ Delivered = 2 * ctl.k + 2 =>
             2 * ctl.k + 3 <= Allowed /\ dev.pc \in {"dataack", "ackup"}
    BY <1>1, <1>2, <2>1, AckUpRoom
  <2>8. Consumed + 1 - RxAck = 2 * ctl.k + 2 BY <1>2, <1>4, <2>2
  <2>9. Delivered = Consumed + 1 - RxAck /\ Len(rx) = 1
    BY <1>1, <1>4, <1>5, <2>1, <2>2, <2>7, <2>8, LastMessage
  <2> QED BY <2>1, <2>2, <2>6, <2>7, <2>8, <2>9 DEF Cur
<1> QED BY <1>3, <1>5

LEMMA CtlPatternStep ==
    ASSUME Counter, RoundInv, CtlPattern
    PROVE  RoundInv'
<1> DEFINE valid == /\ Head(rx).topic = "up" /\ Head(rx).payload = Cur
                    /\ Head(rx).ok
           p == [Control("ACK_UP", Cur) EXCEPT !.ok = valid]
<1>1. /\ Types /\ Counted /\ CtlPoint /\ DevPoint /\ Sounds /\ ToDevice
      /\ ToController
  BY DEF RoundInv
<1>2. /\ DOMAIN ctl = CtlFields /\ IsSeq(rx) /\ ctl.k \in Nat /\ moved \in Nat
      /\ dev.k \in Nat
  BY <1>1 DEF Types, Counter
<1>3. /\ ctl.pc = "pattern" /\ ctl'.pc = "ack_up" /\ ctl'.k = ctl.k
      /\ ctl'.inbox = ctl.inbox /\ ctl'.ok = valid
      /\ ctl'.id = ctl.id /\ DOMAIN ctl' = CtlFields
      /\ rx # <<>> /\ rx' = Tail(rx) /\ Head(rx).t = "PUBLISH"
      /\ tx' = Append(tx, Request(ctl'.id, p))
      /\ moved' = IF valid THEN moved + 1 ELSE moved
      /\ UNCHANGED <<plan, dev, up, down, link, csub, dsub, faults>>
  BY <1>2 DEF CtlPattern, CtlKeeps, broker, CtlFields
<1>4. valid => moved = ctl.k /\ dev.k = ctl.k BY <1>3, PatternMeets
<1>5. Fine => /\ valid \/ faults # {}
              /\ tx = <<>> /\ ctl.inbox = <<>> /\ Len(rx) = 1 /\ csub
              /\ Delivered = 2 * ctl.k + 2 /\ 2 * ctl.k + 3 <= Allowed
              /\ dev.pc \in {"dataack", "ackup"}
  BY <1>3, PatternMeets
<1>6. valid \in BOOLEAN OBVIOUS
<1>7. ~ToDev(plan, ctl.k + 1) BY <1>1, <1>3 DEF CtlPoint, IsDown, ToDev
<1>8. ASSUME NEW m \in Nat, valid => ctl.k < m, valid \/ faults # {}
      PROVE  Item(plan, m, faults, 2 * ctl.k + 2, p)
  <2>1. p = [Control("ACK_UP", ctl.k + 1) EXCEPT !.ok = valid] BY DEF Cur
  <2> HIDE DEF valid, p
  <2> QED BY <1>2, <1>6, <1>7, <1>8, <2>1, ItemBuilt
<1> HIDE DEF valid, p
<1>9. /\ moved' \in Nat /\ moved <= moved' /\ ctl'.pc \in CtlPoints
      /\ valid => moved' = ctl.k + 1
      /\ ~valid => moved' = moved
  BY <1>2, <1>3, <1>4 DEF CtlPoints
<1>10. Types' /\ Sounds' BY <1>1, <1>2, <1>3, <1>9, ControllerSends
<1>11. Counted'
  <2>1. CASE valid BY <1>1, <1>2, <1>3, <1>4, <1>9, <2>1 DEF Counted
  <2>2. CASE ~valid BY <1>1, <1>3, <1>9, <2>2 DEF Counted
  <2> QED BY <2>1, <2>2
<1>12. CtlPoint' BY <1>1, <1>3, <1>7, <1>9 DEF CtlPoint, IsDown, ToDev
<1>13. DevPoint'
  BY <1>1, <1>3, <1>5, <1>9 DEF DevPoint, Live, Fine, IsDown
<1>14. /\ Consumed' = 2 * ctl.k + 2 /\ Issued = 2 * ctl.k + 2
       /\ Issued' = 2 * ctl.k + 3 /\ Active /\ CtlAwaits' /\ ctl'.pc # "suback"
  BY <1>3 DEF Consumed, Issued, Active, CtlAwaits
<1>15. ToDevice' /\ ToController'
  <2>1. Issued + 1 = 2 * ctl.k + 3 BY <1>2, <1>14
  <2>2. Live => Issued + 1 <= Allowed /\ Issued + 1 <= 2 * ctl'.k + 3
    BY <1>2, <1>3, <1>5, <2>1 DEF Fine
  <2>3. Fine => Consumed' = Delivered /\ Issued' = Issued + 1
    BY <1>5, <1>14, <2>1
  <2>4. valid => ctl.k < moved' BY <1>2, <1>9
  <2>5. Fine => Item(plan, moved', faults, Issued, p)
    BY <1>5, <1>8, <1>9, <1>14, <2>4
  <2>6. Fine => rx' = <<>> BY <1>2, <1>3, <1>5, SeqTail
  <2>7. Fine => tx = <<>> /\ ctl'.inbox = <<>> /\ csub BY <1>3, <1>5
  <2> QED BY <1>1, <1>3, <1>9, <1>10, <1>14, <2>2, <2>3, <2>5, <2>6, <2>7,
             ControllerIssues
<1> QED BY <1>10, <1>11, <1>12, <1>13, <1>15 DEF RoundInv

(* The controller gives up.                                                  *)
LEMMA CtlStops ==
    ASSUME Counter, RoundInv, ctl' = [ctl EXCEPT !.pc = "failed"],
           UNCHANGED <<plan, dev, up, down, tx, rx, link, csub, dsub, moved,
                       faults>>
    PROVE  RoundInv'
<1>1. /\ Types /\ Counted /\ CtlPoint /\ DevPoint /\ Sounds /\ ToDevice
  BY DEF RoundInv
<1>2. DOMAIN ctl = CtlFields /\ ctl.k \in Nat /\ moved \in Nat BY <1>1 DEF Types
<1>3. /\ ctl'.pc = "failed" /\ ctl'.k = ctl.k /\ ctl'.inbox = ctl.inbox
      /\ DOMAIN ctl' = CtlFields
  BY <1>2 DEF CtlFields
<1>4. ctl'.pc \in CtlPoints /\ moved <= moved' BY <1>2, <1>3 DEF CtlPoints
<1>5. Types' /\ Sounds' BY <1>1, <1>2, <1>3, <1>4, ControllerSends
<1>6. Counted' /\ CtlPoint' /\ DevPoint'
  BY <1>1, <1>3 DEF Counted, CtlPoint, DevPoint, Live, IsDown
<1>7. /\ (Live' <=> Live) /\ ~Active'
      /\ (DevAwaits' <=> DevAwaits) /\ DownAck' = DownAck /\ Received' = Received
      /\ Published' = Published /\ Allowed' = Allowed
      /\ LastId' = LastId /\ Sent' = Sent /\ TxItem' = TxItem
  BY <1>3 DEF Live, Active, DevAwaits, DownAck, Received, Published,
              Allowed, Ahead, IsDown, LastId, Sent, TxItem
<1>8. ToDevice' BY <1>1, <1>3, <1>7 DEF ToDevice
<1> QED BY <1>5, <1>6, <1>7, <1>8 DEF RoundInv, ToController

(* The metrics are the last message of the operation.                        *)
LEMMA MetricsMeet ==
    ASSUME Counter, RoundInv, ctl.pc = "metrics", Waiting("metrics") # {}, Fine
    PROVE  /\ RemoveAt(ctl.inbox, First(Waiting("metrics"))) = <<>>
           /\ rx = <<>> /\ tx = <<>> /\ csub
           /\ Delivered = 2 * ctl.k + 3 /\ dev.k = ctl.k + 1
           /\ ctl.k + 1 < Total => 2 * ctl.k + 4 <= Allowed
<1> DEFINE i == First(Waiting("metrics"))
<1>1. /\ Types /\ DevPoint /\ ToController
  BY DEF RoundInv
<1>2. IsSeq(ctl.inbox) /\ ctl.k \in Nat BY <1>1 DEF Types
<1>3. ctl.inbox # <<>> /\ (ctl.inbox[1].topic = "metrics" => i = 1)
  BY <1>2, WaitingIn
<1> HIDE DEF i
<1>4. Consumed = 2 * ctl.k + 2 /\ Issued = 2 * ctl.k + 3 /\ Active /\ ~CtlAwaits
  BY DEF Consumed, Issued, Active, CtlAwaits
<1>5. /\ RxAck = 0 /\ tx = <<>>
      /\ Msg(plan, faults, 2 * ctl.k + 2, ctl.inbox[1])
  BY <1>1, <1>3, <1>4, ControllerKeeps
<1>6. i = 1 BY <1>2, <1>3, <1>5 DEF Msg
<1>7. Received <= 2 * ctl.k + 3 /\ csub BY <1>1, <1>4 DEF ToController
<1>8. /\ Delivered <= 2 * ctl.k + 3
      /\ Delivered = 2 * ctl.k + 3 =>
           /\ dev.k = ctl.k + 1
           /\ ctl.k + 1 < Total => 2 * ctl.k + 4 <= Allowed
  BY <1>1, <1>2, <1>7, NextRoom
<1>9. Consumed + 1 - RxAck = 2 * ctl.k + 3 BY <1>2, <1>4, <1>5
<1>10. Delivered = Consumed + 1 - RxAck /\ Len(ctl.inbox) = 1 /\ rx = <<>>
  BY <1>1, <1>3, <1>4, <1>5, <1>8, <1>9, LastMessage
<1>11. RemoveAt(ctl.inbox, i) = <<>>
  BY <1>2, <1>3, <1>6, <1>10, SeqRemoveFirst, SeqTail
<1> QED BY <1>5, <1>7, <1>8, <1>9, <1>10, <1>11 DEF i

LEMMA CtlMetricsStep ==
    ASSUME Counter, RoundInv, CtlMetrics
    PROVE  RoundInv'
<1> DEFINE i == First(Waiting("metrics"))
<1>1. /\ Types /\ Counted /\ CtlPoint /\ DevPoint /\ Sounds /\ ToDevice
      /\ ToController
  BY DEF RoundInv
<1>2. /\ DOMAIN ctl = CtlFields /\ IsSeq(ctl.inbox) /\ ctl.k \in Nat
      /\ moved \in Nat /\ dev.k \in Nat /\ Total \in Nat
  BY <1>1, SomeOperation DEF Types, Counter
<1>3. /\ ctl.pc = "metrics" /\ Waiting("metrics") # {}
      /\ UNCHANGED <<plan, dev, up, down, rx, link, csub, dsub, moved, faults>>
  BY DEF CtlMetrics, CtlKeeps, broker
<1>4. i \in DOMAIN ctl.inbox BY <1>2, <1>3, WaitingIn
<1>5. Fine => /\ RemoveAt(ctl.inbox, i) = <<>>
              /\ rx = <<>> /\ tx = <<>> /\ csub
              /\ Delivered = 2 * ctl.k + 3 /\ dev.k = ctl.k + 1
              /\ ctl.k + 1 < Total => 2 * ctl.k + 4 <= Allowed
  BY <1>3, MetricsMeet
<1>6. Consumed = 2 * ctl.k + 2 /\ Issued = 2 * ctl.k + 3 /\ Active
  BY <1>3 DEF Consumed, Issued, Active
<1>7. CASE ~ctl.ok /\ ctl' = [ctl EXCEPT !.pc = "failed"] /\ tx' = tx
  BY <1>3, <1>7, CtlStops
<1>8. CASE /\ ctl.ok /\ Cur = Total /\ tx' = tx
           /\ ctl' = [ctl EXCEPT !.pc = "complete", !.k = Cur,
                                 !.inbox = RemoveAt(ctl.inbox, i)]
  <2>1. /\ ctl'.pc = "complete" /\ ctl'.k = ctl.k + 1 /\ ctl.k + 1 = Total
        /\ ctl'.inbox = RemoveAt(ctl.inbox, i) /\ DOMAIN ctl' = CtlFields
        /\ tx' = tx /\ ctl.ok
    BY <1>2, <1>8 DEF CtlFields, Cur
  <2> HIDE DEF i
  <2>2. ctl'.pc \in CtlPoints /\ moved <= moved' /\ ctl'.k \in Nat
    BY <1>2, <1>3, <2>1 DEF CtlPoints
  <2>3. Types' /\ Sounds'
    BY <1>1, <1>2, <1>3, <1>4, <2>1, <2>2, ControllerSends
  <2>4. moved = ctl.k + 1 BY <1>1, <1>3, <2>1 DEF CtlPoint
  <2>5. Counted' BY <1>1, <1>2, <1>3, <2>1, <2>4 DEF Counted
  <2>6. CtlPoint' BY <1>2, <1>3, <2>1, <2>4 DEF CtlPoint
  <2>7. DevPoint' BY <1>1, <1>2, <1>3, <1>5, <2>1 DEF DevPoint, Live, Fine, IsDown
  <2>8. /\ (Live' <=> Live) /\ ~Active'
        /\ (DevAwaits' <=> DevAwaits) /\ DownAck' = DownAck
        /\ Received' = Received /\ Published' = Published /\ Allowed' = Allowed
        /\ LastId' = LastId /\ Sent' = Sent /\ TxItem' = TxItem
        /\ Issued' = 2 * ctl'.k + 1 /\ ctl.pc # "failed"
    BY <1>3, <2>1 DEF Live, Active, DevAwaits, DownAck, Received, Published,
       Allowed, Ahead, IsDown, LastId, Sent, TxItem, Issued
  <2>9. Issued' = Issued
    <3>1. 2 * ctl'.k + 1 = 2 * ctl.k + 3 BY <1>2, <2>1
    <3> QED BY <1>6, <2>8, <3>1, Zenon
  <2>10. ASSUME Live PROVE Sent + TxItem <= 2 * ctl'.k + 3
    <3>1. Sent + TxItem = 2 * ctl.k + 3 BY <1>1, <1>6, <2>8, <2>10 DEF ToDevice
    <3>2. 2 * ctl.k + 3 <= 2 * ctl'.k + 3 BY <1>2, <2>1
    <3> QED BY <3>1, <3>2
  <2>11. ToDevice' BY <1>1, <1>3, <2>1, <2>8, <2>9, <2>10 DEF ToDevice
  <2> QED BY <2>3, <2>5, <2>6, <2>7, <2>8, <2>11 DEF RoundInv, ToController
<1>9. CASE /\ ctl.ok /\ Cur < Total
           /\ tx' = Append(tx, Request(ctl.id, Command(Cur + 1)))
           /\ ctl' = [ctl EXCEPT !.pc = "command", !.k = Cur,
                                 !.inbox = RemoveAt(ctl.inbox, i)]
  <2>1. /\ ctl'.pc = "command" /\ ctl'.k = ctl.k + 1 /\ ctl.k + 1 < Total
        /\ ctl'.inbox = RemoveAt(ctl.inbox, i) /\ DOMAIN ctl' = CtlFields
        /\ ctl'.id = ctl.id /\ ctl.ok
        /\ tx' = Append(tx, Request(ctl'.id, Command(Cur + 1)))
    BY <1>2, <1>9 DEF CtlFields, Cur
  <2> HIDE DEF i
  <2>2. ctl'.pc \in CtlPoints /\ moved <= moved' /\ ctl'.k \in Nat
    BY <1>2, <1>3, <2>1 DEF CtlPoints
  <2>3. Types' /\ Sounds'
    BY <1>1, <1>2, <1>3, <1>4, <2>1, <2>2, ControllerSends
  <2>4. moved = ctl.k + 1 BY <1>1, <1>3, <2>1 DEF CtlPoint
  <2>5. Counted' BY <1>1, <1>2, <1>3, <2>1, <2>4 DEF Counted
  <2>6. CtlPoint' BY <1>2, <1>3, <2>1, <2>4 DEF CtlPoint
  <2>7. DevPoint' BY <1>1, <1>2, <1>3, <1>5, <2>1 DEF DevPoint, Live, Fine, IsDown
  <2>8. Item(plan, moved', faults, Issued, Command(Cur + 1))
    <3>1. Item(plan, moved, faults, 2 * (ctl.k + 1) + 1,
               Control(IF ToDev(plan, (ctl.k + 1) + 1) THEN "DOWN" ELSE "UP",
                       (ctl.k + 1) + 1))
      BY <1>2, ItemBuilt, ctl.k + 1 \in Nat
    <3>2. 2 * (ctl.k + 1) + 1 = 2 * ctl.k + 3 BY <1>2
    <3>3. 2 * (ctl.k + 1) + 1 = Issued BY <1>6, <3>2, Zenon
    <3> QED BY <1>3, <3>1, <3>3 DEF Command, IsDown, ToDev, Cur
  <2>9. /\ Consumed' = 2 * ctl'.k + 1 /\ Issued' = 2 * ctl'.k + 2
        /\ CtlAwaits' /\ ctl'.pc # "suback"
    BY <2>1 DEF Consumed, Issued, CtlAwaits
  <2>10. /\ 2 * ctl'.k + 1 = 2 * ctl.k + 3 /\ 2 * ctl'.k + 2 = 2 * ctl.k + 4
         /\ 2 * ctl'.k + 3 = 2 * ctl.k + 5
    <3>1. ctl.k \in Nat /\ ctl'.k = ctl.k + 1 BY <1>2, <2>1
    <3>2. \A m, n : m \in Nat /\ n = m + 1 =>
             /\ 2 * n + 1 = 2 * m + 3 /\ 2 * n + 2 = 2 * m + 4 /\ 2 * n + 3 = 2 * m + 5
      OBVIOUS
    <3> QED BY <3>1, <3>2, Zenon
  <2>11. Issued + 1 = 2 * ctl.k + 4 BY <1>2, <1>6
  <2>12. Issued' = Issued + 1 /\ Consumed' = 2 * ctl.k + 3
    BY <2>9, <2>10, <2>11, Zenon
  <2>13. Live => Issued + 1 <= Allowed /\ Issued + 1 <= 2 * ctl'.k + 3
    BY <1>2, <1>5, <2>1, <2>10, <2>11 DEF Fine
  <2>14. Fine => Consumed' = Delivered /\ Issued' = Issued + 1
    BY <1>5, <2>12
  <2>15. Fine => tx = <<>> /\ rx' = <<>> /\ ctl'.inbox = <<>> /\ csub
    BY <1>3, <1>5, <2>1
  <2>16. ToDevice' /\ ToController'
    BY <1>1, <1>3, <1>6, <2>1, <2>2, <2>3, <2>8, <2>9, <2>13, <2>14, <2>15,
       ControllerIssues
  <2> QED BY <2>3, <2>5, <2>6, <2>7, <2>16 DEF RoundInv
<1> QED BY <1>7, <1>8, <1>9 DEF CtlMetrics

LEMMA ControllerRound == ASSUME Counter, RoundInv, Controller PROVE RoundInv'
<1>1. CASE CtlFails
  BY <1>1, CtlStops DEF CtlFails, CtlKeeps, broker
<1>2. CASE CtlClose
  <2>1. /\ ~Active /\ rx' = <<>>
        /\ UNCHANGED <<plan, ctl, dev, up, down, tx, link, dsub, moved, faults>>
    BY <1>2 DEF CtlClose, Active
  <2>2. /\ Types /\ Counted /\ CtlPoint /\ DevPoint /\ Sounds /\ ToDevice
    BY DEF RoundInv
  <2>3. /\ Types' /\ Sounds'
    BY <2>1, <2>2, SeqEmpty, SoundNone DEF Types, Sounds
  <2>4. Counted' /\ CtlPoint' /\ DevPoint'
    BY <2>1, <2>2 DEF Counted, CtlPoint, DevPoint, Live, IsDown
  <2>5. ToDevice' /\ ~Active'
    <3>1. /\ (Live' <=> Live) /\ ~Active'
          /\ (DevAwaits' <=> DevAwaits) /\ DownAck' = DownAck
          /\ Received' = Received /\ Published' = Published
          /\ Allowed' = Allowed /\ LastId' = LastId /\ Sent' = Sent
          /\ TxItem' = TxItem /\ Issued' = Issued
      BY <2>1 DEF Live, Active, DevAwaits, DownAck, Received, Published,
         Allowed, Ahead, IsDown, LastId, Sent, TxItem, Issued
    <3> QED BY <2>1, <2>2, <3>1 DEF ToDevice
  <2> QED BY <2>3, <2>4, <2>5 DEF RoundInv, ToController
<1>3. CASE CtlCommandAck BY <1>3, CtlAnsweredStep, CtlPayloadStep
<1> QED BY <1>1, <1>2, <1>3, CtlSubscribeStep, CtlStoreStep, CtlAnsweredStep,
           CtlReadyStep, CtlCommandStep, CtlDeviceAckStep, CtlPatternStep,
           CtlMetricsStep DEF Controller

-----------------------------------------------------------------------------
(* The broker and the transport.  While a publish of the device is on its    *)
(* way, the controller has nothing on its way to the device.                 *)
LEMMA OneWay ==
    ASSUME Types, Counter, DevPoint, ToDevice, Live,
           up # <<>> \/ dev.pc \in {"start", "suback"}
    PROVE  TxItem = 0
<1>1. /\ dev.k \in Nat /\ Len(down) \in Nat /\ DownAck \in {0, 1}
      /\ TxItem \in {0, 1} /\ Received \in Nat
  BY Numbers DEF Counter
<1>2. DownAck <= Len(down) BY <1>1, SeqFacts DEF ToDevice, Types
<1>3. Received <= Sent
  <2>1. \A r, l, a \in Nat : a <= l => r <= r + l - a OBVIOUS
  <2> QED BY <1>1, <1>2, <2>1 DEF Sent
<1>4. Sent + TxItem <= Allowed BY DEF ToDevice
<1>5. Allowed <= Received
  <2>1. CASE dev.pc \in {"start", "suback"}
    BY <1>1, <2>1 DEF Allowed
  <2>2. CASE up # <<>> /\ dev.pc \in {"readyack", "metricsack"}
    BY <1>1, <2>2 DEF Allowed, Received
  <2>3. CASE up # <<>> /\ dev.pc \in {"dataack", "downack"}
    BY <1>1, <2>3, SomeOperation DEF Allowed, Received, Ahead, DevPoint
  <2> QED BY <2>1, <2>2, <2>3 DEF ToDevice, DevAwaits
<1>6. Sent \in Int /\ Allowed \in Nat BY Numbers
<1> QED BY <1>1, <1>3, <1>4, <1>5, <1>6

(* Something more went wrong and nothing else changed.                       *)
LEMMA FaultsGrow ==
    ASSUME Counter, RoundInv, faults # {} => faults' # {},
           UNCHANGED <<plan, ctl, dev, up, down, tx, rx, link, csub, dsub, moved>>
    PROVE  RoundInv'
<1>1. /\ Types /\ Counted /\ CtlPoint /\ DevPoint /\ Sounds /\ ToDevice
      /\ ToController
  BY DEF RoundInv
<1>2. moved \in Nat BY <1>1 DEF Types
<1>3. /\ Types' /\ Counted' /\ CtlPoint' /\ DevPoint' /\ Sounds'
  BY <1>1 DEF Types, Counted, CtlPoint, DevPoint, Sounds, Live, IsDown
<1>4. /\ (Live' <=> Live) /\ (Fine' <=> Fine) /\ (Active' <=> Active)
      /\ (DevAwaits' <=> DevAwaits) /\ DownAck' = DownAck /\ Received' = Received
      /\ Published' = Published /\ Delivered' = Delivered /\ Allowed' = Allowed
      /\ LastId' = LastId /\ Sent' = Sent /\ TxItem' = TxItem
      /\ (CtlAwaits' <=> CtlAwaits) /\ RxAck' = RxAck /\ Issued' = Issued
      /\ Consumed' = Consumed /\ Arrived' = Arrived
  BY DEF Live, Fine, Active, DevAwaits, DownAck, Received, Published, Delivered,
         Allowed, Ahead, IsDown, LastId, Sent, TxItem, CtlAwaits, RxAck, Issued,
         Consumed, Arrived
<1>5. \A to, q, a, x : Run(to, plan, moved, faults, q, a, x) =>
                       Run(to, plan, moved, faults', q, a, x)
  BY <1>2, RunKept
<1>6. /\ \A j, p : Item(plan, moved, faults, j, p) => Item(plan, moved, faults', j, p)
      /\ \A j, p : Msg(plan, faults, j, p) => Msg(plan, faults', j, p)
  BY <1>2, ItemKept, MsgKept, moved <= moved
<1>7. ToDevice' BY <1>1, <1>4, <1>5, <1>6 DEF ToDevice
<1>8. ToController' BY <1>1, <1>4, <1>5 DEF ToController
<1> QED BY <1>3, <1>7, <1>8 DEF RoundInv

LEMMA BrokerSubscribesDevice ==
    ASSUME Counter, RoundInv, link, up # <<>>, up' = Tail(up),
           Head(up).t = "SUBSCRIBE", dsub' = TRUE,
           down' = Append(down, Answer("SUBACK", Head(up).id)),
           UNCHANGED <<plan, ctl, dev, tx, rx, link, csub, moved, faults>>
    PROVE  RoundInv'
<1> DEFINE e == Answer("SUBACK", Head(up).id)
<1>1. /\ Types /\ Counted /\ CtlPoint /\ DevPoint /\ Sounds /\ ToDevice
      /\ ToController
  BY DEF RoundInv
<1>2. IsSeq(up) /\ IsSeq(down) /\ moved \in Nat BY <1>1 DEF Types
<1>3. IsSeq(up') /\ IsSeq(down') BY <1>2, SeqTail, SeqAppend
<1>4. Types' BY <1>1, <1>3 DEF Types
<1>5. Sounds' BY <1>1, <1>2, SoundTail DEF Sounds
<1>6. Counted' /\ CtlPoint' /\ DevPoint'
  BY <1>1 DEF Counted, CtlPoint, DevPoint, Live, IsDown
<1>7. /\ (Live' <=> Live) /\ (Fine' <=> Fine) /\ (Active' <=> Active)
      /\ (DevAwaits' <=> DevAwaits) /\ Received' = Received
      /\ Published' = Published /\ LastId' = LastId /\ TxItem' = TxItem
      /\ (CtlAwaits' <=> CtlAwaits) /\ RxAck' = RxAck /\ Issued' = Issued
      /\ Consumed' = Consumed /\ Arrived' = Arrived
  BY DEF Live, Fine, Active, DevAwaits, Received, Published, LastId, TxItem,
         CtlAwaits, RxAck, Issued, Consumed, Arrived
<1>8. Fine => Live BY DEF Fine, Live
<1>9. ASSUME Live PROVE ToDevice' /\ ToController'
  <2>1. /\ Head(up) = up[1] /\ DevAwaits /\ down = <<>> /\ Len(up) = 1
        /\ up[1].id = LastId /\ dev.pc = "suback"
    BY <1>1, <1>2, <1>9, SeqTail DEF ToDevice
  <2>2. up' = <<>> BY <1>2, <2>1, SeqTail
  <2>3. /\ down' # <<>> /\ Len(down') = 1 /\ down'[1] = e /\ DOMAIN down' = {1}
    BY <2>1, SeqOne
  <2>4. e.id = LastId /\ e.t = "SUBACK" BY <2>1 DEF Answer
  <2> HIDE DEF e
  <2>5. DownAck = 0 /\ DownAck' = 1 /\ Len(down) = 0
    BY <1>7, <2>1, <2>2, SeqEmpty DEF DownAck
  <2>6. Received \in Nat BY <1>1, Numbers
  <2>7. Sent' = Sent BY <1>7, <2>3, <2>5, <2>6 DEF Sent
  <2>8. Allowed' = Allowed /\ Delivered' = Delivered
    BY <1>7, <2>1 DEF Allowed, Delivered
  <2>9. Run("device", plan, moved, faults, down', 1, Received)
    BY <2>3, RunAck
  <2>10. ToDevice'
    BY <1>1, <1>7, <1>9, <2>1, <2>2, <2>3, <2>4, <2>5, <2>7, <2>8, <2>9
       DEF ToDevice
  <2>11. ToController' BY <1>1, <1>7, <2>8 DEF ToController
  <2> QED BY <2>10, <2>11
<1>10. ASSUME ~Live PROVE ToDevice' /\ ToController'
  BY <1>7, <1>8, <1>10 DEF ToDevice, ToController
<1> QED BY <1>4, <1>5, <1>6, <1>9, <1>10 DEF RoundInv

(* The broker takes a message of the device: it forwards it to a controller  *)
(* that has subscribed, and acknowledges it.                                 *)
LEMMA BrokerForwardsUp ==
    ASSUME Counter, RoundInv, link, up # <<>>, up' = Tail(up),
           Head(up).t = "PUBLISH",
           down' = Append(down, Answer("PUBACK", Head(up).id)),
           csub => rx' = Append(rx, Head(up).pub) /\ faults' = faults,
           ~csub => rx' = rx /\ faults' # {},
           link', dsub' <=> dsub, UNCHANGED <<plan, ctl, dev, tx, csub, moved>>
    PROVE  RoundInv'
<1> DEFINE e == Answer("PUBACK", Head(up).id)
<1>1. /\ Types /\ Counted /\ CtlPoint /\ DevPoint /\ Sounds /\ ToDevice
      /\ ToController
  BY DEF RoundInv
<1>2. /\ IsSeq(up) /\ IsSeq(down) /\ IsSeq(rx) /\ IsSeq(ctl.inbox)
      /\ moved \in Nat /\ dev.k \in Nat
  BY <1>1 DEF Types, Counter
<1>3. IsSeq(up') /\ IsSeq(down') /\ IsSeq(rx')
  <2>1. IsSeq(up') /\ IsSeq(down') BY <1>2, SeqTail, SeqAppend
  <2>2. CASE csub BY <1>2, <2>1, <2>2, SeqAppend
  <2>3. CASE ~csub BY <1>2, <2>1, <2>3
  <2> QED BY <2>2, <2>3
<1>4. Types' BY <1>1, <1>3 DEF Types
<1>5. Sounds'
  <2>1. SoundUp(moved, dev.k, up') /\ Sound(moved, dev.k, Head(up).pub)
    BY <1>1, <1>2, SoundTail DEF Sounds
  <2>2. SoundRx(moved, dev.k, rx) BY <1>1 DEF Sounds
  <2>3. SoundRx(moved, dev.k, rx') BY <1>2, <2>1, <2>2, SoundAppend
  <2> QED BY <1>1, <2>1, <2>3 DEF Sounds
<1>6. Counted' /\ CtlPoint' /\ DevPoint'
  BY <1>1 DEF Counted, CtlPoint, DevPoint, Live, IsDown
<1>7. /\ (Live' <=> Live) /\ (Fine' <=> Fine) /\ (Active' <=> Active)
      /\ (DevAwaits' <=> DevAwaits) /\ Received' = Received
      /\ Published' = Published /\ LastId' = LastId /\ TxItem' = TxItem
      /\ (CtlAwaits' <=> CtlAwaits) /\ RxAck' = RxAck /\ Issued' = Issued
      /\ Consumed' = Consumed
  BY DEF Live, Fine, Active, DevAwaits, Received, Published, LastId, TxItem,
         CtlAwaits, RxAck, Issued, Consumed
<1>8. Fine => Live BY DEF Fine, Live
<1>9. ASSUME Live PROVE ToDevice' /\ ToController'
  <2>1. /\ Head(up) = up[1] /\ DevAwaits /\ down = <<>> /\ Len(up) = 1
        /\ up[1].id = LastId /\ dev.pc # "suback"
        /\ Msg(plan, faults, Published - 1, up[1].pub)
    BY <1>1, <1>2, <1>9, SeqTail DEF ToDevice
  <2>2. up' = <<>> BY <1>2, <2>1, SeqTail
  <2>3. /\ down' # <<>> /\ Len(down') = 1 /\ down'[1] = e /\ DOMAIN down' = {1}
    BY <2>1, SeqOne
  <2>4. e.id = LastId /\ e.t = "PUBACK" BY <2>1 DEF Answer
  <2> HIDE DEF e
  <2>5. DownAck = 0 /\ DownAck' = 1 /\ Len(down) = 0
    BY <1>7, <2>1, <2>2, SeqEmpty DEF DownAck
  <2>6. /\ Received \in Nat /\ Published \in Nat /\ Allowed \in Nat
        /\ Consumed \in Nat /\ Issued \in Nat /\ RxAck \in {0, 1}
        /\ Len(rx) \in Nat /\ Len(ctl.inbox) \in Nat
        /\ Sent \in Int /\ TxItem \in {0, 1}
    BY <1>1, Numbers
  <2>7. Sent' = Sent BY <1>7, <2>3, <2>5, <2>6 DEF Sent
  <2>8. TxItem = 0 BY <1>1, <1>9, OneWay
  <2>9. dev.pc \in {"readyack", "dataack", "downack", "metricsack"}
    BY <2>1 DEF DevAwaits
  <2>10. Allowed <= Allowed' /\ Allowed' \in Nat
    <3>1. CASE dev.pc = "readyack"
      BY <1>2, <2>2, <3>1, SomeOperation DEF Allowed, Ahead, IsDown
    <3>2. CASE dev.pc = "metricsack"
      BY <1>2, <2>2, <3>2, SomeOperation DEF Allowed, Ahead, IsDown
    <3>3. CASE dev.pc \in {"dataack", "downack"}
      <4>1. Allowed = Ahead(dev.k) /\ Allowed' = 2 * dev.k + 3
        BY <2>2, <3>3 DEF Allowed
      <4>2. Ahead(dev.k) <= 2 * dev.k + 3 /\ 2 * dev.k + 3 \in Nat
        BY <1>2 DEF Ahead
      <4> QED BY <4>1, <4>2
    <3> QED BY <2>9, <3>1, <3>2, <3>3
  <2>11. Sent' + TxItem' <= Allowed'
    <3>1. Sent + TxItem <= Allowed BY <1>1, <1>9 DEF ToDevice
    <3> QED BY <1>7, <2>6, <2>7, <2>10, <3>1
  <2>12. Run("device", plan, moved, faults', down', 1, Received)
    BY <2>3, RunAck
  <2>13. ToDevice'
    BY <1>1, <1>7, <1>9, <2>1, <2>2, <2>3, <2>4, <2>5, <2>7, <2>8, <2>9, <2>11,
       <2>12 DEF ToDevice
  <2>14. Delivered = Published - 1 /\ Delivered' = Published
    BY <1>7, <2>1, <2>2 DEF Delivered
  <2>15. ASSUME Active, csub PROVE ToController'
    <3>1. TxItem = 0 /\ tx # <<>> => ctl.pc = "suback"
      BY <1>1, <1>9, <2>15 DEF ToController, TxItem, Fine
    <3>2. tx = <<>> /\ ctl.pc # "start"
      BY <1>1, <1>9, <2>8, <2>15, <3>1 DEF ToController, Fine
    <3>3. RxAck <= Len(rx)
      BY <1>1, <1>2, <1>9, <2>6, <2>15, SeqFacts DEF ToController, Fine
    <3>4. Arrived = Delivered
      <4>1. SUFFICES ASSUME Arrived = 0, Delivered = 1 PROVE FALSE
        BY <1>1, <1>9, <2>15 DEF ToController, Fine
      <4>2. Consumed = 0
        <5>1. \A c, a, b, r \in Nat : r <= b /\ c + a + b - r = 0 => c = 0 OBVIOUS
        <5>2. Consumed + Len(ctl.inbox) + Len(rx) - RxAck = 0
          BY <4>1 DEF Arrived
        <5> QED BY <2>6, <3>3, <5>1, <5>2
      <4>3. ctl.k \in Nat BY <1>1 DEF Types
      <4>4. Issued = 0 BY <4>2, <4>3 DEF Consumed, Issued
      <4>5. Published = 2 BY <2>6, <2>14, <4>1
      <4>6. dev.pc \in {"dataack", "downack"}
        <5>1. dev.pc = "readyack" => Published = 1
          BY <1>1 DEF Published, DevPoint
        <5>2. dev.pc = "metricsack" => Published = 2 * dev.k + 1
          BY DEF Published
        <5>3. 2 * dev.k + 1 # 2 BY <1>2
        <5> QED BY <2>9, <4>5, <5>1, <5>2, <5>3
      <4>7. Received > 0 BY <1>2, <4>6 DEF Received
      <4>8. Received <= Issued BY <1>1, <1>9, <2>15 DEF ToController, Fine
      <4> QED BY <2>6, <4>4, <4>7, <4>8
    <3>5. Fits("controller", plan, moved, faults,
               (Consumed + Len(ctl.inbox)) + Len(rx) - RxAck, Head(up).pub)
      <4>1. Published - 1 = (Consumed + Len(ctl.inbox)) + Len(rx) - RxAck
        BY <2>14, <3>4 DEF Arrived
      <4> QED BY <2>1, <4>1 DEF Fits
    <3>6. Run("controller", plan, moved, faults, rx', RxAck,
              Consumed + Len(ctl.inbox))
      <4>1. Run("controller", plan, moved, faults, rx, RxAck,
                Consumed + Len(ctl.inbox))
        BY <1>1, <1>9, <2>15 DEF ToController, Fine
      <4>2. Consumed + Len(ctl.inbox) \in Nat BY <2>6
      <4> QED BY <1>2, <2>6, <2>15, <3>3, <3>5, <4>1, <4>2, RunAppend
    <3>7. /\ Len(rx') = Len(rx) + 1 /\ rx' # <<>>
          /\ rx # <<>> => rx'[1] = rx[1]
      <4>1. rx' = Append(rx, Head(up).pub) BY <2>15
      <4>2. /\ Append(rx, Head(up).pub) # <<>>
            /\ Len(Append(rx, Head(up).pub)) = Len(rx) + 1
            /\ \A i \in 1 .. Len(rx) : Append(rx, Head(up).pub)[i] = rx[i]
        BY <1>2, SeqAppend, Zenon
      <4>3. rx # <<>> => 1 \in 1 .. Len(rx) BY <1>2, SeqFacts
      <4> QED BY <4>1, <4>2, <4>3, Zenon
    <3>8. Arrived' = Arrived + 1
      <4>1. \A c, a, b, r \in Nat : c + a + (b + 1) - r = (c + a + b - r) + 1
        OBVIOUS
      <4>2. Arrived' = Consumed + Len(ctl.inbox) + (Len(rx) + 1) - RxAck
        BY <1>7, <3>7 DEF Arrived
      <4>3. Consumed + Len(ctl.inbox) + (Len(rx) + 1) - RxAck
              = (Consumed + Len(ctl.inbox) + Len(rx) - RxAck) + 1
        <5>1. PICK c \in Nat, a \in Nat, b \in Nat, r \in Nat :
                c = Consumed /\ a = Len(ctl.inbox) /\ b = Len(rx) /\ r = RxAck
          BY <2>6
        <5>2. c + a + (b + 1) - r = (c + a + b - r) + 1 BY <4>1
        <5> QED BY <5>1, <5>2
      <4> QED BY <4>2, <4>3 DEF Arrived
    <3>9. Arrived' = Delivered' BY <2>6, <2>14, <3>4, <3>8
    <3>10. faults' = faults BY <2>15
    <3> QED BY <1>1, <1>7, <1>9, <2>15, <3>2, <3>6, <3>7, <3>9, <3>10
            DEF ToController, Fine
  <2>16. ASSUME Active, ~csub PROVE ToController'
    <3>1. /\ ctl.pc = "start" \/ (ctl.pc = "suback" /\ tx # <<>>)
          /\ rx = <<>> /\ ctl.inbox = <<>> /\ Received <= Issued
      BY <1>1, <1>9, <2>16 DEF ToController, Fine, CtlAwaits
    <3>2. Consumed = 0 /\ Issued = 0 /\ RxAck = 0
      BY <3>1 DEF Consumed, Issued, RxAck, CtlAwaits
    <3>3. dev.pc = "readyack" BY <1>2, <2>9, <3>1, <3>2 DEF Received
    <3>4. Published = 1 BY <1>1, <3>3 DEF Published, DevPoint
    <3>5. Arrived' = 0 /\ Delivered' = 1
      BY <1>7, <2>14, <2>16, <3>1, <3>2, <3>4, SeqEmpty DEF Arrived
    <3>6. faults' # {} /\ rx' = rx BY <2>16
    <3>7. \A to, q, a, x : Run(to, plan, moved, faults, q, a, x) =>
                           Run(to, plan, moved, faults', q, a, x)
      BY <1>2, <3>6, RunKept
    <3> QED BY <1>1, <1>7, <1>9, <2>16, <3>5, <3>6, <3>7 DEF ToController, Fine
  <2>17. ASSUME ~Active PROVE ToController' BY <1>7, <2>17 DEF ToController
  <2> QED BY <2>13, <2>15, <2>16, <2>17
<1>10. ASSUME ~Live PROVE ToDevice' /\ ToController'
  BY <1>7, <1>8, <1>10 DEF ToDevice, ToController
<1> QED BY <1>4, <1>5, <1>6, <1>9, <1>10 DEF RoundInv

(* The answer to the controller's only request is the only packet for it.    *)
LEMMA BrokerAnswers ==
    ASSUME Types, Counter, ToController, Fine, Active, tx # <<>>,
           tx' = Tail(tx), NEW t, rx' = Append(rx, Answer(t, Head(tx).id)),
           t = IF Head(tx).t = "SUBSCRIBE" THEN "SUBACK" ELSE "PUBACK",
           UNCHANGED <<plan, ctl, dev, up, link, moved>>,
           ctl.pc = "suback" => csub', ctl.pc # "suback" => csub' = csub,
           faults # {} => faults' # {}
    PROVE  ToController' /\ tx' = <<>>
<1> DEFINE e == Answer(t, Head(tx).id)
<1>1. IsSeq(tx) /\ moved \in Nat BY DEF Types
<1>2. /\ Head(tx) = tx[1] /\ CtlAwaits /\ rx = <<>> /\ Len(tx) = 1
      /\ tx[1].id = ctl.id /\ ctl.inbox = <<>>
      /\ tx[1].t = IF ctl.pc = "suback" THEN "SUBSCRIBE" ELSE "PUBLISH"
  BY <1>1, SeqTail DEF ToController
<1>3. tx' = <<>> BY <1>1, <1>2, SeqTail
<1>4. /\ rx' # <<>> /\ Len(rx') = 1 /\ rx'[1] = e /\ DOMAIN rx' = {1}
  BY <1>2, SeqOne
<1>5. e.id = ctl.id /\ e.t = IF ctl.pc = "suback" THEN "SUBACK" ELSE "PUBACK"
  BY <1>2 DEF Answer
<1> HIDE DEF e
<1>6. /\ (Fine' <=> Fine) /\ (Active' <=> Active) /\ Received' = Received
      /\ Published' = Published /\ (CtlAwaits' <=> CtlAwaits)
      /\ Issued' = Issued /\ Consumed' = Consumed /\ Delivered' = Delivered
  BY DEF Fine, Live, Active, Received, Published, CtlAwaits, Issued, Consumed,
         Delivered
<1>7. RxAck = 0 /\ RxAck' = 1 /\ Len(rx) = 0
  BY <1>2, <1>3, <1>6, SeqEmpty DEF RxAck
<1>8. Consumed \in Nat /\ Len(ctl.inbox) \in Nat BY Numbers
<1>9. Arrived' = Arrived BY <1>4, <1>6, <1>7, <1>8 DEF Arrived
<1>10. Run("controller", plan, moved, faults', rx', 1,
           Consumed + Len(ctl.inbox))
  BY <1>4, RunAck
<1>11. \A to, q, a, x : Run(to, plan, moved, faults, q, a, x) =>
                        Run(to, plan, moved, faults', q, a, x)
  BY <1>1, RunKept
<1>12. csub' BY <1>2 DEF ToController, CtlAwaits
<1>13. ctl.pc # "start" BY <1>2 DEF CtlAwaits
<1> QED BY <1>2, <1>3, <1>4, <1>5, <1>6, <1>7, <1>9, <1>10, <1>11, <1>12, <1>13
        DEF ToController

LEMMA BrokerSubscribesController ==
    ASSUME Counter, RoundInv, tx # <<>>, tx' = Tail(tx),
           Head(tx).t = "SUBSCRIBE", csub' = TRUE,
           rx' = Append(rx, Answer("SUBACK", Head(tx).id)),
           UNCHANGED <<plan, ctl, dev, up, down, link, dsub, moved, faults>>
    PROVE  RoundInv'
<1> DEFINE e == Answer("SUBACK", Head(tx).id)
<1>1. /\ Types /\ Counted /\ CtlPoint /\ DevPoint /\ Sounds /\ ToDevice
      /\ ToController
  BY DEF RoundInv
<1>2. IsSeq(tx) /\ IsSeq(rx) BY <1>1 DEF Types
<1>3. IsSeq(tx') /\ IsSeq(rx') BY <1>2, SeqTail, SeqAppend
<1>4. Types' BY <1>1, <1>3 DEF Types
<1>5. Sounds'
  <2>1. e.t # "PUBLISH" BY DEF Answer
  <2> HIDE DEF e
  <2>2. SoundRx(moved, dev.k, Append(rx, e))
    BY <1>1, <1>2, <2>1, SoundAppend DEF Sounds
  <2> QED BY <1>1, <2>2 DEF Sounds, e
<1>6. Counted' /\ CtlPoint' /\ DevPoint'
  BY <1>1 DEF Counted, CtlPoint, DevPoint, Live, IsDown
<1>7. /\ (Live' <=> Live) /\ (Fine' <=> Fine) /\ (Active' <=> Active)
      /\ (DevAwaits' <=> DevAwaits) /\ DownAck' = DownAck /\ Received' = Received
      /\ Published' = Published /\ Allowed' = Allowed
      /\ LastId' = LastId /\ Sent' = Sent /\ Issued' = Issued
  BY DEF Live, Fine, Active, DevAwaits, DownAck, Received, Published, Allowed,
         Ahead, IsDown, LastId, Sent, Issued
<1>8. ASSUME Live PROVE ToDevice'
  <2>1. Len(tx) = 1 /\ Head(tx) = tx[1]
    <3>1. Len(tx) <= 1 BY <1>1, <1>8 DEF ToDevice
    <3>2. Len(tx) \in Nat /\ Len(tx) # 0 BY <1>2, SeqFacts
    <3>3. Head(tx) = tx[1] BY <1>2, SeqTail
    <3>4. \A n \in Nat : n <= 1 /\ n # 0 => n = 1 OBVIOUS
    <3>5. Len(tx) = 1 BY <3>1, <3>2, <3>4, Zenon
    <3> QED BY <3>3, <3>5
  <2>2. tx' = <<>> /\ Len(tx') <= 1 BY <1>2, <2>1, SeqTail, SeqEmpty
  <2>3. TxItem = 0 /\ TxItem' = 0 BY <2>1, <2>2 DEF TxItem
  <2> QED BY <1>1, <1>7, <1>8, <2>2, <2>3 DEF ToDevice
<1>9. ASSUME Fine, Active PROVE ToController'
  <2>1. ctl.pc = "suback"
    BY <1>1, <1>2, <1>9, SeqTail DEF ToController
  <2> QED BY <1>1, <1>9, <2>1, BrokerAnswers
<1>10. ~(Fine /\ Active) => ToController' BY <1>7 DEF ToController
<1>11. ~Live => ToDevice' BY <1>7 DEF ToDevice
<1> QED BY <1>4, <1>5, <1>6, <1>8, <1>9, <1>10, <1>11 DEF RoundInv

(* The broker takes an item of the controller: it forwards it to a device    *)
(* that has subscribed, and acknowledges it.                                 *)
LEMMA BrokerForwardsDown ==
    ASSUME Counter, RoundInv, tx # <<>>, tx' = Tail(tx),
           Head(tx).t = "PUBLISH",
           rx' = Append(rx, Answer("PUBACK", Head(tx).id)),
           dsub => down' = Append(down, Head(tx).pub) /\ faults' = faults,
           ~dsub => down' = down /\ faults' # {},
           UNCHANGED <<plan, ctl, dev, up, link, csub, dsub, moved>>
    PROVE  RoundInv'
<1> DEFINE e == Answer("PUBACK", Head(tx).id)
<1>1. /\ Types /\ Counted /\ CtlPoint /\ DevPoint /\ Sounds /\ ToDevice
      /\ ToController
  BY DEF RoundInv
<1>2. IsSeq(tx) /\ IsSeq(rx) /\ IsSeq(down) BY <1>1 DEF Types
<1>3. IsSeq(tx') /\ IsSeq(rx') BY <1>2, SeqTail, SeqAppend
<1>4. IsSeq(down') /\ (~link => down' = <<>>)
  <2>1. CASE dsub BY <1>1, <1>2, <2>1, SeqAppend DEF Types
  <2>2. CASE ~dsub BY <1>1, <1>2, <2>2 DEF Types
  <2> QED BY <2>1, <2>2
<1>5. Types' BY <1>1, <1>3, <1>4 DEF Types
<1>6. Sounds'
  <2>1. e.t # "PUBLISH" BY DEF Answer
  <2> HIDE DEF e
  <2>2. SoundRx(moved, dev.k, Append(rx, e))
    BY <1>1, <1>2, <2>1, SoundAppend DEF Sounds
  <2> QED BY <1>1, <2>2 DEF Sounds, e
<1>7. Counted' /\ CtlPoint' /\ DevPoint'
  BY <1>1 DEF Counted, CtlPoint, DevPoint, Live, IsDown
<1>8. /\ (Live' <=> Live) /\ (Fine' <=> Fine) /\ (Active' <=> Active)
      /\ (DevAwaits' <=> DevAwaits) /\ DownAck' = DownAck /\ Received' = Received
      /\ Published' = Published /\ Allowed' = Allowed
      /\ LastId' = LastId /\ Issued' = Issued
  BY DEF Live, Fine, Active, DevAwaits, DownAck, Received, Published, Allowed,
         Ahead, IsDown, LastId, Issued
<1>9. ASSUME Live PROVE ToDevice'
  <2>1. Len(tx) = 1 /\ Head(tx) = tx[1]
    <3>1. Len(tx) <= 1 BY <1>1, <1>9 DEF ToDevice
    <3>2. Len(tx) \in Nat /\ Len(tx) # 0 BY <1>2, SeqFacts
    <3>3. Head(tx) = tx[1] BY <1>2, SeqTail
    <3>4. \A n \in Nat : n <= 1 /\ n # 0 => n = 1 OBVIOUS
    <3>5. Len(tx) = 1 BY <3>1, <3>2, <3>4, Zenon
    <3> QED BY <3>3, <3>5
  <2>2. tx' = <<>> /\ Len(tx') <= 1 BY <1>2, <2>1, SeqTail, SeqEmpty
  <2>3. TxItem = 1 /\ TxItem' = 0 BY <2>1, <2>2 DEF TxItem
  <2>4. up = <<>> /\ dev.pc \notin {"start", "suback"}
    BY <1>1, <1>9, <2>3, OneWay
  <2>5. dsub BY <1>1, <1>9, <2>4 DEF ToDevice
  <2>6. /\ Received \in Nat /\ DownAck \in {0, 1} /\ Len(down) \in Nat
        /\ Sent \in Int
    BY <1>1, Numbers
  <2>7. DownAck <= Len(down) BY <1>1, <1>2, <1>9, <2>6, SeqFacts DEF ToDevice
  <2>8. /\ Run("device", plan, moved, faults, down, DownAck, Received)
        /\ Item(plan, moved, faults, Sent, Head(tx).pub)
    BY <1>1, <1>9, <2>1, <2>3 DEF ToDevice
  <2>9. Run("device", plan, moved, faults, down', DownAck, Received)
    <3>1. Fits("device", plan, moved, faults, Received + Len(down) - DownAck,
               Head(tx).pub)
      BY <2>8 DEF Fits, Sent
    <3> QED BY <1>2, <2>5, <2>6, <2>7, <2>8, <3>1, RunAppend
  <2>10. /\ Len(down') = Len(down) + 1 /\ down' # <<>>
         /\ down # <<>> => down'[1] = down[1]
    <3>1. down' = Append(down, Head(tx).pub) BY <2>5
    <3>2. /\ Append(down, Head(tx).pub) # <<>>
          /\ Len(Append(down, Head(tx).pub)) = Len(down) + 1
          /\ \A i \in 1 .. Len(down) : Append(down, Head(tx).pub)[i] = down[i]
      BY <1>2, SeqAppend, Zenon
    <3>3. down # <<>> => 1 \in 1 .. Len(down) BY <1>2, SeqFacts
    <3> QED BY <3>1, <3>2, <3>3, Zenon
  <2>11. Sent' = Sent + 1
    <3>1. \A r, l, a \in Nat : r + (l + 1) - a = (r + l - a) + 1 OBVIOUS
    <3>2. PICK r \in Nat, l \in Nat, a \in Nat :
            r = Received /\ l = Len(down) /\ a = DownAck
      BY <2>6
    <3>3. r + (l + 1) - a = (r + l - a) + 1 BY <3>1
    <3>4. Sent = r + l - a BY <3>2 DEF Sent
    <3>5. Sent' = r + (l + 1) - a BY <1>8, <2>10, <3>2 DEF Sent
    <3> QED BY <3>3, <3>4, <3>5
  <2>12. Sent' + TxItem' = Sent + TxItem BY <2>3, <2>6, <2>11
  <2>13. faults' = faults BY <2>5
  <2> QED BY <1>1, <1>8, <1>9, <2>2, <2>3, <2>4, <2>5, <2>9, <2>10, <2>12, <2>13
          DEF ToDevice
<1>10. ASSUME Fine, Active PROVE ToController'
  <2>1. ctl.pc # "suback"
    BY <1>1, <1>2, <1>10, SeqTail DEF ToController
  <2>2. faults # {} => faults' # {} OBVIOUS
  <2> QED BY <1>1, <1>10, <2>1, <2>2, BrokerAnswers
<1>11. ~(Fine /\ Active) => ToController' BY <1>8 DEF ToController
<1>12. ~Live => ToDevice' BY <1>8 DEF ToDevice
<1> QED BY <1>5, <1>6, <1>7, <1>9, <1>10, <1>11, <1>12 DEF RoundInv

(* A payload is altered on its way: the acknowledgement in front of it is    *)
(* not, and the packet keeps its number.                                     *)
LEMMA AlterDown ==
    ASSUME Counter, RoundInv, faults' # {}, NEW i \in DOMAIN down,
           down[i].t = "PUBLISH", down' = [down EXCEPT ![i].ok = FALSE],
           UNCHANGED <<plan, ctl, dev, up, tx, rx, link, csub, dsub, moved>>
    PROVE  RoundInv'
<1>1. /\ Types /\ Counted /\ CtlPoint /\ DevPoint /\ Sounds /\ ToDevice
      /\ ToController
  BY DEF RoundInv
<1>2. moved \in Nat /\ IsSeq(down) BY <1>1 DEF Types
<1>3. /\ IsSeq(down') /\ Len(down') = Len(down) /\ DOMAIN down' = DOMAIN down
      /\ \A j \in DOMAIN down : j # i => down'[j] = down[j]
  BY <1>2, SeqAltered
<1>4. down # <<>> /\ down' # <<>> /\ 1 \in DOMAIN down
  <2>1. DOMAIN down # {} OBVIOUS
  <2>2. down # <<>> /\ down' # <<>> BY <1>3, <2>1, SeqEmpty
  <2> QED BY <1>2, <2>2, SeqTail
<1>5. Types' /\ Counted' /\ CtlPoint' /\ DevPoint' /\ Sounds'
  BY <1>1, <1>3, <1>4 DEF Types, Counted, CtlPoint, DevPoint, Sounds, Live, IsDown
<1>6. /\ (Live' <=> Live) /\ (Fine' <=> Fine) /\ (Active' <=> Active)
      /\ (DevAwaits' <=> DevAwaits) /\ DownAck' = DownAck /\ Received' = Received
      /\ Published' = Published /\ Delivered' = Delivered /\ Allowed' = Allowed
      /\ LastId' = LastId /\ TxItem' = TxItem
      /\ (CtlAwaits' <=> CtlAwaits) /\ RxAck' = RxAck /\ Issued' = Issued
      /\ Consumed' = Consumed /\ Arrived' = Arrived
  BY DEF Live, Fine, Active, DevAwaits, DownAck, Received, Published, Delivered,
         Allowed, Ahead, IsDown, LastId, TxItem, CtlAwaits, RxAck, Issued,
         Consumed, Arrived
<1>7. Sent' = Sent BY <1>3, <1>6 DEF Sent
<1>8. \A to, q, a, x : Run(to, plan, moved, faults, q, a, x) =>
                       Run(to, plan, moved, faults', q, a, x)
  BY <1>2, RunKept
<1>9. \A j, p : Item(plan, moved, faults, j, p) => Item(plan, moved, faults', j, p)
  BY <1>2, ItemKept, moved <= moved
<1>10. ASSUME Live PROVE ToDevice'
  <2>1. up = <<>> BY <1>1, <1>4, <1>10 DEF ToDevice
  <2>2. Run("device", plan, moved, faults', down', DownAck, Received)
    <3>1. Run("device", plan, moved, faults, down, DownAck, Received)
      BY <1>1, <1>10 DEF ToDevice
    <3> QED BY <1>2, <3>1, RunAltered
  <2>3. DownAck = 1 => down'[1] = down[1]
    <3>1. DownAck = 1 => down[1].t # "PUBLISH"
      BY <1>1, <1>10 DEF ToDevice
    <3> QED BY <1>3, <1>4, <3>1
  <2> QED BY <1>1, <1>4, <1>6, <1>7, <1>9, <1>10, <2>1, <2>2, <2>3 DEF ToDevice
<1>11. ~Live => ToDevice' BY <1>6 DEF ToDevice
<1>12. ToController' BY <1>1, <1>6, <1>8 DEF ToController
<1> QED BY <1>5, <1>10, <1>11, <1>12 DEF RoundInv

LEMMA AlterRx ==
    ASSUME Counter, RoundInv, faults' # {}, NEW i \in DOMAIN rx,
           rx[i].t = "PUBLISH", rx' = [rx EXCEPT ![i].ok = FALSE],
           UNCHANGED <<plan, ctl, dev, up, tx, down, link, csub, dsub, moved>>
    PROVE  RoundInv'
<1>1. /\ Types /\ Counted /\ CtlPoint /\ DevPoint /\ Sounds /\ ToDevice
      /\ ToController
  BY DEF RoundInv
<1>2. moved \in Nat /\ IsSeq(rx) BY <1>1 DEF Types
<1>3. /\ IsSeq(rx') /\ Len(rx') = Len(rx) /\ DOMAIN rx' = DOMAIN rx
      /\ \A j \in DOMAIN rx : j # i => rx'[j] = rx[j]
  BY <1>2, SeqAltered
<1>4. rx # <<>> /\ rx' # <<>> /\ 1 \in DOMAIN rx
  <2>1. DOMAIN rx # {} OBVIOUS
  <2>2. rx # <<>> /\ rx' # <<>> BY <1>3, <2>1, SeqEmpty
  <2> QED BY <1>2, <2>2, SeqTail
<1>5. SoundRx(moved, dev.k, rx') BY <1>1, <1>2, SoundAltered DEF Sounds
<1>6. Types' /\ Counted' /\ CtlPoint' /\ DevPoint' /\ Sounds'
  BY <1>1, <1>3, <1>5 DEF Types, Counted, CtlPoint, DevPoint, Sounds, Live, IsDown
<1>7. /\ (Live' <=> Live) /\ (Fine' <=> Fine) /\ (Active' <=> Active)
      /\ (DevAwaits' <=> DevAwaits) /\ DownAck' = DownAck /\ Received' = Received
      /\ Published' = Published /\ Delivered' = Delivered /\ Allowed' = Allowed
      /\ LastId' = LastId /\ TxItem' = TxItem /\ Sent' = Sent
      /\ (CtlAwaits' <=> CtlAwaits) /\ RxAck' = RxAck /\ Issued' = Issued
      /\ Consumed' = Consumed
  BY DEF Live, Fine, Active, DevAwaits, DownAck, Received, Published, Delivered,
         Allowed, Ahead, IsDown, LastId, TxItem, Sent, CtlAwaits, RxAck, Issued,
         Consumed
<1>8. Arrived' = Arrived BY <1>3, <1>7 DEF Arrived
<1>9. /\ \A to, q, a, x : Run(to, plan, moved, faults, q, a, x) =>
                          Run(to, plan, moved, faults', q, a, x)
      /\ \A j, p : Item(plan, moved, faults, j, p) => Item(plan, moved, faults', j, p)
      /\ \A j, p : Msg(plan, faults, j, p) => Msg(plan, faults', j, p)
  BY <1>2, RunKept, ItemKept, MsgKept, moved <= moved
<1>10. ToDevice' BY <1>1, <1>7, <1>9 DEF ToDevice
<1>11. ASSUME Fine, Active PROVE ToController'
  <2>1. tx = <<>> /\ ctl.pc # "start"
    BY <1>1, <1>4, <1>11 DEF ToController
  <2>2. Run("controller", plan, moved, faults', rx', RxAck,
            Consumed + Len(ctl.inbox))
    <3>1. Run("controller", plan, moved, faults, rx, RxAck,
              Consumed + Len(ctl.inbox))
      BY <1>1, <1>11 DEF ToController
    <3> QED BY <1>2, <3>1, RunAltered
  <2>3. RxAck = 1 => rx'[1] = rx[1]
    <3>1. RxAck = 1 => rx[1].t # "PUBLISH"
      BY <1>1, <1>11 DEF ToController
    <3> QED BY <1>3, <1>4, <3>1
  <2> QED BY <1>1, <1>4, <1>7, <1>8, <1>9, <1>11, <2>1, <2>2, <2>3
          DEF ToController
<1>12. ~(Fine /\ Active) => ToController' BY <1>7 DEF ToController
<1> QED BY <1>6, <1>10, <1>11, <1>12 DEF RoundInv


LEMMA OthersRound ==
    ASSUME Inv, RoundInv, Broker \/ Alter \/ LinkDown \/ TimePasses \/ Done
                          \/ UNCHANGED vars
    PROVE  RoundInv'
<1>1. Counter BY DEF Inv
<1>2. CASE BrokerDevice
  <2>1. Head(up).id # 0
    <3>1. IsSeq(up) BY DEF RoundInv, Types
    <3>2. up # <<>> BY <1>2 DEF BrokerDevice
    <3>3. Head(up) = up[1] /\ 1 \in DOMAIN up BY <3>1, <3>2, SeqTail
    <3>4. up[1].id \in 1 .. (IdSpace - 1) BY <3>3 DEF Inv, IdsValid
    <3> QED BY <3>3, <3>4
  <2>2. CASE /\ Head(up).t = "SUBSCRIBE" /\ dsub' = TRUE
             /\ down' = Append(down, Answer("SUBACK", Head(up).id))
             /\ UNCHANGED <<rx, faults, link>>
    <3>1. /\ link /\ up # <<>> /\ up' = Tail(up)
          /\ UNCHANGED <<plan, ctl, dev, tx, csub, moved>>
      BY <1>2 DEF BrokerDevice
    <3> QED BY <1>1, <2>2, <3>1, BrokerSubscribesDevice
  <2>3. CASE /\ Head(up).t = "PUBLISH" /\ link' = (Head(up).id # 0)
             /\ dsub' = (dsub /\ link')
             /\ down' = IF link' THEN Append(down, Answer("PUBACK", Head(up).id))
                        ELSE down
             /\ rx' = IF link' /\ csub THEN Append(rx, Head(up).pub) ELSE rx
             /\ faults' = IF csub THEN faults
                          ELSE faults \cup {"no subscriber"}
    <3>1. /\ link /\ up # <<>> /\ up' = Tail(up)
          /\ UNCHANGED <<plan, ctl, dev, tx, csub, moved>>
      BY <1>2 DEF BrokerDevice
    <3>2. link' /\ (dsub' <=> dsub) BY <2>1, <2>3, Zenon
    <3>3. down' = Append(down, Answer("PUBACK", Head(up).id))
      BY <2>3, <3>2, Zenon
    <3>4. csub => rx' = Append(rx, Head(up).pub) /\ faults' = faults
      BY <2>3, <3>2, Zenon
    <3>5. ~csub => rx' = rx /\ faults' # {}
      BY <2>3, <3>2, Zenon
    <3>6. Head(up).t = "PUBLISH" BY <2>3, Zenon
    <3> HIDE <2>3
    <3> QED BY <1>1, <3>1, <3>2, <3>3, <3>4, <3>5, <3>6, BrokerForwardsUp
  <2> QED BY <1>2, <2>2, <2>3, Zenon DEF BrokerDevice
<1>3. CASE BrokerController
  <2>1. CASE /\ Head(tx).t = "SUBSCRIBE" /\ csub' = TRUE
             /\ rx' = Append(rx, Answer("SUBACK", Head(tx).id))
             /\ UNCHANGED <<down, faults>>
    <3>1. /\ tx # <<>> /\ tx' = Tail(tx)
          /\ UNCHANGED <<plan, ctl, dev, up, link, dsub, moved>>
      BY <1>3 DEF BrokerController
    <3> QED BY <1>1, <2>1, <3>1, BrokerSubscribesController
  <2>2. CASE /\ Head(tx).t = "PUBLISH"
             /\ rx' = Append(rx, Answer("PUBACK", Head(tx).id))
             /\ down' = IF dsub THEN Append(down, Head(tx).pub) ELSE down
             /\ faults' = IF dsub THEN faults
                          ELSE faults \cup {"no subscriber"}
             /\ UNCHANGED csub
    <3>1. /\ tx # <<>> /\ tx' = Tail(tx)
          /\ UNCHANGED <<plan, ctl, dev, up, link, dsub, moved>>
      BY <1>3 DEF BrokerController
    <3>2. /\ Head(tx).t = "PUBLISH" /\ csub' = csub
          /\ rx' = Append(rx, Answer("PUBACK", Head(tx).id))
      BY <2>2, Zenon
    <3>3. dsub => down' = Append(down, Head(tx).pub) /\ faults' = faults
      BY <2>2, Zenon
    <3>4. ~dsub => down' = down /\ faults' # {}
      BY <2>2, Zenon
    <3> HIDE <2>2
    <3> QED BY <1>1, <3>1, <3>2, <3>3, <3>4, BrokerForwardsDown
  <2> QED BY <1>3, <2>1, <2>2, Zenon DEF BrokerController
<1>4. CASE Alter
  <2>1. /\ faults' # {}
        /\ UNCHANGED <<plan, ctl, dev, up, tx, link, csub, dsub, moved>>
    BY <1>4 DEF Alter
  <2>2. CASE \E i \in DOMAIN down :
               /\ down[i].t = "PUBLISH" /\ rx' = rx
               /\ down' = [down EXCEPT ![i].ok = FALSE]
    BY <1>1, <2>1, <2>2, AlterDown
  <2>3. CASE \E i \in DOMAIN rx :
               /\ rx[i].t = "PUBLISH" /\ down' = down
               /\ rx' = [rx EXCEPT ![i].ok = FALSE]
    BY <1>1, <2>1, <2>3, AlterRx
  <2> QED BY <1>4, <2>2, <2>3 DEF Alter
<1>5. CASE LinkDown
  <2>1. /\ link /\ link' = FALSE /\ dsub' = FALSE /\ up' = <<>> /\ down' = <<>>
        /\ faults' # {}
        /\ UNCHANGED <<plan, ctl, dev, tx, rx, csub, moved>>
    BY <1>5 DEF LinkDown
  <2>2. dev.pc = "success" => up = <<>>
    BY <2>1 DEF RoundInv, ToDevice, Live, DevAwaits
  <2> QED BY <1>1, <2>1, <2>2, HangUpStep
<1>6. CASE TimePasses \/ Done \/ UNCHANGED vars
  <2>1. /\ UNCHANGED <<plan, ctl, dev, up, down, tx, rx, link, csub, dsub, moved>>
        /\ faults # {} => faults' # {}
    BY <1>6 DEF TimePasses, Done, vars
  <2> QED BY <1>1, <2>1, FaultsGrow
<1> QED BY <1>2, <1>3, <1>4, <1>5, <1>6 DEF Broker

(* The round at its start.                                                   *)
LEMMA InitRound == ASSUME Init PROVE RoundInv
<1>1. /\ ctl.pc = "start" /\ ctl.k = 0 /\ ctl.inbox = <<>>
      /\ DOMAIN ctl = CtlFields /\ dev.pc = "start" /\ dev.k = 0 /\ dev.op = 0
      /\ up = <<>> /\ down = <<>> /\ tx = <<>> /\ rx = <<>>
      /\ link /\ ~csub /\ moved = 0
  BY DEF Init, CtlFields
<1>2. Types BY <1>1, SeqEmpty DEF Types, CtlPoints, DevPoints
<1>3. Counted /\ CtlPoint /\ DevPoint
  BY <1>1, SomeOperation DEF Counted, CtlPoint, DevPoint
<1>4. Sounds BY <1>1, SoundNone DEF Sounds
<1>5. /\ DownAck = 0 /\ RxAck = 0 /\ Received = 0 /\ TxItem = 0
      /\ Published = 0 /\ Delivered = 0 /\ Allowed = 0 /\ Issued = 0
      /\ Consumed = 0 /\ ~CtlAwaits
  BY <1>1 DEF DownAck, DevAwaits, RxAck, CtlAwaits, Received, TxItem, Published,
              Delivered, Allowed, Issued, Consumed
<1>6. Sent = 0 /\ Arrived = 0 BY <1>1, <1>5, SeqEmpty DEF Sent, Arrived
<1>7. /\ Run("device", plan, moved, faults, down, DownAck, Received)
      /\ Run("controller", plan, moved, faults, ctl.inbox, 0, Consumed)
      /\ Run("controller", plan, moved, faults, rx, RxAck, Consumed + Len(ctl.inbox))
  BY <1>1, RunNone
<1>8. ToDevice BY <1>1, <1>5, <1>6, <1>7, SeqEmpty DEF ToDevice
<1>9. ToController BY <1>1, <1>5, <1>6, <1>7 DEF ToController
<1> QED BY <1>2, <1>3, <1>4, <1>8, <1>9 DEF RoundInv

-----------------------------------------------------------------------------
LEMMA RoundKept == ASSUME Inv, RoundInv, [Next]_vars PROVE RoundInv'
<1>1. Counter BY DEF Inv
<1>2. CASE Device BY <1>1, <1>2, DeviceRound
<1>3. CASE Controller BY <1>1, <1>3, ControllerRound
<1>4. CASE Broker \/ Alter \/ LinkDown \/ TimePasses \/ Done \/ UNCHANGED vars
  BY <1>4, OthersRound
<1> QED BY <1>2, <1>3, <1>4 DEF Next

(* The refinement: what a step of the round is to the abstract round.        *)
GivenUp == (IF dev.pc = "failed" THEN {"device"} ELSE {})
           \cup (IF ctl.pc = "failed" THEN {"controller"} ELSE {})
AStep == Agreement!ANext \/ UNCHANGED <<moved, dev.k, ctl.k, GivenUp>>

LEMMA NothingCounted ==
    ASSUME moved' = moved, dev'.k = dev.k, ctl'.k = ctl.k,
           dev'.pc = "failed" <=> dev.pc = "failed",
           ctl'.pc = "failed" <=> ctl.pc = "failed"
    PROVE  AStep
<1>1. GivenUp' = GivenUp BY DEF GivenUp
<1> QED BY <1>1 DEF AStep

LEMMA GivesUp ==
    ASSUME moved' = moved, dev'.k = dev.k, ctl'.k = ctl.k,
           \/ /\ dev.pc # "failed" /\ dev'.pc = "failed" /\ ctl'.pc = ctl.pc
           \/ /\ ctl.pc # "failed" /\ ctl'.pc = "failed" /\ dev'.pc = dev.pc
    PROVE  AStep
<1>1. CASE dev.pc # "failed" /\ dev'.pc = "failed" /\ ctl'.pc = ctl.pc
  <2>1. /\ "device" \in Agreement!Ends \ GivenUp
        /\ GivenUp' = GivenUp \cup {"device"}
    BY <1>1 DEF GivenUp, Agreement!Ends
  <2> QED BY <2>1 DEF AStep, GivenUp, Agreement!ANext, Agreement!GiveUp
<1>2. CASE ctl.pc # "failed" /\ ctl'.pc = "failed" /\ dev'.pc = dev.pc
  <2>1. /\ "controller" \in Agreement!Ends \ GivenUp
        /\ GivenUp' = GivenUp \cup {"controller"}
    BY <1>2 DEF GivenUp, Agreement!Ends
  <2> QED BY <2>1 DEF AStep, GivenUp, Agreement!ANext, Agreement!GiveUp
<1> QED BY <1>1, <1>2

LEMMA Moves ==
    ASSUME moved < Total, moved = dev.k, moved = ctl.k, moved' = moved + 1,
           dev'.k = dev.k, ctl'.k = ctl.k,
           dev'.pc = "failed" <=> dev.pc = "failed",
           ctl'.pc = "failed" <=> ctl.pc = "failed"
    PROVE  AStep
<1>1. GivenUp' = GivenUp BY DEF GivenUp
<1> QED BY <1>1 DEF AStep, GivenUp, Agreement!ANext, Agreement!Move

LEMMA Counts ==
    ASSUME moved' = moved, dev'.pc = "failed" <=> dev.pc = "failed",
           ctl'.pc = "failed" <=> ctl.pc = "failed",
           \/ /\ dev.pc # "failed" /\ dev.k < moved /\ dev'.k = dev.k + 1
              /\ ctl'.k = ctl.k
           \/ /\ ctl.pc # "failed" /\ ctl.k < moved /\ ctl'.k = ctl.k + 1
              /\ dev'.k = dev.k
    PROVE  AStep
<1>1. GivenUp' = GivenUp BY DEF GivenUp
<1>2. /\ dev.pc # "failed" => "device" \notin GivenUp
      /\ ctl.pc # "failed" => "controller" \notin GivenUp
  BY DEF GivenUp
<1> QED BY <1>1, <1>2 DEF AStep, GivenUp, Agreement!ANext, Agreement!DeviceCounts,
                          Agreement!ControllerCounts

LEMMA DeviceAgrees == ASSUME Counter, RoundInv, Device PROVE AStep
<1>1. dev.k \in Nat /\ moved \in Nat /\ dev.valid \in BOOLEAN
      /\ DOMAIN dev = {"pc", "n", "k", "id", "op", "valid"}
  BY DEF Counter, RoundInv, Types
<1>2. ASSUME NEW good \in BOOLEAN, NEW used, Metrics(good, used), DevKeeps,
             UNCHANGED moved, dev.pc # "failed", good => moved = dev.k + 1
      PROVE  AStep
  <2>1. /\ dev'.pc = "metricsack" /\ ctl' = ctl /\ moved' = moved
        /\ good => dev'.k = dev.k + 1
        /\ ~good => dev'.k = dev.k
    BY <1>1, <1>2 DEF Metrics, DevKeeps
  <2>2. CASE good
    <3>1. dev.k < moved BY <1>1, <1>2, <2>2
    <3> QED BY <1>2, <2>1, <2>2, <3>1, Counts
  <2>3. CASE ~good BY <1>2, <2>1, <2>3, NothingCounted
  <2> QED BY <2>2, <2>3
<1>3. CASE DevSubscribe \/ DevReady \/ DevReadyAck \/ DevDataAck
  <2>1. /\ dev'.k = dev.k /\ dev'.pc # "failed" /\ dev.pc # "failed"
        /\ ctl' = ctl /\ moved' = moved
    BY <1>1, <1>3 DEF DevSubscribe, DevReady, DevReadyAck, DevDataAck, Strict,
                      DevKeeps
  <2> QED BY <2>1, NothingCounted
<1>4. CASE DevBegin \/ DevControl
  <2>1. /\ dev'.k = dev.k /\ dev'.pc # "failed" /\ dev.pc # "failed"
        /\ ctl' = ctl /\ moved' = moved
    BY <1>1, <1>4 DEF DevBegin, DevControl, DevKeeps
  <2> QED BY <2>1, NothingCounted
<1>5. CASE DevData
  <2> DEFINE good == Head(down).payload = dev.op /\ Head(down).ok
  <2>1. /\ dev.pc = "data" /\ down # <<>> /\ dev'.k = dev.k
        /\ dev'.pc = "downack" /\ ctl' = ctl
        /\ moved' = IF good THEN moved + 1 ELSE moved
    BY <1>1, <1>5 DEF DevData, DevKeeps
  <2> HIDE DEF good
  <2>2. moved = dev.k /\ ctl.k = dev.k /\ dev.k < Total BY <2>1, PayloadMeets
  <2>3. CASE good BY <2>1, <2>2, <2>3, Moves
  <2>4. CASE ~good BY <2>1, <2>4, NothingCounted
  <2> QED BY <2>3, <2>4
<1>6. CASE DevDownAck
  <2>1. /\ dev.pc = "downack" /\ Metrics(dev.valid, TRUE) /\ DevKeeps
        /\ UNCHANGED moved
    BY <1>6 DEF DevDownAck, Strict
  <2>2. dev.valid => moved = dev.k + 1 BY <2>1 DEF RoundInv, Counted
  <2> QED BY <1>1, <1>2, <2>1, <2>2
<1>7. CASE DevAckUp
  <2> DEFINE good == Head(down).what = "ACK_UP" /\ Head(down).seq = dev.op
                     /\ Head(down).ok
  <2>1. /\ dev.pc = "ackup" /\ down # <<>> /\ Metrics(good, TRUE)
        /\ DevKeeps /\ UNCHANGED moved
    BY <1>7 DEF DevAckUp
  <2>2. good => moved = dev.k + 1 BY <2>1, AckUpMeets
  <2>3. good \in BOOLEAN OBVIOUS
  <2> HIDE DEF good
  <2> QED BY <1>2, <2>1, <2>2, <2>3
<1>8. CASE DevMetricsAck
  <2>1. /\ dev.pc = "metricsack" /\ dev'.k = dev.k /\ ctl' = ctl /\ moved' = moved
        /\ dev.valid => dev'.pc # "failed"
        /\ ~dev.valid => dev'.pc = "failed"
    BY <1>1, <1>8 DEF DevMetricsAck, Strict, DevKeeps
  <2>2. CASE dev.valid BY <2>1, <2>2, NothingCounted
  <2>3. CASE ~dev.valid BY <2>1, <2>3, GivesUp
  <2> QED BY <2>2, <2>3
<1>9. CASE DevReadFails
  <2>1. dev.pc # "failed" /\ ctl' = ctl /\ moved' = moved /\ DevKeeps
    BY <1>9 DEF DevReadFails, DevReading, DevKeeps
  <2>2. CASE dev.pc \in {"data", "dataack", "downack", "ackup"}
    <3>1. Metrics(FALSE, down # <<>>) BY <1>9, <2>2 DEF DevReadFails
    <3> QED BY <1>2, <2>1, <3>1
  <2>3. CASE dev.pc \notin {"data", "dataack", "downack", "ackup"}
    <3>1. dev'.pc = "failed" /\ dev'.k = dev.k
      BY <1>1, <1>9, <2>3 DEF DevReadFails
    <3> QED BY <2>1, <3>1, GivesUp
  <2> QED BY <2>2, <2>3
<1>10. CASE DevHangsUp BY <1>10, NothingCounted DEF DevHangsUp
<1> QED BY <1>3, <1>4, <1>5, <1>6, <1>7, <1>8, <1>9, <1>10 DEF Device

LEMMA ControllerAgrees == ASSUME Counter, RoundInv, Controller PROVE AStep
<1>1. /\ ctl.k \in Nat /\ moved \in Nat /\ Total \in Nat
      /\ DOMAIN ctl = CtlFields
  BY SomeOperation DEF RoundInv, Types
<1>2. CASE CtlSubscribe \/ CtlStore \/ CtlSuback \/ CtlReady \/ CtlCommand
  <2>1. /\ ctl'.k = ctl.k /\ ctl'.pc # "failed" /\ ctl.pc # "failed"
        /\ dev' = dev /\ moved' = moved
    BY <1>1, <1>2 DEF CtlSubscribe, CtlStore, CtlSuback, CtlReady, CtlCommand,
                      CtlAnswered, CtlKeeps, CtlFields
  <2> QED BY <2>1, NothingCounted
<1>3. CASE CtlCommandAck \/ CtlDataAck \/ CtlDeviceAck \/ CtlAckUp
  <2>1. /\ ctl'.k = ctl.k /\ ctl'.pc # "failed" /\ ctl.pc # "failed"
        /\ dev' = dev /\ moved' = moved
    BY <1>1, <1>3 DEF CtlCommandAck, CtlDataAck, CtlDeviceAck, CtlAckUp,
                      CtlAnswered, CtlKeeps, CtlFields
  <2> QED BY <2>1, NothingCounted
<1>4. CASE CtlPattern
  <2> DEFINE valid == /\ Head(rx).topic = "up" /\ Head(rx).payload = Cur
                      /\ Head(rx).ok
  <2>1. /\ ctl.pc = "pattern" /\ rx # <<>> /\ Head(rx).t = "PUBLISH"
        /\ ctl'.k = ctl.k /\ ctl'.pc = "ack_up" /\ dev' = dev
        /\ moved' = IF valid THEN moved + 1 ELSE moved
    BY <1>1, <1>4 DEF CtlPattern, CtlKeeps, CtlFields
  <2>2. valid => moved = ctl.k /\ dev.k = ctl.k BY <2>1, PatternMeets
  <2> HIDE DEF valid
  <2>3. ctl.k < Total BY <1>1, <2>1 DEF RoundInv, CtlPoint
  <2>4. CASE valid BY <2>1, <2>2, <2>3, <2>4, Moves
  <2>5. CASE ~valid BY <2>1, <2>5, NothingCounted
  <2> QED BY <2>4, <2>5
<1>5. CASE CtlMetrics
  <2>1. ctl.pc = "metrics" /\ dev' = dev /\ moved' = moved
    BY <1>5 DEF CtlMetrics, CtlKeeps
  <2>2. \/ ~ctl.ok /\ ctl'.pc = "failed" /\ ctl'.k = ctl.k
        \/ ctl.ok /\ ctl'.pc \in {"complete", "command"} /\ ctl'.k = ctl.k + 1
    BY <1>1, <1>5 DEF CtlMetrics, CtlFields, Cur
  <2>3. ctl.ok => moved = ctl.k + 1 BY <2>1 DEF RoundInv, CtlPoint
  <2>4. CASE ctl.ok
    <3>1. ctl.k < moved BY <1>1, <2>3, <2>4
    <3>2. ctl'.pc # "failed" /\ ctl'.k = ctl.k + 1 BY <2>2, <2>4
    <3> QED BY <2>1, <3>1, <3>2, Counts
  <2>5. CASE ~ctl.ok BY <2>1, <2>2, <2>5, GivesUp
  <2> QED BY <2>4, <2>5
<1>6. CASE CtlFails
  <2>1. /\ ctl.pc # "failed" /\ ctl'.pc = "failed" /\ ctl'.k = ctl.k
        /\ dev' = dev /\ moved' = moved
    BY <1>1, <1>6 DEF CtlFails, CtlKeeps, CtlFields
  <2> QED BY <2>1, GivesUp
<1>7. CASE CtlClose BY <1>7, NothingCounted DEF CtlClose
<1> QED BY <1>2, <1>3, <1>4, <1>5, <1>6, <1>7 DEF Controller

(* For every plan, every interleaving of the two programs and the broker and *)
(* every loss of the link, lost READY, altered payload and timeout, a        *)
(* transfer round is a behaviour of the abstract round: payloads move one at *)
(* a time in plan order, and an end counts an operation only after its       *)
(* payload arrived intact and both ends settled the one before               *)
(* (mqtt_transfer_controller.py 215-268, mqtt_transfer.c 497-639).           *)
THEOREM ImplementsAgreement == Spec => RoundAgrees
<1>1. Init => Inv /\ RoundInv BY InitCounts, InitRound
<1>2. Inv /\ RoundInv /\ [Next]_vars => (Inv /\ RoundInv)'
  BY NextCounts, RoundKept
<1>3. Init => Agreement!AInit BY DEF Init, Agreement!AInit
<1>4. Inv /\ RoundInv /\ [Next]_vars => [Agreement!ANext]_(Agreement!avars)
  <2> SUFFICES ASSUME Inv, RoundInv, [Next]_vars PROVE AStep
    BY DEF AStep, GivenUp, Agreement!avars
  <2>1. Counter BY DEF Inv
  <2>2. CASE Device BY <2>1, <2>2, DeviceAgrees
  <2>3. CASE Controller BY <2>1, <2>3, ControllerAgrees
  <2>4. CASE Broker \/ Alter \/ LinkDown \/ TimePasses \/ Done \/ UNCHANGED vars
    <3>1. UNCHANGED <<ctl, dev, moved>>
      BY <2>4 DEF Broker, BrokerDevice, BrokerController, Alter, LinkDown,
                  TimePasses, Done, vars
    <3> QED BY <3>1, NothingCounted
  <2> QED BY <2>2, <2>3, <2>4 DEF Next
<1> QED BY <1>1, <1>2, <1>3, <1>4, PTL DEF Spec, RoundAgrees, Agreement!ASpec

-----------------------------------------------------------------------------
(* Without a fault: the device is in the round or has succeeded, so it reads *)
(* what it waits for, as long as the firmware takes that many operations.    *)
LEMMA ReadsRight ==
    ASSUME Counter, RoundInv, Live, down # <<>>, DevReading, Total <= MaxOps
    PROVE  ~WrongPacket
<1>1. Types /\ ToDevice BY DEF RoundInv
<1>2. /\ Head(down) = down[1]
      /\ DevAwaits => /\ down[1].id = LastId
                      /\ down[1].t = IF dev.pc = "suback" THEN "SUBACK"
                                     ELSE "PUBACK"
      /\ ~DevAwaits => Item(plan, moved, faults, Received, down[1])
  BY <1>1, DeviceMeets
<1>3. CASE DevAwaits
  <2>1. /\ dev.pc # "begin" /\ dev.pc # "control"
        /\ Expected = IF dev.pc = "suback" THEN "SUBACK" ELSE "PUBACK"
    BY <1>3 DEF DevAwaits, Expected
  <2> QED BY <1>2, <1>3, <2>1 DEF WrongPacket
<1>4. CASE ~DevAwaits
  <2>1. Expected = "PUBLISH" /\ down[1].t = "PUBLISH"
    BY <1>2, <1>4 DEF DevAwaits, Expected, Item
  <2>2. ASSUME dev.pc = "begin"
        PROVE  /\ down[1].topic = "control" /\ down[1].what = "BEGIN"
               /\ down[1].seq \in 1 .. MaxOps
    <3>1. Item(plan, moved, faults, 0, down[1])
      BY <1>2, <1>4, <2>2 DEF Received
    <3>2. Total \in 1 .. MaxOps BY SomeOperation, IdRoom
    <3> QED BY <3>1, <3>2 DEF Item
  <2>3. ASSUME dev.pc = "control"
        PROVE  down[1].topic = "control" /\ down[1].what \in {"DOWN", "UP"}
    <3>1. Item(plan, moved, faults, 2 * dev.k + 1, down[1]) /\ dev.k \in Nat
      BY <1>2, <1>4, <2>3 DEF Received, Counter
    <3> QED BY <3>1 DEF Item
  <2> QED BY <1>2, <2>1, <2>2, <2>3 DEF WrongPacket
<1> QED BY <1>3, <1>4

LEMMA DeviceNoFault ==
    ASSUME Counter, RoundInv, NoFault, Total <= MaxOps, Device, faults' = {}
    PROVE  NoFault'
<1>1. faults = {} BY DEF Device, DevSubscribe, DevReady, DevReadyAck, DevBegin,
        DevControl, DevData, DevDataAck, DevDownAck, DevAckUp, DevMetricsAck,
        DevReadFails, DevHangsUp
<1>2. /\ Fine /\ ctl.pc # "failed" /\ (dev.pc = "downack" => dev.valid)
      /\ ctl.pc \in {"ack_up", "metrics"} => ctl.ok
  BY <1>1 DEF NoFault
<1>3. ctl' = ctl BY DEF Device, DevSubscribe, DevReady, DevReadyAck, DevBegin,
        DevControl, DevData, DevDataAck, DevDownAck, DevAckUp, DevMetricsAck,
        DevReadFails, DevHangsUp, DevKeeps
<1>4. SUFFICES Fine' /\ (dev'.pc = "downack" => dev'.valid)
  BY <1>2, <1>3 DEF NoFault
<1>5. DOMAIN dev = {"pc", "n", "k", "id", "op", "valid"} BY DEF Counter
<1>6. ASSUME Metrics(TRUE, TRUE), link' = link, Live
      PROVE  Fine' /\ (dev'.pc = "downack" => dev'.valid)
  BY <1>5, <1>6 DEF Metrics, Fine, Live
<1>7. CASE DevSubscribe \/ DevReady \/ DevReadyAck \/ DevDataAck
  <2>1. /\ dev.pc # "success" /\ link' = link
        /\ dev'.pc \in {"suback", "readyack", "begin", "ackup"}
    BY <1>5, <1>7 DEF DevSubscribe, DevReady, DevReadyAck, DevDataAck, Strict,
                      DevKeeps
  <2> QED BY <1>2, <2>1 DEF Fine, Live
<1>8. CASE DevBegin \/ DevControl
  <2>1. /\ dev.pc # "success" /\ link' = link
        /\ dev'.pc \in {"control", "data", "dataack"}
    BY <1>5, <1>8 DEF DevBegin, DevControl, DevKeeps
  <2> QED BY <1>2, <2>1 DEF Fine, Live
<1>9. CASE DevData
  <2>1. /\ dev.pc = "data" /\ down # <<>> /\ dev'.pc = "downack" /\ link' = link
        /\ dev'.valid = (Head(down).payload = dev.op /\ Head(down).ok)
    BY <1>5, <1>9 DEF DevData, DevKeeps
  <2>2. /\ Head(down) = down[1] /\ dev.op = dev.k + 1 /\ IsDown(dev.k + 1)
        /\ Item(plan, moved, faults, 2 * dev.k + 2, down[1])
    BY <2>1, PayloadMeets
  <2>3. dev.k \in Nat BY DEF Counter
  <2>4. Head(down).payload = dev.op /\ Head(down).ok
    BY <1>1, <2>2, <2>3 DEF Item, IsDown, ToDev
  <2> QED BY <1>2, <2>1, <2>4 DEF Fine, Live
<1>10. CASE DevDownAck
  <2>1. /\ dev.pc = "downack" /\ link' = link /\ Metrics(dev.valid, TRUE)
    BY <1>10 DEF DevDownAck, Strict, DevKeeps
  <2>2. dev.valid = TRUE BY <1>2, <2>1 DEF Counter
  <2>3. Live BY <1>2, <2>1 DEF Fine
  <2> QED BY <1>6, <2>1, <2>2, <2>3
<1>11. CASE DevAckUp
  <2> DEFINE good == Head(down).what = "ACK_UP" /\ Head(down).seq = dev.op
                     /\ Head(down).ok
  <2>1. /\ dev.pc = "ackup" /\ down # <<>> /\ link' = link /\ Metrics(good, TRUE)
    BY <1>11 DEF DevAckUp, DevKeeps
  <2>2. good BY <1>1, <2>1, AckUpMeets
  <2>3. good = TRUE BY <2>2
  <2> HIDE DEF good
  <2>4. Live BY <1>2, <2>1 DEF Fine
  <2> QED BY <1>6, <2>1, <2>3, <2>4
<1>12. CASE DevMetricsAck
  <2>1. /\ dev.pc = "metricsack" /\ link' = link
        /\ dev.valid => dev'.pc \in {"success", "control"}
    BY <1>5, <1>12 DEF DevMetricsAck, Strict, DevKeeps
  <2> QED BY <1>2, <2>1 DEF Fine, Live
<1>13. CASE DevReadFails
  <2>1. DevReading /\ ((down # <<>> /\ WrongPacket) \/ ~link \/ "timeout" \in faults)
    BY <1>13 DEF DevReadFails
  <2>2. Live BY <1>2, <2>1 DEF DevReading, Fine
  <2>3. link BY <2>2 DEF Live
  <2> QED BY <1>1, <2>1, <2>2, <2>3, ReadsRight
<1>14. CASE DevHangsUp
  BY <1>2, <1>14 DEF DevHangsUp, Fine, Live
<1> QED BY <1>7, <1>8, <1>9, <1>10, <1>11, <1>12, <1>13, <1>14 DEF Device

LEMMA ControllerNoFault ==
    ASSUME Counter, RoundInv, NoFault, Controller, faults' = {}
    PROVE  NoFault'
<1>1. faults = {} BY DEF Controller, CtlSubscribe, CtlStore, CtlSuback,
        CtlReady, CtlCommand, CtlCommandAck, CtlDataAck, CtlDeviceAck,
        CtlPattern, CtlAckUp, CtlMetrics, CtlFails, CtlClose, CtlKeeps
<1>2. /\ Fine /\ ctl.pc # "failed" /\ (dev.pc = "downack" => dev.valid)
      /\ ctl.pc \in {"ack_up", "metrics"} => ctl.ok
  BY <1>1 DEF NoFault
<1>3. UNCHANGED <<dev, link>>
  BY DEF Controller, CtlSubscribe, CtlStore, CtlSuback, CtlReady, CtlCommand,
         CtlCommandAck, CtlDataAck, CtlDeviceAck, CtlPattern, CtlAckUp,
         CtlMetrics, CtlFails, CtlClose, CtlKeeps, broker
<1>4. Fine' BY <1>2, <1>3 DEF Fine, Live
<1>5. SUFFICES ctl'.pc # "failed" /\ (ctl'.pc \in {"ack_up", "metrics"} => ctl'.ok)
  BY <1>2, <1>3, <1>4 DEF NoFault
<1>6. /\ DOMAIN ctl = CtlFields /\ ctl.k \in Nat /\ IsSeq(ctl.inbox)
      /\ Types /\ CtlPoint /\ ToController
  BY DEF RoundInv, Types
<1>7. CASE CtlSubscribe \/ CtlSuback \/ CtlReady \/ CtlCommand \/ CtlCommandAck
           \/ CtlDataAck
  BY <1>6, <1>7 DEF CtlSubscribe, CtlSuback, CtlReady, CtlCommand,
     CtlCommandAck, CtlDataAck, CtlAnswered, CtlFields
<1>8. CASE CtlStore \/ CtlAckUp \/ CtlClose
  BY <1>2, <1>6, <1>8 DEF CtlStore, CtlAckUp, CtlClose, CtlAnswered, CtlFields
<1>9. CASE CtlDeviceAck
  <2> DEFINE i == First(Waiting("device_ack"))
  <2>1. /\ ctl.pc = "device_ack" /\ Waiting("device_ack") # {}
        /\ ctl'.pc = "metrics"
        /\ ctl'.ok = (ctl.inbox[i].seq = Cur /\ ctl.inbox[i].ok)
    BY <1>6, <1>9 DEF CtlDeviceAck, CtlFields
  <2>2. ctl.inbox # <<>> /\ (ctl.inbox[1].topic = "device_ack" => i = 1)
    BY <1>6, <2>1, WaitingIn
  <2> HIDE DEF i
  <2>3. Consumed = 2 * ctl.k + 1 /\ Active BY <2>1 DEF Consumed, Active
  <2>4. Msg(plan, faults, 2 * ctl.k + 1, ctl.inbox[1])
    BY <1>2, <1>6, <2>2, <2>3, ControllerKeeps
  <2>5. ToDev(plan, ctl.k + 1) BY <1>6, <2>1 DEF CtlPoint, IsDown, ToDev
  <2>6. /\ ctl.inbox[1].topic = "device_ack" /\ ctl.inbox[1].seq = ctl.k + 1
        /\ ctl.inbox[1].ok
    BY <1>1, <1>6, <2>4, <2>5 DEF Msg
  <2> QED BY <2>1, <2>2, <2>6 DEF Cur
<1>10. CASE CtlPattern
  <2>1. /\ ctl.pc = "pattern" /\ rx # <<>> /\ ctl'.pc = "ack_up"
        /\ ctl'.ok = (/\ Head(rx).topic = "up" /\ Head(rx).payload = Cur
                      /\ Head(rx).ok)
    BY <1>6, <1>10 DEF CtlPattern, CtlFields
  <2> QED BY <1>1, <1>2, <2>1, PatternMeets
<1>11. CASE CtlMetrics
  <2>1. ctl.pc = "metrics" BY <1>11 DEF CtlMetrics
  <2> QED BY <1>2, <1>6, <1>11, <2>1 DEF CtlMetrics, CtlFields
<1>12. CASE CtlFails
  <2>1. \/ ctl.pc = "pattern" /\ rx # <<>> /\ Head(rx).t # "PUBLISH"
        \/ /\ ctl.pc = "ready" /\ Waiting("up") # {}
           /\ ctl.inbox[First(Waiting("up"))].what # "READY"
    BY <1>1, <1>12 DEF CtlFails
  <2>2. ASSUME ctl.pc = "ready", Waiting("up") # {}
        PROVE  ctl.inbox[First(Waiting("up"))].what = "READY"
    <3>1. /\ ctl.inbox # <<>>
          /\ ctl.inbox[1].topic = "up" => First(Waiting("up")) = 1
      BY <1>6, <2>2, WaitingIn
    <3>2. Consumed = 0 /\ Active BY <2>2 DEF Consumed, Active
    <3>3. Msg(plan, faults, 0, ctl.inbox[1])
      BY <1>2, <1>6, <3>1, <3>2, ControllerKeeps
    <3> QED BY <3>1, <3>3 DEF Msg
  <2> QED BY <1>2, <2>1, <2>2, PatternMeets
<1> QED BY <1>7, <1>8, <1>9, <1>10, <1>11, <1>12 DEF Controller

LEMMA OthersNoFault ==
    ASSUME Inv, RoundInv, NoFault, faults' = {},
           Broker \/ Alter \/ LinkDown \/ TimePasses \/ Done \/ UNCHANGED vars
    PROVE  NoFault'
<1>1. UNCHANGED <<dev, ctl>> /\ faults = {}
  BY DEF Broker, BrokerDevice, BrokerController, Alter, LinkDown, TimePasses,
         Done, vars
<1>2. ASSUME link PROVE link'
  <2>1. CASE BrokerDevice
    <3>1. IsSeq(up) /\ up # <<>> BY <2>1 DEF RoundInv, Types, BrokerDevice
    <3>2. Head(up) = up[1] /\ 1 \in DOMAIN up BY <3>1, SeqTail
    <3>3. up[1].id \in 1 .. (IdSpace - 1) BY <3>2 DEF Inv, IdsValid
    <3>4. Head(up).id # 0 BY <3>2, <3>3
    <3> QED BY <1>2, <2>1, <3>4, Zenon DEF BrokerDevice
  <2>2. CASE BrokerController \/ TimePasses \/ Done \/ UNCHANGED vars
    BY <1>2, <2>2 DEF BrokerController, TimePasses, Done, vars
  <2>3. CASE Alter \/ LinkDown BY <2>3 DEF Alter, LinkDown
  <2> QED BY <2>1, <2>2, <2>3 DEF Broker
<1> QED BY <1>1, <1>2 DEF NoFault, Fine, Live

(* At the start, and step by step.                                           *)
LEMMA InitNoFault == ASSUME Init PROVE NoFault
<1>1. /\ dev.pc = "start" /\ ctl.pc = "start" /\ link
  BY DEF Init
<1> QED BY <1>1 DEF NoFault, Fine, Live

LEMMA NextNoFault ==
    ASSUME Inv, RoundInv, NoFault, Total <= MaxOps, [Next]_vars
    PROVE  NoFault'
<1>1. Counter BY DEF Inv
<1>2. CASE faults' # {} BY <1>2 DEF NoFault
<1>3. CASE faults' = {}
  <2>1. CASE Device BY <1>1, <1>3, <2>1, DeviceNoFault
  <2>2. CASE Controller BY <1>1, <1>3, <2>2, ControllerNoFault
  <2>3. CASE Broker \/ Alter \/ LinkDown \/ TimePasses \/ Done \/ UNCHANGED vars
    BY <1>3, <2>3, OthersNoFault
  <2> QED BY <2>1, <2>2, <2>3 DEF Next
<1> QED BY <1>2, <1>3

(* If the firmware takes as many operations as the plan has, no end fails    *)
(* unless something went wrong on the way: the device's strict reads never   *)
(* meet a packet they cannot use, the controller's streamed read always      *)
(* meets the payload, for every plan and every interleaving                  *)
(* (mqtt_transfer.c 161-175, mqtt_transfer_controller.py 145-213).           *)
THEOREM NoFailureWithoutFault ==
    ASSUME Total <= MaxOps
    PROVE  Spec => []FailsOnlyOnFault
<1>1. Init => Inv /\ RoundInv /\ NoFault
  BY InitCounts, InitRound, InitNoFault
<1>2. Inv /\ RoundInv /\ NoFault /\ [Next]_vars => (Inv /\ RoundInv /\ NoFault)'
  BY NextCounts, RoundKept, NextNoFault
<1>3. NoFault => FailsOnlyOnFault BY DEF NoFault, FailsOnlyOnFault, Fine, Live
<1> QED BY <1>1, <1>2, <1>3, PTL DEF Spec
=============================================================================
