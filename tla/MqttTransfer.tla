---------------------------- MODULE MqttTransfer ----------------------------
(***************************************************************************)
(* One transfer round: the controller on the Pi                             *)
(* (mqtt_transfer_controller.py) and the device (mqtt_transfer.c) exchange  *)
(* the payloads of a plan (transfer.py) through Mosquitto.  The device      *)
(* reads strictly: while it waits for a PUBACK any other packet fails the   *)
(* round, and while it waits for a PUBLISH so does anything else.  The      *)
(* controller keeps what it did not expect in an inbox, except where it     *)
(* streams a payload.  The broker drops what has no subscriber, and READY   *)
(* is published once.                                                       *)
(*                                                                         *)
(* A payload is named by its operation: the pattern, the size and the hash  *)
(* are functions of what the command carries, so a receiver accepts exactly *)
(* the payload of the operation it was told to expect.                      *)
(***************************************************************************)
EXTENDS Integers, Sequences, FiniteSets, SequencesExt

CONSTANTS Sizes,        \* PAYLOAD_SIZES
          Iterations,   \* iterations of the case
          MaxOps,       \* BENCH_TRANSFER_MAX_OPERATIONS
          FirstId,      \* next_packet_id after boot
          IdSpace,      \* identifiers a uint16_t holds
          MaxAltered    \* bound: payloads altered on their way

ASSUME IdRoom == /\ {FirstId, MaxOps, IdSpace, MaxAltered} \subseteq Nat
                 /\ 0 < FirstId /\ FirstId + 2 + 2 * MaxOps <= IdSpace
\* PAYLOAD_SIZES has entries and read_cases asks for an iteration
ASSUME PlanRoom == IsFiniteSet(Sizes) /\ Sizes # {} /\ Iterations \in Nat \ {0}
ASSUME CodeIdRoom == 10 + 2 + 2 * 4096 <= 2 ^ 16   \* the constants of the code

VARIABLES
  plan,   \* the shuffled operations of the round
  ctl,    \* controller: [pc, k, id, inbox, ok]; k operations are reported
  dev,    \* device: [pc, n, k, id, op, valid]; k operations are validated
  up, down,   \* packets device to broker and broker to device
  tx, rx,     \* packets controller to broker and broker to controller
  link,       \* the device's connection to the broker is up
  csub, dsub, \* the broker holds the controller's, the device's subscription
  moved,      \* payloads accepted by their receiver (history)
  faults,     \* what went wrong (history)
  altered     \* payloads altered so far

vars == <<plan, ctl, dev, up, down, tx, rx, link, csub, dsub, moved, faults,
          altered>>
broker == <<link, csub, dsub, altered>>

(***************************************************************************)
(* The plan                                                                 *)
(***************************************************************************)
Directions == {"server_to_device", "device_to_server"}

\* operations_for_case: every iteration, size and direction once, shuffled
Operations ==
  [iteration : 1 .. Iterations, size : Sizes, direction : Directions]
operations_for_case == SetToSeqs(Operations)

Total == Cardinality(Operations)
IsDown(i) == plan[i].direction = "server_to_device"

(***************************************************************************)
(* Packets                                                                  *)
(***************************************************************************)
Pub(topic, what, seq, payload, ok) ==
  [t |-> "PUBLISH", topic |-> topic, what |-> what, seq |-> seq,
   payload |-> payload, ok |-> ok]
Control(what, seq) == Pub("control", what, seq, seq, TRUE)
Answer(t, id) == [t |-> t, id |-> id]          \* SUBACK, PUBACK
Request(id, p) == [t |-> "PUBLISH", id |-> id, pub |-> p]
Subscribe(id) == [t |-> "SUBSCRIBE", id |-> id]

Init ==
  /\ plan \in operations_for_case
  /\ ctl = [pc |-> "start", k |-> 0, id |-> 1, inbox |-> <<>>, ok |-> TRUE]
  /\ dev = [pc |-> "start", n |-> 0, k |-> 0, id |-> FirstId, op |-> 0,
            valid |-> FALSE]
  /\ up = <<>> /\ down = <<>> /\ tx = <<>> /\ rx = <<>>
  /\ link = TRUE /\ csub = FALSE /\ dsub = FALSE
  /\ moved = 0 /\ faults = {} /\ altered = 0

(***************************************************************************)
(* The broker handles one packet at a time: it forwards and acknowledges    *)
(* a PUBLISH before it reads the next packet of anyone.                     *)
(***************************************************************************)
\* A packet identifier 0 is a protocol error and ends the connection.
BrokerDevice ==
  /\ link /\ up # <<>> /\ up' = Tail(up)
  /\ LET p == Head(up) IN
     \/ /\ p.t = "SUBSCRIBE" /\ dsub' = TRUE
        /\ down' = Append(down, Answer("SUBACK", p.id))
        /\ UNCHANGED <<rx, faults, link>>
     \/ /\ p.t = "PUBLISH" /\ link' = (p.id # 0)
        /\ dsub' = (dsub /\ link')
        /\ down' = IF link' THEN Append(down, Answer("PUBACK", p.id)) ELSE down
        /\ rx' = IF link' /\ csub THEN Append(rx, p.pub) ELSE rx
        /\ faults' = IF csub THEN faults ELSE faults \cup {"no subscriber"}
  /\ UNCHANGED <<plan, ctl, dev, tx, csub, moved, altered>>

BrokerController ==
  /\ tx # <<>> /\ tx' = Tail(tx)
  /\ LET p == Head(tx) IN
     \/ /\ p.t = "SUBSCRIBE" /\ csub' = TRUE
        /\ rx' = Append(rx, Answer("SUBACK", p.id))
        /\ UNCHANGED <<down, faults>>
     \/ /\ p.t = "PUBLISH"
        /\ rx' = Append(rx, Answer("PUBACK", p.id))
        /\ down' = IF dsub THEN Append(down, p.pub) ELSE down
        /\ faults' = IF dsub THEN faults ELSE faults \cup {"no subscriber"}
        /\ UNCHANGED csub
  /\ UNCHANGED <<plan, ctl, dev, up, link, dsub, moved, altered>>

\* a payload changes on its way to a receiver
Alter ==
  /\ altered < MaxAltered /\ altered' = altered + 1
  /\ faults' = faults \cup {"altered"}
  /\ \/ \E i \in DOMAIN down :
          /\ down[i].t = "PUBLISH" /\ down[i].topic = "down"
          /\ down' = [down EXCEPT ![i].ok = FALSE] /\ UNCHANGED rx
     \/ \E i \in DOMAIN rx :
          /\ rx[i].t = "PUBLISH" /\ rx[i].topic = "up" /\ rx[i].what = "data"
          /\ rx' = [rx EXCEPT ![i].ok = FALSE] /\ UNCHANGED down
  /\ UNCHANGED <<plan, ctl, dev, up, tx, link, csub, dsub, moved>>

\* the BLE link, the bridge or TLS fails: what is in flight is lost
LinkDown ==
  /\ link /\ link' = FALSE /\ dsub' = FALSE /\ up' = <<>> /\ down' = <<>>
  /\ faults' = faults \cup {"link"}
  /\ UNCHANGED <<plan, ctl, dev, tx, rx, csub, moved, altered>>

(***************************************************************************)
(* The device                                                               *)
(***************************************************************************)
DevKeeps == UNCHANGED <<plan, ctl, tx, rx, link, csub, dsub, altered>>

\* packet_id = next_packet_id++
TakeId == (dev.id + 1) % IdSpace

DevSend(p) == up' = IF link THEN Append(up, p) ELSE up
DevPublish(topic, what, ok) ==
  DevSend(Request(dev.id, Pub(topic, what, dev.op, dev.op, ok)))

DevSubscribeTwoIds ==   \* mutant: one identifier per topic
  /\ dev.pc = "start"
  /\ DevSend(Subscribe(dev.id))
  /\ dev' = [dev EXCEPT !.pc = "suback", !.id = (@ + 2) % IdSpace]
  /\ DevKeeps /\ UNCHANGED <<down, moved, faults>>

\* subscribe_topics
DevSubscribe ==
  /\ dev.pc = "start"
  /\ DevSend(Subscribe(dev.id))
  /\ dev' = [dev EXCEPT !.pc = "suback", !.id = TakeId]
  /\ DevKeeps /\ UNCHANGED <<down, moved, faults>>

\* The next packet is the SUBACK or the PUBACK waited for, or the call fails;
\* after a failure inside an operation its metrics are published all the same.
Strict(pc, t, id) ==
  /\ dev.pc = pc /\ down # <<>> /\ down' = Tail(down)
  /\ Head(down).t = t /\ (t = "PUBACK" => Head(down).id = id)
LastId == (dev.id - 1) % IdSpace

DevReady ==   \* SUBACK read: publish READY
  /\ Strict("suback", "SUBACK", 0)
  /\ DevPublish("up", "READY", TRUE)
  /\ dev' = [dev EXCEPT !.pc = "readyack", !.id = TakeId]
  /\ DevKeeps /\ UNCHANGED <<moved, faults>>

DevReadyAck ==
  /\ Strict("readyack", "PUBACK", LastId)
  /\ dev' = [dev EXCEPT !.pc = "begin"]
  /\ DevKeeps /\ UNCHANGED <<up, moved, faults>>

\* BEGIN carries the number of operations
DevBegin ==
  /\ dev.pc = "begin" /\ down # <<>> /\ down' = Tail(down)
  /\ LET p == Head(down) IN
     /\ p.t = "PUBLISH" /\ p.topic = "control" /\ p.what = "BEGIN"
     /\ p.seq \in 1 .. MaxOps
     /\ dev' = [dev EXCEPT !.pc = "control", !.n = p.seq]
  /\ DevKeeps /\ UNCHANGED <<up, moved, faults>>

\* a command: wait for the payload, or publish it
DevControl ==
  /\ dev.pc = "control" /\ down # <<>> /\ down' = Tail(down)
  /\ LET p == Head(down) IN
     /\ p.t = "PUBLISH" /\ p.topic = "control"
     /\ \/ /\ p.what = "DOWN"
           /\ dev' = [dev EXCEPT !.pc = "data", !.op = p.seq, !.valid = FALSE]
           /\ UNCHANGED up
        \/ /\ p.what = "UP"
           /\ DevSend(Request(dev.id, Pub("up", "data", p.seq, p.seq, TRUE)))
           /\ dev' = [dev EXCEPT !.pc = "dataack", !.op = p.seq,
                                 !.id = TakeId, !.valid = FALSE]
  /\ DevKeeps /\ UNCHANGED <<moved, faults>>

\* read_publish of the payload (its topic is not compared), then ACK_DOWN
DevData ==
  /\ dev.pc = "data" /\ down # <<>> /\ down' = Tail(down)
  /\ Head(down).t = "PUBLISH"
  /\ LET good == Head(down).payload = dev.op /\ Head(down).ok IN
     /\ DevPublish("device_ack", "ACK_DOWN", good)
     /\ dev' = [dev EXCEPT !.pc = "downack", !.id = TakeId, !.valid = good]
     /\ moved' = IF good THEN moved + 1 ELSE moved
  /\ DevKeeps /\ UNCHANGED faults

DevDataAck ==   \* the payload it sent is acknowledged by the broker
  /\ Strict("dataack", "PUBACK", LastId)
  /\ dev' = [dev EXCEPT !.pc = "ackup"]
  /\ DevKeeps /\ UNCHANGED <<up, moved, faults>>

\* end of an operation: publish_transfer_metrics
Metrics(good, used) ==
  /\ DevPublish("metrics", "metrics", good)
  /\ dev' = [dev EXCEPT !.pc = "metricsack", !.id = TakeId, !.valid = good,
                        !.k = IF good THEN @ + 1 ELSE @]
  /\ down' = IF used THEN Tail(down) ELSE down

DevDownAck ==   \* ACK_DOWN acknowledged
  /\ Strict("downack", "PUBACK", LastId) /\ Metrics(dev.valid, TRUE)
  /\ DevKeeps /\ UNCHANGED <<moved, faults>>

DevAckUpAnyValid ==   \* mutant: the verdict of the controller is not read
  /\ dev.pc = "ackup" /\ down # <<>> /\ Head(down).t = "PUBLISH"
  /\ Metrics(TRUE, TRUE)
  /\ DevKeeps /\ UNCHANGED <<moved, faults>>

DevAckUp ==   \* read_publish of ACK_UP
  /\ dev.pc = "ackup" /\ down # <<>> /\ Head(down).t = "PUBLISH"
  /\ Metrics(Head(down).what = "ACK_UP" /\ Head(down).seq = dev.op
             /\ Head(down).ok, TRUE)
  /\ DevKeeps /\ UNCHANGED <<moved, faults>>

DevMetricsAck ==
  /\ Strict("metricsack", "PUBACK", LastId)
  /\ dev' = [dev EXCEPT !.pc = IF ~dev.valid THEN "failed"
                               ELSE IF dev.k = dev.n THEN "success"
                               ELSE "control"]
  /\ DevKeeps /\ UNCHANGED <<up, moved, faults>>

Expected == CASE dev.pc = "suback" -> "SUBACK"
              [] dev.pc \in {"readyack", "dataack", "downack", "metricsack"} ->
                 "PUBACK"
              [] OTHER -> "PUBLISH"

\* what the device reads is not what it can use, or nothing comes in time
WrongPacket ==
  LET p == Head(down) IN
  \/ p.t # Expected
  \/ p.t = "PUBACK" /\ p.id # LastId
  \/ dev.pc = "begin" /\ ~(p.topic = "control" /\ p.what = "BEGIN"
                           /\ p.seq \in 1 .. MaxOps)
  \/ dev.pc = "control" /\ ~(p.topic = "control" /\ p.what \in {"DOWN", "UP"})

DevReading == dev.pc \notin {"start", "success", "failed"}

DevReadFailsNoDeadline ==   \* mutant: tls_read_exact waits for ever
  /\ DevReading
  /\ \/ down # <<>> /\ WrongPacket
     \/ down = <<>> /\ ~link
  /\ IF dev.pc \in {"data", "dataack", "downack", "ackup"}
     THEN Metrics(FALSE, down # <<>>)
     ELSE dev' = [dev EXCEPT !.pc = "failed"] /\ UNCHANGED <<up, down>>
  /\ DevKeeps /\ UNCHANGED <<moved, faults>>

\* inside an operation the device still publishes metrics saying fail
DevReadFails ==
  /\ DevReading
  /\ \/ down # <<>> /\ WrongPacket
     \/ down = <<>> /\ (~link \/ "timeout" \in faults)
  /\ IF dev.pc \in {"data", "dataack", "downack", "ackup"}
     THEN Metrics(FALSE, down # <<>>)
     ELSE /\ dev' = [dev EXCEPT !.pc = "failed"]
          /\ UNCHANGED <<up, down>>
  /\ DevKeeps /\ UNCHANGED <<moved, faults>>

\* after the round the device shuts TLS down
DevHangsUp ==
  /\ dev.pc \in {"success", "failed"} /\ link /\ up = <<>>
  /\ link' = FALSE /\ dsub' = FALSE /\ down' = <<>>
  /\ UNCHANGED <<plan, ctl, dev, up, tx, rx, csub, moved, faults, altered>>

(***************************************************************************)
(* The controller                                                           *)
(***************************************************************************)
CtlKeeps == UNCHANGED <<plan, dev, up, down, broker, faults>>
Cur == ctl.k + 1

CtlSubscribe ==   \* MqttClient, connect, subscribe
  /\ ctl.pc = "start"
  /\ tx' = Append(tx, Subscribe(ctl.id))
  /\ ctl' = [ctl EXCEPT !.pc = "suback"]
  /\ CtlKeeps /\ UNCHANGED <<rx, moved>>

\* publish, publish_pattern: send, then wait for the PUBACK in state pc
Publish(pc, p) ==
  /\ tx' = Append(tx, Request(ctl.id, p))
  /\ ctl' = [ctl EXCEPT !.pc = pc]

\* _store_publish: while another packet is waited for a PUBLISH is kept
CtlStore ==
  /\ ctl.pc \notin {"start", "pattern", "complete", "failed"} /\ rx # <<>>
  /\ Head(rx).t = "PUBLISH" /\ rx' = Tail(rx)
  /\ ctl' = [ctl EXCEPT !.inbox = Append(@, Head(rx))]
  /\ CtlKeeps /\ UNCHANGED <<tx, moved>>

\* _wait_puback, subscribe: the answer to the current request
CtlAnswered(pc, t) == /\ ctl.pc = pc /\ rx # <<>> /\ rx' = Tail(rx)
                      /\ Head(rx).t = t /\ Head(rx).id = ctl.id

CtlSuback ==
  /\ CtlAnswered("suback", "SUBACK")
  /\ ctl' = [ctl EXCEPT !.pc = "ready", !.id = @ + 1]
  /\ CtlKeeps /\ UNCHANGED <<tx, moved>>

\* wait_publish: the first one of its topic in the inbox
Waiting(topic) == {i \in DOMAIN ctl.inbox : ctl.inbox[i].topic = topic}
First(S) == CHOOSE i \in S : \A j \in S : i <= j

\* READY: publish BEGIN (anything else raises)
CtlReady ==
  /\ ctl.pc = "ready" /\ Waiting("up") # {}
  /\ LET i == First(Waiting("up")) IN
     /\ ctl.inbox[i].what = "READY"
     /\ tx' = Append(tx, Request(ctl.id, Control("BEGIN", Total)))
     /\ ctl' = [ctl EXCEPT !.pc = "begin", !.inbox = RemoveAt(@, i)]
  /\ CtlKeeps /\ UNCHANGED <<rx, moved>>

\* BEGIN or the last operation is done: publish the next command
Command(i) == Control(IF IsDown(i) THEN "DOWN" ELSE "UP", i)

CtlCommand ==
  /\ CtlAnswered("begin", "PUBACK")
  /\ tx' = Append(tx, Request(ctl.id + 1, Command(1)))
  /\ ctl' = [ctl EXCEPT !.pc = "command", !.id = @ + 1]
  /\ CtlKeeps /\ UNCHANGED moved

\* command acknowledged: stream the payload, or wait for the device's
CtlCommandAck ==
  /\ CtlAnswered("command", "PUBACK")
  /\ \/ /\ IsDown(Cur)
        /\ tx' = Append(tx, Request(ctl.id + 1,
                                    Pub("down", "data", Cur, Cur, TRUE)))
        /\ ctl' = [ctl EXCEPT !.pc = "data", !.id = @ + 1]
     \/ /\ ~IsDown(Cur)
        /\ ctl' = [ctl EXCEPT !.pc = "pattern", !.id = @ + 1]
        /\ UNCHANGED tx
  /\ CtlKeeps /\ UNCHANGED moved

CtlDataAck ==
  /\ CtlAnswered("data", "PUBACK")
  /\ ctl' = [ctl EXCEPT !.pc = "device_ack", !.id = @ + 1]
  /\ CtlKeeps /\ UNCHANGED <<tx, moved>>

CtlDeviceAck ==   \* ACK_DOWN of this operation, valid and with its hash
  /\ ctl.pc = "device_ack" /\ Waiting("device_ack") # {}
  /\ LET i == First(Waiting("device_ack"))  p == ctl.inbox[i] IN
     ctl' = [ctl EXCEPT !.pc = "metrics", !.inbox = RemoveAt(@, i),
                        !.ok = (p.seq = Cur /\ p.ok)]
  /\ CtlKeeps /\ UNCHANGED <<tx, rx, moved>>

\* wait_pattern_publish reads the very next packet, then ACK_UP is published
CtlPattern ==
  /\ ctl.pc = "pattern" /\ rx # <<>> /\ rx' = Tail(rx)
  /\ Head(rx).t = "PUBLISH"
  /\ LET p == Head(rx)
         valid == p.topic = "up" /\ p.payload = Cur /\ p.ok
     IN  /\ tx' = Append(tx, Request(ctl.id,
                    [Control("ACK_UP", Cur) EXCEPT !.ok = valid]))
         /\ ctl' = [ctl EXCEPT !.pc = "ack_up", !.ok = valid]
         /\ moved' = IF valid THEN moved + 1 ELSE moved
  /\ CtlKeeps

CtlAckUp ==
  /\ CtlAnswered("ack_up", "PUBACK")
  /\ ctl' = [ctl EXCEPT !.pc = "metrics", !.id = @ + 1]
  /\ CtlKeeps /\ UNCHANGED <<tx, moved>>

CtlMetricsEarly ==   \* mutant: the metrics are collected after the round
  /\ ctl.pc = "metrics"
  /\ \/ /\ ctl.ok /\ Cur = Total
        /\ ctl' = [ctl EXCEPT !.pc = "complete", !.k = Cur] /\ UNCHANGED tx
     \/ /\ ctl.ok /\ Cur < Total
        /\ tx' = Append(tx, Request(ctl.id, Command(Cur + 1)))
        /\ ctl' = [ctl EXCEPT !.pc = "command", !.k = Cur]
  /\ CtlKeeps /\ UNCHANGED <<rx, moved>>

\* The device's metrics and this end's verdict are printed; an invalid
\* payload ends the round, the last one completes it.
CtlMetrics ==
  /\ ctl.pc = "metrics" /\ Waiting("metrics") # {}
  /\ LET box == RemoveAt(ctl.inbox, First(Waiting("metrics"))) IN
     \/ /\ ~ctl.ok /\ ctl' = [ctl EXCEPT !.pc = "failed"]
        /\ UNCHANGED tx
     \/ /\ ctl.ok /\ Cur = Total
        /\ ctl' = [ctl EXCEPT !.pc = "complete", !.k = Cur, !.inbox = box]
        /\ UNCHANGED tx
     \/ /\ ctl.ok /\ Cur < Total
        /\ tx' = Append(tx, Request(ctl.id, Command(Cur + 1)))
        /\ ctl' = [ctl EXCEPT !.pc = "command", !.k = Cur, !.inbox = box]
  /\ CtlKeeps /\ UNCHANGED <<rx, moved>>

\* a packet the code cannot use where it reads strictly, or socket.timeout; a refused
\* connect ends the round as a CONNACK that never comes does
CtlFails ==
  /\ ctl.pc \notin {"complete", "failed"}
  /\ \/ ctl.pc = "pattern" /\ rx # <<>> /\ Head(rx).t # "PUBLISH"
     \/ /\ ctl.pc = "ready" /\ Waiting("up") # {}
        /\ ctl.inbox[First(Waiting("up"))].what # "READY"
     \/ rx = <<>> /\ "timeout" \in faults
  /\ ctl' = [ctl EXCEPT !.pc = "failed"]
  /\ CtlKeeps /\ UNCHANGED <<tx, rx, moved>>

\* close: DISCONNECT ends the subscription
CtlClose ==
  /\ ctl.pc \in {"complete", "failed"} /\ csub /\ tx = <<>>
  /\ csub' = FALSE /\ rx' = <<>>
  /\ UNCHANGED <<plan, ctl, dev, up, down, tx, link, dsub, moved, faults,
                 altered>>

CtlEnded == ctl.pc \in {"complete", "failed"}
DevEnded == dev.pc \in {"success", "failed"}

\* Thirty seconds pass with no packet moving: at least one end is stuck, or
\* the radio is that slow.
TimePasses ==
  /\ ~(CtlEnded /\ DevEnded) /\ "timeout" \notin faults
  /\ faults' = faults \cup {"timeout"}
  /\ UNCHANGED <<plan, ctl, dev, up, down, tx, rx, link, csub, dsub, moved,
                 altered>>

Done == CtlEnded /\ DevEnded /\ ~link /\ ~csub /\ UNCHANGED vars

Broker == BrokerDevice \/ BrokerController
Device == DevSubscribe \/ DevReady \/ DevReadyAck \/ DevBegin \/ DevControl
          \/ DevData \/ DevDataAck \/ DevDownAck \/ DevAckUp \/ DevMetricsAck
          \/ DevReadFails \/ DevHangsUp
Controller == CtlSubscribe \/ CtlStore \/ CtlSuback \/ CtlReady \/ CtlCommand
          \/ CtlCommandAck \/ CtlDataAck \/ CtlDeviceAck \/ CtlPattern
          \/ CtlAckUp \/ CtlMetrics \/ CtlFails \/ CtlClose

Next == Broker \/ Device \/ Controller \/ Alter \/ LinkDown \/ TimePasses \/ Done
Spec == Init /\ [][Next]_vars

(* Both programs and the broker keep running; time passes for an end that   *)
(* waits.  Nothing is assumed of the link.                                  *)
FairSpec == Spec /\ WF_vars(Broker) /\ WF_vars(Device) /\ WF_vars(Controller)
            /\ WF_vars(TimePasses)

-----------------------------------------------------------------------------
(* What the ends count and when they give up is a behaviour of the abstract  *)
(* round (TransferAgreement): in plan order, one payload at a time, only     *)
(* intact ones, for every interleaving of the two programs and the broker    *)
(* (mqtt_transfer_controller.py 215-268, mqtt_transfer.c 497-639).           *)
Agreement == INSTANCE TransferAgreement WITH
  Total <- Total, device <- dev.k, controller <- ctl.k,
  given_up <- (IF dev.pc = "failed" THEN {"device"} ELSE {})
              \cup (IF ctl.pc = "failed" THEN {"controller"} ELSE {})
RoundAgrees == Agreement!ASpec

(* The strict reads are safe: a PUBACK never waits behind a PUBLISH for the  *)
(* device, and the controller's streamed read always meets the payload.      *)
(* Without a fault of the transport no end fails.                            *)
FailsOnlyOnFault ==
  dev.pc = "failed" \/ ctl.pc = "failed" => faults # {}

(* The device never publishes with packet identifier 0, which MQTT forbids,  *)
(* although the 16-bit counter has no guard against wrapping: a round uses   *)
(* two identifiers per operation and the board restarts after it.            *)
IdsValid == \A i \in DOMAIN up : up[i].id \in 1 .. (IdSpace - 1)

(* Both programs come to an end, also when READY was lost because the        *)
(* controller had not subscribed yet, or the link fails anywhere.            *)
RoundEnds == <>(CtlEnded /\ DevEnded)
=============================================================================
