-------------------------- MODULE TransferAgreement --------------------------
(***************************************************************************)
(* What a transfer round promises, whatever the transport does: payloads    *)
(* are moved one at a time in the order of the plan, an operation counts    *)
(* for the device and for the controller only after its payload arrived     *)
(* intact, no payload is moved before both ends have settled the one        *)
(* before, and an end that has given up counts nothing more.                *)
(***************************************************************************)
EXTENDS Naturals

CONSTANT Total            \* operations in the plan

VARIABLES moved,          \* payloads that arrived intact at their receiver
          device,         \* operations the device has validated
          controller,     \* operations the controller has reported as success
          given_up        \* ends that have failed

avars == <<moved, device, controller, given_up>>
Ends == {"device", "controller"}

AInit == moved = 0 /\ device = 0 /\ controller = 0 /\ given_up = {}

(* The receiver has the next payload; the earlier ones are settled.         *)
Move == /\ moved < Total /\ moved = device /\ moved = controller
        /\ moved' = moved + 1
        /\ UNCHANGED <<device, controller, given_up>>

DeviceCounts == /\ "device" \notin given_up /\ device < moved
                /\ device' = device + 1
                /\ UNCHANGED <<moved, controller, given_up>>

(* The controller does not look at the device's verdict: it may report an   *)
(* operation the device gave up on, never one whose payload did not arrive. *)
ControllerCounts == /\ "controller" \notin given_up /\ controller < moved
                    /\ controller' = controller + 1
                    /\ UNCHANGED <<moved, device, given_up>>

GiveUp == \E e \in Ends \ given_up :
            /\ given_up' = given_up \cup {e}
            /\ UNCHANGED <<moved, device, controller>>

ANext == Move \/ DeviceCounts \/ ControllerCounts \/ GiveUp
ASpec == AInit /\ [][ANext]_avars
=============================================================================
