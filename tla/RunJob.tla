------------------------------- MODULE RunJob -------------------------------
(***************************************************************************)
(* One block of the schedule: run_job of run_benchmarks.py with its retry  *)
(* loop, against the gateway's bridge, the board's main loop and the       *)
(* serial line between board and host.  Blocks follow one another, so that *)
(* what one leaves in the serial line or on the board meets the next.      *)
(*                                                                         *)
(* A line of the console carries the try it belongs to and, for a READY,   *)
(* how often stop_session had run when it was printed; neither is in the   *)
(* real line.  Modelled is the UART mode for handshake blocks; in the      *)
(* power-profiling mode there is no serial line and results come through   *)
(* the bridge.                                                             *)
(***************************************************************************)
EXTENDS Naturals, Sequences

CONSTANTS
    MaxJobs,    \* bound: blocks
    Retries,    \* args.reconnect_retries
    MaxLines    \* bound: unread lines when the idle board repeats READY

ASSUME JobAssumption == MaxJobs \in Nat \ {0} /\ Retries \in Nat /\ MaxLines \in Nat

VARIABLES
    hpc,      \* the host: a point of run_job
    job,      \* blocks begun
    retry,    \* the loop variable of run_job
    tryNo,    \* tries begun, over all blocks
    stopped,  \* calls of stop_session after a try
    expired,  \* case_deadline has passed
    final,    \* the result of the try so far
    rearmed,  \* what the wait for READY took: stops when it was printed
    rows,     \* the results of the blocks that have ended
    serial,   \* lines the host has not read
    bridge,   \* the bridge process: off, connecting, or linked to the board
    tcp,      \* it has reported its TCP connection
    device,   \* the board's main loop
    owner     \* the try that opened the board's session

host == <<hpc, job, retry, tryNo, stopped, expired, final, rearmed, rows>>
gateway == <<bridge, tcp>>
jobVars == <<host, serial, gateway, device, owner>>

Line(kind, ok) == [kind |-> kind, ok |-> ok, from |-> owner, at |-> stopped]

Final(status, stage, fatal, from) ==
    [status |-> status, stage |-> stage, fatal |-> fatal, from |-> from]
NoResult == Final("none", "none", FALSE, 0)
DeadlineResult == Final("timeout", "case_deadline", FALSE, 0)

Finals == [status : {"none", "success", "fail", "timeout"},
           stage : {"none", "session", "serial_wait", "case_deadline", "gateway_start",
                    "ble_l2cap_ready_timeout", "fatal", "board_rearm"},
           fatal : BOOLEAN, from : Nat]
Lines == [kind : {"ready", "result", "fault"}, ok : BOOLEAN, from : Nat, at : Nat]

JobTypeOK ==
    /\ hpc \in {"begin", "starting", "wait", "stop", "rearm", "recover", "reset_wait",
                "decide", "done"}
    /\ job \in 0..MaxJobs /\ retry \in 0..Retries
    /\ tryNo \in Nat /\ stopped \in Nat /\ expired \in BOOLEAN
    /\ final \in Finals /\ rearmed \in Nat /\ rows \in Seq(Finals)
    /\ serial \in Seq(Lines)
    /\ bridge \in {"off", "connecting", "linked"} /\ tcp \in BOOLEAN
    /\ device \in {"boot", "adv", "selecting", "tls", "over", "halted"}
    /\ owner \in Nat

(* The first block: flashing has left an advertising board. *)
JobInit ==
    /\ hpc = "begin" /\ job = 1 /\ retry = 0 /\ tryNo = 0 /\ stopped = 0
    /\ expired = FALSE /\ final = NoResult /\ rearmed = 0 /\ rows = <<>>
    /\ serial = <<>>
    /\ bridge = "off" /\ tcp = FALSE
    /\ device = "adv" /\ owner = 0

-----------------------------------------------------------------------------
(* The host, up to the result of the try. *)

reset_input_bufferNot == UNCHANGED serial  \* mutant

reset_input_buffer == serial' = <<>>

(* The top of the loop: the deadline, then reset_input_buffer and          *)
(* start_session, which first stops what may still run and then starts the *)
(* bridge with empty logs.                                                 *)
BeginTry ==
    /\ hpc = "begin"
    /\ IF expired
       THEN /\ hpc' = "done" /\ final' = DeadlineResult
            /\ rows' = Append(rows, final')
            /\ UNCHANGED <<tryNo, serial, gateway>>
       ELSE /\ hpc' = "starting" /\ final' = NoResult
            /\ tryNo' = tryNo + 1
            /\ reset_input_buffer
            /\ bridge' = "connecting" /\ tcp' = FALSE
            /\ UNCHANGED rows
    /\ UNCHANGED <<job, retry, stopped, expired, rearmed, device, owner>>

(* The readiness poll sees the bridge's TCP connection. *)
StartOk ==
    /\ hpc = "starting" /\ tcp
    /\ hpc' = "wait"
    /\ UNCHANGED <<job, retry, tryNo, stopped, expired, final, rearmed, rows, serial,
                   gateway, device, owner>>

GatewayStartResult == Final("fail", "gateway_start", FALSE, 0)

(* It runs out of checks, or finds the bridge dead; or start_session fails. *)
StartFails ==
    /\ hpc = "starting"
    /\ hpc' = "stop" /\ final' = GatewayStartResult
    /\ UNCHANGED <<job, retry, tryNo, stopped, expired, rearmed, rows, serial, gateway,
                   device, owner>>

(* An exception in the wait, such as a lost serial or SSH line, is taken   *)
(* for a failed start too.                                                 *)
WaitRaises ==
    /\ hpc = "wait"
    /\ hpc' = "stop" /\ final' = GatewayStartResult
    /\ UNCHANGED <<job, retry, tryNo, stopped, expired, rearmed, rows, serial, gateway,
                   device, owner>>

(* wait_for_result: a READY line is skipped, a RESULT line is the result   *)
(* of the try, whichever session printed it, a fault ends the try for good. *)
WaitRead ==
    /\ hpc = "wait" /\ serial # <<>>
    /\ LET line == Head(serial) IN
         IF line.kind = "ready"
         THEN UNCHANGED <<hpc, final>>
         ELSE /\ hpc' = "stop"
              /\ final' = IF line.kind = "fault"
                          THEN Final("fail", "fatal", TRUE, line.from)
                          ELSE Final(IF line.ok THEN "success" ELSE "fail", "session",
                                     FALSE, line.from)
    /\ serial' = Tail(serial)
    /\ UNCHANGED <<job, retry, tryNo, stopped, expired, rearmed, rows, gateway, device, owner>>

(* The server's log shows that the certificates cannot be trusted. *)
WaitFatalServerLog ==
    /\ hpc = "wait"
    /\ hpc' = "stop"
    /\ final' = Final("fail", "fatal", TRUE, 0)
    /\ UNCHANGED <<job, retry, tryNo, stopped, expired, rearmed, rows, serial, gateway,
                   device, owner>>

WaitTimeoutIgnored ==  \* mutant: the wait goes on past the deadline
    /\ hpc = "wait"
    /\ expired' = TRUE
    /\ UNCHANGED <<hpc, job, retry, tryNo, stopped, final, rearmed, rows, serial, gateway,
                   device, owner>>

(* The wait lasts for what is left of the block's deadline. *)
WaitTimeout ==
    /\ hpc = "wait"
    /\ hpc' = "stop"
    /\ expired' = TRUE
    /\ final' = Final("timeout", "serial_wait", FALSE, 0)
    /\ UNCHANGED <<job, retry, tryNo, stopped, rearmed, rows, serial, gateway, device, owner>>

-----------------------------------------------------------------------------
(* The `finally` part of the try, and the decision on another one. *)

(* stop_session ends bridge and server, collect_session_logs appends to    *)
(* the block's logs, and classify_gateway_start_failure looks there for    *)
(* the reason of a failed start.                                           *)
StopSession ==
    /\ hpc = "stop"
    /\ hpc' = "rearm"
    /\ stopped' = stopped + 1
    /\ bridge' = "off"
    /\ \/ UNCHANGED final
       \/ /\ final.stage = "gateway_start"
          /\ final' = [final EXCEPT !.stage = "ble_l2cap_ready_timeout"]
    /\ UNCHANGED <<job, retry, tryNo, expired, rearmed, rows, serial, tcp, device, owner>>

(* wait_for_board_ready takes the next READY line there is. *)
RearmRead ==
    /\ hpc = "rearm" /\ serial # <<>>
    /\ serial' = Tail(serial)
    /\ IF Head(serial).kind = "ready"
       THEN hpc' = "recover" /\ rearmed' = Head(serial).at
       ELSE UNCHANGED <<hpc, rearmed>>
    /\ UNCHANGED <<job, retry, tryNo, stopped, expired, final, rows, gateway, device, owner>>

RearmTimeoutIgnored ==  \* mutant: the result stands without a READY
    /\ hpc = "rearm"
    /\ hpc' = "recover"
    /\ rearmed' = stopped
    /\ UNCHANGED <<job, retry, tryNo, stopped, expired, final, rows, serial, gateway, device,
                   owner>>

(* No READY in time replaces the result, a success too. *)
RearmTimeout ==
    /\ hpc = "rearm"
    /\ hpc' = "recover"
    /\ final' = IF final.fatal THEN final ELSE Final("fail", "board_rearm", TRUE, 0)
    /\ rearmed' = stopped
    /\ UNCHANGED <<job, retry, tryNo, stopped, expired, rows, serial, gateway, device, owner>>

(* reset_firmware when the channel never opened and a try is left; a reset that *)
(* fails is only logged. *)
Recover ==
    /\ hpc = "recover"
    /\ LET never == final.stage = "ble_l2cap_ready_timeout" /\ retry < Retries
       IN \/ never /\ hpc' = "reset_wait" /\ device' = "boot" /\ reset_input_buffer
          \/ hpc' = "decide" /\ UNCHANGED <<device, serial>>
    /\ UNCHANGED <<job, retry, tryNo, stopped, expired, final, rearmed, rows, gateway, owner>>

ResetRead ==
    /\ hpc = "reset_wait" /\ serial # <<>>
    /\ serial' = Tail(serial)
    /\ hpc' = IF Head(serial).kind = "ready" THEN "decide" ELSE hpc
    /\ UNCHANGED <<job, retry, tryNo, stopped, expired, final, rearmed, rows, gateway,
                   device, owner>>

(* A failed recovery is only logged. *)
ResetFails ==
    /\ hpc = "reset_wait"
    /\ hpc' = "decide"
    /\ UNCHANGED <<job, retry, tryNo, stopped, expired, final, rearmed, rows, serial,
                   gateway, device, owner>>

Conclusive == final.status = "success" \/ final.fatal \/ retry >= Retries \/ expired

Decide ==
    /\ hpc = "decide"
    /\ IF Conclusive
       THEN /\ final' = IF expired /\ final.status # "success" THEN DeadlineResult ELSE final
            /\ rows' = Append(rows, final')
            /\ hpc' = "done"
            /\ UNCHANGED retry
       ELSE /\ retry' = retry + 1
            /\ hpc' = "begin"
            /\ UNCHANGED <<final, rows>>
    /\ UNCHANGED <<job, tryNo, stopped, expired, rearmed, serial, gateway, device, owner>>

(* The next block of the schedule. *)
NextJob ==
    /\ hpc = "done" /\ job < MaxJobs
    /\ job' = job + 1
    /\ retry' = 0 /\ expired' = FALSE /\ final' = NoResult
    /\ hpc' = "begin"
    /\ UNCHANGED <<tryNo, stopped, rearmed, rows, serial, gateway, device, owner>>

DeadlinePasses ==
    /\ hpc # "done" /\ ~expired
    /\ expired' = TRUE
    /\ UNCHANGED <<hpc, job, retry, tryNo, stopped, final, rearmed, rows, serial, gateway,
                   device, owner>>

-----------------------------------------------------------------------------
(* The bridge, which connects once and exits when its channel closes. *)

(* connect_l2cap succeeds; the board prints READY once connected. *)
BridgeConnects ==
    /\ bridge = "connecting" /\ device = "adv"
    /\ bridge' = "linked"
    /\ device' = "selecting" /\ owner' = tryNo
    /\ serial' = Append(serial, [Line("ready", TRUE) EXCEPT !.from = tryNo])
    /\ UNCHANGED <<host, tcp>>

(* select_pki_profile: the board accepts the profile and starts TLS. *)
BridgeSelects ==
    /\ bridge = "linked" /\ device = "selecting"
    /\ device' = "tls"
    /\ UNCHANGED <<host, serial, gateway, owner>>

BridgeTcp ==
    /\ bridge = "linked" /\ device \in {"tls", "over"} /\ ~tcp
    /\ tcp' = TRUE
    /\ UNCHANGED <<host, serial, bridge, device, owner>>

BridgeDies ==
    /\ bridge # "off"
    /\ bridge' = "off"
    /\ UNCHANGED <<host, serial, tcp, device, owner>>

-----------------------------------------------------------------------------
(* The board's main loop. *)

HangUp == bridge' = IF bridge = "linked" THEN "off" ELSE bridge

(* No profile within 10 s, the link up or not: a RESULT, and advertising   *)
(* starts over.                                                            *)
SelectionTimeout ==
    /\ device = "selecting"
    /\ device' = "adv" /\ HangUp
    /\ serial' = Append(serial, Line("result", FALSE))
    /\ UNCHANGED <<host, tcp, owner>>

(* An unknown profile closes the channel without a RESULT. *)
SelectionRefused ==
    /\ device = "selecting" /\ bridge = "linked"
    /\ device' = "adv" /\ HangUp
    /\ UNCHANGED <<host, serial, tcp, owner>>

(* start_secure_mqtt_session prints one RESULT.  A success needs the       *)
(* CONNACK that came through the bridge's TCP connection; it may follow    *)
(* the end of the bridge, but what was received is handled before the      *)
(* runner, some SSH commands later, clears tcp and starts another bridge.  *)
SessionResult(ok) ==
    /\ device = "tls"
    /\ ok => tcp
    /\ device' = "over"
    /\ serial' = Append(serial, Line("result", ok))
    /\ UNCHANGED <<host, gateway, owner>>

BoardFault ==
    /\ device = "tls"
    /\ device' = "halted" /\ HangUp
    /\ serial' = Append(serial, Line("fault", FALSE))
    /\ UNCHANGED <<host, tcp, owner>>

(* The ACL is closed and the board reboots. *)
BoardReboots ==
    /\ device = "over"
    /\ device' = "boot" /\ HangUp
    /\ UNCHANGED <<host, serial, tcp, owner>>

BoardReady ==
    /\ device = "boot"
    /\ device' = "adv"
    /\ serial' = Append(serial, Line("ready", TRUE))
    /\ UNCHANGED <<host, gateway, owner>>

(* Every 5 s of waiting for a connection. *)
IdleReady ==
    /\ device = "adv" /\ Len(serial) < MaxLines
    /\ serial' = Append(serial, Line("ready", TRUE))
    /\ UNCHANGED <<host, gateway, device, owner>>

-----------------------------------------------------------------------------
HostStep ==
    \/ BeginTry \/ StartOk \/ StartFails
    \/ WaitRead \/ WaitTimeout
    \/ StopSession \/ RearmRead \/ RearmTimeout
    \/ Recover \/ ResetRead \/ ResetFails \/ Decide \/ NextJob

(* Events of the wait that the host does not bring about. *)
WaitEvent == WaitFatalServerLog \/ WaitRaises \/ DeadlinePasses

BridgeStep == BridgeConnects \/ BridgeSelects \/ BridgeTcp \/ BridgeDies

BoardStep ==
    \/ SelectionTimeout \/ SelectionRefused \/ (\E ok \in BOOLEAN : SessionResult(ok))
    \/ BoardFault \/ BoardReboots \/ BoardReady \/ IdleReady

JobsFinished == hpc = "done" /\ job = MaxJobs /\ UNCHANGED jobVars

JobNext == HostStep \/ WaitEvent \/ BridgeStep \/ BoardStep \/ JobsFinished

JobSpec == JobInit /\ [][JobNext]_jobVars

(* The host runs and its timeouts fire; nothing is asked of the bridge or  *)
(* the board.                                                              *)
JobFairSpec ==
    /\ JobSpec
    /\ WF_jobVars(HostStep)
    /\ WF_jobVars(WaitTimeout) /\ WF_jobVars(RearmTimeout) /\ WF_jobVars(ResetFails)

-----------------------------------------------------------------------------
(* A block recorded as a success rests on a RESULT that the board printed  *)
(* in the session of that block's own last try: no late RESULT of an       *)
(* earlier try or block is ever taken for a success.                       *)
SuccessIsOwn == final.status = "success" => final.from = tryNo

(* After a try that ended with its own RESULT, the board has left that     *)
(* session when the runner has seen READY and goes on.                     *)
ArmedAfterOwnResult ==
    hpc \in {"recover", "decide"} /\ final.stage = "session" /\ final.from = tryNo
        => device \in {"boot", "adv"} \/ owner # tryNo

(* "Between blocks, the runner ... waits for a fresh BENCH_READY marker":  *)
(* the READY that ends the wait was printed after the session was stopped. *)
RearmIsFresh == hpc \in {"recover", "decide"} => rearmed = stopped

(* Every block that begins gets its row, whatever bridge and board do. *)
EveryJobEnds == \A n \in 1..MaxJobs : job = n ~> Len(rows) >= n
=============================================================================
