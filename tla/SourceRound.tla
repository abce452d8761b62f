----------------------------- MODULE SourceRound -----------------------------
(***************************************************************************)
(* run_job in Source Mode: the PPK2 powers the board and samples its GPIO   *)
(* markers while the runner, over SSH, starts the bridge on the Pi, polls   *)
(* its log for the result, stops it, appends its logs to the local ones and *)
(* turns logs and power windows into rows.  Each of these is a different    *)
(* observer of the same session; nothing but order ties them together.      *)
(*                                                                         *)
(* A power window is named <<s, i>>: session s (0 is what an earlier block  *)
(* left running), i = 0 for the connection, i > 0 for transfer i.           *)
(***************************************************************************)
EXTENDS Integers, Sequences, FiniteSets, SequencesExt

CONSTANTS Ops,              \* operations of a transfer round
          Retries,          \* --reconnect-retries
          Prompt            \* which of these the environment grants:
                            \* "controller": it prints a metrics line before
                            \*   stop_session kills it
                            \* "collect": the cat commands of
                            \*   collect_session_logs succeed
                            \* "capture": the thread catches up with the
                            \*   markers in the 50 ms that stop() waits

ASSUME SourceConstants == /\ Ops \in Nat /\ Retries \in Nat
                          /\ Prompt \subseteq {"controller", "collect", "capture"}

VARIABLES
  mode,     \* "handshake" or "transfer"
  pc, try,  \* the runner and its try
  final,    \* [status, of, fatal]: the result, the session it came from
  late,     \* case_deadline has passed
  board,    \* [st, sess, op, hi, hs]: hi and hs are its two marker pins
  bridge,   \* "none", "up" or "dead"
  printing, \* metrics published and not yet in the controller's log
  rlog,     \* on the Pi: [of, res, hs, dev]: result, HANDSHAKE frame and
            \* transfer metrics printed since session "of" truncated the logs
  llog,     \* [hs, dev]: what the last line of each kind in the local logs says
  cap,      \* the capture: [on, open, done]
  usb,      \* samples the capture thread has not processed yet
  rows,     \* rows of transmissions.csv
  attempt   \* the row of attempts.csv, once run_job has returned

vars == <<mode, pc, try, final, late, board, bridge, printing, rlog, llog,
          cap, usb, rows, attempt>>
pi == <<bridge, printing, rlog>>
power == <<cap, usb>>
results == <<llog, rows, attempt>>

Transfers == IF mode = "transfer" THEN 1 .. Ops ELSE {}
NoMetrics == [of |-> -1, ok |-> FALSE]
NoFinal == [status |-> "none", of |-> -1, fatal |-> FALSE]
NoAttempt == [status |-> "none", of |-> -1, hs |-> -1, total |-> <<-1, 0>>,
              power |-> "none"]
NoWindow == [w |-> <<-1, 0>>, hs |-> FALSE]
Failed(fatal) == [status |-> "fail", of |-> -1, fatal |-> fatal]
TimedOut == [status |-> "timeout", of |-> -1, fatal |-> FALSE]

EmptyLog == [i \in Transfers |-> NoMetrics]
FreshLog(s) == [of |-> s, res |-> "none", hs |-> FALSE, dev |-> EmptyLog]

Init ==
  /\ mode \in {"handshake", "transfer"}
  /\ pc = "begin" /\ try = 1 /\ final = NoFinal /\ late = FALSE
  /\ board \in
       {[st |-> "adv", sess |-> 0, op |-> 0, hi |-> FALSE, hs |-> "no"],
        [st |-> "session", sess |-> 0, op |-> 0, hi |-> TRUE, hs |-> "no"],
        [st |-> "session", sess |-> 0, op |-> 0, hi |-> TRUE, hs |-> "high"],
        [st |-> "session", sess |-> 0, op |-> 0, hi |-> TRUE, hs |-> "done"]}
  /\ bridge = "none" /\ printing = {}
  /\ rlog = FreshLog(0) /\ llog = [hs |-> -1, dev |-> EmptyLog] /\ rows = <<>> /\ attempt = NoAttempt
  /\ cap = [on |-> FALSE, open |-> NoWindow, done |-> <<>>] /\ usb = <<>>

(***************************************************************************)
(* The board: markers and session                                           *)
(***************************************************************************)
Window == <<board.sess, board.op>>
Edge(e) == usb' = IF cap.on THEN Append(usb, [e |-> e, w |-> Window]) ELSE usb
BoardOnly == UNCHANGED <<mode, pc, try, final, late, cap, results>>

\* the session's bridge is still there
Linked == board.st = "session" /\ board.sess = try /\ bridge = "up"

\* start_secure_mqtt_session raises total, then handshake
HandshakeStarts ==
  /\ board.st = "session" /\ board.op = 0 /\ board.hi /\ board.hs = "no"
  /\ Linked /\ board' = [board EXCEPT !.hs = "high"] /\ Edge("hs")
  /\ BoardOnly /\ UNCHANGED pi

HandshakeEnds ==
  /\ Linked /\ board.hs = "high" /\ board' = [board EXCEPT !.hs = "done"]
  /\ UNCHANGED usb /\ BoardOnly /\ UNCHANGED pi

\* CONNACK read: total falls, BENCH_HANDSHAKE goes out on the control channel
Connected ==
  /\ Linked /\ board.op = 0 /\ board.hi /\ board.hs = "done"
  /\ board' = [board EXCEPT !.hi = FALSE, !.hs = "no"] /\ Edge("down")
  /\ rlog' = [rlog EXCEPT !.hs = TRUE]
  /\ BoardOnly /\ UNCHANGED <<bridge, printing>>

\* an operation of benchmark_mqtt_transfer_run raises total ...
OperationStarts ==
  /\ Linked /\ ~board.hi /\ printing = {} /\ board.op + 1 \in Transfers
  /\ board' = [board EXCEPT !.op = @ + 1, !.hi = TRUE]
  /\ usb' = IF cap.on THEN Append(usb, [e |-> "up", w |-> <<board.sess, board.op + 1>>])
            ELSE usb
  /\ BoardOnly /\ UNCHANGED pi

\* ... lowers it and publishes its metrics; an invalid one ends the round
OperationEnds ==
  /\ Linked /\ board.op > 0 /\ board.hi /\ Edge("down")
  /\ \E ok \in BOOLEAN :
       /\ printing' = {[op |-> board.op, ok |-> ok]}
       /\ board' = [board EXCEPT !.hi = FALSE,
                                 !.st = IF ok THEN "session" ELSE "failing"]
  /\ BoardOnly /\ UNCHANGED <<bridge, rlog>>

\* the controller prints [BENCH_TRANSFER_DEVICE] and [BENCH_TRANSFER_SERVER]
ControllerPrints ==
  /\ printing # {} /\ printing' = {}
  /\ \E m \in printing :
       rlog' = [rlog EXCEPT !.dev[m.op] = [of |-> rlog.of, ok |-> m.ok]]
  /\ UNCHANGED <<mode, pc, try, final, late, board, bridge, power, results>>

\* BENCH_RESULT_OUT through the control channel: every marker is low by then
Result ==
  /\ bridge = "up" /\ board.sess = try
  /\ \/ /\ board.st = "session" /\ ~board.hi /\ board.op = Cardinality(Transfers)
        /\ rlog' = [rlog EXCEPT !.res = "success"] /\ UNCHANGED usb
     \/ /\ board.st = "failing"
        /\ rlog' = [rlog EXCEPT !.res = "fail"] /\ UNCHANGED usb
     \/ /\ board.st = "session" /\ board.hi   \* an error of TLS or of the link
        /\ rlog' = [rlog EXCEPT !.res = "fail"] /\ Edge("down")
  /\ board' = [board EXCEPT !.st = "post", !.hi = FALSE, !.hs = "no"]
  /\ BoardOnly /\ UNCHANGED <<bridge, printing>>

\* the link is gone: cleanup without a result anyone hears
SessionLost ==
  /\ board.st \in {"session", "failing"} /\ (~Linked \/ board.st = "failing")
  /\ IF board.hi THEN Edge("down") ELSE UNCHANGED usb
  /\ board' = [board EXCEPT !.st = "post", !.hi = FALSE, !.hs = "no"]
  /\ BoardOnly /\ UNCHANGED pi

\* close the ACL, reboot, advertise
Reboots ==
  /\ board.st \in {"post", "boot"}
  /\ board' = [board EXCEPT !.st = IF @ = "post" THEN "boot" ELSE "adv"]
  /\ UNCHANGED usb /\ BoardOnly /\ UNCHANGED pi

\* the bridge ends when the board hangs up, or by an error of its own
BridgeEnds ==
  /\ bridge = "up" /\ bridge' = "dead"
  /\ UNCHANGED <<mode, pc, try, final, late, board, printing, rlog, power, results>>

(***************************************************************************)
(* The capture thread                                                       *)
(***************************************************************************)
\* _process_sample at an edge of a marker
Process(c, x) ==
  CASE x.e = "up" -> [c EXCEPT !.open = [w |-> x.w, hs |-> FALSE]]
    [] x.e = "hs" -> [c EXCEPT !.open.hs = (@ \/ c.open # NoWindow)]
    [] x.e = "down" -> IF c.open = NoWindow THEN c
                       ELSE [c EXCEPT !.done = Append(@, c.open),
                                      !.open = NoWindow]

CaptureLoop ==
  /\ cap.on /\ usb # <<>>
  /\ cap' = Process(cap, Head(usb)) /\ usb' = Tail(usb)
  /\ UNCHANGED <<mode, pc, try, final, late, board, pi, results>>

(***************************************************************************)
(* The runner                                                               *)
(***************************************************************************)
Quiet == UNCHANGED <<mode, late, llog, rows, attempt>>

\* top of the retry loop: power_capture.start(); a marker that is already
\* high opens a window with the first sample
BeginTry ==
  /\ pc = "begin"
  /\ \/ /\ late /\ final' = TimedOut /\ pc' = "return" /\ UNCHANGED power
     \/ /\ ~late /\ pc' = "start" /\ UNCHANGED final
        /\ cap' = [on |-> TRUE, open |-> NoWindow, done |-> <<>>]
        /\ usb' = IF ~board.hi THEN <<>>
                  ELSE [i \in 1 .. (IF board.hs = "high" THEN 2 ELSE 1) |->
                          [e |-> IF i = 1 THEN "up" ELSE "hs", w |-> Window]]
  /\ UNCHANGED <<mode, try, late, board, pi, results>>

\* start_session: stop what runs, truncate the logs, start server, controller
\* and bridge, wait until the bridge has both connections
StartSession ==
  /\ pc = "start" /\ printing' = {}
  /\ \/ /\ board.st = "adv" /\ bridge' = "up" /\ rlog' = FreshLog(try)
        /\ board' = [board EXCEPT !.st = "session", !.sess = try, !.op = 0,
                                  !.hi = TRUE]
        /\ usb' = Append(usb, [e |-> "up", w |-> <<try, 0>>])
        /\ \/ pc' = "poll" /\ UNCHANGED final
           \/ pc' = "stop" /\ final' = Failed(FALSE)  \* not seen ready in time
     \/ /\ rlog' \in {rlog, FreshLog(try)}   \* an SSH command fails, or no board
        /\ bridge' = "none" /\ final' = Failed(FALSE) /\ pc' = "stop"
        /\ UNCHANGED <<board, usb>>
  /\ UNCHANGED <<try, cap>> /\ Quiet

PollResultNoDeadline ==   \* mutant: while True
  /\ pc = "poll"
  /\ \/ /\ rlog.res # "none" /\ pc' = "stop"
        /\ final' = [status |-> rlog.res, of |-> rlog.of, fatal |-> FALSE]
     \/ rlog.res = "none" /\ pc' = "pollbridge" /\ UNCHANGED final
  /\ UNCHANGED <<try, board, pi, power>> /\ Quiet

\* wait_for_ble_result, first query: remote_benchmark_result
PollResult ==
  /\ pc = "poll" /\ ~late
  /\ \/ /\ rlog.res # "none" /\ pc' = "stop"
        /\ final' = [status |-> rlog.res, of |-> rlog.of, fatal |-> FALSE]
     \/ rlog.res = "none" /\ pc' = "pollbridge" /\ UNCHANGED final
  /\ UNCHANGED <<try, board, pi, power>> /\ Quiet

\* second query: remote_bridge_failure; then the fatal server log
PollBridge ==
  /\ pc = "pollbridge"
  /\ \/ /\ bridge = "dead" /\ final' = Failed(FALSE) /\ pc' = "stop"
     \/ /\ bridge = "up" /\ rlog.res # "success" /\ board.op = 0
        /\ final' = Failed(TRUE) /\ pc' = "stop"   \* certificate not trusted
     \/ bridge = "up" /\ pc' = "poll" /\ UNCHANGED final
  /\ UNCHANGED <<try, board, pi, power>> /\ Quiet

WaitTimeout ==
  /\ pc = "poll" /\ late /\ final' = TimedOut /\ pc' = "stop"
  /\ UNCHANGED <<try, board, pi, power>> /\ Quiet

\* collect_session_logs appends; the parsers keep the last line per operation
Appended ==
  [hs |-> IF rlog.hs THEN rlog.of ELSE llog.hs,
   dev |-> [i \in Transfers |-> IF rlog.dev[i] = NoMetrics THEN llog.dev[i]
                                ELSE rlog.dev[i]]]

\* stop_session, collect_session_logs, classify_gateway_start_failure
StopSession ==
  /\ pc = "stop" /\ ("controller" \in Prompt => printing = {})
  /\ bridge' = "none" /\ printing' = {} /\ pc' = "rows"
  /\ llog' \in IF "collect" \in Prompt THEN {Appended} ELSE {Appended, llog}
  /\ UNCHANGED <<mode, try, final, late, board, rlog, power, rows, attempt>>

(***************************************************************************)
(* Rows                                                                     *)
(***************************************************************************)
\* _measurements: the connection's window and the transfers after it
Handshakes(done) == {i \in DOMAIN done : done[i].hs}
TotalAt(done) ==
  IF mode = "transfer" /\ Handshakes(done) # {}
  THEN CHOOSE i \in Handshakes(done) : \A j \in Handshakes(done) : j <= i
  ELSE Len(done)
TransferWindows(done) ==
  IF mode = "transfer" /\ Handshakes(done) # {}
  THEN SubSeq(done, TotalAt(done) + 1, Len(done)) ELSE <<>>

EnergyLast(done) ==   \* mutant: the last window is the connection's
  IF done = <<>> THEN [w |-> <<-1, 0>>, status |-> "incomplete"]
  ELSE [w |-> done[Len(done)].w, status |-> "success"]

\* ... and whether the windows of REQUIRED_WINDOWS lie within it
Energy(done) ==
  IF done = <<>> THEN [w |-> <<-1, 0>>, status |-> "incomplete"]
  ELSE [w |-> done[TotalAt(done)].w,
        status |-> IF done[TotalAt(done)].hs THEN "success" ELSE "incomplete"]

\* transfer_rows_for_round: metrics by sequence number, energy by position
RowsUnmerged(wins) ==   \* mutant: the round's own lines are not required
  [i \in Transfers |->
     [try |-> try, op |-> i, of |-> llog.dev[i].of, status |-> "success",
      win |-> IF i <= Len(wins) THEN wins[i].w ELSE <<-1, 0>>,
      complete |-> \A j \in Transfers : llog.dev[j].ok]]

RoundRows(wins) ==
  LET status(i) == IF llog.dev[i] = NoMetrics
                   THEN IF final.status = "timeout" THEN "timeout" ELSE "not_run"
                   ELSE IF llog.dev[i].ok THEN "success" ELSE "fail"
      complete == /\ final.status = "success"
                  /\ \A i \in Transfers : status(i) = "success"
  IN  [i \in Transfers |->
         [try |-> try, op |-> i, of |-> llog.dev[i].of, status |-> status(i),
          win |-> IF i <= Len(wins) THEN wins[i].w ELSE <<-1, 0>>,
          complete |-> complete]]

\* power_capture.stop: what the thread has not processed is dropped
StopCapture ==
  /\ pc = "rows" /\ ("capture" \in Prompt => usb = <<>>) /\ pc' = "decide"
  /\ cap' = [cap EXCEPT !.on = FALSE] /\ usb' = <<>>
  /\ rows' = rows \o [i \in DOMAIN RoundRows(TransferWindows(cap.done)) |->
                        RoundRows(TransferWindows(cap.done))[i]]
  /\ UNCHANGED <<mode, try, final, late, board, pi, llog, attempt>>

\* end of the retry loop: stop here, or power_cycle and try again
Decide ==
  /\ pc = "decide"
  /\ \/ /\ final.status = "success" \/ final.fatal \/ try > Retries \/ late
        /\ pc' = "return"
        /\ final' = IF late /\ final.status # "success" THEN TimedOut ELSE final
        /\ UNCHANGED <<try, board>>
     \/ /\ final.status # "success" /\ ~final.fatal /\ try <= Retries /\ ~late
        /\ pc' = "begin" /\ try' = try + 1 /\ UNCHANGED final
        /\ board' = [board EXCEPT !.st = "boot", !.hi = FALSE, !.hs = "no"]
  /\ UNCHANGED <<pi, power>> /\ Quiet

\* the row of the attempt: the last HANDSHAKE frame of gateway.log, whose
\* signature scheme must match, and the power values of the last capture
Return ==
  /\ pc = "return" /\ pc' = "done"
  /\ \E match \in BOOLEAN : attempt' =
       LET verified == mode = "transfer" => llog.hs # -1
       IN
       [status |-> IF final.status = "success" /\ ~(match /\ verified) THEN "fail"
                   ELSE final.status,
        of |-> final.of, hs |-> llog.hs,
        total |-> Energy(cap.done).w, power |-> Energy(cap.done).status]
  /\ UNCHANGED <<mode, try, final, late, board, pi, power, llog, rows>>

DeadlinePasses ==
  /\ ~late /\ pc # "done" /\ late' = TRUE
  /\ UNCHANGED <<mode, pc, try, final, board, pi, power, results>>

Stutter == pc = "done" /\ UNCHANGED vars

Runner == BeginTry \/ StartSession \/ PollResult \/ PollBridge \/ WaitTimeout
          \/ StopSession \/ StopCapture \/ Decide \/ Return
Board == HandshakeStarts \/ HandshakeEnds \/ Connected \/ OperationStarts
         \/ OperationEnds \/ Result \/ SessionLost \/ Reboots
Next == Runner \/ (pc # "done" /\ (Board \/ ControllerPrints \/ BridgeEnds
                                   \/ CaptureLoop)) \/ DeadlinePasses \/ Stutter
Spec == Init /\ [][Next]_vars

(* The runner always takes its next step, the controller prints what it has  *)
(* received, the capture thread runs and the deadline comes.  Nothing is     *)
(* assumed of the board.                                                     *)
FairSpec == Spec /\ WF_vars(Runner) /\ WF_vars(CaptureLoop)
            /\ WF_vars(ControllerPrints) /\ WF_vars(DeadlinePasses)

-----------------------------------------------------------------------------
(* A success is the result of this try's session; in transfer mode its       *)
(* handshake values are of that session too, although they come from the     *)
(* last frame of an appended log, and all rows of that try enter the         *)
(* aggregates with the metrics and the power window of their own transfer    *)
(* (run_benchmarks.py 807-935, 1067-1120; power_profiler.py 302-345).        *)
AggregatesOwn ==
  /\ \A r \in ToSet(rows) : r.complete =>
       r.of = r.try /\ r.win = <<r.try, r.op>>
  /\ attempt.status = "success" =>
       /\ attempt.of = try /\ (mode = "transfer" => attempt.hs = try)
       /\ \A r \in ToSet(rows) : r.try = try => r.complete

(* The energy of a successful attempt is that of its own connection, also    *)
(* when the previous block's session was still running when the capture      *)
(* began (power_profiler.py 302-320).                                        *)
EnergyOwn == attempt.status = "success" /\ attempt.power = "success" =>
  attempt.total = <<try, 0>>

(* Every block ends, whatever the board, the bridge and the capture do.      *)
BlockEnds == <>(pc = "done")

(* Each row that reports a transfer reports one of its own try.              *)
RowOfItsTry == \A r \in ToSet(rows) : r.status = "success" => r.of = r.try
=============================================================================
