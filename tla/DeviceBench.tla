----------------------------- MODULE DeviceBench -----------------------------
(***************************************************************************)
(* The two microbenchmark runners that drive the board over its serial     *)
(* console (run_kem_benchmarks.py, run_certificate_benchmarks.py), the     *)
(* firmware loop they talk to (kem_bench_main.c, certgen_main.c) and the   *)
(* legacy host-only mode that measures Docker containers.                  *)
(*                                                                         *)
(* The protocol has no sequence numbers: the runner writes one command,    *)
(* takes the first RESULT line for its answer, and after a timeout resets  *)
(* the board and waits for a READY line.  Lines already in the operating   *)
(* system's buffer survive the reset, and readline() may return a line in  *)
(* two parts when its 0.25 s timeout falls into it.                        *)
(***************************************************************************)
EXTENDS Integers, Sequences, FiniteSets, SequencesExt

CONSTANTS
  Algs,         \* the names in the runner's algorithm table
  CaseFiles,    \* case CSVs: sequences of [alg, enabled]
  Iterations,   \* --iterations
  MaxTorn,      \* bound: lines readline() returns in two parts
  MaxProgress   \* bound: PROGRESS lines per certificate attempt

ASSUME IterationsPositive == Iterations \in Nat \ {0}
ASSUME BoundsNat == MaxTorn \in Nat /\ MaxProgress \in Nat
\* the table is finite, and the client identity is not one of its names
ASSUME TableKnown == IsFiniteSet(Algs) /\ "client_identity" \notin Algs

VARIABLES
  kind,    \* "kem", "cert" (on the device) or "host" (containers)
  skip,    \* --skip-flash
  order,   \* the selected algorithms in the order they are run
  pc,      \* where the runner is
  ci, at,  \* the current algorithm (index into order) and attempt
  rows,    \* attempts, as rewritten to attempts.csv after every attempt
  summary, \* summary.csv, by algorithm
  rx,      \* lines in the serial input buffer of the host
  open,    \* the runner has opened the port
  progress,\* latest_progress of the current attempt
  board,   \* [st, cmd, todo, boots, prog]: firmware, commands in its console
  stale,   \* was the last awaited READY printed before the last reset (history)
  given,   \* history of the last command: [got: it reached the console,
           \* stale: it was sent after a stale READY]
  torn     \* lines torn so far

vars == <<kind, skip, order, pc, ci, at, rows, summary, rx, open, progress,
          board, given, stale, torn>>
boardVars == <<board, rx>>

NoCmd == <<"none", 0>>
OldCmd == <<"earlier run", 0>>   \* what an interrupted run left on the board

(* The fields of a RESULT line in the order emit_result prints them, by     *)
(* what the row makes of them.                                             *)
Fields == IF kind = "kem"
          THEN <<"status", "timings", "sizes", "secrets", "tail">>
          ELSE <<"status", "timings", "sizes", "tail">>
FieldState == {"whole", "cut", "none"}

(***************************************************************************)
(* Case selection                                                          *)
(***************************************************************************)
EnabledAlgs(file) == {file[i].alg : i \in {j \in DOMAIN file : file[j].enabled}}

\* read_kem_cases: one case per enabled group, an unknown group is an error
KemSelected(file) == IF EnabledAlgs(file) \subseteq Algs
                     THEN EnabledAlgs(file) ELSE {}

\* read_cases, signature_cases: one case per enabled signature
CertSelected(file) == IF EnabledAlgs(file) \subseteq Algs
                      THEN EnabledAlgs(file) ELSE {}

\* --only-*, the seeded shuffle and --limit leave a permuted part of it; the
\* host-only mode may measure the client identity first
Orders(S) ==
  LET picked == {p \in UNION {SetToSeqs(T) : T \in SUBSET S} : p # <<>>}
  IN  IF kind = "host" THEN picked \cup {<<"client_identity">> \o p : p \in picked}
      ELSE picked

Init ==
  /\ kind \in {"kem", "cert", "host"} /\ skip \in BOOLEAN
  /\ \E f \in CaseFiles :
       LET S == IF kind = "kem" THEN KemSelected(f) ELSE CertSelected(f)
       IN  \/ S # {} /\ order \in Orders(S) /\ pc = "flash"
           \/ S = {} /\ order = <<>> /\ pc = "refused"
  /\ ci = 1 /\ at = 1 /\ rows = <<>> /\ summary = <<>>
  /\ rx = <<>> /\ open = FALSE /\ progress = NoCmd
  /\ board \in {[st |-> s[1], cmd |-> s[2], todo |-> <<>>, boots |-> 0,
                 prog |-> 0] : s \in {<<"idle", NoCmd>>, <<"busy", OldCmd>>}}
  /\ given = [got |-> FALSE, stale |-> FALSE] /\ stale = FALSE /\ torn = 0

(***************************************************************************)
(* The board: one command at a time, RESULT then READY                     *)
(***************************************************************************)
\* what is printed while nobody has the port open is lost
Emit(line) == rx' = IF open THEN Append(rx, line) ELSE rx

ReadyLine == [m |-> "READY", cmd |-> NoCmd, boots |-> board.boots,
              status |-> "none", sizes |-> TRUE]
ResultLine(c, s, ok) == [m |-> "RESULT", cmd |-> c, boots |-> board.boots,
                         status |-> s, sizes |-> ok]

BoardUnchanged == UNCHANGED <<kind, skip, order, pc, ci, at, rows, summary,
                              open, progress, given, stale, torn>>

\* main: allocators, generator and backend initialised, READY printed
BoardBoots ==
  /\ board.st = "boot"
  /\ \/ board' = [board EXCEPT !.st = "idle"] /\ Emit(ReadyLine)
     \/ board' = [board EXCEPT !.st = "fatal", !.todo = <<>>] /\ UNCHANGED rx
  /\ BoardUnchanged

\* console_getline returns a command; a line it cannot parse is answered
\* at once and is not followed by READY
BoardTakes ==
  /\ board.st = "idle" /\ board.todo # <<>>
  /\ LET c == Head(board.todo) IN
     \/ /\ c.ok
        /\ board' = [board EXCEPT !.st = "busy", !.cmd = c.cmd,
                                  !.todo = Tail(@), !.prog = 0]
        /\ UNCHANGED rx
     \/ /\ ~c.ok
        /\ board' = [board EXCEPT !.todo = Tail(@)]
        /\ Emit(ResultLine(c.cmd, "fail", TRUE))
  /\ BoardUnchanged

\* diagnostic_loop prints PROGRESS while the certificate worker is active
BoardProgress ==
  /\ kind = "cert" /\ board.st = "busy" /\ board.prog < MaxProgress
  /\ board' = [board EXCEPT !.prog = @ + 1]
  /\ Emit([ReadyLine EXCEPT !.m = "PROGRESS", !.cmd = board.cmd])
  /\ BoardUnchanged

\* run_case ends: success, a failed stage, or an algorithm it does not have
BoardResult ==
  /\ board.st = "busy"
  /\ board' = [board EXCEPT !.st = "post"]
  /\ \E s \in {"success", "fail", "unsupported"}, ok \in BOOLEAN :
       Emit(ResultLine(board.cmd, s, ok))
  /\ BoardUnchanged

BoardReady ==
  /\ board.st = "post"
  /\ board' = [board EXCEPT !.st = "idle", !.cmd = NoCmd]
  /\ Emit(ReadyLine)
  /\ BoardUnchanged

(***************************************************************************)
(* Reading the port                                                        *)
(***************************************************************************)
\* what is known of each field when the line is cut inside the k-th one
CutAt(k) == [f \in ToSet(Fields) |->
               LET i == CHOOSE j \in DOMAIN Fields : Fields[j] = f
               IN  IF i < k THEN "whole" ELSE IF i = k THEN "cut" ELSE "none"]

\* parse_board_values: a line torn in its marker matches nothing, one torn
\* later gives the fields before the cut; the rest of it matches nothing
Readings == {CutAt(Len(Fields) + 1)} \cup
            (IF torn < MaxTorn THEN {CutAt(k) : k \in DOMAIN Fields} ELSE {})

TornBy(v) == torn' = IF v = CutAt(Len(Fields) + 1) THEN torn ELSE torn + 1

\* values.get("status", "fail").lower()
Status(line, v) == CASE v.status = "whole" -> line.status
                     [] v.status = "cut" -> "other"
                     [] v.status = "none" -> "fail"

KemRowTrusting(line, v) ==   \* mutant: the board's status is taken as it is
  [alg |-> order[ci], attempt |-> at, from |-> line.cmd,
   timings |-> v.timings, got |-> given.got, stale |-> given.stale,
   status |-> Status(line, v)]

\* attempt_row of the KEM runner: a success must report the expected sizes
\* and matching secrets
KemRow(line, v) ==
  LET size_mismatch == Status(line, v) = "success" /\
                       ~(v.sizes = "whole" /\ line.sizes)
      secret_mismatch == Status(line, v) = "success" /\ v.secrets # "whole"
  IN  [alg |-> order[ci], attempt |-> at, from |-> line.cmd,
       timings |-> v.timings, got |-> given.got, stale |-> given.stale,
       status |-> IF size_mismatch \/ secret_mismatch THEN "fail"
                  ELSE Status(line, v)]

\* on_device_attempt_row: a success must report the expected sizes
CertRow(line, v) ==
  LET size_mismatch == Status(line, v) = "success" /\
                       ~(v.sizes = "whole" /\ line.sizes)
  IN  [alg |-> order[ci], attempt |-> at, from |-> line.cmd,
       timings |-> v.timings, got |-> given.got, stale |-> given.stale,
       status |-> IF size_mismatch THEN "fail" ELSE Status(line, v)]

\* the rows of a timeout (with the progress seen) and of what it cancels
LocalRow(n, s, from) ==
  [alg |-> order[ci], attempt |-> n, from |-> from, timings |-> "none",
   got |-> given.got, stale |-> given.stale, status |-> s]

CancelledOneShort ==   \* mutant: range(attempt + 1, iterations)
  [i \in 1 .. (Iterations - at - 1) |-> LocalRow(at + i, "cancelled", NoCmd)]

Cancelled ==
  [i \in 1 .. (Iterations - at) |-> LocalRow(at + i, "cancelled", NoCmd)]

(***************************************************************************)
(* The runner                                                              *)
(***************************************************************************)
Advance ==
  /\ ci' = IF at = Iterations THEN ci + 1 ELSE ci
  /\ at' = IF at = Iterations THEN 1 ELSE at + 1
  /\ pc' = IF at = Iterations /\ ci = Len(order) THEN "summary" ELSE "send"

RunnerKeeps == UNCHANGED <<kind, skip, order>>
Fixed == <<ci, at, rows, summary, progress, given, stale, torn>>

\* build and flash; flashing restarts the board and any running command
Flash ==
  /\ pc = "flash" /\ kind # "host" /\ pc' = "open"
  /\ board' = IF skip THEN board
              ELSE [board EXCEPT !.st = "boot", !.cmd = NoCmd, !.todo = <<>>,
                                 !.boots = @ + 1]
  /\ RunnerKeeps /\ UNCHANGED <<Fixed, rx, open>>

OpenPortAssumesReady ==   \* mutant: a flashed board is taken to be ready
  /\ pc = "open" /\ open' = TRUE /\ rx' = <<>>
  /\ pc' = IF skip THEN "reset0" ELSE "send"
  /\ RunnerKeeps /\ UNCHANGED <<Fixed, board>>

\* serial.Serial, reset_input_buffer
OpenPort ==
  /\ pc = "open" /\ open' = TRUE /\ rx' = <<>>
  /\ pc' = IF skip THEN "reset0" ELSE "ready0"
  /\ RunnerKeeps /\ UNCHANGED <<Fixed, board>>

\* reset_firmware returns when the board has been reset, or raises
Reset ==
  /\ pc \in {"reset0", "reset"}
  /\ \/ /\ pc' = IF pc = "reset0" THEN "ready0" ELSE "ready"
        /\ board' = [board EXCEPT !.st = "boot", !.cmd = NoCmd, !.todo = <<>>,
                                  !.boots = @ + 1]
     \/ pc' = "aborted" /\ UNCHANGED board
  /\ RunnerKeeps /\ UNCHANGED <<Fixed, rx, open>>

\* wait_for_board_marker("[BENCH_READY]")
ReadyRead ==
  /\ pc \in {"ready0", "ready"} /\ rx # <<>> /\ rx' = Tail(rx)
  /\ \/ /\ Head(rx).m = "READY"
        /\ stale' = (Head(rx).boots # board.boots)
        /\ pc' = IF pc = "ready0" THEN "send" ELSE "record"
        /\ UNCHANGED torn
     \/ /\ Head(rx).m = "READY" /\ torn < MaxTorn   \* torn in the marker
        /\ torn' = torn + 1 /\ UNCHANGED <<stale, pc>>
     \/ Head(rx).m # "READY" /\ UNCHANGED <<stale, pc, torn>>
  /\ RunnerKeeps
  /\ UNCHANGED <<ci, at, rows, summary, progress, given, board, open>>

\* TimeoutError is not caught here; a board that boots or has just answered
\* prints READY in time
ReadyTimeout ==
  /\ pc \in {"ready0", "ready"} /\ rx = <<>> /\ board.st \notin {"boot", "post"}
  /\ pc' = "aborted"
  /\ RunnerKeeps /\ UNCHANGED <<Fixed, boardVars, open>>

\* serial_port.write: a board that boots may miss the line or a part of it
Send ==
  /\ pc = "send" /\ kind # "host" /\ pc' = "wait" /\ progress' = NoCmd
  /\ \E g \in (IF board.st = "boot" THEN {"lost", "part", "all"} ELSE {"all"}) :
       /\ given' = [got |-> g # "lost" /\ board.st # "fatal", stale |-> stale]
       /\ board' = IF g = "lost" \/ board.st = "fatal" THEN board
                   ELSE [board EXCEPT !.todo =
                           Append(@, [cmd |-> <<order[ci], at>>,
                                      ok |-> g = "all"])]
  /\ RunnerKeeps /\ UNCHANGED <<ci, at, rows, summary, stale, torn, rx, open>>

\* wait_for_board_marker("[BENCH_KEM_RESULT]"): the first one is the answer
KemRead ==
  /\ pc = "wait" /\ kind = "kem" /\ rx # <<>> /\ rx' = Tail(rx)
  /\ \/ /\ Head(rx).m = "RESULT"
        /\ \E v \in Readings : rows' = Append(rows, KemRow(Head(rx), v)) /\ TornBy(v)
        /\ Advance
     \/ /\ Head(rx).m = "RESULT" /\ torn < MaxTorn   \* torn in the marker
        /\ torn' = torn + 1 /\ UNCHANGED <<rows, ci, at, pc>>
     \/ Head(rx).m # "RESULT" /\ UNCHANGED <<torn, rows, ci, at, pc>>
  /\ RunnerKeeps /\ UNCHANGED <<summary, progress, given, stale, board, open>>

\* the certificate runner also remembers the last PROGRESS line
CertRead ==
  /\ pc = "wait" /\ kind = "cert" /\ rx # <<>> /\ rx' = Tail(rx)
  /\ \/ /\ Head(rx).m = "RESULT"
        /\ \E v \in Readings : rows' = Append(rows, CertRow(Head(rx), v)) /\ TornBy(v)
        /\ Advance /\ UNCHANGED progress
     \/ /\ Head(rx).m = "RESULT" /\ torn < MaxTorn
        /\ torn' = torn + 1 /\ UNCHANGED <<rows, ci, at, pc, progress>>
     \/ /\ Head(rx).m = "PROGRESS" /\ progress' = Head(rx).cmd
        /\ UNCHANGED <<torn, rows, ci, at, pc>>
     \/ Head(rx).m = "READY" /\ UNCHANGED <<torn, rows, ci, at, pc, progress>>
  /\ RunnerKeeps /\ UNCHANGED <<summary, given, stale, board, open>>

\* The deadline is minutes away from a boot or from taking a command, and what
\* was printed before it has been read; a line it leaves unread counts as
\* printed just after it.
DeadlinePassed == rx = <<>> /\ board.st # "boot" /\ board.todo = <<>>

WaitTimeoutNever ==   \* mutant: every empty read starts the deadline again
  /\ pc = "wait" /\ DeadlinePassed /\ UNCHANGED vars

WaitTimeoutNoReset ==   \* mutant: the board is left to finish the command
  /\ pc = "wait" /\ DeadlinePassed /\ pc' = "record"
  /\ RunnerKeeps /\ UNCHANGED <<Fixed, boardVars, open>>

\* TimeoutError: reset the board (the row waits for its READY)
WaitTimeout ==
  /\ pc = "wait" /\ DeadlinePassed /\ pc' = "reset"
  /\ RunnerKeeps /\ UNCHANGED <<Fixed, boardVars, open>>

\* attempts.append, the cancelled rows, write_csv, break; "got" and "stale"
\* of the row are those of the command that timed out
RecordTimeout ==
  /\ pc = "record"
  /\ rows' = Append(rows, LocalRow(at, "timeout", progress)) \o Cancelled
  /\ ci' = ci + 1 /\ at' = 1
  /\ pc' = IF ci = Len(order) THEN "summary" ELSE "send"
  /\ RunnerKeeps
  /\ UNCHANGED <<summary, progress, given, stale, torn, boardVars, open>>

\* attempt_row of the host-only mode: what the container measured
ContainerRow(s) == [LocalRow(at, s, <<order[ci], at>>) EXCEPT !.timings = "whole"]

\* run_measured_container: the exit status decides
RunContainer ==
  /\ pc \in {"flash", "send"} /\ kind = "host"
  /\ \E s \in {"success", "fail"} : rows' = Append(rows, ContainerRow(s))
  /\ Advance
  /\ RunnerKeeps
  /\ UNCHANGED <<summary, progress, given, stale, torn, boardVars, open>>

(***************************************************************************)
(* Summaries                                                               *)
(***************************************************************************)
\* the items of a group, by their places in attempts
Of(a) == {i \in DOMAIN rows : rows[i].alg = a}
With(items, s) == {i \in items : rows[i].status = s}
CountStatus(items, s) == Cardinality(With(items, s))

\* summarize of the KEM runner
KemSummary(items) ==
  [status |-> IF CountStatus(items, "success") = Cardinality(items)
              THEN "success" ELSE "fail",
   success |-> CountStatus(items, "success"),
   fail |-> CountStatus(items, "fail"),
   timeout |-> CountStatus(items, "timeout")]

\* summarize of the certificate runner
CertSummary(items) ==
  [status |-> CASE CountStatus(items, "success") = Cardinality(items) -> "success"
                [] CountStatus(items, "success") < Cardinality(items)
                   /\ CountStatus(items, "timeout") > 0
                   /\ CountStatus(items, "success") = 0 -> "timeout"
                [] OTHER -> "fail",
   success |-> CountStatus(items, "success"),
   fail |-> Cardinality(items) - CountStatus(items, "success"),
   timeout |-> CountStatus(items, "timeout")]

WriteSummary ==
  /\ pc = "summary" /\ pc' = "done"
  /\ summary' = [a \in ToSet(order) |-> IF kind = "kem" THEN KemSummary(Of(a))
                                        ELSE CertSummary(Of(a))]
  /\ RunnerKeeps
  /\ UNCHANGED <<ci, at, rows, progress, given, stale, torn, boardVars, open>>

Over == pc \in {"done", "aborted", "refused"}
Stutter == Over /\ UNCHANGED vars

Runner == Flash \/ OpenPort \/ Reset \/ ReadyRead \/ ReadyTimeout \/ Send
          \/ KemRead \/ CertRead \/ WaitTimeout \/ RecordTimeout
          \/ RunContainer \/ WriteSummary
Board == BoardBoots \/ BoardTakes \/ BoardProgress \/ BoardResult \/ BoardReady

Next == Runner \/ (~Over /\ Board) \/ Stutter
Spec == Init /\ [][Next]_vars

(* The runner is one thread that always comes back from readline(); the     *)
(* board boots and prints READY in bounded time.  Nothing makes it finish a *)
(* command: that is what the timeout is for.                               *)
FairSpec == Spec /\ WF_vars(Runner) /\ WF_vars(BoardBoots)
            /\ WF_vars(BoardTakes) /\ WF_vars(BoardReady)

-----------------------------------------------------------------------------
(* The values of a row were printed for the command of that very row: a      *)
(* RESULT or PROGRESS of a command that timed out is never taken for a later *)
(* one, although the lines carry no attempt number (run_kem_benchmarks.py    *)
(* 509-541, run_certificate_benchmarks.py 982-1013).                         *)
RowIsOwn == \A i \in DOMAIN rows :
  rows[i].from \in {NoCmd, <<rows[i].alg, rows[i].attempt>>}

(* A row counted as success has the complete timings the board printed, even *)
(* when readline() returned its line in two parts: the sizes checked by      *)
(* attempt_row are printed after the timings.                               *)
TimingsExact == \A i \in DOMAIN rows :
  rows[i].status = "success" => rows[i].timings = "whole"

(* A run that ends normally has written exactly one row per attempt of every *)
(* selected algorithm, in order, cancelled ones included, and no other row;  *)
(* an algorithm is summarised as success exactly when all of them succeeded. *)
AllRecorded == pc = "done" =>
  /\ \A i \in DOMAIN rows : rows[i].alg \in ToSet(order)
  /\ \A a \in ToSet(order) :
       /\ {rows[i].attempt : i \in Of(a)} = 1 .. Iterations
       /\ \A i, j \in Of(a) : i < j => rows[i].attempt < rows[j].attempt
       /\ summary[a].status = "success" <=> \A i \in Of(a) : rows[i].status = "success"
       /\ summary[a].success + summary[a].fail <= Iterations

(* A command that never reached the firmware is blamed on the algorithm as   *)
(* a timeout only when the READY before it was printed ahead of the reset,   *)
(* that is when a late answer raced the timeout.                            *)
LostAfterStaleReady == \A i \in DOMAIN rows :
  rows[i].status = "timeout" /\ ~rows[i].got => rows[i].stale

(* Whatever the board does, the run ends: with a summary, or with the error  *)
(* of a board that does not come back.                                      *)
RunEnds == <>Over
=============================================================================
