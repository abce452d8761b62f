# TLA+ models of the BLE/TLS benchmark bench

The repository measures post-quantum TLS on an nRF52840 board that speaks
MQTT over TLS over BLE L2CAP.  A host program drives the board and a Raspberry
Pi gateway through thousands of measurements that take days; the firmware and
the gateway carry the TLS stream between radio and socket.  This directory
models the parts whose mistakes a test would hardly meet: what survives a stop
of the runner, which session a result belongs to, and what the radio callbacks
do to the byte streams of the TLS session, whether the two ends of a transfer
agree, which observer's measurement goes into which row, which firmware and
which certificate meet on the air, and what the programs that read the results
may conclude from them.

## 1. The system

| Component | State | Operations | Interacts with |
|---|---|---|---|
| Resumable schedule, `run_benchmarks.py main` | manifests, `checkpoint.json`, `attempts.csv` and `transmissions.csv` per case, `summary.csv`, `run_config.json`; schedule, rows and active firmware profile in memory | new run, `--resume`, regroup by firmware profile, flash, run a block, write rows, write checkpoint, summarise | the board (flash), `run_job` |
| Retry loop of a block, `run_job` | retry count, deadline, result so far | start the session, wait for RESULT, stop, wait for READY, recovery reset, decide | gateway over SSH, board over the serial line |
| Device session loop, `main.c main` | advertising, selection, session, disconnect and reboot | one connection after the other | bridge (L2CAP), host (console lines) |
| Device transmit path, `main.c` | one-buffer pool, completion semaphore, link flags | `l2cap_wolfssl_send`, `benchmark_control_send`; callbacks `l2cap_sent`, `bt_disconnected`, `l2cap_disconnected` | wolfSSL, Zephyr host thread |
| Device receive path, `main.c` | FIFO of SDUs, current SDU, byte counter, buffer pool | `l2cap_recv`, `l2cap_wolfssl_recv`, reclaiming at the top of the main loop | wolfSSL, Zephyr host thread |
| Bridge, `ble_mqtt_bridge.c` | L2CAP and TCP sockets, reassembly of prefixed SDUs and control frames | connect, select the PKI profile, relay | board, TLS server |
| Transfer protocol, `mqtt_transfer.c`, `mqtt_transfer_controller.py`, `transfer.py` | packet identifiers, phase of the round, inbox | subscribe, READY, publish, ACK, metrics | each other through the broker |
| Source Mode of a block: `run_job`, `gateway.py`, `power_profiler.py` | logs on the Pi, appended local logs, capture windows, rows of a round | start a capture and a session, poll, stop, collect, cut windows, merge rows, retry | board's marker pins, bridge, controller |
| Setup and cleanup, `run_benchmarks.py main`, `firmware.py`, `certificates.py` | certificate cache, firmware cache, saved profile plan, image on the board, Wi-Fi, supply of the board | reuse or make chains, build, pack, flash, power, deploy, restore | board, Pi, PPK2 |
| Microbenchmark runners and their firmware: `run_kem_benchmarks.py`, `run_certificate_benchmarks.py`, `kem_bench_main.c`, `certgen_main.c` | rows, serial input buffer, the board's command | command, wait for a marker, reset, cancel, summarise | each other over the serial line |
| Results: `summarize`, `check_results.py`, `src/graphic/` | `attempts.csv`, `transmissions.csv`, the summaries | record, summarise, check, plot, tabulate, rank | files only |
| TLS server, `wolfssl_tls_server.c` | accept loop, MQTT answers | one connection after the other | bridge |
| Certificate contents, algorithm tables, scheduler | files | batch computations | none |

What is hard here: the runner may be stopped between any two file operations
and resumed days later; console lines carry neither block nor try; the
firmware's main thread is preempted by the callbacks of the Bluetooth host
thread at every point; one transmit buffer and one semaphore serve two senders;
completions can overtake, or be overtaken by, their timeouts; every SDU that is
not given back costs the peer a credit; the device reads MQTT strictly, in an
order the broker must happen to keep; logs are appended over the tries of a block
and read as a whole; caches, saved plans and summaries outlive the process that
wrote them.  `PROJECT.json` lists each hazard at
its line.

What makes each part correct:

* schedule: completed work survives, nothing is skipped, a block runs on the
  right firmware, the summary agrees with the rows;
* retry loop: a success belongs to the block it is recorded for, every block
  ends, the next one meets a re-armed board;
* transmit path: the peer gets the TLS stream as wolfSSL believes it was sent,
  the buffer is neither leaked nor freed twice, calls return;
* receive path: wolfSSL reads exactly the bytes of this session, no buffer is
  lost, the peer gets its credits back;
* transfer round: both ends count the same payloads in the same order, a sound
  transport never makes a round fail, both ends stop;
* Source Mode: aggregates and energy come from the session that succeeded;
* setup: the board runs an image of these sources whose root verifies the chain
  that is served; the plan fits the flash; cleanup restores Pi and board;
* microbenchmarks: a row has its own command's values, the timings of a success
  whole, and every attempt has its row;
* results: every figure comes from recorded rows, but for one block that an
  interrupt kept from its file, and every row is counted once.

## 2. Modules

### ResumableRun (`run_benchmarks.py` main)

One action per file operation, in the order of the code: `Replan`,
`WriteManifest`, `WriteTransferManifest`, `WriteConfig`, `FlashFirst`, then per
block `SwitchProfile`, `RunBlock`, `WriteAttempts`, `WriteTransmissions`,
`WriteCheckpoint`, and at the end `WriteSummary`.  `pc` is the point between two
of them.  `Stop` ends the process at any point of `StopPoints` (a kill, a power
cut, an uncaught exception); `Interrupt` is Ctrl-C inside the block loop, which
goes on to the summary.  With `TornWrites`, a stop at a rewrite leaves a prefix
of the new content, because `write_csv` and `Path.write_text` write in place;
`write_checkpoint` renames a temporary file and is atomic.  A flash that is
stopped leaves the board with no usable profile.  `Resume` reads the files
back; a checkpoint of 0 means that the schedule is planned again, as in the
code.  A block is the identity of its row; its measurements are not modelled.
A schedule entry carries the block and the block whose operations were found
for it, which are different only when the two round manifests disagree.
`TransferMode` is `run_transfer_benchmarks.py`.

Init is a run whose manifests and first checkpoint exist: before that there is
nothing to resume.  `session_manifest.csv` and `round_manifest.csv` are one
variable, since a run reads only one of them back; likewise `handshakes.csv`,
a copy of `attempts.csv`, is not separate.

### RunJob (`run_job`, `gateway.py`, the bridge's and the board's life cycle)

The host's `hpc` follows the retry loop.  The serial line is a queue of READY,
RESULT and fault lines.  Each line is tagged with the try that opened the
board's session and with the number of stopped sessions when it was printed;
the real lines have no such tag, and no action of the host reads it except to
store it for the properties.  The bridge connects, selects a profile, opens its
TCP connection and may die at any time.  The board advertises, waits for a
profile, runs the session, reboots, and repeats READY while idle.  Deadlines
pass at any moment.  A successful RESULT needs the CONNACK the bridge relayed,
so it cannot come after the runner has started another bridge.

### L2capTx (`main.c`, transmit)

The main thread's `txPc` goes through `l2cap_wolfssl_send` (`loop`, `queue`,
`wait`) or `benchmark_control_send` (`ctl_*`); the callbacks and the stack's own
steps interleave at every point.  Data is counted in chunks of one SDU, numbered
along the TLS stream; `peer` is what arrived.  The stack (external) transmits
the queued SDU, then releases its buffer and calls `l2cap_sent`, in either
order.  wolfSSL offers the rest of its record again after a call that sent less,
which is how `ReturnSent` advances `accepted`.  `LateCompletion` chooses whether
a wait may time out while its completion is still due.

### L2capRx (`main.c`, receive)

Bytes are numbered over all sessions, an SDU is an interval of them.
`l2cap_wolfssl_recv` is split where the host thread can preempt it: after the
FIFO read (`RecvNone`) and after the link check (`RecvCheck`).  The main loop
ends a session, reboots or clears the channel object, and reclaims the queue one
SDU at a time.  `bt_l2cap_chan_recv_complete` (external) gives buffer and credit
back, as it does in current Zephyr also when the channel is already closed.

### MqttTransfer and TransferAgreement (`mqtt_transfer.c`, `mqtt_transfer_controller.py`, `transfer.py`)

Device and controller are two programs with a program point each (`dev.pc`,
`ctl.pc`); four packet queues lead to and from the broker (external: Mosquitto,
QoS 1, no message kept for a topic nobody subscribes to).  The device waits for a
PUBACK or a PUBLISH and fails on anything else (`WrongPacket`, `DevReadFails`); the
controller keeps what it did not expect in `inbox`, except in
`wait_pattern_publish`, which reads strictly (`CtlPattern`, `CtlFails`).  A payload
is named by its operation, because pattern, size and hash are functions of what
the command carries; `Alter` spoils one on its way, `LinkDown` drops the device's
connection, `TimePasses` is the moment both socket timeouts are over.  The plan
is any order of the operations of `operations_for_case`.

`TransferAgreement` is what a round promises: payloads move one at a time in plan
order, an end counts an operation only after its payload arrived intact, nothing
moves before both ends have settled the payload before, and an end that gave up
counts nothing more.  `RoundAgrees` is the refinement (`INSTANCE ... WITH` the
counters of both ends); the abstract specification also admits what the code
allows, a controller that reports an operation the device gave up on afterwards.

### SourceRound (`run_job` with the PPK2, `gateway.py`, `power_profiler.py`)

Five observers of one session: the board with its two marker pins, the bridge's
and controller's logs on the Pi (truncated when a session starts), the local logs
(appended on every try), the capture thread, which processes samples later than
they were taken, and the runner.  A value carries the session it came from; no
action reads that tag except to store it.  `BeginTry`, `StartSession`, `PollResult`
and `PollBridge` (two separate SSH calls), `StopSession`, `StopCapture`, `Decide`
and `Return` are the runner.  A block may begin while a session of the block
before is still running.  `Prompt` names three things the code relies on without
checking: the controller prints its metrics line before it is killed, the `cat`
commands of the log collection succeed, and the capture thread catches up in the
50 ms that `stop()` waits.  Currents and durations are data; a window is named by
its session and transfer.

### RunSetup (`run_benchmarks.py` main around the block loop)

Chains from the certificate cache (`ReuseChain`, `MakeRoot`, `SignChain`), the
universal image or a packing of the roots (`TryUniversal`, `SplitProfiles`, then
`PackNext` for one root at a time as `pack_root_profiles` places it, or
`UseSavedPlan` on resume), images from the firmware cache by their key
(`BuildNext`), `SaveConfig`, flashing, PPK2 power, deployment, Wi-Fi, blocks and
profile switches, and the cleanup in its order.  `SetupRaises` is an exception or
Ctrl-C at any setup step, `LeaveLoop` also the end by exception or Ctrl-C,
`CleanupCut` Ctrl-C inside the `finally` block, `Kill` the end without cleanup.
`WifiOff` and `EnterTry` are two steps, because the command comes before the `try`
whose `finally` undoes it.  Every command to Wi-Fi or supply may fail, and
`ClosePower` forgets the PPK2 either way.  The history variable `missed` collects
what was not switched back, and is cleared by a later command that gets through.

An image takes `Base[v]`, by the version of the sources, and for each of its root
certificates the DER size and `Extra`, the entry, name and padding it is linked with
(`Used`).  `pack_root_profiles` knows one probe image and the DER sizes; what it does
not count (`Uncounted`) is the `Extra` of the roots beyond the probe's and what the
sources have grown by since the plan was made, because a saved plan is not measured
again.  `PlanFits` says that an image on the board fits and keeps the margin less
exactly that; that the margin itself is kept (`MarginKept`) is a finding.  A root
certificate is a version of its algorithm, so a regenerated root differs from the
one that signed older chains; the firmware sources have versions too, and may be
edited between two processes.  `ProbeFaults` lets `_cert_is_valid` fail because
docker does.

### DeviceBench (the KEM and certificate runners and their firmware)

One module for both runners, which share the marker protocol and differ in how
they make a row (`KemRow`, `CertRow`), treat progress lines and summarise; `kind`
chooses, and `"host"` is the container mode.  The serial input buffer `rx`
survives a reset of the board.  A line may be cut once by `readline`; the reading
is then the fields before the cut, with the field at the cut shortened.  `given`
and `stale` are history: whether a command reached the firmware, and whether the
READY before it was printed before the last reset.

### Results (`summarize`, `check_results.py`, `src/graphic/`)

A block goes through `RunBlock` (its row is in memory), `WriteAttempts`,
`ExtendTransmissions` (its transfers are in memory, `handshakes.csv` is being
rewritten) and `WriteTransmissions`; the two summaries follow at the end of a
process, from memory, and Ctrl-C leads to them from between any two of these steps.
`Start` reads the rows back, `DryRun` writes empty summaries, `Kill` may fall
anywhere.  `basis` and `tbasis` are history: the rows a summary was made from.  A
column that a file lacks is one of empty cells, which the analysis rejects under the
same reason.  The readers are operators over the
files: the handshake, energy and transfer figures of the plots and tables, what
the analysis accepts and why it rejects the rest, the Pareto and Spearman ranks,
and the verdict of the checker.  A mean is the pair of sum and count, so that
comparing figures is exact.

### Proof and MC modules

Every component's theorems are in a module of their own: `HostRunProofs` has those of
`ResumableRun` and `RunJob`, `L2capProofs` those of `L2capRx` and `L2capTx`, the others
are `<component>Proofs`.  `RunJob` and `L2capTx` therefore name their specifications
`JobSpec` and `TxSpec` (`JobInit`, `TxInit` and so on), so that one module can extend
both of a pair.  `DataTheorems` has the facts about finite sets that several of them
use.  `MC*` modules give TLC its instances; the constants are in the `.cfg` files.
Operators marked `mutant` are small faults put in the place of a definition to see that a
property notices; no specification uses them.

## 3. Runs

| Run | Properties | Distinct states | Shows |
|---|---|---|---|
| `run_resume` | `CommittedKept`, `NothingSkipped`, `OpsIntact`, `EventuallyDone` | 23 792 | what resuming guarantees, two stops anywhere but between the two manifest rewrites, no torn file |
| `run_resume_torn` | `TypeOK`, `RightFirmware`, `SurplusBounded`, `SummaryFromDisk`, `CommitAfterRows` | 79 479 | what still holds when a stop tears the file being written |
| `tx_prompt` | `StreamIntact` | 31 998 | exact delivery when completions are in time |
| `tx_returns` | `BufferOneOwner`, `InOrder`, `CallsReturn` | 93 616 | what holds when they are not |
| `rx_stream` | `ReadsThisSession`, `NothingLost`, `BuffersConserved`, `DrainedIfSeenDown`, `CreditReturns` | 20 961 | the received stream over three connections |
| `job_retry` | `SuccessIsOwn`, `ArmedAfterOwnResult`, `EveryJobEnds` | 283 248 | two blocks with a retry each, results over the serial line |
| `mqtt_transfer` | `RoundAgrees`, `FailsOnlyOnFault`, `IdsValid`, `RoundEnds` | 156 228 | a round implements `TransferAgreement`, fails only on a fault of the transport, and ends, also when READY is lost |
| `source_round` | `AggregatesOwn`, `EnergyOwn`, `BlockEnds` | 184 863 | what enters the aggregates is of the try that succeeded |
| `run_setup` | `BlockOnItsImage`, `PlanFits`, `PlanPartitions`, `Restored` | 2 408 960 | caches, plan, image and cleanup over two processes |
| `device_bench` | `RowIsOwn`, `TimingsExact`, `AllRecorded`, `LostAfterStaleReady`, `RunEnds` | 1 208 684 | the marker protocol of the microbenchmarks |
| `results` | `FiguresFromRecords`, `RowsAccounted`, `RanksAreReference` | 190 327 | what the readers make of the files at any moment, summaries from a memory ahead of them included |

`run_resume` is in transfer mode, which has every action of the handshake mode.
`round_stale_rows` expects a violation of `RowOfItsTry`: a retried round that
printed no metrics takes those of the earlier try from the appended log into rows
marked with its own number (`METRICS.md`: "Each row in `transmissions.csv`
describes one MQTT QoS 1 transfer").  `AggregatesOwn` shows that the aggregates are
not affected, because only a successful try marks its rows complete.

### Further disagreements, and how to see them

Each has an entry under `findings` in `PROJECT.json`.  The first eight are shown
by TLC when the instance named here is given the property as an invariant:

| Instance | Property | What the code does |
|---|---|---|
| `run_resume` with `TornWrites = TRUE` | `CommittedKept` | a stop inside the rewrite of `attempts.csv` loses completed rows |
| `run_resume` with `StopPoints <- EveryPoint` | `OpsIntact` | a stop between the two manifest rewrites mixes the operations of the rounds |
| `run_resume` | `CompleteHasSummary` | a run stopped before its summary never gets one |
| `tx_returns` | `CountedWasQueued` | `continue` leaves the retry loop and a chunk that was never queued is counted |
| `rx_stream` | `DrainedBeforeClose` | a last SDU that arrives inside the recv call is left unread |
| `job_retry` | `RearmIsFresh` | a stale READY line ends the wait for the board |
| `run_setup` | `MarginKept` | the packing counts certificates only, and a saved plan is not measured again: the board runs an image with less than 32 KiB of flash free |
| `run_setup` with `ProbeFaults = TRUE` | `BlockOnItsImage` | a docker failure makes a root be generated again under cached chains |

By reading: the transfer tables take successful rows of rounds that failed as a
whole, while the documentation promises complete rounds only; the certificate
runner's ceiling is an hour where the documentation has 15 minutes; attempt
timeouts do not depend on the algorithm and the gateway's readiness timeout is 20
seconds, not 90.  `RunSetup` and `Results` allow for two more in what they
state: Ctrl-C between switching the Pi's Wi-Fi off and the `try` block leaves it off
(`Restored`), and Ctrl-C between an append to memory and the rewrite of its file makes
the summaries count a block that no file has (`FiguresFromRecords`).  Two more without a line that says otherwise: the energy plot
pairs the summary's mean (powered successes) with a confidence interval over all
successes, and `--resume --dry-run` replaces the summary of a finished run by
zero counts.

### Bounds, and why they are enough

* `ResumableRun`: three blocks, two cases, two profiles.  One case has two
  blocks, so that a file holds committed and new rows at once; two profiles make
  the schedule be regrouped and the board be flashed inside the loop.  Two stops
  allow a stop in a resumed run.  No block count enters the code otherwise.
* `RunJob`: two blocks and one retry, so that a line can be left by another try
  or another block; two unread READY lines from an idle board.
* `L2capTx`: streams of two or three chunks, calls enough to repeat each, two
  telemetry messages of two fragments: each sender meets the leftovers of both.
* `L2capRx`: a pool of two buffers, which can be full; SDUs of up to three bytes
  and reads of up to two, so that an SDU is read in parts; three connections.
* `MqttTransfer`: two sizes in both directions, hence four operations in all 24
  orders: every pair of directions follows each other; the identifier space is the
  smallest that satisfies `IdRoom`, so that one identifier more would wrap.  One
  altered payload, a lost link at any point.
* `SourceRound`: two transfers and one retry, both modes: the first try can leave
  one transfer's metrics and not the other's.
* `RunSetup`: three roots under four chains with sizes that give one image, two
  profiles, or a root that fits nowhere; flash 12, margin 2, a link cost of 1 for each
  root, and sources that grow from 4 to 5 put plans on the margin and images below
  it by either cause.  Two processes; kills, interrupts and lost commands are
  not bounded.
* `DeviceBench`: two algorithms with two attempts, so that a late line can meet
  the next attempt or the next algorithm; one cut line, one progress line.
* `Results`: three cases and ten kinds of blocks; `MaxEvents` bounds starts and rows on
  disk together by four: three rows in one start, the shortest dominance chain with a
  tie, or two starts with two rows, so that a summary can be older than, level with or
  ahead of the files when the next process begins.  Cases are symmetric.

### Fairness

* `ResumableRun!FairSpec`: a running process moves, because every wait of a
  block ends by a deadline, and the operator resumes a stopped run.
* `RunJob!JobFairSpec`: the host runs and its timeouts fire.  Nothing is asked of
  bridge and board.
* `L2capTx!TxFairSpec`: the main thread runs and its waits are bounded.  The stack
  owes nothing, not even a completion; "radio full" is bounded by `MaxRetries`,
  since the code retries it for ever.
* `L2capRx!FairSpec`: the main thread runs, its waits are bounded and a fatal
  error of wolfSSL ends the session.  The peer owes nothing.
* `MqttTransfer!FairSpec`: broker and both programs run, and time passes for an end
  that waits (the controller's socket timeout, the deadline of `tls_read_exact`).
  Nothing is asked of the link.
* `SourceRound!FairSpec`: runner, capture thread and controller run, and
  `case_deadline` comes.  Nothing is asked of board and bridge.
* `DeviceBench!FairSpec`: the runner runs, the board boots, takes commands and
  prints READY; nothing makes it finish a command.

## 4. Proofs

TLAPS proves the following for every value of the constants.

`HostRunProofs`, of `ResumableRun` (assumption `RunAssumption`: finitely many blocks, the case
and profile functions are total, the stop points are program points):

* `TypeCorrect`, `FirmwareMatches` (`RightFirmware`), `SummaryComplete`
  (`SummaryFromDisk`) and `CheckpointOrder` (`CommitAfterRows`), with torn files
  and any number of stops;
* `CompletedWorkKept` (`CommittedKept`) when rewrites are not torn;
* `RoundsKeepOperations` (`OpsIntact`) in transfer mode, when rewrites are not
  torn and no stop falls between those of the two manifests;
* `CompletionIsComplete` (`NothingSkipped`) when rewrites are not torn;
* `OneRowPerStop` (`SurplusBounded`), with torn files and any number of stops.

Where rewrites are assumed not to be torn, or no stop to fall between two of them,
section 3 shows what happens otherwise.  None of
these properties is inductive alone.  `IInv` adds that the schedule in memory is
the one on disk once planning is over (`ScheduleOnDisk`), that the schedule only
changes while nothing is committed (`NothingCommittedYet`), that the current
block is the one after the checkpoint (`Position`), that the process knows what
is in flash inside the loop (`Firmware`), that the rows in memory are those on
disk plus at most the current block's (`MemoryMatchesDisk`), and that the current
block's rows are written before the checkpoint (`BlockRecorded`).  `StepIInv` has
one step per action.  `NothingSkipped` adds `PlanInv`: the checkpoint only counts
positions, so every regrouping of the schedule, in memory and in the manifest,
must keep all blocks; that a reordering leaves no position out is a counting
argument on finite sets (`ReorderingOnto`).  `SurplusBounded` adds `RowInv`: every
row is paid for by the checkpoint, by a stop or by the block about to be
committed, and a torn rewrite only takes rows away.

`L2capProofs`, of `L2capTx` (assumption `TxAssumption`: the constants are natural numbers):

* `TxTypeCorrect`, `BufferOwned` (`BufferOneOwner`) and `StreamInOrder`
  (`InOrder`), late completions included;
* `StreamDelivered` (`StreamIntact`) when completions are not late.

`InOrder` needs `OrderInv`: neither the peer nor the SDU in the stack is ahead of
the chunk now being sent.  `StreamIntact` needs `PromptInv`: outside a wait the
stack has nothing of ours (`StackQuiet`), a chunk is announced by exactly one
completion (`OneCompletion`), and inside a wait the peer's count follows from the
state of that completion (`Delivered`).

`MqttTransferProofs` (assumption `IdRoom`: the space holds the first identifier and
two more per operation; `CodeIdRoom` states that the constants of the code satisfy
it): `PacketIdsValid` (`IdsValid`), for every plan and every interleaving.  The
counter has no guard in the code, so the invariant must say how far it can be:
`Counter` ties the identifier at each program point of the device to the number of
completed operations, and the firmware's limit on that number (`DevBegin` refuses a
larger plan) keeps it below the wrap.

The same module (assumption `PlanRoom`: a plan has at least one size and one
iteration, which `read_cases` enforces, `run_benchmarks.py:311`) proves
`ImplementsAgreement` (`RoundAgrees`), the refinement of `TransferAgreement`, and
`NoFailureWithoutFault` (`FailsOnlyOnFault`).  Both follow from `RoundInv`.  It
numbers what each end sends: from the controller BEGIN is 0, the command of
operation i is 2i+1 and its payload or acknowledgement 2i+2; from the device READY is
0, the acknowledgement or payload of operation i is 2i+1 and its metrics 2i+2.

* `ToDevice` and `ToController`: on each way every queue is a run of consecutive
  numbers, behind at most one acknowledgement of the broker.
* `Allowed`: how far the controller can be ahead of what the device has answered.
* `Counted`, `CtlPoint`, `DevPoint`: the counters at each program point.
* `Sounds`: no message claims a payload that did not arrive.  It also holds after
  the device has failed, when its last messages are still on the way; the
  refinement needs it there.

`NoFailureWithoutFault` adds `NoFault` (without a fault no end has given up and
none has judged a payload bad) and assumes `Total <= MaxOps`: a larger plan is refused
by the firmware (`mqtt_transfer.c:523-525`) although the transport did its work, and
the host does not check the limit.

`L2capProofs`, of `L2capRx` (assumption `RxAssumption`: pool, SDU and read sizes are
positive):
`RxTypeCorrect`, `StreamRead` (`ReadsThisSession`), `BuffersKept`
(`BuffersConserved`), `DrainedWhenDown` (`DrainedIfSeenDown`) and `QueueCounted`
(`NothingLost`).  All five follow from `RxInv`, whose core is `Adjacent`: what was
read, the SDU being read and the FIFO are consecutive pieces of the session's
stream.  `BetweenSessions` says what the cleanup has emptied before a session can
begin, `SeenDown` what a call that found the link down may still find.

`HostRunProofs`, of `RunJob` (assumption `JobAssumption`): `JobTypeCorrect`, `SuccessOwned`
(`SuccessIsOwn`) and `RearmedAfterResult` (`ArmedAfterOwnResult`).  RESULT and READY
lines carry no try, so `JobInv` orders them: a RESULT of this try in the serial
input means that its bridge has connected and its session is over (`SerialOwn`), and
a READY behind it that the board has left the session (`SerialOrder`).

`DeviceBenchProofs` (assumptions `IterationsPositive`, `BoundsNat`): `RowsOwn`
(`RowIsOwn`), `TimingsWhole` (`TimingsExact`), `LostOnlyWhenStale`
(`LostAfterStaleReady`).  `BenchInv` says where the lines of a timed-out command can
be: in front of the READY the runner waits for after the reset (`OldAnswersFirst`),
hence gone when the next command is sent (`OldAnswersGone`), so that what comes then
is the answer to that command (`OnlyOwnAnswer`).

`EveryAttemptRecorded` (`AllRecorded`) adds `TableKnown`: the table of algorithms is
finite and the client identity is not one of its names.  A run that has ended has one
row for each attempt of each selected algorithm, and its summary adds them up.  The
counters alone do not say so, since a timeout writes the rows of all attempts that are
left in one step: `RecordInv` says that the rows are those of the attempts behind the
counters, each once and in their order (`RowsComplete`), and that no algorithm is
selected twice (`OrderDistinct`).

`RunSetupProofs` (assumption `SetupConstants`): `CleansUp` (`Restored`; `CleanInv` says
what a running process still owes, and that nothing else is off or on than it owes or
missed), `PlanSound` (`PlanPartitions`) and, while docker answers (`~ProbeFaults`), `BlockVerifies`
(`BlockOnItsImage`).  `VersionInv` says that no root is made twice, `PartInv` that
the profiles packed so far and the roots not yet packed partition the roots of the
run, `ImageInv` that a cache key is the content it stands for, from the cache to
the board (`Caches`, `Building`, `OnBoard`) and to the Pi (`OnPi`).

`ProfilesFit` (`PlanFits`), also while docker answers: every image that is flashed
fits and leaves the margin less what the packing did not count, and no two profiles of
the plan would fit into one.  The packing adds up sizes of roots, the build shows the
sizes of the entries it links; the sizes are the same sums because, with `VersionInv`,
the entries of an image are its roots, one to one, and what is left over is
`Uncounted`.  `FitInv` carries the two inequalities (`Tight`), for the footprint the
plan was measured with, from root to root as `pack_root_profiles` places it, into the
saved plan and out of it on resume.

`SourceRoundProofs` (assumption `SourceConstants`), for any number of transfers and
retries: `EnergyIsOwn` (`EnergyOwn`) if the sampling thread catches up, and
`RoundsOwn` (`AggregatesOwn`) if also the controller is prompt and the logs are
collected.  These are the grants of `Prompt` that `source_round` has; no other is
used.  `CoreInv` follows a regular session through the
gateway's logs.  `CapInv` numbers the edges a session sends: 1 and 2 raise total and
handshake, `3 + 2 i` lowers total after transfer i, `4 + 2 i` raises it for the
next; the thread has processed the first `EdgesSent - Len(usb)` of them, and
`Captured` says what windows it then has.  A number below 1 is an edge of an
earlier session, which is why a capture that begins inside one does no harm.

`ResultsProofs` (assumptions `CasesAssumption`: finitely many cases;
`BlocksAssumption`: rows have their types, and a power reading that succeeded has an
energy), for any rows, starts, dry runs, kills and interrupts:

* `EveryRowAccounted` (`RowsAccounted`): the analysis accepts exactly the sound rows
  (a measured success without reconnects, with a complete capture and a positive
  handshake time, duration and energy) and counts each of the others under one reason, the summary counts each measured row
  once, and it agrees with the checker;
* `FiguresSound` (`FiguresFromRecords`): every figure of a plot or table is that of
  recorded rows and of at most one block more, which an interrupt kept from its file,
  in at most one case;
* `RanksSound` (`RanksAreReference`): the two ranking algorithms compute their
  reference definitions.

`RecordInv` has three parts: the rows have their types (`FileTypes`), memory and files
differ by what the block under way has not written yet, at each program point
(`InMemory`), and a summary is that of its basis, which is the first rows of the file
and at most one lost block, in at most one case (`Summaries`).  A mean is a sum over a finite set.  The bar of a plot is filled
exactly because its parts are brought to one denominator (`BarFilled`).

The ranks need no more of the state than `FileTypes`: a case is ranked only when each of
its objectives is a mean of at least one number (`ObjectivesTyped`), so dominance is a
strict order (`DominanceOrders`) and the comparison of times a total preorder
(`Compare`, `CompareTrans`).  What peeling off k fronts leaves are the cases with a
chain of k above them (`PeelStep`, `Layers`), from which follows that no front is empty
and `n` of them reach every case.  For the times, a walk from run to run meets every
place of the sorted values (`RunsMeetAll`), and a run starts behind all smaller values
and ends before all greater ones, so that its middle is the mean place of its members
(`RunCounts`).

`DataTheorems` proves what these rest on.  The prover cannot use the library's
induction theorems, whose induction hypothesis is an operator.  The library's
statement that a well-founded relation has minimal elements (`WFMin`) takes a set
instead: a statement about all finite sets is proved by taking the least subset for
which it fails (`LeastSubset`), one about all numbers from the least number
(`LeastNat`).  In this way `SumFunctionOnSet` is shown to add up its terms in any order
(`SumTake`, `SumWith`, `SumRenamed`), a finite set to have a sorting (`CanSort`), and a
recursive function over `1..n` to exist (`Repeats`).

Every invariant and action property of the runs is thus a theorem, under the assumptions
named above.  Only model-checked are the liveness properties (`EventuallyDone`,
`EveryJobEnds`, `CallsReturn`, `CreditReturns`, `RoundEnds`, `BlockEnds`, `RunEnds`),
which are out of the prover's reach, and `RowOfItsTry`, which is violated.

## 5. Not modelled

* The bridge's relay (framing of prefixed SDUs, reassembly of control frames), the
  TLS server's accept loop and MQTT answers, and the device's session loop as a
  whole: their effects on the neighbours are in the modules above, their own state
  is not.
* Cryptography, the contents of certificates, the cycle counters, currents and
  durations: data no property here tells apart.  The payload pattern and its hash
  are abstracted to the operation they belong to.
* The block scheduler: any order is allowed, so nothing depends on its choice.
* Regression, bootstrap, drawing, LaTeX and formatting of the analysis: statistics
  over the rows whose selection `Results` checks.
* Shell commands on the Pi, building, copying: steps that succeed or fail.
* `--skip-flash` of `run_benchmarks.py` hands the choice of the firmware to the
  operator.
* `Results` rewrites a file in one step: a kill, or Ctrl-C, inside `write_csv` leaves
  a torn file, which is the subject of `ResumableRun` (`CommittedKept` shows the loss).
  `HandshakeComponents` takes the parts of a bar from their own columns; the code's
  fallback sums for files that lack them (`plot_tls_handshake_bars.py:213-235`) are left
  out.
* `DeviceBench` compares the timings of a success with what the board printed.
  `client_cpu_cycles` and `client_cycle_hz`, from which the KEM runner computes
  `cpu_ms`, are in the part of the line after them (`kem_bench_main.c:339`,
  `run_kem_benchmarks.py:163-165`), which no property examines: a line cut there can
  give a success a wrong `cpu_ms`.
* `MqttTransfer`: errors inside the device's own calls (an allocation or a hash that fails, a
  string that does not fit its buffer; `mqtt_transfer.c:243-246` and `486`).
* `SourceRound` begins each block of an instance with empty local logs, while those of
  a case are appended to over all of its blocks, so lines of an earlier block are met
  only as lines of an earlier try.  A capture never fails there: in the code an
  error of the sampling thread (`power_profiler.py:223-224`, `259-261`, `271-272`) leaves
  the rows of its try without windows and marks them, and `AggregatesOwn` is about
  captures that do not fail.
* `DrainedIfSeenDown` is about a link found down when the call reads its queue; an SDU
  and a disconnect that both come inside the call are the finding of
  `DrainedBeforeClose`.

A torn rewrite of the regrouped manifest (`run_benchmarks.py:2388`) also breaks
`NothingSkipped`: with `TornWrites = TRUE` and only that invariant, the instance of
`run_resume.cfg` executes the shorter schedule and reports it as complete.

Smaller divergences of documentation and code: the README says that the Bluetooth
controller is reset between blocks and that the firmware reboots only when a
callback is lost, the code passes `reset_adapter=False` and reboots after every
session; `classify_gateway_start_failure` looks for "TCP connect failed", which
the bridge never prints in these words.

## 6. Plan

1. Device session loop: advertising with the ACL still up, PKI selection, handshake
   and CONNACK deadlines, disconnect and reboot, as a module that composes `L2capTx`
   and `L2capRx`.
2. Bridge: relay loop, prefixed SDUs, control-frame reassembly, against an
   abstract byte pipe; TLS server.
3. Pure algorithms against reference definitions: scheduler, payload pattern,
   remaining length, percentiles.
