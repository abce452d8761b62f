---------------------------- MODULE ResumableRun ----------------------------
(***************************************************************************)
(* The host runner (run_benchmarks.py main): a schedule of blocks executed *)
(* one by one on a board whose firmware profile must match the block, with *)
(* the results kept in files that a later `--resume` reads back.           *)
(*                                                                         *)
(* The process can be stopped between any two file operations: killed, or  *)
(* ended by an exception nobody catches (Stop), or by Ctrl-C inside the    *)
(* block loop, which still writes the summary (Interrupt).  write_csv and  *)
(* Path.write_text rewrite a file in place, so a stop inside one leaves a  *)
(* prefix of the new content; write_checkpoint replaces its file           *)
(* atomically.  The last row of a torn file, cut inside a line, is taken   *)
(* as either kept or lost.                                                 *)
(***************************************************************************)
EXTENDS Naturals, Sequences, FiniteSets

CONSTANTS
    Jobs,          \* the scheduled blocks (SessionJob / TransferRound)
    Cases,         \* the benchmark cases
    Profiles,      \* the firmware images the trust bundle needs
    CaseOf,        \* [Jobs -> Cases]
    ProfileOf,     \* [Cases -> Profiles]
    NoProfile,     \* the board after an interrupted flash
    NoOps,         \* a round whose operations were not found in its manifest
    TransferMode,  \* TRUE for run_transfer_benchmarks.py
    TornWrites,    \* TRUE when a stop may fall inside an in-place rewrite
    StopPoints,    \* the program points at which the process may be stopped
    MaxStops       \* bound: stops in one behaviour

ProgramPoints ==
    {"plan", "manifest", "ops", "config", "flash", "check", "run", "csv",
     "trans", "ckpt", "finish"}

(* Points inside the `try` whose KeyboardInterrupt is caught. *)
LoopPoints == {"check", "run", "csv", "trans", "ckpt"}

ASSUME RunAssumption ==
    /\ IsFiniteSet(Jobs) /\ Jobs # {}
    /\ CaseOf \in [Jobs -> Cases]
    /\ ProfileOf \in [Cases -> Profiles]
    /\ NoProfile \notin Profiles
    /\ NoOps \notin Jobs
    /\ TransferMode \in BOOLEAN
    /\ TornWrites \in BOOLEAN
    /\ StopPoints \subseteq ProgramPoints
    /\ MaxStops \in Nat

VARIABLES
    \* the files of the run directory
    manifest,      \* session_manifest.csv (round_manifest.csv in transfer mode)
    opsManifest,   \* transfer_manifest.csv: whose operations each order lists
    configOk,      \* run_config.json can be parsed
    checkpoint,    \* checkpoint.json: last_completed_execution_order
    attemptsCsv,   \* attempts.csv of each case: the blocks that have a row
    transCsv,      \* transmissions.csv of each case
    summary,       \* summary.csv: the rows each case's aggregate was taken from
    \* the board
    board,         \* the firmware profile in flash
    \* the process
    pc,            \* program point, "down" when no process runs, or "done"
    jobs,          \* the schedule in memory
    pos,           \* execution order of the current block
    attempts,      \* the attempt rows in memory
    transmissions, \* the transmission rows in memory
    active,        \* active_profile
    interrupted,   \* KeyboardInterrupt was caught
    stops          \* stops so far (bounds the model)

disk == <<manifest, opsManifest, configOk, checkpoint, attemptsCsv, transCsv, summary>>
memory == <<jobs, pos, attempts, transmissions, active, interrupted>>
vars == <<disk, board, pc, memory, stops>>

Rows(s) == {s[i] : i \in 1..Len(s)}

(* A schedule entry: the block, and the block whose operations it carries. *)
Entry == [id : Jobs, ops : Jobs \cup {NoOps}]

RequiredProfile(e) == ProfileOf[CaseOf[e.id]]

NoRows == [c \in Cases |-> <<>>]

TypeOK ==
    /\ manifest \in Seq(Jobs)
    /\ opsManifest \in Seq(Jobs \cup {NoOps})
    /\ configOk \in BOOLEAN
    /\ checkpoint \in Nat
    /\ attemptsCsv \in [Cases -> Seq(Jobs)]
    /\ transCsv \in [Cases -> Seq(Jobs \cup {NoOps})]
    /\ summary \in [Cases -> Seq(Jobs)]
    /\ board \in Profiles \cup {NoProfile}
    /\ pc \in ProgramPoints \cup {"down", "done"}
    /\ jobs \in Seq(Entry)
    /\ pos \in Nat
    /\ attempts \in [Cases -> Seq(Jobs)]
    /\ transmissions \in [Cases -> Seq(Jobs \cup {NoOps})]
    /\ active \in Profiles \cup {NoProfile}
    /\ interrupted \in BOOLEAN
    /\ stops \in Nat

-----------------------------------------------------------------------------
(***************************************************************************)
(* A new run.  The manifests and the first checkpoint are on disk, written *)
(* before anything is executed; until the checkpoint exists a run cannot   *)
(* be resumed, so a process that dies earlier leaves nothing to lose.      *)
(***************************************************************************)
Shuffled(s) == Len(s) = Cardinality(Jobs) /\ Rows(s) = Jobs

Init ==
    /\ manifest \in [1..Cardinality(Jobs) -> Jobs] /\ Shuffled(manifest)
    /\ opsManifest = manifest
    /\ configOk = TRUE
    /\ checkpoint = 0
    /\ attemptsCsv = NoRows /\ transCsv = NoRows /\ summary = NoRows
    /\ board \in Profiles \cup {NoProfile}
    /\ pc = "plan"
    /\ jobs = [i \in 1..Len(manifest) |-> [id |-> manifest[i], ops |-> manifest[i]]]
    /\ pos = 0
    /\ attempts = NoRows /\ transmissions = NoRows
    /\ active = NoProfile
    /\ interrupted = FALSE
    /\ stops = 0

(***************************************************************************)
(* load_session_jobs / load_transfer_rounds: the operations of a round are *)
(* looked up under its execution order and case.                           *)
(***************************************************************************)
LoadedOpsOffByOne(i) ==  \* mutant: the manifests are counted from 0 and from 1
    IF ~TransferMode THEN manifest[i]
    ELSE IF i + 1 <= Len(opsManifest) THEN opsManifest[i + 1] ELSE NoOps

LoadedOps(i) ==
    IF ~TransferMode THEN manifest[i]
    ELSE IF /\ i <= Len(opsManifest)
            /\ opsManifest[i] # NoOps
            /\ CaseOf[opsManifest[i]] = CaseOf[manifest[i]]
         THEN opsManifest[i]
         ELSE NoOps

LoadJobs == [i \in 1..Len(manifest) |-> [id |-> manifest[i], ops |-> LoadedOps(i)]]

ResumeForgets ==  \* mutant: load_attempts is dropped
    /\ pc = "down" /\ configOk
    /\ jobs' = LoadJobs
    /\ attempts' = NoRows /\ transmissions' = NoRows
    /\ pos' = 0 /\ active' = NoProfile /\ interrupted' = FALSE
    /\ pc' = IF checkpoint >= Len(manifest) THEN "done"
             ELSE IF checkpoint = 0 THEN "plan" ELSE "config"
    /\ UNCHANGED <<disk, board, stops>>

(* `--resume`: read the manifests, the checkpoint and the rows back. *)
Resume ==
    /\ pc = "down"
    /\ configOk
    /\ jobs' = LoadJobs
    /\ attempts' = attemptsCsv
    /\ transmissions' = IF TransferMode THEN transCsv ELSE NoRows
    /\ pos' = 0
    /\ active' = NoProfile
    /\ interrupted' = FALSE
    /\ pc' = IF checkpoint >= Len(manifest) THEN "done"
             ELSE IF checkpoint = 0 THEN "plan"
             ELSE "config"
    /\ UNCHANGED <<disk, board, stops>>

(***************************************************************************)
(* group_jobs_by_firmware_profile: with more than one profile, the blocks  *)
(* of a profile become contiguous, in some shuffled order.                 *)
(***************************************************************************)
SameProfile(s) == \A i, j \in 1..Len(s) : RequiredProfile(s[i]) = RequiredProfile(s[j])

Grouped(s) ==
    \A i, j, k \in 1..Len(s) :
        i < j /\ j < k /\ RequiredProfile(s[i]) = RequiredProfile(s[k])
            => RequiredProfile(s[j]) = RequiredProfile(s[i])

Reorderings(s) ==
    {f \in [1..Len(s) -> 1..Len(s)] : \A i, j \in 1..Len(s) : f[i] = f[j] => i = j}

Replan ==
    /\ pc = "plan"
    /\ \/ SameProfile(jobs) /\ jobs' = jobs
       \/ /\ ~SameProfile(jobs)
          /\ \E f \in Reorderings(jobs) :
                /\ jobs' = [i \in 1..Len(jobs) |-> jobs[f[i]]]
                /\ Grouped(jobs')
    /\ pc' = "manifest"
    /\ UNCHANGED <<disk, board, pos, attempts, transmissions, active, interrupted, stops>>

WriteManifest ==
    /\ pc = "manifest"
    /\ manifest' = [i \in 1..Len(jobs) |-> jobs[i].id]
    /\ pc' = IF TransferMode THEN "ops" ELSE "config"
    /\ UNCHANGED <<opsManifest, configOk, checkpoint, attemptsCsv, transCsv, summary,
                   board, memory, stops>>

WriteTransferManifest ==
    /\ pc = "ops"
    /\ opsManifest' = [i \in 1..Len(jobs) |-> jobs[i].ops]
    /\ pc' = "config"
    /\ UNCHANGED <<manifest, configOk, checkpoint, attemptsCsv, transCsv, summary,
                   board, memory, stops>>

WriteConfigUnreadable ==  \* mutant: the rewritten configuration cannot be parsed
    /\ pc = "config"
    /\ configOk' = FALSE
    /\ pc' = "flash"
    /\ UNCHANGED <<manifest, opsManifest, checkpoint, attemptsCsv, transCsv, summary,
                   board, memory, stops>>

(* run_config.json records the firmware profiles; rewritten on every start. *)
WriteConfig ==
    /\ pc = "config"
    /\ configOk' = TRUE
    /\ pc' = "flash"
    /\ UNCHANGED <<manifest, opsManifest, checkpoint, attemptsCsv, transCsv, summary,
                   board, memory, stops>>

(* Flash the first scheduled block's profile and wait for the board. *)
FlashFirst ==
    /\ pc = "flash"
    /\ board' = RequiredProfile(jobs[checkpoint + 1])
    /\ active' = RequiredProfile(jobs[checkpoint + 1])
    /\ pos' = checkpoint + 1
    /\ pc' = "check"
    /\ UNCHANGED <<disk, jobs, attempts, transmissions, interrupted, stops>>

SwitchProfileNever ==  \* mutant: no flash between blocks
    /\ pc = "check"
    /\ pc' = "run"
    /\ UNCHANGED <<disk, board, memory, stops>>

(* Reflash when the block needs another profile than the active one. *)
SwitchProfile ==
    /\ pc = "check"
    /\ IF RequiredProfile(jobs[pos]) # active
       THEN /\ board' = RequiredProfile(jobs[pos])
            /\ active' = RequiredProfile(jobs[pos])
       ELSE UNCHANGED <<board, active>>
    /\ pc' = "run"
    /\ UNCHANGED <<disk, jobs, pos, attempts, transmissions, interrupted, stops>>

RunBlockByOps ==  \* mutant: the row is taken from the round's operations
    /\ pc = "run"
    /\ LET e == jobs[pos]
       IN  attempts' = [attempts EXCEPT ![CaseOf[e.id]] = Append(@, e.ops)]
    /\ pc' = "csv"
    /\ UNCHANGED <<disk, board, jobs, pos, transmissions, active, interrupted, stops>>

(***************************************************************************)
(* One block: run_job's row, or the "unsupported" row, is appended in      *)
(* memory, with the rows of the operations the block carries.              *)
(***************************************************************************)
RunBlock ==
    /\ pc = "run"
    /\ LET e == jobs[pos]
       IN  /\ attempts' = [attempts EXCEPT ![CaseOf[e.id]] = Append(@, e.id)]
           /\ transmissions' =
                IF TransferMode
                THEN [transmissions EXCEPT ![CaseOf[e.id]] = Append(@, e.ops)]
                ELSE transmissions
    /\ pc' = "csv"
    /\ UNCHANGED <<disk, board, jobs, pos, active, interrupted, stops>>

BlockCase == CaseOf[jobs[pos].id]

WriteAttempts ==
    /\ pc = "csv"
    /\ attemptsCsv' = [attemptsCsv EXCEPT ![BlockCase] = attempts[BlockCase]]
    /\ pc' = IF TransferMode THEN "trans" ELSE "ckpt"
    /\ UNCHANGED <<manifest, opsManifest, configOk, checkpoint, transCsv, summary,
                   board, memory, stops>>

WriteTransmissions ==
    /\ pc = "trans"
    /\ transCsv' = [transCsv EXCEPT ![BlockCase] = transmissions[BlockCase]]
    /\ pc' = "ckpt"
    /\ UNCHANGED <<manifest, opsManifest, configOk, checkpoint, attemptsCsv, summary,
                   board, memory, stops>>

WriteCheckpointAhead ==  \* mutant: the order of the next block is stored
    /\ pc = "ckpt"
    /\ checkpoint' = pos + 1
    /\ pos' = pos + 1
    /\ pc' = IF pos < Len(jobs) THEN "check" ELSE "finish"
    /\ UNCHANGED <<manifest, opsManifest, configOk, attemptsCsv, transCsv, summary,
                   board, jobs, attempts, transmissions, active, interrupted, stops>>

WriteCheckpointLost ==  \* mutant: the checkpoint is not rewritten
    /\ pc = "ckpt"
    /\ pos' = pos + 1
    /\ pc' = IF pos < Len(jobs) THEN "check" ELSE "finish"
    /\ UNCHANGED <<disk, board, jobs, attempts, transmissions, active, interrupted, stops>>

WriteCheckpoint ==
    /\ pc = "ckpt"
    /\ checkpoint' = pos
    /\ pos' = pos + 1
    /\ pc' = IF pos < Len(jobs) THEN "check" ELSE "finish"
    /\ UNCHANGED <<manifest, opsManifest, configOk, attemptsCsv, transCsv, summary,
                   board, jobs, attempts, transmissions, active, interrupted, stops>>

(* The aggregates are computed from the rows in memory. *)
WriteSummary ==
    /\ pc = "finish"
    /\ summary' = attempts
    /\ pc' = IF interrupted THEN "down" ELSE "done"
    /\ UNCHANGED <<manifest, opsManifest, configOk, checkpoint, attemptsCsv, transCsv,
                   board, memory, stops>>

-----------------------------------------------------------------------------
(***************************************************************************)
(* What a stop at the current point leaves on disk.  Outside an in-place   *)
(* rewrite nothing changes; inside one, with TornWrites, a prefix of what  *)
(* was being written.                                                      *)
(***************************************************************************)
Prefixes(s) == {SubSeq(s, 1, n) : n \in 0..Len(s)}

LeftBehind ==
    \/ UNCHANGED disk
    \/ /\ TornWrites /\ pc = "manifest"
       /\ manifest' \in Prefixes([i \in 1..Len(jobs) |-> jobs[i].id])
       /\ UNCHANGED <<opsManifest, configOk, checkpoint, attemptsCsv, transCsv, summary>>
    \/ /\ TornWrites /\ pc = "ops"
       /\ opsManifest' \in Prefixes([i \in 1..Len(jobs) |-> jobs[i].ops])
       /\ UNCHANGED <<manifest, configOk, checkpoint, attemptsCsv, transCsv, summary>>
    \/ /\ TornWrites /\ pc = "config"
       /\ configOk' = FALSE
       /\ UNCHANGED <<manifest, opsManifest, checkpoint, attemptsCsv, transCsv, summary>>
    \/ /\ TornWrites /\ pc = "csv"
       /\ \E p \in Prefixes(attempts[BlockCase]) :
            attemptsCsv' = [attemptsCsv EXCEPT ![BlockCase] = p]
       /\ UNCHANGED <<manifest, opsManifest, configOk, checkpoint, transCsv, summary>>
    \/ /\ TornWrites /\ pc = "trans"
       /\ \E p \in Prefixes(transmissions[BlockCase]) :
            transCsv' = [transCsv EXCEPT ![BlockCase] = p]
       /\ UNCHANGED <<manifest, opsManifest, configOk, checkpoint, attemptsCsv, summary>>
    \/ /\ TornWrites /\ pc = "finish"
       /\ \E written \in SUBSET Cases :
            summary' = [c \in Cases |-> IF c \in written THEN attempts[c] ELSE <<>>]
       /\ UNCHANGED <<manifest, opsManifest, configOk, checkpoint, attemptsCsv, transCsv>>

(* An interrupted flash leaves the board without a usable image. *)
Flashing == pc = "flash" \/ (pc = "check" /\ RequiredProfile(jobs[pos]) # active)

InterruptedBoard == board' \in IF Flashing THEN {board, NoProfile} ELSE {board}

(* Killed, out of power, or an exception nobody catches. *)
Stop ==
    /\ pc \in StopPoints
    /\ stops < MaxStops
    /\ stops' = stops + 1
    /\ LeftBehind
    /\ InterruptedBoard
    /\ pc' = "down"
    /\ UNCHANGED memory

(* Ctrl-C inside the loop: the session is stopped and the summary written. *)
Interrupt ==
    /\ pc \in StopPoints \cap LoopPoints
    /\ stops < MaxStops
    /\ stops' = stops + 1
    /\ LeftBehind
    /\ InterruptedBoard
    /\ interrupted' = TRUE
    /\ pc' = "finish"
    /\ UNCHANGED <<jobs, pos, attempts, transmissions, active>>

Step ==
    \/ Replan \/ WriteManifest \/ WriteTransferManifest \/ WriteConfig
    \/ FlashFirst \/ SwitchProfile \/ RunBlock
    \/ WriteAttempts \/ WriteTransmissions \/ WriteCheckpoint \/ WriteSummary

Finished == pc = "done" /\ UNCHANGED vars

(* json.loads of a torn run_config.json raises: the run cannot be resumed. *)
ResumeRefused == pc = "down" /\ ~configOk /\ UNCHANGED vars

Next == Step \/ Resume \/ Stop \/ Interrupt \/ Finished \/ ResumeRefused

Spec == Init /\ [][Next]_vars

(***************************************************************************)
(* Every wait of a block ends by a deadline, so a running process moves;   *)
(* the operator resumes a stopped run.                                     *)
(***************************************************************************)
FairSpec == Spec /\ WF_vars(Step) /\ WF_vars(Resume)

-----------------------------------------------------------------------------
(***************************************************************************)
(* Every block the checkpoint counts as completed has its row on disk: a   *)
(* resumed run never overwrites completed work.                            *)
(***************************************************************************)
CommittedKept ==
    \A o \in 1..checkpoint :
        /\ o <= Len(manifest)
        /\ manifest[o] \in Rows(attemptsCsv[CaseOf[manifest[o]]])

(* A run that reports completion has executed every block it scheduled. *)
NothingSkipped ==
    pc = "done" => \A j \in Jobs : j \in Rows(attemptsCsv[CaseOf[j]])

(* A block only runs on a board flashed with the image its case needs,     *)
(* whatever flashes, stops and reorderings of the schedule came before.    *)
RightFirmware ==
    pc = "run" => board = RequiredProfile(jobs[pos])

(* The rows on disk, over all cases. *)
RowCount == Cardinality(UNION {{c} \X (1..Len(attemptsCsv[c])) : c \in Cases})

(* A stop costs at most one surplus row: the block that was under way, the *)
(* only one that is executed again.                                        *)
SurplusBounded == RowCount <= checkpoint + stops + 1

(* In transfer mode every round in the schedule carries its own operations *)
(* across stops and resumes.                                               *)
OpsIntact == pc \notin {"down", "done"} => \A i \in 1..Len(jobs) : jobs[i].ops = jobs[i].id

(* A run that ends by itself takes its aggregates from exactly the rows    *)
(* that are in the attempts files, whatever earlier processes left there.  *)
SummaryFromDisk == [][pc = "finish" /\ pc' = "done" => summary' = attemptsCsv]_vars

(* The checkpoint advances one block at a time, never back, and only to a  *)
(* block whose row and transmissions were written by this process.         *)
CommitAfterRows ==
    [][checkpoint' # checkpoint =>
          /\ checkpoint' = checkpoint + 1
          /\ manifest[checkpoint'] \in Rows(attemptsCsv[CaseOf[manifest[checkpoint']]])
          /\ TransferMode =>
                jobs[checkpoint'].ops \in Rows(transCsv[CaseOf[manifest[checkpoint']]])]_vars

(* A run that reports completion has the summary of all its rows. *)
CompleteHasSummary == pc = "done" => summary = attemptsCsv

(* A resumable run that is resumed after every stop completes. *)
EventuallyDone == <>(pc = "done")

=============================================================================
