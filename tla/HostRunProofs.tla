--------------------------- MODULE HostRunProofs ----------------------------
(***************************************************************************)
(* What is proved of the host runner: of ResumableRun, for every schedule, *)
(* every assignment of cases and profiles and any number of stops, and, in *)
(* the second half, of RunJob, the retry loop of one of its blocks.        *)
(***************************************************************************)
EXTENDS ResumableRun, RunJob, SequenceTheorems, FiniteSetTheorems, TLAPS

-----------------------------------------------------------------------------
(* Facts about sequences used below. *)

(* Appending keeps the rows and adds the new one. *)
LEMMA AppendRows ==
    ASSUME NEW S, NEW s \in Seq(S), NEW e \in S
    PROVE  /\ Append(s, e) \in Seq(S)
           /\ Rows(s) \subseteq Rows(Append(s, e))
           /\ e \in Rows(Append(s, e))
<1>1. Append(s, e) \in Seq(S) /\ Len(Append(s, e)) = Len(s) + 1
  OBVIOUS
<1>2. \A i \in 1..Len(s) : Append(s, e)[i] = s[i] /\ i \in 1..Len(Append(s, e))
  BY <1>1
<1>3. Append(s, e)[Len(s) + 1] = e /\ Len(s) + 1 \in 1..Len(Append(s, e))
  BY <1>1
<1> QED BY <1>1, <1>2, <1>3 DEF Rows

(* A prefix of a sequence over S is a sequence over S. *)
LEMMA PrefixType ==
    ASSUME NEW S, NEW s \in Seq(S), NEW p \in Prefixes(s)
    PROVE  p \in Seq(S)
<1>1. PICK n \in 0..Len(s) : p = SubSeq(s, 1, n)
  BY DEF Prefixes
<1>2. \A i \in 1..n : s[i] \in S
  OBVIOUS
<1> QED BY <1>1, <1>2

(* The columns of a schedule. *)
LEMMA ScheduleColumns ==
    ASSUME NEW s \in Seq(Entry)
    PROVE  /\ [i \in 1..Len(s) |-> s[i].id] \in Seq(Jobs)
           /\ [i \in 1..Len(s) |-> s[i].ops] \in Seq(Jobs \cup {NoOps})
<1>1. Len(s) \in Nat /\ \A i \in 1..Len(s) : s[i] \in Entry
  OBVIOUS
<1>2. /\ [i \in 1..Len(s) |-> s[i].id] \in [1..Len(s) -> Jobs]
      /\ [i \in 1..Len(s) |-> s[i].ops] \in [1..Len(s) -> Jobs \cup {NoOps}]
  BY <1>1 DEF Entry
<1> QED BY <1>1, <1>2, SeqDef

(* What a stop leaves on disk is still well typed. *)
LEMMA LeftBehindType ==
    ASSUME TypeOK, LeftBehind,
           pc \in {"csv", "trans"} => BlockCase \in Cases
    PROVE  /\ manifest' \in Seq(Jobs)
           /\ opsManifest' \in Seq(Jobs \cup {NoOps})
           /\ configOk' \in BOOLEAN
           /\ checkpoint' = checkpoint
           /\ attemptsCsv' \in [Cases -> Seq(Jobs)]
           /\ transCsv' \in [Cases -> Seq(Jobs \cup {NoOps})]
           /\ summary' \in [Cases -> Seq(Jobs)]
<1> USE DEF TypeOK
<1>1. CASE UNCHANGED disk
  BY <1>1 DEF disk
<1>2. CASE pc = "manifest" /\ manifest' \in Prefixes([i \in 1..Len(jobs) |-> jobs[i].id])
           /\ UNCHANGED <<opsManifest, configOk, checkpoint, attemptsCsv, transCsv, summary>>
  <2>1. [i \in 1..Len(jobs) |-> jobs[i].id] \in Seq(Jobs)
    BY ScheduleColumns
  <2> QED BY <1>2, <2>1, PrefixType
<1>3. CASE pc = "ops" /\ opsManifest' \in Prefixes([i \in 1..Len(jobs) |-> jobs[i].ops])
           /\ UNCHANGED <<manifest, configOk, checkpoint, attemptsCsv, transCsv, summary>>
  <2>1. [i \in 1..Len(jobs) |-> jobs[i].ops] \in Seq(Jobs \cup {NoOps})
    BY ScheduleColumns
  <2> QED BY <1>3, <2>1, PrefixType
<1>4. CASE pc = "config" /\ configOk' = FALSE
           /\ UNCHANGED <<manifest, opsManifest, checkpoint, attemptsCsv, transCsv, summary>>
  BY <1>4
<1>5. CASE /\ pc = "csv"
           /\ \E p \in Prefixes(attempts[BlockCase]) :
                attemptsCsv' = [attemptsCsv EXCEPT ![BlockCase] = p]
           /\ UNCHANGED <<manifest, opsManifest, configOk, checkpoint, transCsv, summary>>
  <2>1. PICK p \in Prefixes(attempts[BlockCase]) :
            attemptsCsv' = [attemptsCsv EXCEPT ![BlockCase] = p]
    BY <1>5
  <2>2. p \in Seq(Jobs)
    BY <1>5, <2>1, PrefixType
  <2> QED BY <1>5, <2>1, <2>2
<1>6. CASE /\ pc = "trans"
           /\ \E p \in Prefixes(transmissions[BlockCase]) :
                transCsv' = [transCsv EXCEPT ![BlockCase] = p]
           /\ UNCHANGED <<manifest, opsManifest, configOk, checkpoint, attemptsCsv, summary>>
  <2>1. PICK p \in Prefixes(transmissions[BlockCase]) :
            transCsv' = [transCsv EXCEPT ![BlockCase] = p]
    BY <1>6
  <2>2. p \in Seq(Jobs \cup {NoOps})
    BY <1>6, <2>1, PrefixType
  <2> QED BY <1>6, <2>1, <2>2
<1>7. CASE /\ \E written \in SUBSET Cases :
                summary' = [c \in Cases |-> IF c \in written THEN attempts[c] ELSE <<>>]
           /\ UNCHANGED <<manifest, opsManifest, configOk, checkpoint, attemptsCsv, transCsv>>
  BY <1>7
<1> QED BY <1>1, <1>2, <1>3, <1>4, <1>5, <1>6, <1>7 DEF LeftBehind

-----------------------------------------------------------------------------
(***************************************************************************)
(* The invariant of a running process.  CommittedKept is not inductive: it *)
(* needs to know that the schedule in memory is the one on disk, that the  *)
(* rows in memory are those on disk plus at most the current block's, and  *)
(* that the schedule only changes while nothing is committed.              *)
(***************************************************************************)
Planning == {"plan", "manifest", "ops"}
Settled == {"ops", "config", "flash"} \cup LoopPoints
BeforeLoop == Planning \cup {"config", "flash"}

ScheduleOnDisk ==
    pc \in Settled =>
        /\ Len(jobs) = Len(manifest)
        /\ \A i \in 1..Len(manifest) : jobs[i].id = manifest[i]

NothingCommittedYet == pc \in Planning => checkpoint = 0

Position ==
    /\ pc \in BeforeLoop => checkpoint + 1 \in 1..Len(jobs)
    /\ pc \in LoopPoints => pos = checkpoint + 1 /\ pos \in 1..Len(jobs)

Firmware ==
    /\ pc \in LoopPoints => board = active
    /\ pc = "run" => active = RequiredProfile(jobs[pos])

MemoryMatchesDisk ==
    /\ pc \in BeforeLoop \cup {"check", "run", "trans", "ckpt"} => attempts = attemptsCsv
    /\ pc = "finish" /\ ~interrupted => attempts = attemptsCsv
    /\ pc = "csv" =>
         attempts = [attemptsCsv EXCEPT ![BlockCase] =
                        Append(attemptsCsv[BlockCase], jobs[pos].id)]

BlockRecorded ==
    /\ pc \in {"trans", "ckpt"} => jobs[pos].id \in Rows(attemptsCsv[BlockCase])
    /\ TransferMode /\ pc \in {"csv", "trans"} =>
         jobs[pos].ops \in Rows(transmissions[BlockCase])
    /\ TransferMode /\ pc = "ckpt" => jobs[pos].ops \in Rows(transCsv[BlockCase])

IInv ==
    /\ TypeOK /\ ScheduleOnDisk /\ NothingCommittedYet /\ Position
    /\ Firmware /\ MemoryMatchesDisk /\ BlockRecorded

(* The current block's case and profile are well typed. *)
LEMMA CurrentBlock ==
    ASSUME TypeOK, NEW i \in 1..Len(jobs)
    PROVE  /\ jobs[i] \in Entry
           /\ jobs[i].id \in Jobs /\ jobs[i].ops \in Jobs \cup {NoOps}
           /\ CaseOf[jobs[i].id] \in Cases
           /\ RequiredProfile(jobs[i]) \in Profiles
<1>1. jobs[i] \in Entry
  BY DEF TypeOK
<1>2. jobs[i].id \in Jobs /\ jobs[i].ops \in Jobs \cup {NoOps}
  BY <1>1 DEF Entry
<1> QED BY <1>1, <1>2, RunAssumption DEF RequiredProfile

(* A new run satisfies the invariant. *)
LEMMA InitIInv == Init => IInv
<1> SUFFICES ASSUME Init PROVE IInv
  OBVIOUS
<1> DEFINE n == Cardinality(Jobs)
<1>1. n \in Nat /\ n > 0
  BY RunAssumption, FS_CardinalityType, FS_EmptySet
<1>2. manifest \in Seq(Jobs) /\ Len(manifest) = n
  BY <1>1, SeqDef DEF Init
<1>3. jobs \in Seq(Entry) /\ Len(jobs) = n /\ \A i \in 1..n : jobs[i].id = manifest[i]
  <2>1. \A i \in 1..n : manifest[i] \in Jobs
    BY <1>2
  <2>2. jobs = [i \in 1..n |-> [id |-> manifest[i], ops |-> manifest[i]]]
    BY <1>2 DEF Init
  <2>3. jobs \in [1..n -> Entry]
    BY <2>1, <2>2 DEF Entry
  <2>4. jobs \in Seq(Entry)
    BY <1>1, <2>3, SeqDef
  <2>5. Len(jobs) = n
    BY <1>1, <2>2, <2>4
  <2> QED BY <2>2, <2>4, <2>5
<1>4. NoRows \in [Cases -> Seq(Jobs)] /\ NoRows \in [Cases -> Seq(Jobs \cup {NoOps})]
  BY DEF NoRows
<1>5. TypeOK
  <2>1. opsManifest \in Seq(Jobs \cup {NoOps})
    BY <1>1, <1>2, SeqDef DEF Init
  <2> QED BY <1>2, <1>3, <1>4, <2>1 DEF Init, TypeOK, ProgramPoints
<1> QED
  BY <1>1, <1>2, <1>3, <1>5
  DEF Init, IInv, ScheduleOnDisk, NothingCommittedYet, Position, Firmware,
      MemoryMatchesDisk, BlockRecorded, Planning, Settled, BeforeLoop, LoopPoints

(* Every step of the runner, a stop or a resume included, keeps it. *)
LEMMA StepIInv == IInv /\ [Next]_vars => IInv'
<1> SUFFICES ASSUME IInv, [Next]_vars PROVE IInv'
  OBVIOUS
<1> USE RunAssumption
<1>t. TypeOK
  BY DEF IInv
<1>b. \A i \in 1..Len(jobs) :
         /\ jobs[i] \in Entry
         /\ jobs[i].id \in Jobs /\ jobs[i].ops \in Jobs \cup {NoOps}
         /\ CaseOf[jobs[i].id] \in Cases
         /\ RequiredProfile(jobs[i]) \in Profiles
  BY <1>t, CurrentBlock
<1>c. pc \in LoopPoints => pos \in 1..Len(jobs) /\ BlockCase \in Cases
  BY <1>b DEF IInv, Position, BlockCase
<1>1. CASE Resume
  <2>1. jobs' \in Seq(Entry) /\ Len(jobs') = Len(manifest)
        /\ \A i \in 1..Len(manifest) : jobs'[i].id = manifest[i]
    <3> DEFINE n == Len(manifest)
    <3>1. n \in Nat /\ \A i \in 1..n : manifest[i] \in Jobs
      BY <1>t DEF TypeOK
    <3>2. \A i \in 1..n : LoadedOps(i) \in Jobs \cup {NoOps}
      <4> SUFFICES ASSUME NEW i \in 1..n PROVE LoadedOps(i) \in Jobs \cup {NoOps}
        OBVIOUS
      <4>1. opsManifest \in Seq(Jobs \cup {NoOps}) /\ manifest[i] \in Jobs
        BY <1>t, <3>1 DEF TypeOK
      <4>2. i <= Len(opsManifest) => opsManifest[i] \in Jobs \cup {NoOps}
        BY <4>1
      <4> QED BY <4>1, <4>2 DEF LoadedOps
    <3>3. jobs' = [i \in 1..n |-> [id |-> manifest[i], ops |-> LoadedOps(i)]]
      BY <1>1 DEF Resume, LoadJobs
    <3>4. jobs' \in [1..n -> Entry]
      BY <3>1, <3>2, <3>3 DEF Entry
    <3>5. jobs' \in Seq(Entry)
      BY <3>1, <3>4, SeqDef
    <3>6. Len(jobs') = n
      BY <3>1, <3>3, <3>5
    <3> QED BY <3>3, <3>5, <3>6
  <2>2. NoRows \in [Cases -> Seq(Jobs \cup {NoOps})]
    BY DEF NoRows
  <2>3. TypeOK'
    BY <1>1, <1>t, <2>1, <2>2 DEF Resume, TypeOK, disk, ProgramPoints
  <2>4. pc' \in {"done", "plan", "config"}
        /\ (pc' = "plan" => checkpoint = 0)
        /\ (pc' # "done" => checkpoint + 1 \in 1..Len(manifest))
    BY <1>1, <1>t DEF Resume, TypeOK
  <2> QED
    BY <1>1, <2>1, <2>3, <2>4
    DEF Resume, disk, IInv, ScheduleOnDisk, NothingCommittedYet, Position, Firmware,
        MemoryMatchesDisk, BlockRecorded, Planning, Settled, BeforeLoop, LoopPoints
<1>2. CASE Replan
  <2>1. jobs' \in Seq(Entry) /\ Len(jobs') = Len(jobs)
    <3>1. CASE jobs' = jobs
      BY <1>t, <3>1 DEF TypeOK
    <3>2. CASE \E f \in Reorderings(jobs) : jobs' = [i \in 1..Len(jobs) |-> jobs[f[i]]]
      <4>1. PICK f \in Reorderings(jobs) : jobs' = [i \in 1..Len(jobs) |-> jobs[f[i]]]
        BY <3>2
      <4>2. Len(jobs) \in Nat /\ f \in [1..Len(jobs) -> 1..Len(jobs)]
        BY <1>t DEF TypeOK, Reorderings
      <4>3. jobs' \in [1..Len(jobs) -> Entry]
        BY <1>b, <4>1, <4>2
      <4>4. jobs' \in Seq(Entry)
        BY <4>2, <4>3, SeqDef
      <4>5. Len(jobs') = Len(jobs)
        BY <4>1, <4>2, <4>4
      <4> QED BY <4>4, <4>5
    <3> QED BY <1>2, <3>1, <3>2 DEF Replan
  <2>2. TypeOK'
    BY <1>2, <1>t, <2>1 DEF Replan, TypeOK, disk, ProgramPoints
  <2> QED
    BY <1>2, <2>1, <2>2
    DEF Replan, disk, IInv, ScheduleOnDisk, NothingCommittedYet, Position, Firmware,
        MemoryMatchesDisk, BlockRecorded, Planning, Settled, BeforeLoop, LoopPoints
<1>3. CASE WriteManifest
  <2>1. manifest' \in Seq(Jobs) /\ Len(manifest') = Len(jobs)
        /\ \A i \in 1..Len(jobs) : manifest'[i] = jobs[i].id
    <3>1. Len(jobs) \in Nat /\ manifest' = [i \in 1..Len(jobs) |-> jobs[i].id]
      BY <1>3, <1>t DEF WriteManifest, TypeOK
    <3>2. manifest' \in Seq(Jobs)
      BY <1>t, <3>1, ScheduleColumns DEF TypeOK
    <3>3. Len(manifest') = Len(jobs)
      BY <3>1, <3>2
    <3> QED BY <3>1, <3>2, <3>3
  <2>2. TypeOK'
    BY <1>3, <1>t, <2>1 DEF WriteManifest, TypeOK, memory, ProgramPoints
  <2> QED
    BY <1>3, <2>1, <2>2
    DEF WriteManifest, memory, IInv, ScheduleOnDisk, NothingCommittedYet, Position,
        Firmware, MemoryMatchesDisk, BlockRecorded, Planning, Settled, BeforeLoop,
        LoopPoints
<1>4. CASE WriteTransferManifest
  <2>1. opsManifest' \in Seq(Jobs \cup {NoOps})
    BY <1>4, <1>t, ScheduleColumns DEF WriteTransferManifest, TypeOK
  <2>2. TypeOK'
    BY <1>4, <1>t, <2>1 DEF WriteTransferManifest, TypeOK, memory, ProgramPoints
  <2> QED
    BY <1>4, <2>2
    DEF WriteTransferManifest, memory, IInv, ScheduleOnDisk, NothingCommittedYet,
        Position, Firmware, MemoryMatchesDisk, BlockRecorded, Planning, Settled,
        BeforeLoop, LoopPoints
<1>5. CASE WriteConfig
  <2>1. TypeOK'
    BY <1>5, <1>t DEF WriteConfig, TypeOK, memory, ProgramPoints
  <2> QED
    BY <1>5, <2>1
    DEF WriteConfig, memory, IInv, ScheduleOnDisk, NothingCommittedYet, Position,
        Firmware, MemoryMatchesDisk, BlockRecorded, Planning, Settled, BeforeLoop,
        LoopPoints
<1>6. CASE FlashFirst
  <2>1. checkpoint + 1 \in 1..Len(jobs)
    BY <1>6 DEF FlashFirst, IInv, Position, BeforeLoop
  <2>2. TypeOK'
    <3>1. RequiredProfile(jobs[checkpoint + 1]) \in Profiles /\ checkpoint + 1 \in Nat
      BY <1>b, <1>t, <2>1 DEF TypeOK
    <3> QED BY <1>6, <1>t, <3>1 DEF FlashFirst, TypeOK, disk, ProgramPoints
  <2> QED
    BY <1>6, <2>1, <2>2
    DEF FlashFirst, disk, IInv, ScheduleOnDisk, NothingCommittedYet, Position, Firmware,
        MemoryMatchesDisk, BlockRecorded, Planning, Settled, BeforeLoop, LoopPoints
<1>7. CASE SwitchProfile
  <2>1. TypeOK'
    <3>1. RequiredProfile(jobs[pos]) \in Profiles
      BY <1>7, <1>b, <1>c DEF SwitchProfile, LoopPoints
    <3>2. board' \in Profiles \cup {NoProfile} /\ active' \in Profiles \cup {NoProfile}
      BY <1>7, <1>t, <3>1 DEF SwitchProfile, TypeOK
    <3> QED BY <1>7, <1>t, <3>2 DEF SwitchProfile, TypeOK, disk, ProgramPoints
  <2> QED
    BY <1>7, <2>1
    DEF SwitchProfile, disk, IInv, ScheduleOnDisk, NothingCommittedYet, Position,
        Firmware, MemoryMatchesDisk, BlockRecorded, Planning, Settled, BeforeLoop,
        LoopPoints
<1>8. CASE RunBlock
  <2> DEFINE c == CaseOf[jobs[pos].id]
             e == jobs[pos]
  <2>1. c \in Cases /\ e.id \in Jobs /\ e.ops \in Jobs \cup {NoOps} /\ BlockCase = c
    BY <1>8, <1>b, <1>c DEF RunBlock, LoopPoints, BlockCase
  <2>2. /\ attempts[c] \in Seq(Jobs) /\ attempts = attemptsCsv
        /\ transmissions[c] \in Seq(Jobs \cup {NoOps})
    <3>1. attempts = attemptsCsv
      BY <1>8 DEF RunBlock, IInv, MemoryMatchesDisk
    <3> QED BY <1>t, <2>1, <3>1 DEF TypeOK
  <2>3. attempts' = [attempts EXCEPT ![c] = Append(attempts[c], e.id)]
    BY <1>8 DEF RunBlock
  <2>4. Append(attempts[c], e.id) \in Seq(Jobs)
    BY <2>1, <2>2, AppendRows
  <2>5. /\ Append(transmissions[c], e.ops) \in Seq(Jobs \cup {NoOps})
        /\ e.ops \in Rows(Append(transmissions[c], e.ops))
    BY <2>1, <2>2, AppendRows
  <2>6. TransferMode => transmissions' =
            [transmissions EXCEPT ![c] = Append(transmissions[c], e.ops)]
    BY <1>8 DEF RunBlock
  <2>7. /\ transmissions' \in [Cases -> Seq(Jobs \cup {NoOps})]
        /\ TransferMode => e.ops \in Rows(transmissions'[c])
    <3>1. CASE TransferMode
      <4> DEFINE new == Append(transmissions[c], e.ops)
      <4> HIDE DEF new, c, e
      <4>1. transmissions \in [Cases -> Seq(Jobs \cup {NoOps})]
        BY <1>t DEF TypeOK
      <4>2. transmissions' = [transmissions EXCEPT ![c] = new]
        BY <2>6, <3>1 DEF new
      <4>3. new \in Seq(Jobs \cup {NoOps}) /\ e.ops \in Rows(new) /\ c \in Cases
        BY <2>1, <2>5 DEF new
      <4> QED BY <4>1, <4>2, <4>3
    <3>2. CASE ~TransferMode
      BY <1>8, <1>t, <3>2 DEF RunBlock, TypeOK
    <3> QED BY <3>1, <3>2
  <2>8. TypeOK'
    <3>1. attempts' \in [Cases -> Seq(Jobs)]
      BY <1>t, <2>3, <2>4 DEF TypeOK
    <3> QED BY <1>8, <1>t, <2>7, <3>1 DEF RunBlock, TypeOK, disk, ProgramPoints
  <2>9. BlockCase' = c /\ (e.id)' = e.id /\ (e.ops)' = e.ops
    BY <1>8, <2>1 DEF RunBlock, BlockCase
  <2>10. MemoryMatchesDisk'
    BY <1>8, <2>1, <2>2, <2>3, <2>9
    DEF RunBlock, disk, MemoryMatchesDisk, BeforeLoop, Planning
  <2>11. BlockRecorded'
    BY <1>8, <2>7, <2>9 DEF RunBlock, BlockRecorded
  <2> QED
    BY <1>8, <2>8, <2>10, <2>11
    DEF RunBlock, disk, IInv, ScheduleOnDisk, NothingCommittedYet, Position, Firmware,
        Planning, Settled, BeforeLoop, LoopPoints
<1>9. CASE WriteAttempts
  <2> DEFINE c == BlockCase
             e == jobs[pos]
  <2>1. c \in Cases /\ e.id \in Jobs
    BY <1>9, <1>b, <1>c DEF WriteAttempts, LoopPoints
  <2>2. attemptsCsv[c] \in Seq(Jobs)
    BY <1>t, <2>1 DEF TypeOK
  <2>3. attempts = [attemptsCsv EXCEPT ![c] = Append(attemptsCsv[c], e.id)]
    BY <1>9 DEF WriteAttempts, IInv, MemoryMatchesDisk
  <2>4. attemptsCsv' = attempts
    <3>1. attempts[c] = Append(attemptsCsv[c], e.id)
      BY <1>t, <2>1, <2>3 DEF TypeOK
    <3> QED BY <1>9, <2>3, <3>1 DEF WriteAttempts
  <2>5. e.id \in Rows(attemptsCsv'[c])
    BY <1>t, <2>1, <2>2, <2>3, <2>4, AppendRows DEF TypeOK
  <2>6. BlockCase' = c /\ jobs' = jobs /\ pos' = pos /\ attempts' = attempts
        /\ transmissions' = transmissions
    BY <1>9 DEF WriteAttempts, memory, BlockCase
  <2>7. TypeOK'
    BY <1>9, <1>t, <2>4 DEF WriteAttempts, TypeOK, memory, ProgramPoints
  <2>8. BlockRecorded'
    BY <1>9, <2>5, <2>6 DEF WriteAttempts, IInv, BlockRecorded
  <2> QED
    BY <1>9, <2>4, <2>6, <2>7, <2>8
    DEF WriteAttempts, memory, IInv, ScheduleOnDisk, NothingCommittedYet, Position,
        Firmware, MemoryMatchesDisk, Planning, Settled, BeforeLoop, LoopPoints
<1>10. CASE WriteTransmissions
  <2> DEFINE c == BlockCase
  <2>1. c \in Cases
    BY <1>10, <1>c DEF WriteTransmissions, LoopPoints
  <2>2. /\ transCsv' \in [Cases -> Seq(Jobs \cup {NoOps})]
        /\ transCsv'[c] = transmissions[c]
    BY <1>10, <1>t, <2>1 DEF WriteTransmissions, TypeOK
  <2>3. BlockCase' = c /\ jobs' = jobs /\ pos' = pos /\ attempts' = attempts
        /\ attemptsCsv' = attemptsCsv
    BY <1>10 DEF WriteTransmissions, memory, BlockCase
  <2>4. TypeOK'
    BY <1>10, <1>t, <2>2 DEF WriteTransmissions, TypeOK, memory, ProgramPoints
  <2>5. BlockRecorded'
    BY <1>10, <2>2, <2>3 DEF WriteTransmissions, IInv, BlockRecorded
  <2> QED
    BY <1>10, <2>3, <2>4, <2>5
    DEF WriteTransmissions, memory, IInv, ScheduleOnDisk, NothingCommittedYet, Position,
        Firmware, MemoryMatchesDisk, Planning, Settled, BeforeLoop, LoopPoints
<1>11. CASE WriteCheckpoint
  <2>1. pos = checkpoint + 1 /\ pos \in 1..Len(jobs)
    BY <1>11 DEF WriteCheckpoint, IInv, Position, LoopPoints
  <2>2. TypeOK'
    BY <1>11, <1>t, <2>1 DEF WriteCheckpoint, TypeOK, ProgramPoints
  <2>3. pos < Len(jobs) => pos + 1 \in 1..Len(jobs)
    BY <1>t, <2>1 DEF TypeOK
  <2>4. pc' \in {"check", "finish"} /\ (pc' = "check" => pos < Len(jobs))
    BY <1>11 DEF WriteCheckpoint
  <2>5. Position'
    BY <1>11, <2>1, <2>3, <2>4
    DEF WriteCheckpoint, Position, BeforeLoop, Planning, LoopPoints
  <2>6. ScheduleOnDisk' /\ NothingCommittedYet' /\ Firmware' /\ BlockRecorded'
    BY <1>11, <2>4
    DEF WriteCheckpoint, IInv, ScheduleOnDisk, NothingCommittedYet, Firmware,
        BlockRecorded, Planning, Settled, LoopPoints
  <2>7. MemoryMatchesDisk'
    BY <1>11, <2>4 DEF WriteCheckpoint, IInv, MemoryMatchesDisk, BeforeLoop, Planning
  <2> QED BY <2>2, <2>5, <2>6, <2>7 DEF IInv
<1>12. CASE WriteSummary
  <2>1. TypeOK'
    BY <1>12, <1>t DEF WriteSummary, TypeOK, memory, ProgramPoints
  <2> QED
    BY <1>12, <2>1
    DEF WriteSummary, memory, IInv, ScheduleOnDisk, NothingCommittedYet, Position,
        Firmware, MemoryMatchesDisk, BlockRecorded, Planning, Settled, BeforeLoop,
        LoopPoints
<1>13. CASE Stop
  <2>1. TypeOK'
    <3>1. pc \in {"csv", "trans"} => BlockCase \in Cases
      BY <1>c DEF LoopPoints
    <3>2. LeftBehind /\ board' \in Profiles \cup {NoProfile} /\ stops' \in Nat
          /\ pc' = "down" /\ UNCHANGED memory
      BY <1>13, <1>t DEF Stop, InterruptedBoard, TypeOK
    <3>3. /\ manifest' \in Seq(Jobs)
          /\ opsManifest' \in Seq(Jobs \cup {NoOps})
          /\ configOk' \in BOOLEAN
          /\ checkpoint' = checkpoint
          /\ attemptsCsv' \in [Cases -> Seq(Jobs)]
          /\ transCsv' \in [Cases -> Seq(Jobs \cup {NoOps})]
          /\ summary' \in [Cases -> Seq(Jobs)]
      BY <1>t, <3>1, <3>2, LeftBehindType
    <3> QED BY <1>t, <3>2, <3>3 DEF TypeOK, memory
  <2> QED
    BY <1>13, <2>1
    DEF Stop, IInv, ScheduleOnDisk, NothingCommittedYet, Position, Firmware,
        MemoryMatchesDisk, BlockRecorded, Planning, Settled, BeforeLoop, LoopPoints
<1>14. CASE Interrupt
  <2>1. TypeOK'
    <3>1. pc \in {"csv", "trans"} => BlockCase \in Cases
      BY <1>c DEF LoopPoints
    <3>2. LeftBehind /\ board' \in Profiles \cup {NoProfile} /\ stops' \in Nat
          /\ pc' = "finish" /\ interrupted' = TRUE
          /\ UNCHANGED <<jobs, pos, attempts, transmissions, active>>
      BY <1>14, <1>t DEF Interrupt, InterruptedBoard, TypeOK
    <3>3. /\ manifest' \in Seq(Jobs)
          /\ opsManifest' \in Seq(Jobs \cup {NoOps})
          /\ configOk' \in BOOLEAN
          /\ checkpoint' = checkpoint
          /\ attemptsCsv' \in [Cases -> Seq(Jobs)]
          /\ transCsv' \in [Cases -> Seq(Jobs \cup {NoOps})]
          /\ summary' \in [Cases -> Seq(Jobs)]
      BY <1>t, <3>1, <3>2, LeftBehindType
    <3> QED BY <1>t, <3>2, <3>3 DEF TypeOK, ProgramPoints
  <2> QED
    BY <1>14, <2>1
    DEF Interrupt, IInv, ScheduleOnDisk, NothingCommittedYet, Position, Firmware,
        MemoryMatchesDisk, BlockRecorded, Planning, Settled, BeforeLoop, LoopPoints
<1>15. CASE UNCHANGED vars
  <2> USE <1>15 DEF vars, disk, memory, IInv
  <2>1. TypeOK'
    BY <1>t DEF TypeOK
  <2>2. ScheduleOnDisk' /\ NothingCommittedYet' /\ Position' /\ Firmware'
    BY DEF ScheduleOnDisk, NothingCommittedYet, Position, Firmware
  <2>3. MemoryMatchesDisk' /\ BlockRecorded'
    BY DEF MemoryMatchesDisk, BlockRecorded, BlockCase
  <2> QED BY <2>1, <2>2, <2>3
<1> QED
  BY <1>1, <1>2, <1>3, <1>4, <1>5, <1>6, <1>7, <1>8, <1>9, <1>10, <1>11, <1>12, <1>13,
     <1>14, <1>15
  DEF Next, Step, Finished, ResumeRefused

(* IInv holds in every reachable state. *)
LEMMA InvariantHolds == Spec => []IInv
  BY InitIInv, StepIInv, PTL DEF Spec

-----------------------------------------------------------------------------
(* Every file, every row in memory and the board keep their types, torn    *)
(* rewrites included.                                                      *)
THEOREM TypeCorrect == Spec => []TypeOK
<1>1. IInv => TypeOK
  BY DEF IInv
<1> QED BY <1>1, InvariantHolds, PTL

(* A block only runs on the firmware image its case needs. *)
THEOREM FirmwareMatches == Spec => []RightFirmware
<1>1. IInv => RightFirmware
  BY DEF IInv, Firmware, RightFirmware, LoopPoints
<1> QED BY <1>1, InvariantHolds, PTL

(* The aggregates of a run that ends by itself come from the rows on disk. *)
THEOREM SummaryComplete == Spec => SummaryFromDisk
<1>1. IInv /\ [Next]_vars => [pc = "finish" /\ pc' = "done" => summary' = attemptsCsv]_vars
  <2> SUFFICES ASSUME IInv, Next, pc = "finish", pc' = "done"
               PROVE  summary' = attemptsCsv
    OBVIOUS
  <2>1. WriteSummary
    BY DEF Next, Step, Replan, WriteManifest, WriteTransferManifest, WriteConfig,
           FlashFirst, SwitchProfile, RunBlock, WriteAttempts, WriteTransmissions,
           WriteCheckpoint, Resume, Stop, Interrupt, Finished, ResumeRefused
  <2> QED BY <2>1 DEF WriteSummary, IInv, MemoryMatchesDisk
<1> QED BY <1>1, InvariantHolds, PTL DEF Spec, SummaryFromDisk

(* The checkpoint never runs ahead of the rows it stands for. *)
THEOREM CheckpointOrder == Spec => CommitAfterRows
<1> DEFINE A ==
      checkpoint' # checkpoint =>
          /\ checkpoint' = checkpoint + 1
          /\ manifest[checkpoint'] \in Rows(attemptsCsv[CaseOf[manifest[checkpoint']]])
          /\ TransferMode =>
                jobs[checkpoint'].ops \in Rows(transCsv[CaseOf[manifest[checkpoint']]])
<1>1. IInv /\ [Next]_vars => [A]_vars
  <2> SUFFICES ASSUME IInv, Next, checkpoint' # checkpoint PROVE A
    OBVIOUS
  <2>1. ~(Stop \/ Interrupt)
    BY DEF Stop, Interrupt, LeftBehind, disk
  <2>2. WriteCheckpoint
    BY <2>1 DEF Next, Step, Replan, WriteManifest, WriteTransferManifest, WriteConfig,
           FlashFirst, SwitchProfile, RunBlock, WriteAttempts, WriteTransmissions,
           WriteSummary, Resume, Finished, ResumeRefused, disk, vars
  <2>3. pos = checkpoint + 1 /\ pos \in 1..Len(jobs) /\ checkpoint' = pos
    BY <2>2 DEF WriteCheckpoint, IInv, Position, LoopPoints
  <2>4. manifest[pos] = jobs[pos].id
    BY <2>2, <2>3 DEF WriteCheckpoint, IInv, ScheduleOnDisk, Settled, LoopPoints
  <2> QED BY <2>2, <2>3, <2>4 DEF WriteCheckpoint, IInv, BlockRecorded, BlockCase
<1> QED BY <1>1, InvariantHolds, PTL DEF Spec, CommitAfterRows

-----------------------------------------------------------------------------
(* One step keeps the row of every block the checkpoint counts, when no    *)
(* stop falls inside an in-place rewrite.                                  *)
LEMMA CommittedStep ==
    ASSUME ~TornWrites, IInv, CommittedKept, [Next]_vars
    PROVE  CommittedKept'
<1> DEFINE Keep == UNCHANGED <<manifest, checkpoint, attemptsCsv>>
<1>1. CASE Keep
  BY <1>1 DEF CommittedKept
<1>2. CASE WriteManifest
  <2>1. checkpoint' = 0
    BY <1>2 DEF WriteManifest, IInv, NothingCommittedYet, Planning
  <2> QED BY <2>1 DEF CommittedKept
<1>3. CASE WriteAttempts
  <2> DEFINE c == BlockCase
  <2>1. pos \in 1..Len(jobs)
    BY <1>3 DEF WriteAttempts, IInv, Position, LoopPoints
  <2>2. c \in Cases /\ jobs[pos].id \in Jobs
    BY <2>1, CurrentBlock DEF IInv, BlockCase
  <2>3. attemptsCsv \in [Cases -> Seq(Jobs)]
    BY DEF IInv, TypeOK
  <2>4. attempts = [attemptsCsv EXCEPT ![c] = Append(attemptsCsv[c], jobs[pos].id)]
    BY <1>3 DEF WriteAttempts, IInv, MemoryMatchesDisk
  <2>5. attempts[c] = Append(attemptsCsv[c], jobs[pos].id)
    BY <2>2, <2>3, <2>4
  <2>6. Rows(attemptsCsv[c]) \subseteq Rows(attempts[c])
    BY <2>2, <2>3, <2>5, AppendRows
  <2>7. attemptsCsv' = [attemptsCsv EXCEPT ![c] = attempts[c]]
    BY <1>3 DEF WriteAttempts
  <2>8. \A d \in Cases : Rows(attemptsCsv[d]) \subseteq Rows(attemptsCsv'[d])
    BY <2>3, <2>6, <2>7
  <2>9. manifest \in Seq(Jobs) /\ checkpoint \in Nat
    BY DEF IInv, TypeOK
  <2>10. manifest' = manifest /\ checkpoint' = checkpoint
    BY <1>3 DEF WriteAttempts
  <2> SUFFICES ASSUME NEW o \in 1..checkpoint
               PROVE  /\ o <= Len(manifest)
                      /\ manifest[o] \in Rows(attemptsCsv'[CaseOf[manifest[o]]])
    BY <2>10 DEF CommittedKept
  <2>11. o <= Len(manifest) /\ manifest[o] \in Rows(attemptsCsv[CaseOf[manifest[o]]])
    BY DEF CommittedKept
  <2>12. CaseOf[manifest[o]] \in Cases
    BY <2>9, <2>11, RunAssumption
  <2> QED BY <2>8, <2>11, <2>12
<1>4. CASE WriteCheckpoint
  <2>1. checkpoint \in Nat /\ pos = checkpoint + 1 /\ pos \in 1..Len(jobs)
    BY <1>4 DEF WriteCheckpoint, IInv, TypeOK, Position, LoopPoints
  <2>2. Len(jobs) = Len(manifest) /\ manifest[pos] = jobs[pos].id
    BY <1>4, <2>1 DEF WriteCheckpoint, IInv, ScheduleOnDisk, Settled, LoopPoints
  <2>3. manifest[pos] \in Rows(attemptsCsv[CaseOf[manifest[pos]]])
    BY <1>4, <2>2 DEF WriteCheckpoint, IInv, BlockRecorded, BlockCase
  <2>4. checkpoint' = pos /\ manifest' = manifest /\ attemptsCsv' = attemptsCsv
    BY <1>4 DEF WriteCheckpoint
  <2>5. \A o \in 1..pos : o = pos \/ o \in 1..checkpoint
    BY <2>1
  <2> QED BY <2>1, <2>2, <2>3, <2>4, <2>5 DEF CommittedKept
<1>5. CASE Stop \/ Interrupt
  <2>1. UNCHANGED disk
    BY <1>5 DEF Stop, Interrupt, LeftBehind
  <2> QED BY <1>1, <2>1 DEF disk
<1>6. CASE ~(WriteManifest \/ WriteAttempts \/ WriteCheckpoint \/ Stop \/ Interrupt)
  <2>1. Keep
    BY <1>6 DEF Next, Step, Replan, WriteTransferManifest, WriteConfig, FlashFirst,
           SwitchProfile, RunBlock, WriteTransmissions, WriteSummary, Resume, Finished,
           ResumeRefused, disk, vars
  <2> QED BY <1>1, <2>1
<1> QED BY <1>1, <1>2, <1>3, <1>4, <1>5, <1>6

(* When no stop falls inside an in-place rewrite, every block the          *)
(* checkpoint counts has its row: resuming never loses completed work.     *)
THEOREM CompletedWorkKept ==
    ASSUME ~TornWrites
    PROVE  Spec => []CommittedKept
<1>1. Init => CommittedKept
  BY DEF Init, CommittedKept
<1>2. IInv /\ CommittedKept /\ [Next]_vars => CommittedKept'
  BY CommittedStep
<1> QED BY <1>1, <1>2, InvariantHolds, PTL DEF Spec

-----------------------------------------------------------------------------
(***************************************************************************)
(* In transfer mode, with no stop between the two rewrites of the round    *)
(* manifests or inside one, every round keeps its own operations.          *)
(***************************************************************************)
OpsOnDisk ==
    pc \notin {"ops"} =>
        /\ Len(opsManifest) = Len(manifest)
        /\ \A i \in 1..Len(manifest) : opsManifest[i] = manifest[i]

OpsInv ==
    /\ OpsOnDisk
    /\ pc \notin {"down", "done"} => \A i \in 1..Len(jobs) : jobs[i].ops = jobs[i].id

(* One step keeps the rounds and their operations together. *)
LEMMA OpsStep ==
    ASSUME TransferMode, ~TornWrites, "ops" \notin StopPoints, IInv, OpsInv, [Next]_vars
    PROVE  OpsInv'
<1>t. /\ manifest \in Seq(Jobs) /\ opsManifest \in Seq(Jobs \cup {NoOps})
      /\ jobs \in Seq(Entry)
  BY DEF IInv, TypeOK
<1>1. CASE Resume
  <2>1. \A i \in 1..Len(manifest) : LoadedOps(i) = manifest[i]
    <3> SUFFICES ASSUME NEW i \in 1..Len(manifest) PROVE LoadedOps(i) = manifest[i]
      OBVIOUS
    <3>1. opsManifest[i] = manifest[i] /\ i <= Len(opsManifest) /\ manifest[i] \in Jobs
      BY <1>1, <1>t DEF Resume, OpsInv, OpsOnDisk
    <3> QED BY <3>1, RunAssumption DEF LoadedOps
  <2>2. jobs' = [i \in 1..Len(manifest) |-> [id |-> manifest[i], ops |-> LoadedOps(i)]]
    BY <1>1 DEF Resume, LoadJobs
  <2>3. Len(jobs') = Len(manifest)
    BY <1>t, <2>2
  <2> QED BY <1>1, <2>1, <2>2, <2>3 DEF Resume, disk, OpsInv, OpsOnDisk
<1>2. CASE Replan
  <2>1. \A i \in 1..Len(jobs) : jobs[i].ops = jobs[i].id
    BY <1>2 DEF Replan, OpsInv
  <2>2. \A i \in 1..Len(jobs') : jobs'[i].ops = jobs'[i].id
    <3>1. CASE jobs' = jobs
      BY <2>1, <3>1
    <3>2. CASE \E f \in Reorderings(jobs) : jobs' = [i \in 1..Len(jobs) |-> jobs[f[i]]]
      <4>1. PICK f \in Reorderings(jobs) : jobs' = [i \in 1..Len(jobs) |-> jobs[f[i]]]
        BY <3>2
      <4>2. f \in [1..Len(jobs) -> 1..Len(jobs)] /\ Len(jobs') = Len(jobs)
        BY <1>t, <4>1 DEF Reorderings
      <4> QED BY <2>1, <4>1, <4>2
    <3> QED BY <1>2, <3>1, <3>2 DEF Replan
  <2> QED BY <1>2, <2>2 DEF Replan, disk, OpsInv, OpsOnDisk
<1>3. CASE WriteManifest
  BY <1>3 DEF WriteManifest, memory, OpsInv, OpsOnDisk
<1>4. CASE WriteTransferManifest
  <2>1. Len(jobs) = Len(manifest) /\ \A i \in 1..Len(manifest) : jobs[i].id = manifest[i]
    BY <1>4 DEF WriteTransferManifest, IInv, ScheduleOnDisk, Settled
  <2>2. \A i \in 1..Len(jobs) : jobs[i].ops = jobs[i].id
    BY <1>4 DEF WriteTransferManifest, OpsInv
  <2>3. opsManifest' = [i \in 1..Len(jobs) |-> jobs[i].ops] /\ manifest' = manifest
        /\ jobs' = jobs
    BY <1>4 DEF WriteTransferManifest, memory
  <2>4. Len(opsManifest') = Len(jobs)
    BY <1>t, <2>3
  <2> QED BY <2>1, <2>2, <2>3, <2>4 DEF OpsInv, OpsOnDisk
<1>5. CASE Stop \/ Interrupt
  <2>1. UNCHANGED disk /\ UNCHANGED jobs
    BY <1>5 DEF Stop, Interrupt, LeftBehind, memory
  <2>2. pc # "ops" /\ pc \notin {"down", "done"}
    BY <1>5, RunAssumption DEF Stop, Interrupt, ProgramPoints
  <2> QED BY <2>1, <2>2 DEF disk, OpsInv, OpsOnDisk
<1>6. CASE UNCHANGED <<manifest, opsManifest, jobs>> /\ pc' # "ops"
           /\ (pc = "ops" => pc' = "ops") /\ (pc \in {"down", "done"} => pc' = pc)
  BY <1>6 DEF OpsInv, OpsOnDisk
<1>7. CASE UNCHANGED vars
  BY <1>7 DEF vars, disk, memory, OpsInv, OpsOnDisk
<1>8. CASE \/ WriteConfig \/ FlashFirst \/ SwitchProfile \/ RunBlock \/ WriteAttempts
           \/ WriteTransmissions \/ WriteCheckpoint \/ WriteSummary
  <2>1. UNCHANGED <<manifest, opsManifest, jobs>> /\ pc' # "ops"
           /\ (pc = "ops" => pc' = "ops") /\ (pc \in {"down", "done"} => pc' = pc)
    BY <1>8 DEF WriteConfig, FlashFirst, SwitchProfile, RunBlock, WriteAttempts,
           WriteTransmissions, WriteCheckpoint, WriteSummary, disk, memory
  <2> QED BY <1>6, <2>1
<1> QED BY <1>1, <1>2, <1>3, <1>4, <1>5, <1>7, <1>8 DEF Next, Step, Finished, ResumeRefused

(* In transfer mode every round keeps its own operations, when rewrites    *)
(* are not torn and no stop falls between those of the two manifests.      *)
THEOREM RoundsKeepOperations ==
    ASSUME TransferMode, ~TornWrites, "ops" \notin StopPoints
    PROVE  Spec => []OpsIntact
<1>1. Init => OpsInv
  <2> SUFFICES ASSUME Init PROVE OpsInv
    OBVIOUS
  <2>1. jobs = [i \in 1..Len(manifest) |-> [id |-> manifest[i], ops |-> manifest[i]]]
        /\ opsManifest = manifest
    BY DEF Init
  <2>2. Len(jobs) = Len(manifest) /\ Len(manifest) \in Nat
    BY InitIInv, <2>1 DEF IInv, TypeOK
  <2> QED BY <2>1, <2>2 DEF OpsInv, OpsOnDisk
<1>2. IInv /\ OpsInv /\ [Next]_vars => OpsInv'
  BY OpsStep
<1>3. OpsInv => OpsIntact
  BY DEF OpsInv, OpsIntact
<1> QED BY <1>1, <1>2, <1>3, InvariantHolds, PTL DEF Spec

-----------------------------------------------------------------------------
(***************************************************************************)
(* Nothing is skipped.  The checkpoint only counts positions, so that a    *)
(* completed run has executed every block needs that every reordering and  *)
(* every rewrite of the schedule keeps all of them.                        *)
(***************************************************************************)
AllPlanned(s) == \A j \in Jobs : \E i \in 1..Len(s) : s[i].id = j

PlanInv ==
    /\ \A j \in Jobs : \E i \in 1..Len(manifest) : manifest[i] = j
    /\ pc \notin {"down", "done"} => AllPlanned(jobs)
    /\ pc = "done" => checkpoint >= Len(manifest)
    /\ pc = "finish" /\ ~interrupted => checkpoint >= Len(manifest)

(* A reordering of a finite schedule leaves no position out. *)
LEMMA ReorderingOnto ==
    ASSUME NEW s \in Seq(Entry), NEW f \in Reorderings(s), NEW k \in 1..Len(s)
    PROVE  \E i \in 1..Len(s) : f[i] = k
<1> DEFINE D == 1..Len(s)
<1>1. Len(s) \in Nat /\ IsFiniteSet(D)
  BY FS_Interval
<1>2. f \in Injection(D, D)
  BY DEF Reorderings, Injection, IsInjective
<1>3. f \in Surjection(D, D)
  BY <1>1, <1>2, FS_Injection
<1> QED BY <1>3 DEF Surjection

(* One step keeps every block in the schedule. *)
LEMMA PlanStep ==
    ASSUME ~TornWrites, IInv, PlanInv, [Next]_vars
    PROVE  PlanInv'
<1>t. /\ manifest \in Seq(Jobs) /\ jobs \in Seq(Entry) /\ checkpoint \in Nat
      /\ pc \in ProgramPoints \cup {"down", "done"} /\ interrupted \in BOOLEAN
  BY DEF IInv, TypeOK
<1>1. CASE Resume
  <2>1. jobs' = [i \in 1..Len(manifest) |-> [id |-> manifest[i], ops |-> LoadedOps(i)]]
    BY <1>1 DEF Resume, LoadJobs
  <2>2. Len(jobs') = Len(manifest)
    BY <1>t, <2>1
  <2>3. AllPlanned(jobs')
    BY <2>1, <2>2 DEF PlanInv, AllPlanned
  <2> QED BY <1>1, <1>t, <2>3 DEF Resume, disk, PlanInv
<1>2. CASE Replan
  <2>1. AllPlanned(jobs)
    BY <1>2 DEF Replan, PlanInv
  <2>2. AllPlanned(jobs')
    <3>1. CASE jobs' = jobs
      BY <2>1, <3>1
    <3>2. CASE \E f \in Reorderings(jobs) : jobs' = [i \in 1..Len(jobs) |-> jobs[f[i]]]
      <4>1. PICK f \in Reorderings(jobs) : jobs' = [i \in 1..Len(jobs) |-> jobs[f[i]]]
        BY <3>2
      <4>2. Len(jobs') = Len(jobs)
        BY <1>t, <4>1
      <4> SUFFICES ASSUME NEW j \in Jobs PROVE \E i \in 1..Len(jobs') : jobs'[i].id = j
        BY DEF AllPlanned
      <4>3. PICK k \in 1..Len(jobs) : jobs[k].id = j
        BY <2>1 DEF AllPlanned
      <4>4. PICK i \in 1..Len(jobs) : f[i] = k
        BY <1>t, ReorderingOnto
      <4> QED BY <4>1, <4>2, <4>3, <4>4
    <3> QED BY <1>2, <3>1, <3>2 DEF Replan
  <2> QED BY <1>2, <2>2 DEF Replan, disk, PlanInv
<1>3. CASE WriteManifest
  <2>1. AllPlanned(jobs)
    BY <1>3 DEF WriteManifest, PlanInv
  <2>2. manifest' = [i \in 1..Len(jobs) |-> jobs[i].id] /\ jobs' = jobs
    BY <1>3 DEF WriteManifest, memory
  <2>3. Len(manifest') = Len(jobs)
    BY <1>t, <2>2
  <2>4. \A j \in Jobs : \E i \in 1..Len(manifest') : manifest'[i] = j
    BY <2>1, <2>2, <2>3 DEF AllPlanned
  <2> QED BY <1>3, <2>1, <2>2, <2>4 DEF WriteManifest, PlanInv
<1>4. CASE WriteCheckpoint
  <2>1. pos = checkpoint + 1 /\ pos \in 1..Len(jobs) /\ Len(jobs) = Len(manifest)
    BY <1>4 DEF WriteCheckpoint, IInv, Position, ScheduleOnDisk, Settled, LoopPoints
  <2> QED BY <1>4, <1>t, <2>1 DEF WriteCheckpoint, PlanInv
<1>5. CASE Stop \/ Interrupt
  <2>1. UNCHANGED disk /\ UNCHANGED jobs /\ pc' \in {"down", "finish"}
        /\ (pc' = "finish" => interrupted')
    BY <1>5 DEF Stop, Interrupt, LeftBehind, memory
  <2>2. pc \notin {"down", "done"}
    BY <1>5, RunAssumption DEF Stop, Interrupt, ProgramPoints
  <2> QED BY <2>1, <2>2 DEF disk, PlanInv
<1>6. CASE UNCHANGED vars
  BY <1>6 DEF vars, disk, memory, PlanInv
<1>7. CASE \/ WriteTransferManifest \/ WriteConfig \/ FlashFirst \/ SwitchProfile
           \/ RunBlock \/ WriteAttempts \/ WriteTransmissions \/ WriteSummary
  <2>1. /\ UNCHANGED <<manifest, checkpoint, jobs, interrupted>>
        /\ pc \notin {"down", "done"} /\ pc' # "finish"
        /\ pc' = "done" => pc = "finish" /\ ~interrupted
    BY <1>7 DEF WriteTransferManifest, WriteConfig, FlashFirst, SwitchProfile, RunBlock,
           WriteAttempts, WriteTransmissions, WriteSummary, disk, memory
  <2> QED BY <2>1 DEF PlanInv
<1> QED BY <1>1, <1>2, <1>3, <1>4, <1>5, <1>6, <1>7 DEF Next, Step, Finished, ResumeRefused

(* When no stop falls inside an in-place rewrite, a run that reports       *)
(* completion has a row of every block it was asked to execute.            *)
THEOREM CompletionIsComplete ==
    ASSUME ~TornWrites
    PROVE  Spec => []NothingSkipped
<1>1. Init => PlanInv
  <2> SUFFICES ASSUME Init PROVE PlanInv
    OBVIOUS
  <2>1. \A j \in Jobs : \E i \in 1..Len(manifest) : manifest[i] = j
    BY DEF Init, Shuffled, Rows
  <2>2. jobs = [i \in 1..Len(manifest) |-> [id |-> manifest[i], ops |-> manifest[i]]]
    BY DEF Init
  <2>3. Len(jobs) = Len(manifest)
    BY InitIInv, <2>2 DEF IInv, TypeOK
  <2> QED BY <2>1, <2>2, <2>3 DEF Init, PlanInv, AllPlanned
<1>2. IInv /\ PlanInv /\ [Next]_vars => PlanInv'
  BY PlanStep
<1>3. IInv /\ PlanInv /\ CommittedKept => NothingSkipped
  <2> SUFFICES ASSUME IInv, PlanInv, CommittedKept, pc = "done", NEW j \in Jobs
               PROVE  j \in Rows(attemptsCsv[CaseOf[j]])
    BY DEF NothingSkipped
  <2>1. PICK i \in 1..Len(manifest) : manifest[i] = j
    BY DEF PlanInv
  <2>2. i \in 1..checkpoint
    BY <2>1 DEF PlanInv, IInv, TypeOK
  <2> QED BY <2>1, <2>2 DEF CommittedKept
<1> QED BY <1>1, <1>2, <1>3, InvariantHolds, CompletedWorkKept, PTL DEF Spec

-----------------------------------------------------------------------------
(***************************************************************************)
(* Surplus rows.  Every row on disk is paid for by a checkpoint, by a stop *)
(* or by the block that is about to be committed; a torn rewrite can only  *)
(* take rows away.                                                         *)
(***************************************************************************)
RowSet(files) == UNION {{c} \X (1..Len(files[c])) : c \in Cases}

RowInv ==
    /\ IsFiniteSet(RowSet(attemptsCsv))
    /\ RowCount <= checkpoint + stops + (IF pc \in {"trans", "ckpt"} THEN 1 ELSE 0)

(* One file rewritten with at most one row more adds at most one row. *)
LEMMA OneMoreRow ==
    ASSUME NEW files \in [Cases -> Seq(Jobs)], NEW c \in Cases, NEW p \in Seq(Jobs),
           Len(p) <= Len(files[c]) + 1, IsFiniteSet(RowSet(files)),
           NEW new, new = [files EXCEPT ![c] = p]
    PROVE  /\ IsFiniteSet(RowSet(new))
           /\ Cardinality(RowSet(new)) \in Nat /\ Cardinality(RowSet(files)) \in Nat
           /\ Cardinality(RowSet(new)) <= Cardinality(RowSet(files)) + 1
<1> DEFINE x == <<c, Len(files[c]) + 1>>
           S == RowSet(files) \cup {x}
<1>1. RowSet(new) \subseteq S
  <2> SUFFICES ASSUME NEW d \in Cases, NEW i \in 1..Len(new[d])
               PROVE  <<d, i>> \in S
    BY DEF RowSet
  <2>1. CASE d # c
    BY <2>1 DEF RowSet
  <2>2. CASE d = c
    <3>1. new[c] = p /\ files[c] \in Seq(Jobs)
      OBVIOUS
    <3>2. i \in 1..Len(files[c]) \/ i = Len(files[c]) + 1
      BY <2>2, <3>1
    <3> QED BY <2>2, <3>2 DEF RowSet
  <2> QED BY <2>1, <2>2
<1>2. IsFiniteSet(S) /\ Cardinality(S) <= Cardinality(RowSet(files)) + 1
      /\ Cardinality(RowSet(files)) \in Nat
  <2> DEFINE T == RowSet(files)
  <2> HIDE DEF T, x
  <2>1. IsFiniteSet(T) /\ Cardinality(T) \in Nat
    BY FS_CardinalityType DEF T
  <2>2. /\ IsFiniteSet(T \cup {x})
        /\ Cardinality(T \cup {x}) = IF x \in T THEN Cardinality(T) ELSE Cardinality(T) + 1
    BY <2>1, FS_AddElement
  <2>3. Cardinality(T \cup {x}) <= Cardinality(T) + 1
    BY <2>1, <2>2
  <2> QED BY <2>1, <2>2, <2>3 DEF T
<1>3. IsFiniteSet(RowSet(new)) /\ Cardinality(RowSet(new)) <= Cardinality(S)
  BY <1>1, <1>2, FS_Subset
<1>4. Cardinality(RowSet(new)) \in Nat /\ Cardinality(S) \in Nat
  BY <1>2, <1>3, FS_CardinalityType
<1> HIDE DEF S
<1> QED BY <1>2, <1>3, <1>4

(* What the files in memory hold at "csv" is one row more. *)
LEMMA CsvOneMore ==
    ASSUME IInv, pc = "csv"
    PROVE  /\ BlockCase \in Cases /\ attempts[BlockCase] \in Seq(Jobs)
           /\ Len(attempts[BlockCase]) = Len(attemptsCsv[BlockCase]) + 1
           /\ \A p \in Prefixes(attempts[BlockCase]) :
                p \in Seq(Jobs) /\ Len(p) <= Len(attemptsCsv[BlockCase]) + 1
<1> DEFINE c == BlockCase
<1>1. pos \in 1..Len(jobs)
  BY DEF IInv, Position, LoopPoints
<1>2. c \in Cases /\ jobs[pos].id \in Jobs
  BY <1>1, CurrentBlock DEF IInv, BlockCase
<1>3. /\ attemptsCsv[c] \in Seq(Jobs) /\ attempts[c] \in Seq(Jobs)
      /\ attempts = [attemptsCsv EXCEPT ![c] = Append(attemptsCsv[c], jobs[pos].id)]
  BY <1>2 DEF IInv, TypeOK, MemoryMatchesDisk
<1>4. attempts[c] = Append(attemptsCsv[c], jobs[pos].id)
  BY <1>2, <1>3 DEF IInv, TypeOK
<1>5. Len(attempts[c]) = Len(attemptsCsv[c]) + 1 /\ Len(attemptsCsv[c]) \in Nat
  BY <1>2, <1>3, <1>4
<1>6. ASSUME NEW p \in Prefixes(attempts[c])
      PROVE  p \in Seq(Jobs) /\ Len(p) <= Len(attempts[c])
  <2>1. PICK n \in 0..Len(attempts[c]) : p = SubSeq(attempts[c], 1, n)
    BY DEF Prefixes
  <2>2. Len(p) = n
    BY <1>3, <2>1
  <2> QED BY <1>3, <2>1, <2>2, PrefixType
<1> QED BY <1>2, <1>3, <1>5, <1>6

(* One step, a torn rewrite included, keeps the account of the rows. *)
LEMMA RowStep ==
    ASSUME IInv, RowInv, [Next]_vars
    PROVE  RowInv'
<1> DEFINE n == Cardinality(RowSet(attemptsCsv))
<1>t. /\ checkpoint \in Nat /\ stops \in Nat /\ n \in Nat
      /\ attemptsCsv \in [Cases -> Seq(Jobs)]
  BY FS_CardinalityType DEF IInv, TypeOK, RowInv
<1>r. RowCount = n /\ RowCount' = Cardinality(RowSet(attemptsCsv'))
  BY DEF RowCount, RowSet
<1> HIDE DEF n
<1>1. CASE WriteAttempts
  <2>1. attempts[BlockCase] \in Seq(Jobs) /\ BlockCase \in Cases
        /\ Len(attempts[BlockCase]) <= Len(attemptsCsv[BlockCase]) + 1
    BY <1>1, <1>t, CsvOneMore DEF WriteAttempts
  <2>2. attemptsCsv' = [attemptsCsv EXCEPT ![BlockCase] = attempts[BlockCase]]
        /\ pc = "csv" /\ pc' \in {"trans", "ckpt"}
        /\ checkpoint' = checkpoint /\ stops' = stops
    BY <1>1 DEF WriteAttempts
  <2>3. IsFiniteSet(RowSet(attemptsCsv')) /\ Cardinality(RowSet(attemptsCsv')) \in Nat
        /\ Cardinality(RowSet(attemptsCsv')) <= n + 1
    BY <1>t, <2>1, <2>2, OneMoreRow DEF RowInv, n
  <2> QED BY <1>t, <1>r, <2>2, <2>3 DEF RowInv
<1>2. CASE WriteCheckpoint
  <2>1. pos = checkpoint + 1
    BY <1>2 DEF WriteCheckpoint, IInv, Position, LoopPoints
  <2> QED BY <1>2, <1>t, <1>r, <2>1 DEF WriteCheckpoint, RowInv, n
<1>3. CASE Stop \/ Interrupt
  <2>1. LeftBehind /\ stops' = stops + 1 /\ pc' \in {"down", "finish"}
    BY <1>3 DEF Stop, Interrupt
  <2>2. CASE attemptsCsv' = attemptsCsv /\ checkpoint' = checkpoint
    BY <1>t, <1>r, <2>1, <2>2 DEF RowInv, n
  <2>3. CASE /\ pc = "csv" /\ checkpoint' = checkpoint
             /\ \E p \in Prefixes(attempts[BlockCase]) :
                  attemptsCsv' = [attemptsCsv EXCEPT ![BlockCase] = p]
    <3>1. PICK p \in Prefixes(attempts[BlockCase]) :
              attemptsCsv' = [attemptsCsv EXCEPT ![BlockCase] = p]
      BY <2>3
    <3>2. BlockCase \in Cases /\ p \in Seq(Jobs)
          /\ Len(p) <= Len(attemptsCsv[BlockCase]) + 1
      BY <2>3, CsvOneMore
    <3>3. IsFiniteSet(RowSet(attemptsCsv')) /\ Cardinality(RowSet(attemptsCsv')) \in Nat
          /\ Cardinality(RowSet(attemptsCsv')) <= n + 1
      BY <1>t, <3>1, <3>2, OneMoreRow DEF RowInv, n
    <3> QED BY <1>t, <1>r, <2>1, <2>3, <3>3 DEF RowInv
  <2> QED BY <2>1, <2>2, <2>3 DEF LeftBehind, disk
<1>4. CASE \/ Replan \/ WriteManifest \/ WriteTransferManifest \/ WriteConfig
           \/ FlashFirst \/ SwitchProfile \/ RunBlock \/ WriteTransmissions
           \/ WriteSummary \/ Resume \/ UNCHANGED vars
  <2>1. /\ UNCHANGED <<attemptsCsv, checkpoint, stops>>
        /\ pc \in {"trans", "ckpt"} => pc' \in {"trans", "ckpt"}
    BY <1>4 DEF Replan, WriteManifest, WriteTransferManifest, WriteConfig, FlashFirst,
           SwitchProfile, RunBlock, WriteTransmissions, WriteSummary, Resume, disk,
           memory, vars
  <2> QED BY <1>t, <1>r, <2>1 DEF RowInv, n
<1> QED BY <1>1, <1>2, <1>3, <1>4 DEF Next, Step, Finished, ResumeRefused

(* Torn rewrites and any number of stops included, a stop costs at most    *)
(* one surplus row.                                                        *)
THEOREM OneRowPerStop == Spec => []SurplusBounded
<1>1. Init => RowInv
  <2> SUFFICES ASSUME Init PROVE RowInv
    OBVIOUS
  <2>1. RowSet(attemptsCsv) = {}
    BY DEF Init, NoRows, RowSet
  <2>2. IsFiniteSet({}) /\ Cardinality({}) = 0
    BY FS_EmptySet
  <2>3. RowCount = 0
    BY <2>1, <2>2 DEF RowCount, RowSet
  <2> QED BY <2>1, <2>2, <2>3 DEF Init, RowInv
<1>2. IInv /\ RowInv /\ [Next]_vars => RowInv'
  BY RowStep
<1>3. IInv /\ RowInv => SurplusBounded
  <2> SUFFICES ASSUME IInv, RowInv PROVE SurplusBounded
    OBVIOUS
  <2>1. RowCount \in Nat /\ checkpoint \in Nat /\ stops \in Nat
    BY FS_CardinalityType DEF IInv, TypeOK, RowInv, RowCount, RowSet
  <2> QED BY <2>1 DEF RowInv, SurplusBounded
<1> QED BY <1>1, <1>2, <1>3, InvariantHolds, PTL DEF Spec

-----------------------------------------------------------------------------
(***************************************************************************)
(* The retry loop of one block (RunJob), for any number of blocks, retries *)
(* and unread console lines: inside the step that runs a block.            *)
(***************************************************************************)

-----------------------------------------------------------------------------
(***************************************************************************)
(* The inductive invariant.  A RESULT line does not say which try it is    *)
(* of; that a success is never an old one rests on the bridge's TCP        *)
(* connection belonging to the current try, and that a READY behind the    *)
(* own RESULT is no stale one rests on the order of the console.           *)
(***************************************************************************)
Counts ==
    /\ hpc \in {"begin", "starting", "wait", "stop", "rearm", "recover", "reset_wait",
                "decide", "done"}
    /\ job \in 0..MaxJobs /\ retry \in 0..Retries
    /\ tryNo \in Nat /\ stopped \in Nat
    /\ final \in Finals /\ rearmed \in Nat /\ rows \in Seq(Finals)
    /\ serial \in Seq(Lines)
    /\ bridge \in {"off", "connecting", "linked"}
    /\ device \in {"boot", "adv", "selecting", "tls", "over", "halted"}
    /\ owner \in Nat

Flags == expired \in BOOLEAN /\ tcp \in BOOLEAN

(* The bridge and its connection are those of the current try. *)
BridgeOwn ==
    /\ owner <= tryNo
    /\ bridge = "connecting" => owner # tryNo /\ ~tcp
    /\ bridge = "linked" => owner = tryNo
    /\ tcp => owner = tryNo

(* The board has printed the RESULT of the session it was in. *)
PastResult == bridge # "connecting" /\ device \in {"over", "boot", "adv"}
LeftSession == device \in {"boot", "adv"}

SerialOwn ==
    \A i \in 1..Len(serial) :
        serial[i].kind = "result" /\ serial[i].ok => serial[i].from = tryNo

SerialOrder ==
    \A i \in 1..Len(serial) :
        serial[i].kind = "result" /\ serial[i].from = tryNo =>
            /\ PastResult
            /\ \A j \in (i + 1)..Len(serial) : serial[j].kind = "ready" => LeftSession

OwnResult == final.stage = "session" /\ final.from = tryNo

FinalOrder ==
    /\ final.stage = "session" => ~final.fatal
    /\ hpc = "reset_wait" => final.stage # "session"
    /\ hpc \in {"stop", "rearm"} /\ OwnResult =>
         /\ PastResult
         /\ \A j \in 1..Len(serial) : serial[j].kind = "ready" => LeftSession
    /\ hpc \in {"recover", "decide"} /\ OwnResult => PastResult /\ LeftSession

JobInv ==
    Counts /\ BridgeOwn /\ SerialOwn /\ SerialOrder /\ FinalOrder /\ SuccessIsOwn

-----------------------------------------------------------------------------
(* Facts about results and console lines. *)

(* A console line is what it is made of. *)
LEMMA LineFacts ==
    ASSUME NEW kind \in {"ready", "result", "fault"}, NEW ok \in BOOLEAN,
           owner \in Nat, stopped \in Nat
    PROVE  LET e == Line(kind, ok)
           IN  /\ e \in Lines /\ e.kind = kind /\ e.ok = ok /\ e.from = owner
               /\ e.at = stopped
  BY DEF Line, Lines

(* The lines the host has still to read after it took one. *)
LEMMA TailFacts ==
    ASSUME NEW s \in Seq(Lines), s # <<>>
    PROVE  /\ Head(s) = s[1] /\ s[1] \in Lines /\ Len(s) \in Nat \ {0}
           /\ Tail(s) \in Seq(Lines) /\ Len(Tail(s)) = Len(s) - 1
           /\ \A i \in 1..(Len(s) - 1) : Tail(s)[i] = s[i + 1]
<1>1. Head(s) = s[1] /\ s[1] \in Lines /\ Len(s) \in Nat \ {0}
  OBVIOUS
<1>2. Tail(s) \in Seq(Lines) /\ Len(Tail(s)) = Len(s) - 1
  OBVIOUS
<1>3. \A i \in 1..(Len(s) - 1) : Tail(s)[i] = s[i + 1]
  OBVIOUS
<1> QED BY <1>1, <1>2, <1>3

(* And after the board printed another. *)
LEMMA AppendFacts ==
    ASSUME NEW s \in Seq(Lines), NEW e \in Lines
    PROVE  /\ Append(s, e) \in Seq(Lines)
           /\ Len(s) \in Nat /\ Len(Append(s, e)) = Len(s) + 1
           /\ \A i \in 1..Len(s) : Append(s, e)[i] = s[i]
           /\ Append(s, e)[Len(s) + 1] = e
<1>1. Append(s, e) \in Seq(Lines) /\ Len(s) \in Nat /\ Len(Append(s, e)) = Len(s) + 1
  OBVIOUS
<1>2. \A i \in 1..Len(s) : Append(s, e)[i] = s[i]
  OBVIOUS
<1>3. Append(s, e)[Len(s) + 1] = e
  OBVIOUS
<1> QED BY <1>1, <1>2, <1>3

-----------------------------------------------------------------------------
(* What the board and the bridge may do while the console holds a RESULT:  *)
(* they never go back behind it.                                           *)
Forward ==
    /\ PastResult => PastResult'
    /\ PastResult /\ LeftSession => LeftSession'

(* Reading a line keeps the order of the others. *)
LEMMA TailKeeps ==
    ASSUME serial \in Seq(Lines), serial # <<>>, serial' = Tail(serial),
           UNCHANGED <<tryNo, bridge, device>>, SerialOwn, SerialOrder
    PROVE  serial' \in Seq(Lines) /\ SerialOwn' /\ SerialOrder'
<1>1. /\ Len(serial) \in Nat \ {0} /\ serial' \in Seq(Lines)
      /\ Len(serial') = Len(serial) - 1
      /\ \A i \in 1..(Len(serial) - 1) : serial'[i] = serial[i + 1]
  BY TailFacts
<1>2. \A i \in 1..Len(serial') : i + 1 \in 1..Len(serial) /\ serial'[i] = serial[i + 1]
  BY <1>1
<1>3. SerialOwn'
  BY <1>2 DEF SerialOwn
<1>4. SerialOrder'
  <2> SUFFICES ASSUME NEW i \in 1..Len(serial'), serial'[i].kind = "result",
                      serial'[i].from = tryNo
               PROVE  /\ PastResult
                      /\ \A j \in (i + 1)..Len(serial') :
                           serial'[j].kind = "ready" => LeftSession
    BY DEF SerialOrder, PastResult, LeftSession
  <2>1. /\ PastResult
        /\ \A j \in (i + 2)..Len(serial) : serial[j].kind = "ready" => LeftSession
    <3>1. i + 1 \in 1..Len(serial) /\ serial'[i] = serial[i + 1] /\ (i + 1) + 1 = i + 2
      BY <1>2
    <3> QED BY <3>1 DEF SerialOrder
  <2>2. \A j \in (i + 1)..Len(serial') :
           j + 1 \in (i + 2)..Len(serial) /\ serial'[j] = serial[j + 1]
    BY <1>1
  <2> QED BY <2>1, <2>2
<1> QED BY <1>1, <1>3, <1>4

(* A new line keeps it, when it is no stale success, and a READY only when *)
(* the board is out of the session whose RESULT stands before it.          *)
LEMMA AppendKeeps ==
    ASSUME serial \in Seq(Lines), NEW e \in Lines, serial' = Append(serial, e),
           tryNo' = tryNo, SerialOwn, SerialOrder, Forward,
           e.kind = "result" /\ e.ok => e.from = tryNo,
           e.kind = "result" /\ e.from = tryNo => PastResult',
           e.kind = "ready" /\ PastResult => LeftSession'
    PROVE  /\ serial' \in Seq(Lines) /\ SerialOwn' /\ SerialOrder'
           /\ PastResult /\ (\A j \in 1..Len(serial) : serial[j].kind = "ready" => LeftSession)
                => \A j \in 1..Len(serial') : serial'[j].kind = "ready" => LeftSession'
<1>1. /\ serial' \in Seq(Lines) /\ Len(serial) \in Nat /\ Len(serial') = Len(serial) + 1
      /\ \A i \in 1..Len(serial) : serial'[i] = serial[i]
      /\ serial'[Len(serial) + 1] = e
  BY AppendFacts
<1>2. \A i \in 1..Len(serial') : i \in 1..Len(serial) \/ i = Len(serial) + 1
  BY <1>1
<1>3. SerialOwn'
  BY <1>1, <1>2 DEF SerialOwn
<1>4. SerialOrder'
  <2> SUFFICES ASSUME NEW i \in 1..Len(serial'), serial'[i].kind = "result",
                      serial'[i].from = tryNo
               PROVE  /\ PastResult'
                      /\ \A j \in (i + 1)..Len(serial') :
                           serial'[j].kind = "ready" => LeftSession'
    BY DEF SerialOrder
  <2>1. CASE i = Len(serial) + 1
    BY <1>1, <2>1
  <2>2. CASE i \in 1..Len(serial)
    <3>1. /\ PastResult
          /\ \A j \in (i + 1)..Len(serial) : serial[j].kind = "ready" => LeftSession
      BY <1>1, <2>2 DEF SerialOrder
    <3>2. \A j \in (i + 1)..Len(serial') : j \in (i + 1)..Len(serial) \/ j = Len(serial) + 1
      BY <1>1
    <3>3. \A j \in (i + 1)..Len(serial) : j \in 1..Len(serial)
      BY <1>1
    <3> QED BY <1>1, <3>1, <3>2, <3>3 DEF Forward
  <2> QED BY <1>2, <2>1, <2>2
<1>5. ASSUME PastResult, \A j \in 1..Len(serial) : serial[j].kind = "ready" => LeftSession
      PROVE  \A j \in 1..Len(serial') : serial'[j].kind = "ready" => LeftSession'
  BY <1>1, <1>2, <1>5 DEF Forward
<1> QED BY <1>1, <1>3, <1>4, <1>5

(* Nothing printed and nothing read. *)
LEMMA SameKeeps ==
    ASSUME UNCHANGED <<serial, tryNo>>, SerialOwn, SerialOrder, Forward
    PROVE  SerialOwn' /\ SerialOrder'
  BY DEF SerialOwn, SerialOrder, Forward

-----------------------------------------------------------------------------
(* The host's steps that read nothing from the console and leave bridge    *)
(* and board alone.                                                        *)
Aside == UNCHANGED <<serial, bridge, tcp, device, owner, tryNo>>

LEMMA AsideKeeps ==
    ASSUME JobInv, Aside
    PROVE  BridgeOwn' /\ SerialOwn' /\ SerialOrder'
<1>1. Forward
  BY DEF Aside, Forward, PastResult, LeftSession
<1>2. BridgeOwn'
  BY DEF JobInv, Aside, BridgeOwn
<1> QED BY <1>1, <1>2, SameKeeps DEF JobInv, Aside

(* The results the host makes up itself. *)
LEMMA HostResults ==
    /\ NoResult \in Finals /\ NoResult.status = "none" /\ NoResult.stage = "none"
    /\ NoResult.fatal = FALSE
    /\ DeadlineResult \in Finals /\ DeadlineResult.status = "timeout"
    /\ DeadlineResult.stage = "case_deadline" /\ DeadlineResult.fatal = FALSE
    /\ GatewayStartResult \in Finals /\ GatewayStartResult.status = "fail"
    /\ GatewayStartResult.stage = "gateway_start"
  BY DEF NoResult, DeadlineResult, GatewayStartResult, Final, Finals

(* A try that ends without a RESULT. *)
LEMMA EndsWithout ==
    ASSUME JobInv, StartFails \/ WaitRaises \/ WaitFatalServerLog \/ WaitTimeout
    PROVE  JobInv'
<1> DEFINE served == Final("fail", "fatal", TRUE, 0)
           late == Final("timeout", "serial_wait", FALSE, 0)
<1>1. /\ served \in Finals /\ served.stage = "fatal" /\ served.status = "fail"
      /\ late \in Finals /\ late.stage = "serial_wait" /\ late.status = "timeout"
  BY DEF Final, Finals
<1>2. final' \in {GatewayStartResult, served, late} /\ hpc' = "stop"
      /\ UNCHANGED <<job, retry, tryNo, stopped, rearmed, rows, serial, bridge, tcp, device,
                     owner>>
  BY DEF StartFails, WaitRaises, WaitFatalServerLog, WaitTimeout, gateway
<1> HIDE DEF served, late
<1>3. final' \in Finals /\ final'.stage # "session" /\ final'.status # "success"
  BY <1>1, <1>2, HostResults
<1>4. Counts'
  BY <1>2, <1>3 DEF JobInv, Counts
<1>5. FinalOrder' /\ SuccessIsOwn'
  BY <1>2, <1>3 DEF FinalOrder, OwnResult, SuccessIsOwn
<1> QED BY <1>2, <1>4, <1>5, AsideKeeps DEF JobInv, Aside

(* The end of a try and what follows it. *)
LEMMA AfterTry ==
    ASSUME JobInv,
           \/ StartOk \/ RearmTimeout \/ ResetFails \/ Decide \/ NextJob \/ DeadlinePasses
    PROVE  JobInv'
<1>t. Counts /\ final \in Finals /\ rows \in Seq(Finals)
  BY DEF JobInv, Counts
<1>1. CASE StartOk \/ DeadlinePasses
  <2>1. /\ UNCHANGED <<job, retry, stopped, final, rearmed, rows>> /\ Aside
        /\ hpc' = hpc \/ hpc' = "wait"
    BY <1>1 DEF StartOk, DeadlinePasses, gateway, Aside
  <2>2. Counts'
    BY <1>t, <2>1 DEF Counts, Aside
  <2>3. FinalOrder' /\ SuccessIsOwn'
    BY <2>1 DEF JobInv, Aside, FinalOrder, OwnResult, SuccessIsOwn, PastResult, LeftSession
  <2> QED BY <2>1, <2>2, <2>3, AsideKeeps DEF JobInv
<1>2. CASE RearmTimeout
  <2> DEFINE f == Final("fail", "board_rearm", TRUE, 0)
  <2>1. /\ hpc' = "recover" /\ rearmed' = stopped /\ Aside
        /\ final' = IF final.fatal THEN final ELSE f
        /\ UNCHANGED <<job, retry, stopped, rows>>
    BY <1>2 DEF RearmTimeout, gateway, Aside
  <2>2. f \in Finals /\ f.stage = "board_rearm" /\ f.status = "fail"
    BY DEF Final, Finals
  <2> HIDE DEF f
  <2>3. final' \in Finals /\ final'.stage # "session"
        /\ (final'.status = "success" => final' = final)
    BY <1>t, <2>1, <2>2 DEF JobInv, FinalOrder
  <2>4. Counts'
    BY <1>t, <2>1, <2>3 DEF Counts, Aside
  <2>5. FinalOrder' /\ SuccessIsOwn'
    BY <2>1, <2>3 DEF JobInv, Aside, FinalOrder, OwnResult, SuccessIsOwn
  <2> QED BY <2>1, <2>4, <2>5, AsideKeeps DEF JobInv
<1>3. CASE ResetFails
  <2>1. /\ hpc = "reset_wait" /\ hpc' = "decide" /\ Aside
        /\ UNCHANGED <<job, retry, stopped, final, rearmed, rows>>
    BY <1>3 DEF ResetFails, gateway, Aside
  <2>2. Counts'
    BY <1>t, <2>1 DEF Counts, Aside
  <2>3. FinalOrder' /\ SuccessIsOwn'
    BY <2>1 DEF JobInv, Aside, FinalOrder, OwnResult, SuccessIsOwn
  <2> QED BY <2>1, <2>2, <2>3, AsideKeeps DEF JobInv
<1>4. CASE Decide
  <2>1. /\ hpc' \in {"done", "begin"} /\ Aside /\ final' \in {final, DeadlineResult}
        /\ rows' = rows \/ rows' = Append(rows, final')
        /\ retry' = retry \/ (retry' = retry + 1 /\ ~Conclusive)
        /\ UNCHANGED <<job, stopped, rearmed>>
    BY <1>4 DEF Decide, gateway, Aside
  <2>2. final' \in Finals
    BY <1>t, <2>1, HostResults
  <2>3. rows' \in Seq(Finals)
    BY <1>t, <2>1, <2>2
  <2>4. retry' \in 0..Retries
    BY <1>t, <2>1, JobAssumption DEF Counts, Conclusive
  <2>5. Counts'
    BY <1>t, <2>1, <2>2, <2>3, <2>4 DEF Counts, Aside
  <2>6. FinalOrder' /\ SuccessIsOwn'
    BY <2>1, HostResults DEF JobInv, Aside, FinalOrder, OwnResult, SuccessIsOwn
  <2> QED BY <2>1, <2>5, <2>6, AsideKeeps DEF JobInv
<1>5. CASE NextJob
  <2>1. /\ hpc' = "begin" /\ Aside /\ final' = NoResult /\ retry' = 0
        /\ job' = job + 1 /\ job < MaxJobs /\ UNCHANGED <<stopped, rearmed, rows>>
    BY <1>5 DEF NextJob, gateway, Aside
  <2>2. job' \in 0..MaxJobs /\ retry' \in 0..Retries
    BY <1>t, <2>1, JobAssumption DEF Counts
  <2>3. Counts'
    BY <1>t, <2>1, <2>2, HostResults DEF Counts, Aside
  <2>4. FinalOrder' /\ SuccessIsOwn'
    BY <2>1, HostResults DEF FinalOrder, OwnResult, SuccessIsOwn
  <2> QED BY <2>1, <2>3, <2>4, AsideKeeps DEF JobInv
<1> QED BY <1>1, <1>2, <1>3, <1>4, <1>5

(* The start of a try: the console is emptied and the old bridge is gone. *)
LEMMA BeginKeeps ==
    ASSUME JobInv, BeginTry
    PROVE  JobInv'
<1>t. Counts /\ final \in Finals /\ rows \in Seq(Finals)
  BY DEF JobInv, Counts
<1>1. UNCHANGED <<job, retry, stopped, rearmed, device, owner>>
  BY DEF BeginTry
<1>2. CASE expired
  <2>1. hpc' = "done" /\ final' = DeadlineResult /\ rows' = Append(rows, final') /\ Aside
    BY <1>1, <1>2 DEF BeginTry, gateway, Aside
  <2>2. final' \in Finals
    BY <2>1, HostResults
  <2>3. rows' \in Seq(Finals)
    BY <1>t, <2>1, <2>2
  <2>4. Counts'
    BY <1>t, <1>1, <2>1, <2>2, <2>3 DEF Counts, Aside
  <2>5. FinalOrder' /\ SuccessIsOwn'
    BY <2>1, HostResults DEF FinalOrder, OwnResult, SuccessIsOwn
  <2> QED BY <2>1, <2>4, <2>5, AsideKeeps DEF JobInv
<1>3. CASE ~expired
  <2>1. /\ hpc' = "starting" /\ final' = NoResult /\ tryNo' = tryNo + 1 /\ serial' = <<>>
        /\ bridge' = "connecting" /\ tcp' = FALSE /\ rows' = rows
    BY <1>3 DEF BeginTry, reset_input_buffer
  <2>2. Counts'
    BY <1>t, <1>1, <2>1, HostResults DEF Counts
  <2>3. BridgeOwn'
    BY <1>t, <1>1, <2>1 DEF JobInv, Counts, BridgeOwn
  <2>4. SerialOwn' /\ SerialOrder'
    BY <2>1 DEF SerialOwn, SerialOrder
  <2>5. FinalOrder' /\ SuccessIsOwn'
    BY <2>1, HostResults DEF FinalOrder, OwnResult, SuccessIsOwn
  <2> QED BY <2>2, <2>3, <2>4, <2>5 DEF JobInv
<1> QED BY <1>2, <1>3

(* wait_for_result takes the next line. *)
LEMMA WaitReadKeeps ==
    ASSUME JobInv, WaitRead
    PROVE  JobInv'
<1> DEFINE line == Head(serial)
<1>t. Counts /\ final \in Finals /\ serial \in Seq(Lines)
  BY DEF JobInv, Counts
<1>1. /\ hpc = "wait" /\ serial # <<>> /\ serial' = Tail(serial)
      /\ UNCHANGED <<job, retry, tryNo, stopped, rearmed, rows, bridge, tcp, device, owner>>
  BY DEF WaitRead, gateway
<1>2. /\ line = serial[1] /\ line \in Lines /\ 1 \in 1..Len(serial) /\ Len(serial) \in Nat
      /\ Len(serial') = Len(serial) - 1
      /\ \A i \in 1..(Len(serial) - 1) : serial'[i] = serial[i + 1]
  BY <1>t, <1>1, TailFacts
<1>3. /\ line.kind \in {"ready", "result", "fault"} /\ line.from \in Nat
  BY <1>2 DEF Lines
<1>4. serial' \in Seq(Lines) /\ SerialOwn' /\ SerialOrder'
  BY <1>t, <1>1, TailKeeps DEF JobInv
<1>5. BridgeOwn'
  BY <1>1 DEF JobInv, BridgeOwn
<1>6. CASE line.kind = "ready"
  <2>1. hpc' = hpc /\ final' = final
    BY <1>6 DEF WaitRead
  <2>2. Counts'
    BY <1>t, <1>1, <1>4, <2>1 DEF Counts
  <2>3. FinalOrder' /\ SuccessIsOwn'
    BY <1>1, <2>1 DEF JobInv, FinalOrder, OwnResult, SuccessIsOwn
  <2> QED BY <1>4, <1>5, <2>2, <2>3 DEF JobInv
<1>7. CASE line.kind = "fault"
  <2> DEFINE f == Final("fail", "fatal", TRUE, line.from)
  <2>1. hpc' = "stop" /\ final' = f
    BY <1>7, Zenon DEF WaitRead
  <2>2. f \in Finals /\ f.stage = "fatal" /\ f.status = "fail"
    BY <1>3 DEF Final, Finals
  <2> HIDE DEF f
  <2>3. Counts'
    BY <1>t, <1>1, <1>4, <2>1, <2>2 DEF Counts
  <2>4. FinalOrder' /\ SuccessIsOwn'
    BY <2>1, <2>2 DEF FinalOrder, OwnResult, SuccessIsOwn
  <2> QED BY <1>4, <1>5, <2>3, <2>4 DEF JobInv
<1>8. CASE line.kind = "result"
  <2> DEFINE st == IF line.ok THEN "success" ELSE "fail"
             f == Final(st, "session", FALSE, line.from)
  <2>1. hpc' = "stop" /\ final' = f
    BY <1>8, Zenon DEF WaitRead
  <2>2. st \in {"none", "success", "fail", "timeout"}
    OBVIOUS
  <2>3. /\ f \in Finals /\ f.status = st /\ f.stage = "session"
        /\ f.fatal = FALSE /\ f.from = line.from
    <3> HIDE DEF st
    <3> QED BY <1>3, <2>2 DEF Final, Finals
  <2> HIDE DEF f
  <2>4. SuccessIsOwn'
    BY <1>1, <1>2, <1>8, <2>1, <2>3 DEF JobInv, SerialOwn, SuccessIsOwn
  <2>5. ASSUME line.from = tryNo
        PROVE  /\ PastResult
               /\ \A j \in 1..Len(serial') : serial'[j].kind = "ready" => LeftSession
    <3>1. /\ PastResult
          /\ \A j \in 2..Len(serial) : serial[j].kind = "ready" => LeftSession
      BY <1>2, <1>8, <2>5 DEF JobInv, SerialOrder
    <3>2. \A j \in 1..Len(serial') : j + 1 \in 2..Len(serial) /\ serial'[j] = serial[j + 1]
      BY <1>2
    <3> QED BY <3>1, <3>2
  <2>6. FinalOrder'
    BY <1>1, <2>1, <2>3, <2>5 DEF FinalOrder, OwnResult, PastResult, LeftSession
  <2>7. Counts'
    BY <1>t, <1>1, <1>4, <2>1, <2>3 DEF Counts
  <2> QED BY <1>4, <1>5, <2>4, <2>6, <2>7 DEF JobInv
<1> HIDE DEF line
<1> QED BY <1>3, <1>6, <1>7, <1>8

(* stop_session, the waits for READY and the reset of the board. *)
LEMMA StopKeeps ==
    ASSUME JobInv, StopSession \/ RearmRead \/ Recover \/ ResetRead
    PROVE  JobInv'
<1>t. Counts /\ final \in Finals /\ serial \in Seq(Lines)
  BY DEF JobInv, Counts
<1>1. CASE StopSession
  <2>1. /\ hpc = "stop" /\ hpc' = "rearm" /\ stopped' = stopped + 1 /\ bridge' = "off"
        /\ UNCHANGED <<job, retry, tryNo, rearmed, rows, serial, tcp, device, owner>>
    BY <1>1 DEF StopSession
  <2>2. \/ final' = final
        \/ /\ final.stage = "gateway_start"
           /\ final' = [final EXCEPT !.stage = "ble_l2cap_ready_timeout"]
    BY <1>1 DEF StopSession
  <2>3. /\ final' \in Finals /\ final'.status = final.status /\ final'.from = final.from
        /\ final'.stage = "session" => final' = final
    BY <1>t, <2>2 DEF Finals
  <2>4. Counts'
    BY <1>t, <2>1, <2>3 DEF Counts
  <2>5. BridgeOwn'
    BY <2>1 DEF JobInv, BridgeOwn
  <2>6. SerialOwn' /\ SerialOrder'
    BY <2>1, SameKeeps DEF JobInv, Forward, PastResult, LeftSession
  <2>7. FinalOrder' /\ SuccessIsOwn'
    BY <2>1, <2>3
    DEF JobInv, FinalOrder, OwnResult, SuccessIsOwn, PastResult, LeftSession
  <2> QED BY <2>4, <2>5, <2>6, <2>7 DEF JobInv
<1>2. CASE RearmRead \/ ResetRead
  <2>1. /\ serial # <<>> /\ serial' = Tail(serial)
        /\ UNCHANGED <<job, retry, tryNo, stopped, final, rows, bridge, tcp, device, owner>>
        /\ \/ /\ hpc = "rearm" /\ Head(serial).kind = "ready"
              /\ hpc' = "recover" /\ rearmed' = Head(serial).at
           \/ hpc = "rearm" /\ hpc' = hpc /\ rearmed' = rearmed
           \/ hpc = "reset_wait" /\ hpc' \in {"decide", "reset_wait"} /\ rearmed' = rearmed
    BY <1>2 DEF RearmRead, ResetRead, gateway
  <2>2. /\ Head(serial) = serial[1] /\ serial[1] \in Lines /\ 1 \in 1..Len(serial)
        /\ Len(serial) \in Nat /\ Len(serial') = Len(serial) - 1
        /\ \A i \in 1..(Len(serial) - 1) : serial'[i] = serial[i + 1]
    BY <1>t, <2>1, TailFacts
  <2>3. serial' \in Seq(Lines) /\ SerialOwn' /\ SerialOrder'
    BY <1>t, <2>1, TailKeeps DEF JobInv
  <2>4. Counts'
    <3>1. Head(serial).at \in Nat
      BY <2>2 DEF Lines
    <3> QED BY <1>t, <2>1, <2>3, <3>1 DEF Counts
  <2>5. BridgeOwn' /\ SuccessIsOwn'
    BY <2>1 DEF JobInv, BridgeOwn, SuccessIsOwn
  <2>6. \A j \in 1..Len(serial') : j + 1 \in 1..Len(serial) /\ serial'[j] = serial[j + 1]
    BY <2>2
  <2>7. FinalOrder'
    BY <2>1, <2>2, <2>6 DEF JobInv, FinalOrder, OwnResult, PastResult, LeftSession
  <2> QED BY <2>3, <2>4, <2>5, <2>7 DEF JobInv
<1>3. CASE Recover
  <2>1. /\ hpc = "recover"
        /\ UNCHANGED <<job, retry, tryNo, stopped, final, rearmed, rows, bridge, tcp, owner>>
    BY <1>3 DEF Recover, gateway
  <2>2. CASE hpc' = "reset_wait"
    <3>1. /\ hpc' = "reset_wait" /\ device' = "boot" /\ serial' = <<>>
          /\ final.stage = "ble_l2cap_ready_timeout" /\ retry < Retries
      BY <1>3, <2>2 DEF Recover, reset_input_buffer
    <3>2. Counts'
      BY <1>t, <2>1, <3>1 DEF Counts
    <3>3. BridgeOwn' /\ SuccessIsOwn' /\ SerialOwn' /\ SerialOrder'
      BY <2>1, <3>1 DEF JobInv, BridgeOwn, SuccessIsOwn, SerialOwn, SerialOrder
    <3>4. FinalOrder'
      BY <2>1, <3>1 DEF JobInv, FinalOrder, OwnResult
    <3> QED BY <3>2, <3>3, <3>4 DEF JobInv
  <2>3. CASE hpc' # "reset_wait"
    <3>1. hpc' = "decide" /\ Aside
      BY <1>3, <2>1, <2>3 DEF Recover, Aside
    <3>2. Counts'
      BY <1>t, <2>1, <3>1 DEF Counts, Aside
    <3>3. FinalOrder' /\ SuccessIsOwn'
      BY <2>1, <3>1
      DEF JobInv, Aside, FinalOrder, OwnResult, SuccessIsOwn, PastResult, LeftSession
    <3> QED BY <3>1, <3>2, <3>3, AsideKeeps DEF JobInv
  <2> QED BY <2>2, <2>3
<1> QED BY <1>1, <1>2, <1>3

(* A step of the board or the bridge that prints at most one line, is no   *)
(* step of the host, and never goes back behind a RESULT.                  *)
LEMMA BoardKeeps ==
    ASSUME JobInv, UNCHANGED host, Forward, BridgeOwn',
           bridge' \in {"off", "connecting", "linked"},
           device' \in {"boot", "adv", "selecting", "tls", "over", "halted"},
           owner' \in Nat,
           \/ serial' = serial
           \/ \E e \in Lines :
                /\ serial' = Append(serial, e)
                /\ e.kind = "result" /\ e.ok => e.from = tryNo
                /\ e.kind = "result" /\ e.from = tryNo => PastResult'
                /\ e.kind = "ready" /\ PastResult => LeftSession'
    PROVE  JobInv'
<1>t. Counts /\ serial \in Seq(Lines) /\ tryNo' = tryNo /\ hpc' = hpc /\ final' = final
  BY DEF JobInv, Counts, host
<1>1. /\ serial' \in Seq(Lines) /\ SerialOwn' /\ SerialOrder'
      /\ PastResult /\ (\A j \in 1..Len(serial) : serial[j].kind = "ready" => LeftSession)
           => \A j \in 1..Len(serial') : serial'[j].kind = "ready" => LeftSession'
  <2>1. CASE serial' = serial
    BY <1>t, <2>1, SameKeeps DEF JobInv, Forward
  <2>2. CASE \E e \in Lines :
                /\ serial' = Append(serial, e)
                /\ e.kind = "result" /\ e.ok => e.from = tryNo
                /\ e.kind = "result" /\ e.from = tryNo => PastResult'
                /\ e.kind = "ready" /\ PastResult => LeftSession'
    BY <1>t, <2>2, AppendKeeps DEF JobInv
  <2> QED BY <2>1, <2>2
<1>2. Counts'
  BY <1>t, <1>1 DEF Counts, host
<1>3. FinalOrder'
  BY <1>t, <1>1 DEF JobInv, FinalOrder, OwnResult, Forward
<1>4. SuccessIsOwn'
  BY <1>t DEF JobInv, SuccessIsOwn
<1> QED BY <1>1, <1>2, <1>3, <1>4 DEF JobInv

(* The bridge: it connects only before the board has seen this try. *)
LEMMA BridgeKeeps ==
    ASSUME JobInv, BridgeStep
    PROVE  JobInv'
<1>t. Counts /\ BridgeOwn /\ owner \in Nat /\ tryNo \in Nat /\ stopped \in Nat
      /\ device \in {"boot", "adv", "selecting", "tls", "over", "halted"}
  BY DEF JobInv, Counts
<1>1. CASE BridgeConnects
  <2> DEFINE e == [Line("ready", TRUE) EXCEPT !.from = tryNo]
  <2>1. /\ bridge = "connecting" /\ bridge' = "linked" /\ device' = "selecting"
        /\ owner' = tryNo /\ tcp' = tcp /\ serial' = Append(serial, e) /\ UNCHANGED host
    BY <1>1 DEF BridgeConnects
  <2>2. e \in Lines /\ e.kind = "ready"
    BY <1>t DEF Line, Lines
  <2> HIDE DEF e
  <2>3. ~PastResult
    BY <2>1 DEF PastResult
  <2>4. BridgeOwn'
    BY <1>t, <2>1 DEF BridgeOwn, host
  <2> QED BY <1>t, <2>1, <2>2, <2>3, <2>4, BoardKeeps DEF Forward
<1>2. CASE BridgeSelects
  <2>1. /\ UNCHANGED <<serial, bridge, tcp, owner>> /\ UNCHANGED host
        /\ device = "selecting" /\ device' = "tls"
    BY <1>2 DEF BridgeSelects, gateway
  <2>2. Forward
    BY <2>1 DEF Forward, PastResult
  <2>3. BridgeOwn'
    BY <1>t, <2>1 DEF BridgeOwn, host
  <2> QED BY <1>t, <2>1, <2>2, <2>3, BoardKeeps DEF Counts
<1>3. CASE BridgeTcp \/ BridgeDies
  <2>1. /\ UNCHANGED <<serial, device, owner>> /\ UNCHANGED host
        /\ \/ bridge' = "off" /\ tcp' = tcp
           \/ bridge = "linked" /\ bridge' = bridge
    BY <1>3 DEF BridgeTcp, BridgeDies
  <2>2. Forward
    BY <2>1 DEF Forward, PastResult, LeftSession
  <2>3. BridgeOwn'
    BY <1>t, <2>1 DEF BridgeOwn, host
  <2> QED BY <1>t, <2>1, <2>2, <2>3, BoardKeeps DEF Counts
<1> QED BY <1>1, <1>2, <1>3 DEF BridgeStep

(* The board's main loop. *)
LEMMA BoardStepKeeps ==
    ASSUME JobInv, BoardStep
    PROVE  JobInv'
<1>t. Counts /\ BridgeOwn /\ owner \in Nat /\ tryNo \in Nat /\ stopped \in Nat
      /\ bridge \in {"off", "connecting", "linked"}
  BY DEF JobInv, Counts
<1>h. ASSUME HangUp, UNCHANGED <<tcp, owner>>, UNCHANGED host
      PROVE  /\ BridgeOwn' /\ bridge' \in {"off", "connecting", "linked"}
             /\ bridge # "connecting" => bridge' # "connecting"
  BY <1>t, <1>h DEF HangUp, BridgeOwn, host
<1>1. CASE SelectionTimeout
  <2> DEFINE e == Line("result", FALSE)
  <2>1. /\ device = "selecting" /\ device' = "adv" /\ HangUp /\ serial' = Append(serial, e)
        /\ UNCHANGED host /\ UNCHANGED <<tcp, owner>>
    BY <1>1 DEF SelectionTimeout
  <2>2. e \in Lines /\ e.kind = "result" /\ e.ok = FALSE /\ e.from = owner
    BY <1>t, LineFacts
  <2> HIDE DEF e
  <2>3. Forward
    BY <2>1 DEF Forward, PastResult
  <2>4. e.from = tryNo => PastResult'
    BY <1>t, <1>h, <2>1, <2>2 DEF BridgeOwn, PastResult
  <2> QED BY <1>t, <1>h, <2>1, <2>2, <2>3, <2>4, BoardKeeps
<1>2. CASE SelectionRefused \/ BoardReboots
  <2>1. /\ device \in {"selecting", "over"} /\ device' \in {"adv", "boot"} /\ HangUp
        /\ UNCHANGED host /\ UNCHANGED <<serial, tcp, owner>>
    BY <1>2 DEF SelectionRefused, BoardReboots
  <2>2. Forward
    BY <1>h, <2>1 DEF Forward, PastResult, LeftSession
  <2> QED BY <1>t, <1>h, <2>1, <2>2, BoardKeeps
<1>3. ASSUME NEW ok \in BOOLEAN, SessionResult(ok) PROVE JobInv'
  <2> DEFINE e == Line("result", ok)
  <2>1. /\ device = "tls" /\ device' = "over" /\ serial' = Append(serial, e) /\ (ok => tcp)
        /\ UNCHANGED host /\ UNCHANGED <<bridge, tcp, owner>>
    BY <1>3 DEF SessionResult, gateway
  <2>2. e \in Lines /\ e.kind = "result" /\ e.ok = ok /\ e.from = owner
    BY <1>t, LineFacts
  <2> HIDE DEF e
  <2>3. Forward
    BY <2>1 DEF Forward, PastResult
  <2>4. e.from = tryNo => PastResult'
    BY <1>t, <2>1, <2>2 DEF BridgeOwn, PastResult
  <2>5. e.ok => e.from = tryNo
    BY <1>t, <2>1, <2>2 DEF BridgeOwn
  <2>6. BridgeOwn'
    BY <1>t, <2>1 DEF BridgeOwn, host
  <2> QED BY <1>t, <2>1, <2>2, <2>3, <2>4, <2>5, <2>6, BoardKeeps
<1>4. CASE BoardFault
  <2> DEFINE e == Line("fault", FALSE)
  <2>1. /\ device = "tls" /\ device' = "halted" /\ HangUp /\ serial' = Append(serial, e)
        /\ UNCHANGED host /\ UNCHANGED <<tcp, owner>>
    BY <1>4 DEF BoardFault
  <2>2. e \in Lines /\ e.kind = "fault"
    BY <1>t, LineFacts
  <2> HIDE DEF e
  <2>3. Forward
    BY <2>1 DEF Forward, PastResult
  <2> QED BY <1>t, <1>h, <2>1, <2>2, <2>3, BoardKeeps
<1>5. CASE BoardReady \/ IdleReady
  <2> DEFINE e == Line("ready", TRUE)
  <2>1. /\ device \in {"boot", "adv"} /\ device' = "adv" /\ serial' = Append(serial, e)
        /\ UNCHANGED host /\ UNCHANGED <<bridge, tcp, owner>>
    BY <1>5 DEF BoardReady, IdleReady, gateway
  <2>2. e \in Lines /\ e.kind = "ready"
    BY <1>t, LineFacts
  <2> HIDE DEF e
  <2>3. Forward /\ LeftSession'
    BY <2>1 DEF Forward, PastResult, LeftSession
  <2>4. BridgeOwn'
    BY <1>t, <2>1 DEF BridgeOwn, host
  <2> QED BY <1>t, <2>1, <2>2, <2>3, <2>4, BoardKeeps
<1> QED BY <1>1, <1>2, <1>3, <1>4, <1>5 DEF BoardStep

(* Every step of host, bridge and board keeps the invariant. *)
LEMMA JobStep ==
    ASSUME JobInv, [JobNext]_jobVars
    PROVE  JobInv'
<1>1. CASE HostStep \/ WaitEvent
  BY <1>1, EndsWithout, AfterTry, BeginKeeps, WaitReadKeeps, StopKeeps
  DEF HostStep, WaitEvent
<1>2. CASE BridgeStep
  BY <1>2, BridgeKeeps
<1>3. CASE BoardStep
  BY <1>3, BoardStepKeeps
<1>4. CASE UNCHANGED jobVars
  <2>1. Aside /\ Counts'
    BY <1>4 DEF jobVars, host, gateway, Aside, JobInv, Counts
  <2>2. FinalOrder' /\ SuccessIsOwn'
    BY <1>4
    DEF jobVars, host, gateway, JobInv, FinalOrder, OwnResult, SuccessIsOwn, PastResult,
        LeftSession
  <2> QED BY <2>1, <2>2, AsideKeeps DEF JobInv
<1> QED BY <1>1, <1>2, <1>3, <1>4 DEF JobNext, JobsFinished

(* The first block finds an advertising board and an empty console. *)
LEMMA InitJob == JobInit => JobInv
<1> SUFFICES ASSUME JobInit PROVE JobInv
  OBVIOUS
<1>1. Counts
  BY JobAssumption, HostResults DEF JobInit, Counts
<1>2. BridgeOwn /\ SerialOwn /\ SerialOrder
  BY DEF JobInit, BridgeOwn, SerialOwn, SerialOrder
<1>3. FinalOrder /\ SuccessIsOwn
  BY HostResults DEF JobInit, FinalOrder, OwnResult, SuccessIsOwn
<1> QED BY <1>1, <1>2, <1>3 DEF JobInv

(* JobInv holds in every reachable state. *)
LEMMA JobInvariant == JobSpec => []JobInv
<1>1. JobInv /\ [JobNext]_jobVars => JobInv'
  BY JobStep
<1> QED BY <1>1, InitJob, PTL DEF JobSpec

(* The flags stay flags. *)
LEMMA FlagsStep ==
    ASSUME Flags, [JobNext]_jobVars
    PROVE  Flags'
<1> USE DEF Flags
<1>1. CASE HostStep
  <2>1. CASE BeginTry \/ StartOk \/ StartFails \/ WaitRead \/ WaitTimeout \/ StopSession
    BY <2>1, Zenon
    DEF BeginTry, StartOk, StartFails, WaitRead, WaitTimeout, StopSession, gateway
  <2>2. CASE \/ RearmRead \/ RearmTimeout \/ Recover \/ ResetRead \/ ResetFails \/ Decide
             \/ NextJob
    BY <2>2, Zenon
    DEF RearmRead, RearmTimeout, Recover, ResetRead, ResetFails, Decide, NextJob, gateway
  <2> QED BY <1>1, <2>1, <2>2 DEF HostStep
<1>2. CASE WaitEvent
  BY <1>2, Zenon DEF WaitEvent, WaitFatalServerLog, WaitRaises, DeadlinePasses, gateway
<1>3. CASE BridgeStep
  BY <1>3, Zenon
  DEF BridgeStep, BridgeConnects, BridgeSelects, BridgeTcp, BridgeDies, host, gateway
<1>4. CASE BoardStep
  BY <1>4, Zenon
  DEF BoardStep, SelectionTimeout, SelectionRefused, SessionResult, BoardFault,
      BoardReboots, BoardReady, IdleReady, host, gateway
<1>5. CASE UNCHANGED jobVars
  BY <1>5, Zenon DEF jobVars, host, gateway
<1> QED BY <1>1, <1>2, <1>3, <1>4, <1>5 DEF JobNext, JobsFinished

-----------------------------------------------------------------------------
(* Host, console, bridge and board keep their types: the retry counter     *)
(* stays within args.reconnect_retries.                                    *)
THEOREM JobTypeCorrect == JobSpec => []JobTypeOK
<1>1. JobInit => Flags
  BY Zenon DEF JobInit, Flags
<1>2. Flags /\ [JobNext]_jobVars => Flags'
  BY FlagsStep
<1>3. JobInv /\ Flags => JobTypeOK
  BY DEF JobInv, Counts, Flags, JobTypeOK
<1> QED BY <1>1, <1>2, <1>3, JobInvariant, PTL DEF JobSpec

(* For any number of blocks and retries, a success is taken from a RESULT  *)
(* that the board printed in the session of that very try.                 *)
THEOREM SuccessOwned == JobSpec => []SuccessIsOwn
<1>1. JobInv => SuccessIsOwn
  BY DEF JobInv
<1> QED BY <1>1, JobInvariant, PTL

(* After its own RESULT, a try goes on only when the board has left that   *)
(* session: no READY printed before the RESULT can be taken for the        *)
(* rearmed board's.                                                        *)
THEOREM RearmedAfterResult == JobSpec => []ArmedAfterOwnResult
<1>1. JobInv => ArmedAfterOwnResult
  BY DEF JobInv, FinalOrder, OwnResult, LeftSession, ArmedAfterOwnResult
<1> QED BY <1>1, JobInvariant, PTL
=============================================================================
