---------------------------- MODULE ResultsProofs ----------------------------
(* What is proved of Results, for every set of cases and of blocks, any      *)
(* number of starts and whatever stops the runner.                           *)
EXTENDS Results, DataTheorems

(***************************************************************************)
(* Files and memory.  The memory of a running process is what is on disk,  *)
(* or one block ahead of it; so is what a summary was made from, and the   *)
(* file only grows after it.                                               *)
(***************************************************************************)
FileTypes ==
    /\ attempts \in [Cases -> Seq(Attempts)] /\ transmissions \in [Cases -> Seq(Transfers)]
    /\ basis \in [Cases -> Seq(Attempts)] /\ tbasis \in [Cases -> Seq(Transfers)]

\* mem holds what the files hold, but for one block of one case
Ahead(mem, file, lost) ==
    mem = file \/ \E c \in Cases : \E x \in lost : mem = [file EXCEPT ![c] = @ \o x]

InMemory ==
    /\ pc \in {"row", "rows", "extended"} =>
           pending[1].case \in Cases /\ pending[1].block \in Blocks
    /\ pc \in {"loop", "rows", "extended"} => memory = attempts
    /\ pc \in {"loop", "row", "rows"} => tmemory = transmissions
    /\ pc = "row" =>
           memory = [attempts EXCEPT ![pending[1].case] = @ \o <<pending[1].block.row>>]
    /\ pc = "extended" =>
           tmemory = [transmissions EXCEPT ![pending[1].case] = @ \o pending[1].block.transfers]
    /\ pc = "summaries" => Ahead(tmemory, transmissions, LostTransfers)

\* what a summary was made from, against the files
Drift(base, file, lost) ==
    /\ \A c \in Cases : OnDiskBut(base[c], file[c], lost)
    /\ \A c, d \in Cases : c # d => OnDisk(base[c], file[c]) \/ OnDisk(base[d], file[d])

\* the figures of a row of summary.csv
About(row, rows) ==
    /\ row.hs = Mean(rows, Successes(rows), "hs") /\ row.kem = Mean(rows, Successes(rows), "kem")
    /\ row.sig = Mean(rows, Successes(rows), "sig")
    /\ row.comm = Mean(rows, Successes(rows), "comm")
    /\ row.energy = Mean(rows, Powered(rows), "energy")

Summaries ==
    /\ Drift(basis, attempts, LostRows) /\ Drift(tbasis, transmissions, LostTransfers)
    /\ \A c \in Cases : /\ About(summary.of[c], basis[c])
                        /\ tsummary.of[c] = summarize_transfers(tbasis[c])

RecordInv == FileTypes /\ InMemory /\ Summaries

(* A row of the summary is about the rows it was taken from. *)
LEMMA AboutSummarize == ASSUME NEW rows PROVE About(summarize(rows), rows)
BY DEF About, summarize

LEMMA AboutDryRow == About(DryRow, <<>>)
BY DEF About, summarize, DryRow

(* The first rows of a file stay when rows are appended. *)
LEMMA PrefixConcat ==
    ASSUME NEW S, NEW s \in Seq(S), NEW t \in Seq(S), NEW k \in 0..Len(s)
    PROVE  /\ SubSeq(s \o t, 1, k) = SubSeq(s, 1, k)
           /\ Len(s) \in Nat /\ Len(s \o t) = Len(s) + Len(t) /\ Len(t) \in Nat
OBVIOUS

LEMMA PrefixWhole ==
    ASSUME NEW S, NEW s \in Seq(S)
    PROVE  SubSeq(s, 1, Len(s)) = s /\ Len(s) \in 0..Len(s) /\ s \o <<>> = s
OBVIOUS

LEMMA PrefixNone ==
    ASSUME NEW S, NEW s \in Seq(S)
    PROVE  SubSeq(s, 1, 0) = <<>> /\ 0 \in 0..Len(s) /\ <<>> \o <<>> = <<>> /\ Len(<<>>) = 0
OBVIOUS

(* What was on disk, but for a block, is so when the file has grown. *)
LEMMA OnDiskGrows ==
    ASSUME NEW S, NEW s \in Seq(S), NEW t \in Seq(S), NEW r, NEW lost
    PROVE  /\ r \in Seq(S) /\ OnDisk(r, s) => OnDisk(r, s \o t)
           /\ OnDiskBut(r, s, lost) => OnDiskBut(r, s \o t, lost)
<1>1. ASSUME r \in Seq(S), OnDisk(r, s) PROVE OnDisk(r, s \o t)
  <2>1. Len(r) \in 0..Len(s) /\ r = SubSeq(s, 1, Len(r)) BY <1>1 DEF OnDisk
  <2> DEFINE k == Len(r)
  <2> HIDE DEF k
  <2>2. k \in 0..Len(s) BY <2>1 DEF k
  <2>3. /\ SubSeq(s \o t, 1, k) = SubSeq(s, 1, k)
        /\ Len(s) \in Nat /\ Len(s \o t) = Len(s) + Len(t) /\ Len(t) \in Nat
    BY <2>2, PrefixConcat
  <2>4. k <= Len(s \o t) BY <2>2, <2>3
  <2> QED BY <2>1, <2>3, <2>4 DEF OnDisk, k
<1>2. ASSUME OnDiskBut(r, s, lost) PROVE OnDiskBut(r, s \o t, lost)
  <2>1. PICK k \in 0..Len(s), x \in lost \cup {<<>>} : r = SubSeq(s, 1, k) \o x
    BY <1>2 DEF OnDiskBut
  <2>2. /\ SubSeq(s \o t, 1, k) = SubSeq(s, 1, k)
        /\ Len(s) \in Nat /\ Len(s \o t) = Len(s) + Len(t) /\ Len(t) \in Nat
    BY PrefixConcat
  <2>3. k \in 0..Len(s \o t) BY <2>2
  <2> QED BY <2>1, <2>2, <2>3 DEF OnDiskBut
<1> QED BY <1>1, <1>2

LEMMA DriftGrows ==
    ASSUME NEW S, NEW file \in [Cases -> Seq(S)], NEW base \in [Cases -> Seq(S)], NEW lost,
           NEW c \in Cases, NEW t \in Seq(S), Drift(base, file, lost)
    PROVE  Drift(base, [file EXCEPT ![c] = @ \o t], lost)
<1> DEFINE grown == [file EXCEPT ![c] = @ \o t]
<1>1. ASSUME NEW d \in Cases PROVE grown[d] = file[d] \/ grown[d] = file[d] \o t OBVIOUS
<1>2. \A d \in Cases : file[d] \in Seq(S) /\ base[d] \in Seq(S) OBVIOUS
<1> HIDE DEF grown
<1>3. ASSUME NEW d \in Cases PROVE OnDiskBut(base[d], grown[d], lost)
  <2>1. OnDiskBut(base[d], file[d], lost) BY DEF Drift
  <2> QED BY <1>1, <1>2, <2>1, OnDiskGrows
<1>4. ASSUME NEW d \in Cases, OnDisk(base[d], file[d]) PROVE OnDisk(base[d], grown[d])
  BY <1>1, <1>2, <1>4, OnDiskGrows
<1>5. \A d, e \in Cases : d # e => OnDisk(base[d], grown[d]) \/ OnDisk(base[e], grown[e])
  BY <1>4 DEF Drift
<1> QED BY <1>3, <1>5 DEF Drift, grown

(* Memory that is a block ahead at most has drifted so far and no further. *)
LEMMA DriftAhead ==
    ASSUME NEW S, NEW file \in [Cases -> Seq(S)], NEW lost \in SUBSET Seq(S), NEW mem,
           Ahead(mem, file, lost)
    PROVE  mem \in [Cases -> Seq(S)] /\ Drift(mem, file, lost)
<1>1. ASSUME NEW s \in Seq(S) PROVE OnDisk(s, s) /\ OnDiskBut(s, s, lost)
  <2>1. SubSeq(s, 1, Len(s)) = s /\ Len(s) \in 0..Len(s) /\ s \o <<>> = s BY PrefixWhole
  <2>2. OnDisk(s, s) BY <2>1 DEF OnDisk
  <2>3. s = SubSeq(s, 1, Len(s)) \o <<>> /\ <<>> \in lost \cup {<<>>} BY <2>1
  <2>4. OnDiskBut(s, s, lost) BY <2>1, <2>3 DEF OnDiskBut
  <2> QED BY <2>2, <2>4
<1>2. \A d \in Cases : file[d] \in Seq(S) OBVIOUS
<1>3. CASE mem = file
  <2>1. \A d \in Cases : OnDisk(mem[d], file[d]) /\ OnDiskBut(mem[d], file[d], lost)
    BY <1>1, <1>2, <1>3
  <2> QED BY <1>3, <2>1 DEF Drift
<1>4. ASSUME NEW c \in Cases, NEW x \in lost, mem = [file EXCEPT ![c] = @ \o x]
      PROVE  mem \in [Cases -> Seq(S)] /\ Drift(mem, file, lost)
  <2>1. x \in Seq(S) OBVIOUS
  <2>2. mem \in [Cases -> Seq(S)] BY <1>2, <1>4, <2>1
  <2>3. /\ mem[c] = file[c] \o x
        /\ \A d \in Cases : d # c => mem[d] = file[d]
    BY <1>4
  <2>4. OnDiskBut(mem[c], file[c], lost)
    <3>1. /\ SubSeq(file[c], 1, Len(file[c])) = file[c] /\ Len(file[c]) \in 0..Len(file[c])
      BY <1>2, PrefixWhole
    <3>2. mem[c] = SubSeq(file[c], 1, Len(file[c])) \o x BY <2>3, <3>1
    <3> QED BY <3>1, <3>2 DEF OnDiskBut
  <2>5. \A d \in Cases : d # c => OnDisk(mem[d], file[d]) /\ OnDiskBut(mem[d], file[d], lost)
    BY <1>1, <1>2, <2>3
  <2>6. Drift(mem, file, lost) BY <2>4, <2>5 DEF Drift
  <2> QED BY <2>2, <2>6
<1> QED BY <1>3, <1>4 DEF Ahead

(* An empty summary is of no row. *)
LEMMA DriftNone ==
    ASSUME NEW S, NEW file \in [Cases -> Seq(S)], NEW lost
    PROVE  NoRows \in [Cases -> Seq(S)] /\ Drift(NoRows, file, lost)
<1>1. ASSUME NEW c \in Cases PROVE OnDisk(NoRows[c], file[c]) /\ OnDiskBut(NoRows[c], file[c], lost)
  <2>1. NoRows[c] = <<>> BY DEF NoRows
  <2>2. /\ SubSeq(file[c], 1, 0) = <<>> /\ 0 \in 0..Len(file[c]) /\ <<>> \o <<>> = <<>>
        /\ Len(<<>>) = 0
    BY PrefixNone
  <2>3. 0 <= Len(file[c]) BY <2>2
  <2>4. OnDisk(<<>>, file[c]) BY <2>2, <2>3 DEF OnDisk
  <2>5. <<>> = SubSeq(file[c], 1, 0) \o <<>> /\ <<>> \in lost \cup {<<>>} BY <2>2
  <2>6. OnDiskBut(<<>>, file[c], lost) BY <2>2, <2>5 DEF OnDiskBut
  <2> QED BY <2>1, <2>4, <2>6
<1>2. <<>> \in Seq(S) OBVIOUS
<1>3. NoRows \in [Cases -> Seq(S)] BY <1>2 DEF NoRows
<1> QED BY <1>1, <1>3 DEF Drift

LEMMA LostTyped ==
    /\ LostRows \in SUBSET Seq(Attempts) /\ LostTransfers \in SUBSET Seq(Transfers)
    /\ \A b \in Blocks : /\ b.row \in Attempts /\ <<b.row>> \in LostRows
                         /\ <<b.row>> \in Seq(Attempts)
                         /\ b.transfers \in LostTransfers /\ b.transfers \in Seq(Transfers)
<1>1. \A b \in Blocks : b.row \in Attempts /\ b.transfers \in Seq(Transfers) BY BlocksAssumption
<1>2. \A b \in Blocks : <<b.row>> \in Seq(Attempts) BY <1>1
<1> QED BY <1>1, <1>2 DEF LostRows, LostTransfers

(* RecordInv holds of the empty directory, and in every reachable state. *)
LEMMA RecordInit == Init => RecordInv
<1> SUFFICES ASSUME Init PROVE RecordInv OBVIOUS
<1>1. /\ attempts = NoRows /\ transmissions = NoRows /\ basis = NoRows
      /\ tbasis = NoRows /\ pc = "down"
      /\ summary = NoSummary /\ tsummary = NoTransferSummary
  BY DEF Init
<1>2. <<>> \in Seq(Attempts) /\ <<>> \in Seq(Transfers) OBVIOUS
<1>3. FileTypes BY <1>1, <1>2 DEF FileTypes, NoRows
<1>4. \A c \in Cases : summary.of[c] = DryRow /\ tsummary.of[c] = summarize_transfers(<<>>)
  BY <1>1 DEF NoSummary, NoTransferSummary
<1>5. Drift(basis, attempts, LostRows) /\ Drift(tbasis, transmissions, LostTransfers)
  BY <1>1, <1>3, DriftNone DEF FileTypes
<1>6. \A c \in Cases : basis[c] = <<>> /\ tbasis[c] = <<>> BY <1>1 DEF NoRows
<1>7. Summaries BY <1>4, <1>5, <1>6, AboutDryRow DEF Summaries
<1> QED BY <1>1, <1>3, <1>7 DEF RecordInv, InMemory

LEMMA RecordStep == ASSUME RecordInv, [Next]_vars PROVE RecordInv'
<1> USE DEF RecordInv
<1>1. CASE Start
  BY <1>1 DEF Start, files, FileTypes, InMemory, Summaries
<1>2. CASE DryRun
  <2>1. /\ UNCHANGED <<pc, attempts, transmissions, memory, tmemory, pending>>
        /\ basis' = NoRows /\ tbasis' = NoRows
        /\ summary' = EmptySummary /\ tsummary' = [NoTransferSummary EXCEPT !.on = TRUE]
    BY <1>2 DEF DryRun
  <2>2. /\ NoRows \in [Cases -> Seq(Attempts)] /\ Drift(NoRows, attempts, LostRows)
        /\ NoRows \in [Cases -> Seq(Transfers)] /\ Drift(NoRows, transmissions, LostTransfers)
    BY DriftNone DEF FileTypes
  <2>3. FileTypes' BY <2>1, <2>2 DEF FileTypes
  <2>4. \A c \in Cases : summary'.of[c] = DryRow /\ tsummary'.of[c] = summarize_transfers(<<>>)
    BY <2>1 DEF EmptySummary, NoTransferSummary
  <2>5. \A c \in Cases : basis'[c] = <<>> /\ tbasis'[c] = <<>> BY <2>1 DEF NoRows
  <2>6. Summaries' BY <2>1, <2>2, <2>4, <2>5, AboutDryRow DEF Summaries
  <2> QED BY <2>1, <2>3, <2>6 DEF InMemory
<1>3. ASSUME NEW c \in Cases, NEW b \in Blocks, RunBlock(c, b) PROVE RecordInv'
  <2>1. /\ pc = "loop" /\ pc' = "row"
        /\ memory' = [memory EXCEPT ![c] = Append(@, b.row)]
        /\ pending' = <<[case |-> c, block |-> b]>>
        /\ UNCHANGED <<files, tmemory>>
    BY <1>3 DEF RunBlock
  <2>2. UNCHANGED <<attempts, transmissions, summary, tsummary, basis, tbasis>>
    BY <2>1 DEF files
  <2>3. memory = attempts /\ tmemory = transmissions BY <2>1 DEF InMemory
  <2>4. Append(attempts[c], b.row) = attempts[c] \o <<b.row>>
    <3>1. attempts[c] \in Seq(Attempts) /\ b.row \in Attempts BY LostTyped DEF FileTypes
    <3> QED BY <3>1
  <2>5. memory' = [attempts EXCEPT ![c] = @ \o <<b.row>>] BY <2>1, <2>3, <2>4
  <2>6. pending'[1].case = c /\ pending'[1].block = b BY <2>1
  <2>7. InMemory' BY <2>1, <2>2, <2>3, <2>5, <2>6 DEF InMemory
  <2> QED BY <2>2, <2>7 DEF FileTypes, Summaries
<1>4. CASE WriteAttempts
  <2> DEFINE c == pending[1].case
             t == <<pending[1].block.row>>
  <2>1. /\ pc = "row" /\ pc' = "rows"
        /\ attempts' = [attempts EXCEPT ![c] = memory[c]]
        /\ UNCHANGED <<transmissions, memory, tmemory, pending>>
        /\ UNCHANGED <<summary, tsummary, basis, tbasis>>
    BY <1>4 DEF WriteAttempts, summaries
  <2>2. c \in Cases /\ pending[1].block \in Blocks BY <2>1 DEF InMemory
  <2>3. t \in Seq(Attempts) BY <2>2, LostTyped
  <2>4. memory = [attempts EXCEPT ![c] = @ \o t] /\ tmemory = transmissions
    BY <2>1 DEF InMemory
  <2> HIDE DEF c, t
  <2>5. attempts' = memory' /\ attempts' = [attempts EXCEPT ![c] = @ \o t]
    BY <2>1, <2>2, <2>4 DEF FileTypes
  <2>6. InMemory' BY <2>1, <2>2, <2>4, <2>5 DEF InMemory, c
  <2>7. FileTypes' BY <2>1, <2>2, <2>3, <2>5 DEF FileTypes
  <2>8. Drift(basis, attempts', LostRows)
    <3>1. /\ attempts \in [Cases -> Seq(Attempts)] /\ basis \in [Cases -> Seq(Attempts)]
          /\ Drift(basis, attempts, LostRows)
      BY DEF FileTypes, Summaries
    <3>2. Drift(basis, [attempts EXCEPT ![c] = @ \o t], LostRows)
      BY <2>2, <2>3, <3>1, DriftGrows
    <3> QED BY <2>5, <3>2
  <2>9. Summaries' BY <2>1, <2>8 DEF Summaries
  <2> QED BY <2>6, <2>7, <2>9
<1>5. CASE ExtendTransmissions
  <2> DEFINE c == pending[1].case
             t == pending[1].block.transfers
  <2>1. /\ pc = "rows" /\ pc' = "extended"
        /\ tmemory' = [tmemory EXCEPT ![c] = @ \o t]
        /\ UNCHANGED <<files, memory, pending>>
    BY <1>5 DEF ExtendTransmissions
  <2>2. UNCHANGED <<attempts, transmissions, summary, tsummary, basis, tbasis>>
    BY <2>1 DEF files
  <2>3. /\ c \in Cases /\ pending[1].block \in Blocks
        /\ memory = attempts /\ tmemory = transmissions
    BY <2>1 DEF InMemory
  <2>4. InMemory' BY <2>1, <2>2, <2>3 DEF InMemory
  <2> QED BY <2>2, <2>4 DEF FileTypes, Summaries
<1>6. CASE WriteTransmissions
  <2> DEFINE c == pending[1].case
             t == pending[1].block.transfers
  <2>1. /\ pc = "extended" /\ pc' = "loop"
        /\ transmissions' = [transmissions EXCEPT ![c] = tmemory[c]]
        /\ UNCHANGED <<attempts, memory, tmemory>>
        /\ UNCHANGED <<summary, tsummary, basis, tbasis>>
    BY <1>6 DEF WriteTransmissions, summaries
  <2>2. c \in Cases /\ pending[1].block \in Blocks BY <2>1 DEF InMemory
  <2>3. t \in Seq(Transfers) BY <2>2, LostTyped
  <2>4. memory = attempts /\ tmemory = [transmissions EXCEPT ![c] = @ \o t]
    BY <2>1 DEF InMemory
  <2> HIDE DEF c, t
  <2>5. transmissions' = tmemory' /\ transmissions' = [transmissions EXCEPT ![c] = @ \o t]
    BY <2>1, <2>2, <2>4 DEF FileTypes
  <2>6. InMemory' BY <2>1, <2>4, <2>5 DEF InMemory
  <2>7. FileTypes' BY <2>1, <2>2, <2>3, <2>5 DEF FileTypes
  <2>8. Drift(tbasis, transmissions', LostTransfers)
    <3>1. /\ transmissions \in [Cases -> Seq(Transfers)]
          /\ tbasis \in [Cases -> Seq(Transfers)]
          /\ Drift(tbasis, transmissions, LostTransfers)
      BY DEF FileTypes, Summaries
    <3>2. Drift(tbasis, [transmissions EXCEPT ![c] = @ \o t], LostTransfers)
      BY <2>2, <2>3, <3>1, DriftGrows
    <3> QED BY <2>5, <3>2
  <2>9. Summaries' BY <2>1, <2>8 DEF Summaries
  <2> QED BY <2>6, <2>7, <2>9
<1>7. CASE WriteSummary
  <2>1. /\ pc \in {"loop", "row", "rows", "extended"} /\ pc' = "summaries"
        /\ summary' = [on |-> TRUE, of |-> [c \in Cases |-> summarize(memory[c])]]
        /\ basis' = memory
        /\ UNCHANGED <<attempts, transmissions, memory, tmemory, tsummary, tbasis>>
    BY <1>7 DEF WriteSummary
  <2>2. Ahead(memory, attempts, LostRows)
    <3>1. CASE pc = "row"
      <4>1. /\ pending[1].case \in Cases /\ pending[1].block \in Blocks
            /\ memory = [attempts EXCEPT ![pending[1].case] = @ \o <<pending[1].block.row>>]
        BY <3>1 DEF InMemory
      <4>2. <<pending[1].block.row>> \in LostRows BY <4>1, LostTyped
      <4> QED BY <4>1, <4>2 DEF Ahead
    <3>2. CASE pc # "row" BY <2>1, <3>2 DEF InMemory, Ahead
    <3> QED BY <3>1, <3>2
  <2>3. Ahead(tmemory, transmissions, LostTransfers)
    <3>1. CASE pc = "extended"
      <4>1. /\ pending[1].case \in Cases /\ pending[1].block \in Blocks
            /\ tmemory = [transmissions EXCEPT ![pending[1].case]
                                                   = @ \o pending[1].block.transfers]
        BY <3>1 DEF InMemory
      <4>2. pending[1].block.transfers \in LostTransfers BY <4>1, LostTyped
      <4> QED BY <4>1, <4>2 DEF Ahead
    <3>2. CASE pc # "extended" BY <2>1, <3>2 DEF InMemory, Ahead
    <3> QED BY <3>1, <3>2
  <2>4. basis' \in [Cases -> Seq(Attempts)] /\ Drift(basis', attempts, LostRows)
    BY <2>1, <2>2, LostTyped, DriftAhead DEF FileTypes
  <2>5. FileTypes' BY <2>1, <2>4 DEF FileTypes
  <2>6. \A c \in Cases : About(summary'.of[c], basis'[c])
    BY <2>1, AboutSummarize
  <2>7. Summaries' BY <2>1, <2>4, <2>6 DEF Summaries
  <2>8. InMemory' BY <2>1, <2>3 DEF InMemory
  <2> QED BY <2>5, <2>7, <2>8
<1>8. CASE WriteTransferSummary
  <2>1. /\ pc = "summaries" /\ pc' = "down"
        /\ tsummary' = [on |-> TRUE, of |-> [c \in Cases |-> summarize_transfers(tmemory[c])]]
        /\ tbasis' = tmemory
        /\ UNCHANGED <<attempts, transmissions, summary, basis>>
    BY <1>8 DEF WriteTransferSummary
  <2>2. Ahead(tmemory, transmissions, LostTransfers) BY <2>1 DEF InMemory
  <2>3. tbasis' \in [Cases -> Seq(Transfers)] /\ Drift(tbasis', transmissions, LostTransfers)
    BY <2>1, <2>2, LostTyped, DriftAhead DEF FileTypes
  <2>4. FileTypes' BY <2>1, <2>3 DEF FileTypes
  <2>5. \A c \in Cases : tsummary'.of[c] = summarize_transfers(tbasis'[c]) BY <2>1
  <2>6. Summaries' BY <2>1, <2>3, <2>5 DEF Summaries
  <2> QED BY <2>1, <2>4, <2>6 DEF InMemory
<1>9. CASE Kill
  <2>1. pc' = "down" /\ UNCHANGED <<attempts, transmissions, summary, tsummary, basis, tbasis>>
    BY <1>9 DEF Kill, files
  <2> QED BY <2>1 DEF FileTypes, InMemory, Summaries
<1>10. CASE UNCHANGED vars BY <1>10 DEF vars, files, FileTypes, InMemory, Summaries
<1> QED BY <1>1, <1>2, <1>3, <1>4, <1>5, <1>6, <1>7, <1>8, <1>9, <1>10 DEF Next

LEMMA RecordSafe == Spec => []RecordInv
<1>1. RecordInv /\ [Next]_vars => RecordInv' BY RecordStep
<1> QED BY <1>1, RecordInit, PTL DEF Spec

-----------------------------------------------------------------------------
(***************************************************************************)
(* Rows accounted for.                                                     *)
(***************************************************************************)
LEMMA RowsFinite ==
    ASSUME NEW S, NEW rows \in Seq(S), NEW at \in SUBSET DOMAIN rows
    PROVE  /\ DOMAIN rows = 1 .. Len(rows) /\ Len(rows) \in Nat
           /\ IsFiniteSet(at) /\ Cardinality(at) \in Nat
           /\ Cardinality(DOMAIN rows) = Len(rows)
<1>1. DOMAIN rows = 1 .. Len(rows) /\ Len(rows) \in Nat OBVIOUS
<1>2. IsFiniteSet(DOMAIN rows) /\ Cardinality(DOMAIN rows) = Len(rows)
  <2> DEFINE n == Len(rows)
  <2>1. n \in Nat BY <1>1
  <2> HIDE DEF n
  <2>2. IsFiniteSet(1 .. n) /\ Cardinality(1 .. n) = IF 1 > n THEN 0 ELSE n - 1 + 1
    BY <2>1, FS_Interval
  <2>3. Cardinality(1 .. n) = n BY <2>1, <2>2
  <2> QED BY <1>1, <2>2, <2>3 DEF n
<1>3. IsFiniteSet(at) BY <1>2, FS_Subset
<1> QED BY <1>1, <1>2, <1>3, FS_CardinalityType

(* The reasons after the first k. *)
LEMMA ReasonList ==
    /\ Len(Reasons) = 10 /\ DOMAIN Reasons = 1 .. 10
    /\ Reasons[1] = "not_success" /\ Reasons[2] = "warmup"
    /\ Reasons[3] = "power_incomplete" /\ Reasons[4] = "reconnected"
    /\ Reasons[5] = "missing_hs" /\ Reasons[6] = "nonpositive_hs"
    /\ Reasons[7] = "missing_dur" /\ Reasons[8] = "nonpositive_dur"
    /\ Reasons[9] = "missing_energy" /\ Reasons[10] = "nonpositive_energy"
BY DEF Reasons

(* load_attempt_data accepts exactly the sound rows. *)
LEMMA AcceptsSound ==
    ASSUME NEW rows \in Seq(Attempts)
    PROVE  Accepted(rows) =
             {i \in DOMAIN rows :
                /\ rows[i].status = "success" /\ ~rows[i].warm /\ rows[i].power = "success"
                /\ rows[i].reconnects = 0 /\ rows[i].hs > 0
                /\ rows[i].dur > 0 /\ rows[i].energy > 0}
<1>1. ASSUME NEW i \in DOMAIN rows
      PROVE  (\A j \in 1 .. 10 : ~Applies(Reasons[j], rows[i])) <=>
                /\ rows[i].status = "success" /\ ~rows[i].warm /\ rows[i].power = "success"
                /\ rows[i].reconnects = 0 /\ rows[i].hs > 0
                /\ rows[i].dur > 0 /\ rows[i].energy > 0
  <2> DEFINE r == rows[i]
  <2>1. r \in Attempts OBVIOUS
  <2> HIDE DEF r
  <2>2. (\A j \in 1 .. 10 : ~Applies(Reasons[j], r)) <=>
          /\ ~Applies("not_success", r) /\ ~Applies("warmup", r)
          /\ ~Applies("power_incomplete", r) /\ ~Applies("reconnected", r)
          /\ ~Applies("missing_hs", r) /\ ~Applies("nonpositive_hs", r)
          /\ ~Applies("missing_dur", r) /\ ~Applies("nonpositive_dur", r)
          /\ ~Applies("missing_energy", r) /\ ~Applies("nonpositive_energy", r)
    <3>1. 1 .. 10 = {1, 2, 3, 4, 5, 6, 7, 8, 9, 10} OBVIOUS
    <3> QED BY <3>1, ReasonList
  <2>3. /\ r.reconnects \in Nat /\ r.hs \in Nat \cup {Blank} /\ r.dur \in Nat \cup {Blank}
        /\ r.energy \in Int /\ Blank = -1
    BY <2>1 DEF Attempts, Cell, Blank
  <2>4. /\ Applies("not_success", r) <=> r.status # "success"
        /\ Applies("warmup", r) <=> r.warm
        /\ Applies("power_incomplete", r) <=> r.power # "success"
        /\ Applies("reconnected", r) <=> r.reconnects > 0
        /\ Applies("missing_hs", r) <=> r.hs = Blank
        /\ Applies("nonpositive_hs", r) <=> r.hs # Blank /\ r.hs <= 0
        /\ Applies("missing_dur", r) <=> r.dur = Blank
        /\ Applies("nonpositive_dur", r) <=> r.dur # Blank /\ r.dur <= 0
        /\ Applies("missing_energy", r) <=> r.energy = Blank
        /\ Applies("nonpositive_energy", r) <=> r.energy # Blank /\ r.energy <= 0
    BY DEF Applies
  <2>5. /\ (r.hs # Blank /\ ~(r.hs # Blank /\ r.hs <= 0)) <=> r.hs > 0
        /\ (r.dur # Blank /\ ~(r.dur # Blank /\ r.dur <= 0)) <=> r.dur > 0
        /\ (r.energy # Blank /\ ~(r.energy # Blank /\ r.energy <= 0)) <=> r.energy > 0
        /\ ~(r.reconnects > 0) <=> r.reconnects = 0
    BY <2>3
  <2> QED BY <2>2, <2>4, <2>5 DEF r
<1>2. Accepted(rows) = {i \in DOMAIN rows : \A j \in 1 .. 10 : ~Applies(Reasons[j], rows[i])}
  BY ReasonList DEF Accepted, Keep
<1> QED BY <1>1, <1>2

(* The size of a union of disjoint sets. *)
LEMMA DisjointUnion ==
    ASSUME NEW A, NEW B, IsFiniteSet(A), IsFiniteSet(B), A \cap B = {}
    PROVE  /\ IsFiniteSet(A \cup B)
           /\ Cardinality(A \cup B) = Cardinality(A) + Cardinality(B)
<1>1. Cardinality({}) = 0 BY FS_EmptySet
<1>2. /\ IsFiniteSet(A \cup B)
      /\ Cardinality(A \cup B) = Cardinality(A) + Cardinality(B) - Cardinality(A \cap B)
  BY FS_Union
<1>3. Cardinality(A) \in Nat /\ Cardinality(B) \in Nat BY FS_CardinalityType
<1>4. Cardinality(A \cap B) = 0 BY <1>1
<1> QED BY <1>2, <1>3, <1>4

(* reject: what one reason takes out of the mask. *)
LEMMA RejectSplits ==
    ASSUME NEW rows \in Seq(Attempts), NEW k \in Nat \ {0}
    PROVE  /\ Cardinality(Keep(rows, k - 1)) = Cardinality(Keep(rows, k)) + RejectionCount(rows, k)
           /\ Cardinality(Keep(rows, k)) \in Nat /\ RejectionCount(rows, k) \in Nat
<1> DEFINE before == Keep(rows, k - 1)
           out == {i \in before : Applies(Reasons[k], rows[i])}
           after == Keep(rows, k)
<1>1. after = before \ out
  <2>1. \A j : j \in 1 .. k <=> j \in 1 .. (k - 1) \/ j = k OBVIOUS
  <2> QED BY <2>1 DEF Keep
<1>2. before \subseteq DOMAIN rows /\ out \subseteq before /\ after \subseteq DOMAIN rows
  BY DEF Keep
<1>3. RejectionCount(rows, k) = Cardinality(out) BY DEF RejectionCount
<1> HIDE DEF before, out, after
<1>4. /\ IsFiniteSet(before) /\ IsFiniteSet(out) /\ IsFiniteSet(after)
      /\ Cardinality(out) \in Nat /\ Cardinality(after) \in Nat
  BY <1>2, RowsFinite
<1>5. before = after \cup out /\ after \cap out = {} BY <1>1, <1>2
<1>6. Cardinality(before) = Cardinality(after) + Cardinality(out)
  BY <1>4, <1>5, DisjointUnion
<1> QED BY <1>3, <1>4, <1>6 DEF before, after

(* After k reasons every row is either kept or counted once. *)
LEMMA RejectionsAddUp ==
    ASSUME NEW rows \in Seq(Attempts)
    PROVE  Cardinality(Accepted(rows))
             + SumFunction([k \in DOMAIN Reasons |-> RejectionCount(rows, k)]) = Len(rows)
<1> DEFINE f == [k \in 1 .. 10 |-> RejectionCount(rows, k)]
           Upto(k) == Cardinality(Keep(rows, k)) + SumFunctionOnSet(f, 1 .. k)
<1>1. ASSUME NEW k \in 1 .. 10 PROVE f[k] \in Nat
  <2>1. k \in Nat \ {0} /\ f[k] = RejectionCount(rows, k) OBVIOUS
  <2> QED BY <2>1, RejectSplits
<1>2. Upto(0) = Len(rows)
  <2>1. 1 .. 0 = {} OBVIOUS
  <2>2. Keep(rows, 0) = DOMAIN rows BY <2>1, Zenon DEF Keep
  <2>3. SumFunctionOnSet(f, {}) = 0
    <3> HIDE DEF f
    <3>1. IsFiniteSet({}) BY FS_EmptySet
    <3> QED BY <3>1, SumStep
  <2>4. Cardinality(DOMAIN rows) = Len(rows) /\ Len(rows) \in Nat BY RowsFinite
  <2> QED BY <2>1, <2>2, <2>3, <2>4
<1>3. ASSUME NEW k \in 1 .. 10 PROVE Upto(k) = Upto(k - 1)
  <2>1. f[k] = RejectionCount(rows, k) OBVIOUS
  <2> HIDE DEF f
  <2>2. IsFiniteSet(1 .. (k - 1)) BY FS_Interval
  <2>3. 1 .. k = (1 .. (k - 1)) \cup {k} /\ k \notin 1 .. (k - 1) /\ 1 .. (k - 1) \subseteq 1 .. 10
    OBVIOUS
  <2>4. SumFunctionOnSet(f, (1 .. (k - 1)) \cup {k}) = SumFunctionOnSet(f, 1 .. (k - 1)) + f[k]
    <3> DEFINE S == 1 .. (k - 1)
    <3>1. IsFiniteSet(S) /\ k \notin S /\ \A y \in S \cup {k} : f[y] \in Nat
      BY <1>1, <2>2, <2>3
    <3> HIDE DEF S
    <3>2. SumFunctionOnSet(f, S \cup {k}) = SumFunctionOnSet(f, S) + f[k] BY <3>1, SumWith
    <3> QED BY <3>2 DEF S
  <2>5. SumFunctionOnSet(f, 1 .. (k - 1)) \in Nat
    <3> DEFINE S == 1 .. (k - 1)
    <3>1. IsFiniteSet(S) /\ \A y \in S : f[y] \in Nat BY <1>1, <2>2, <2>3
    <3> HIDE DEF S
    <3>2. SumFunctionOnSet(f, S) \in Nat BY <3>1, SumNat
    <3> QED BY <3>2 DEF S
  <2>6. /\ Cardinality(Keep(rows, k - 1)) = Cardinality(Keep(rows, k)) + f[k]
        /\ Cardinality(Keep(rows, k)) \in Nat /\ f[k] \in Nat
    BY <2>1, RejectSplits
  <2>7. SumFunctionOnSet(f, 1 .. k) = SumFunctionOnSet(f, 1 .. (k - 1)) + f[k] BY <2>3, <2>4
  <2> QED BY <2>5, <2>6, <2>7
<1> HIDE DEF Upto
<1>4. Upto(10) = Len(rows)
  <2>1. Upto(1) = Len(rows) /\ Upto(2) = Upto(1) /\ Upto(3) = Upto(2) /\ Upto(4) = Upto(3)
    BY <1>2, <1>3
  <2>2. Upto(5) = Upto(4) /\ Upto(6) = Upto(5) /\ Upto(7) = Upto(6) /\ Upto(8) = Upto(7)
    BY <1>3
  <2>3. Upto(9) = Upto(8) /\ Upto(10) = Upto(9) BY <1>3
  <2> QED BY <2>1, <2>2, <2>3
<1>5. SumFunction([k \in DOMAIN Reasons |-> RejectionCount(rows, k)]) = SumFunctionOnSet(f, 1 .. 10)
  BY ReasonList DEF SumFunction
<1>6. Accepted(rows) = Keep(rows, 10) BY ReasonList DEF Accepted
<1> QED BY <1>4, <1>5, <1>6 DEF Upto

(* summarize: a measured row is counted under exactly one status. *)
LEMMA StatusesAddUp ==
    ASSUME NEW rows \in Seq(Attempts)
    PROVE  Count(rows, "success") + Count(rows, "fail") + Count(rows, "timeout")
             + Count(rows, "unsupported") = Cardinality(Measured(rows))
<1> DEFINE A == Having(rows, "success")
           B == Having(rows, "fail")
           C == Having(rows, "timeout")
           D == Having(rows, "unsupported")
<1>1. \A i \in DOMAIN rows : rows[i].status \in {"success", "fail", "timeout", "unsupported"}
  <2>1. \A i \in DOMAIN rows : rows[i] \in Attempts OBVIOUS
  <2> QED BY <2>1 DEF Attempts
<1>2. Measured(rows) \subseteq DOMAIN rows BY DEF Measured
<1>3. /\ A \subseteq DOMAIN rows /\ B \subseteq DOMAIN rows
      /\ C \subseteq DOMAIN rows /\ D \subseteq DOMAIN rows
  BY <1>2 DEF Having
<1>4. Measured(rows) = (A \cup B) \cup (C \cup D) BY <1>1, <1>2 DEF Having
<1>5. A \cap B = {} /\ C \cap D = {} /\ (A \cup B) \cap (C \cup D) = {} BY DEF Having
<1> HIDE DEF A, B, C, D
<1>6. /\ IsFiniteSet(A) /\ IsFiniteSet(B) /\ IsFiniteSet(C) /\ IsFiniteSet(D)
      /\ Cardinality(A) \in Nat /\ Cardinality(B) \in Nat
      /\ Cardinality(C) \in Nat /\ Cardinality(D) \in Nat
  BY <1>3, RowsFinite
<1>7. /\ IsFiniteSet(A \cup B) /\ Cardinality(A \cup B) = Cardinality(A) + Cardinality(B)
      /\ IsFiniteSet(C \cup D) /\ Cardinality(C \cup D) = Cardinality(C) + Cardinality(D)
  BY <1>5, <1>6, DisjointUnion
<1>8. Cardinality((A \cup B) \cup (C \cup D)) = Cardinality(A \cup B) + Cardinality(C \cup D)
  BY <1>5, <1>7, DisjointUnion
<1>9. /\ Count(rows, "success") = Cardinality(A) /\ Count(rows, "fail") = Cardinality(B)
      /\ Count(rows, "timeout") = Cardinality(C) /\ Count(rows, "unsupported") = Cardinality(D)
  BY DEF Count, A, B, C, D
<1>10. Cardinality(Measured(rows))
         = (Cardinality(A) + Cardinality(B)) + (Cardinality(C) + Cardinality(D))
  BY <1>4, <1>7, <1>8
<1> QED BY <1>6, <1>9, <1>10

(* check_results and the status of summary.csv. *)
LEMMA StatusAgrees ==
    ASSUME NEW rows \in Seq(Attempts)
    PROVE  /\ (\A i \in DOMAIN rows : rows[i].status = "success") =>
                Status(rows) = IF Measured(rows) = {} THEN "fail" ELSE "success"
           /\ Status(rows) = "success" =>
                \A i \in DOMAIN rows : rows[i].status = "success" \/ rows[i].warm
           /\ Status(rows) = "success" => rows # <<>>
<1> DEFINE S == Successes(rows)
           M == Measured(rows)
<1>1. /\ S = {i \in M : rows[i].status = "success"}
      /\ M = {i \in DOMAIN rows : ~rows[i].warm}
  BY DEF Successes, Having, Measured
<1>2. Status(rows) = "success" <=> S # {} /\ S = M
  <2>1. CASE S # {} /\ S = M BY <2>1 DEF Status
  <2>2. CASE S # {} /\ S # M BY <2>2 DEF Status
  <2>3. CASE S = {} BY <2>3 DEF Status
  <2> QED BY <2>1, <2>2, <2>3
<1>3. (\A i \in DOMAIN rows : rows[i].status = "success") /\ M = {} => Status(rows) = "fail"
  <2> SUFFICES ASSUME \A i \in DOMAIN rows : rows[i].status = "success", M = {}
               PROVE  Status(rows) = "fail"
    OBVIOUS
  <2>1. S = {} /\ Having(rows, "unsupported") = {} /\ Having(rows, "timeout") = {}
    BY <1>1 DEF Having
  <2>2. Cardinality({}) = 0 BY FS_EmptySet
  <2>3. Count(rows, "unsupported") = 0 /\ Count(rows, "timeout") = 0 BY <2>1, <2>2 DEF Count
  <2> HIDE DEF S, M
  <2>4. Successes(rows) = {} BY <2>1 DEF S
  <2> QED BY <2>3, <2>4 DEF Status
<1> HIDE DEF S, M
<1>4. (\A i \in DOMAIN rows : rows[i].status = "success") /\ M # {} => Status(rows) = "success"
  BY <1>1, <1>2
<1>5. Status(rows) = "success" =>
        \A i \in DOMAIN rows : rows[i].status = "success" \/ rows[i].warm
  BY <1>1, <1>2
<1>6. Status(rows) = "success" => rows # <<>> BY <1>1, <1>2
<1> QED BY <1>3, <1>4, <1>5, <1>6 DEF M

(* analyze_time_energy.py load_attempt_data, run_benchmarks.py summarize and *)
(* check_results.py main: whatever was recorded, each reader counts each row *)
(* once, the analysis accepts the sound rows and no other, and the checker   *)
(* and the summary agree.                                                    *)
THEOREM EveryRowAccounted == Spec => []RowsAccounted
<1>1. FileTypes => RowsAccounted
  <2> SUFFICES ASSUME FileTypes, NEW c \in Cases
               PROVE  LET rows == attempts[c]
                          sum == summarize(rows)
                          Sound(r) ==
                            /\ r.status = "success" /\ ~r.warm /\ r.power = "success"
                            /\ r.reconnects = 0 /\ r.hs > 0 /\ r.dur > 0 /\ r.energy > 0
                      IN /\ Accepted(rows) = {i \in DOMAIN rows : Sound(rows[i])}
                         /\ Cardinality(Accepted(rows))
                              + SumFunction([k \in DOMAIN Reasons |-> RejectionCount(rows, k)])
                              = Len(rows)
                         /\ sum.success + sum.fail + sum.timeout + sum.unsupported
                              = Cardinality(Measured(rows))
                         /\ Pass(c) =>
                              sum.status = IF Measured(rows) = {} THEN "fail" ELSE "success"
                         /\ sum.status = "success" =>
                              Pass(c) \/ \E i \in DOMAIN rows : rows[i].warm
    BY DEF RowsAccounted
  <2> DEFINE rows == attempts[c]
             sum == summarize(rows)
  <2>1. rows \in Seq(Attempts) BY DEF FileTypes
  <2>2. Pass(c) <=> rows # <<>> /\ \A i \in DOMAIN rows : rows[i].status = "success"
    BY DEF Pass
  <2>3. /\ sum.status = Status(rows) /\ sum.success = Count(rows, "success")
        /\ sum.fail = Count(rows, "fail") /\ sum.timeout = Count(rows, "timeout")
        /\ sum.unsupported = Count(rows, "unsupported")
    BY DEF summarize
  <2> HIDE DEF rows, sum
  <2>4. sum.success + sum.fail + sum.timeout + sum.unsupported = Cardinality(Measured(rows))
    BY <2>1, <2>3, StatusesAddUp
  <2>5. Pass(c) => sum.status = IF Measured(rows) = {} THEN "fail" ELSE "success"
    BY <2>1, <2>2, <2>3, StatusAgrees
  <2>6. sum.status = "success" => Pass(c) \/ \E i \in DOMAIN rows : rows[i].warm
    BY <2>1, <2>2, <2>3, StatusAgrees
  <2>7. Accepted(rows) =
             {i \in DOMAIN rows :
                /\ rows[i].status = "success" /\ ~rows[i].warm /\ rows[i].power = "success"
                /\ rows[i].reconnects = 0 /\ rows[i].hs > 0
                /\ rows[i].dur > 0 /\ rows[i].energy > 0}
    BY <2>1, AcceptsSound
  <2>8. Cardinality(Accepted(rows))
          + SumFunction([k \in DOMAIN Reasons |-> RejectionCount(rows, k)]) = Len(rows)
    BY <2>1, RejectionsAddUp
  <2> QED BY <2>4, <2>5, <2>6, <2>7, <2>8, Zenon DEF rows, sum
<1>2. RecordInv => FileTypes BY DEF RecordInv
<1> QED BY <1>1, <1>2, RecordSafe, PTL

-----------------------------------------------------------------------------
(***************************************************************************)
(* Figures.                                                                *)
(***************************************************************************)
IsMean(m) == m.sum \in Nat /\ m.n \in Nat

(* What a mean of rows looks like, and when two means are the same. *)
LEMMA MeanNat ==
    ASSUME NEW rows \in Seq(Attempts), NEW at \in SUBSET DOMAIN rows, NEW field,
           \A i \in Numbers(rows, at, field) : rows[i][field] \in Nat
    PROVE  /\ IsMean(Mean(rows, at, field))
           /\ Numbers(rows, at, field) # {} => Mean(rows, at, field).n # 0
<1> DEFINE given == Numbers(rows, at, field)
           f == [i \in given |-> rows[i][field]]
<1>1. given \in SUBSET DOMAIN rows BY DEF Numbers
<1>2. \A i \in given : f[i] \in Nat OBVIOUS
<1>3. Mean(rows, at, field) = [sum |-> SumFunctionOnSet(f, given), n |-> Cardinality(given)]
  BY DEF Mean, SumFunction
<1> HIDE DEF given, f
<1>4. IsFiniteSet(given) /\ Cardinality(given) \in Nat BY <1>1, RowsFinite
<1>5. given # {} => Cardinality(given) # 0 BY <1>4, FS_EmptySet
<1>6. SumFunctionOnSet(f, given) \in Nat BY <1>2, <1>4, SumNat
<1> QED BY <1>3, <1>4, <1>5, <1>6 DEF IsMean, given

LEMMA CellsNat ==
    ASSUME NEW rows \in Seq(Attempts), NEW at \in SUBSET DOMAIN rows,
           NEW field \in {"hs", "kem", "sig", "comm", "heap", "chain"}
    PROVE  \A i \in Numbers(rows, at, field) : rows[i][field] \in Nat
<1> SUFFICES ASSUME NEW i \in Numbers(rows, at, field) PROVE rows[i][field] \in Nat OBVIOUS
<1>1. rows[i] \in Attempts /\ rows[i][field] # Blank BY DEF Numbers
<1>2. rows[i][field] \in Cell BY <1>1 DEF Attempts
<1> QED BY <1>1, <1>2 DEF Cell

LEMMA MeanTyped ==
    ASSUME NEW rows \in Seq(Attempts), NEW at \in SUBSET DOMAIN rows,
           NEW field \in {"hs", "kem", "sig", "comm"}
    PROVE  IsMean(Mean(rows, at, field))
<1>1. \A i \in Numbers(rows, at, field) : rows[i][field] \in Nat BY CellsNat
<1> QED BY <1>1, MeanNat

LEMMA MeanSame ==
    ASSUME NEW rows, NEW a, NEW b, NEW field, Numbers(rows, a, field) = Numbers(rows, b, field)
    PROVE  Mean(rows, a, field) = Mean(rows, b, field)
BY DEF Mean

LEMMA SameMeanOfEqual == ASSUME NEW a, NEW b, a = b PROVE SameMean(a, b)
BY DEF SameMean

(* handshake_components: the parts of a bar fill it exactly. *)
LEMMA BarFilled ==
    ASSUME NEW f, IsMean(f.hs), IsMean(f.kem), IsMean(f.sig), IsMean(f.comm)
    PROVE  LET bar == HandshakeComponents(f)
               whole == Scaled(f.hs, Scale(f))
           IN /\ bar.other >= 0 /\ bar.kem >= 0 /\ bar.sig >= 0 /\ bar.comm >= 0
              /\ bar.kem + bar.sig + bar.comm + bar.other * bar.den = whole * bar.den
<1>1. ASSUME NEW m, IsMean(m) PROVE Over(m) \in Nat
  BY <1>1 DEF Over, IsMean
<1> DEFINE k == Scale(f)
<1>2. k \in Nat
  <2>1. /\ Over(f.hs) \in Nat /\ Over(f.kem) \in Nat /\ Over(f.sig) \in Nat
        /\ Over(f.comm) \in Nat
    BY <1>1
  <2> QED BY <2>1 DEF Scale
<1> HIDE DEF k
<1>3. ASSUME NEW m, IsMean(m) PROVE Scaled(m, k) \in Nat
  <2>1. CASE m.n = 0 BY <2>1 DEF Scaled
  <2>2. CASE m.n # 0
    <3>1. m.sum \in Nat /\ m.n \in Nat \ {0} BY <1>3, <2>2 DEF IsMean
    <3>2. k \div m.n \in Nat BY <1>2, <3>1
    <3> QED BY <2>2, <3>1, <3>2 DEF Scaled
  <2> QED BY <2>1, <2>2
<1> DEFINE w == Scaled(f.hs, k)
           x == Scaled(f.kem, k)
           y == Scaled(f.sig, k)
           z == Scaled(f.comm, k)
           bar == Components(w, x, y, z)
<1>4. HandshakeComponents(f) = bar BY DEF HandshakeComponents, k
<1>5. w \in Nat /\ x \in Nat /\ y \in Nat /\ z \in Nat BY <1>3
<1> HIDE DEF w, x, y, z
<1>6. CASE x + y + z > w /\ x + y + z > 0
  <2>1. bar = [den |-> x + y + z, kem |-> x * w, sig |-> y * w, comm |-> z * w, other |-> 0]
    BY <1>6 DEF Components
  <2>2. /\ bar.den = x + y + z /\ bar.kem = x * w /\ bar.sig = y * w
        /\ bar.comm = z * w /\ bar.other = 0
    BY <2>1
  <2> HIDE DEF bar
  <2>3. x * w + y * w + z * w + 0 * (x + y + z) = w * (x + y + z) BY <1>5
  <2>4. x * w >= 0 /\ y * w >= 0 /\ z * w >= 0 BY <1>5
  <2> QED BY <1>4, <2>2, <2>3, <2>4 DEF w, k
<1>7. CASE ~(x + y + z > w /\ x + y + z > 0)
  <2>1. bar = [den |-> 1, kem |-> x, sig |-> y, comm |-> z, other |-> w - (x + y + z)]
    BY <1>7 DEF Components
  <2>2. /\ bar.den = 1 /\ bar.kem = x /\ bar.sig = y
        /\ bar.comm = z /\ bar.other = w - (x + y + z)
    BY <2>1
  <2> HIDE DEF bar
  <2>3. x + y + z + (w - (x + y + z)) * 1 = w * 1 /\ w - (x + y + z) >= 0 BY <1>5, <1>7
  <2> QED BY <1>4, <1>5, <2>2, <2>3 DEF w, k
<1> QED BY <1>6, <1>7

(* The successes are rows of the file. *)
LEMMA SuccessRows ==
    ASSUME NEW rows
    PROVE  /\ Successes(rows) \in SUBSET DOMAIN rows /\ WithHandshake(rows) \in SUBSET DOMAIN rows
           /\ Numbers(rows, WithHandshake(rows), "hs") = Numbers(rows, Successes(rows), "hs")
BY DEF Successes, Having, Measured, WithHandshake, Numbers

(* The three parts of FiguresFromRecords. *)
LEMMA HandshakeSound == ASSUME RecordInv, NEW c \in Cases PROVE HandshakeFigure(c)
<1> DEFINE f == Figure(c)
           rows == IF LoadFromSummary # {} THEN basis[c] ELSE attempts[c]
<1>1. FileTypes /\ basis[c] \in Seq(Attempts) /\ About(summary.of[c], basis[c])
  BY DEF RecordInv, FileTypes, Summaries
<1>2. /\ IsMean(f.hs) /\ IsMean(f.kem) /\ IsMean(f.sig) /\ IsMean(f.comm)
      /\ f.hs = Mean(rows, Successes(rows), "hs")
  <2>1. CASE LoadFromSummary # {}
    <3>1. /\ f.hs = summary.of[c].hs /\ f.kem = summary.of[c].kem
          /\ f.sig = summary.of[c].sig /\ f.comm = summary.of[c].comm
      BY <2>1 DEF Figure
    <3>2. rows = basis[c] BY <2>1
    <3> HIDE DEF f, rows
    <3>3. rows \in Seq(Attempts) /\ Successes(rows) \in SUBSET DOMAIN rows
      BY <1>1, <3>2, SuccessRows
    <3>4. /\ f.hs = Mean(rows, Successes(rows), "hs") /\ f.kem = Mean(rows, Successes(rows), "kem")
          /\ f.sig = Mean(rows, Successes(rows), "sig")
          /\ f.comm = Mean(rows, Successes(rows), "comm")
      BY <1>1, <3>1, <3>2 DEF About
    <3> QED BY <3>3, <3>4, MeanTyped
  <2>2. CASE LoadFromSummary = {}
    <3>1. rows = attempts[c] BY <2>2
    <3> DEFINE at == WithHandshake(attempts[c])
    <3>2. /\ f.hs = Mean(attempts[c], at, "hs") /\ f.kem = Mean(attempts[c], at, "kem")
          /\ f.sig = Mean(attempts[c], at, "sig") /\ f.comm = Mean(attempts[c], at, "comm")
      BY <2>2 DEF Figure, LoadFromAttempts
    <3> HIDE DEF f, rows
    <3>3. attempts[c] \in Seq(Attempts) /\ at \in SUBSET DOMAIN attempts[c]
      BY <1>1, SuccessRows DEF FileTypes
    <3>4. Mean(attempts[c], at, "hs") = Mean(attempts[c], Successes(attempts[c]), "hs")
      BY SuccessRows, MeanSame
    <3> HIDE DEF at
    <3> QED BY <3>1, <3>2, <3>3, <3>4, MeanTyped
  <2> QED BY <2>1, <2>2
<1>3. SameMean(f.hs, Mean(rows, Successes(rows), "hs")) BY <1>2, SameMeanOfEqual
<1> HIDE DEF f
<1>4. LET bar == HandshakeComponents(f)
          whole == Scaled(f.hs, Scale(f))
      IN /\ bar.other >= 0 /\ bar.kem >= 0 /\ bar.sig >= 0 /\ bar.comm >= 0
         /\ bar.kem + bar.sig + bar.comm + bar.other * bar.den = whole * bar.den
  BY <1>2, BarFilled
<1> QED BY <1>3, <1>4, Zenon DEF HandshakeFigure, f, rows

LEMMA EnergySound == ASSUME RecordInv, NEW c \in Cases PROVE EnergyFromRecords(c)
<1>1. summary.of[c].energy = Mean(basis[c], Powered(basis[c]), "energy")
  BY DEF RecordInv, Summaries, About
<1>2. ASSUME Unmixed(attempts[c])
      PROVE  EnergySample(c) = Mean(attempts[c], Powered(attempts[c]), "energy")
  <2> DEFINE rows == attempts[c]
  <2>1. Numbers(rows, Successes(rows), "energy") = Numbers(rows, Powered(rows), "energy")
    <3>1. \A i \in Successes(rows) : rows[i].power = "success" \/ rows[i].energy = Blank
      BY <1>2 DEF Unmixed
    <3> QED BY <3>1 DEF Numbers, Powered
  <2> QED BY <2>1, MeanSame DEF EnergySample
<1> DEFINE rows == IF summary.on THEN basis[c] ELSE attempts[c]
           powered == Mean(rows, Powered(rows), "energy")
<1>3. ASSUME Unmixed(attempts[c]) PROVE EnergyFigure(c).mean = powered
  BY <1>1, <1>2, <1>3 DEF EnergyFigure
<1>4. ASSUME Unmixed(attempts[c]), basis[c] = attempts[c]
      PROVE  EnergyFigure(c).sample = powered
  <2>1. rows = attempts[c] BY <1>4
  <2> QED BY <1>2, <1>4, <2>1 DEF EnergyFigure
<1> HIDE DEF powered
<1>5. ASSUME Unmixed(attempts[c]) PROVE SameMean(EnergyFigure(c).mean, powered)
  BY <1>3, <1>5, SameMeanOfEqual
<1> QED BY <1>4, <1>5 DEF EnergyFromRecords, powered

(* The members of finitely many finite sets, each with the name of its set. *)
LEMMA PairsCounted ==
    ASSUME NEW S, IsFiniteSet(S), NEW N, NEW f,
           \A c \in S : IsFiniteSet(N[c]) /\ f[c] = Cardinality(N[c])
    PROVE  Cardinality(UNION {{c} \X N[c] : c \in S}) = SumFunctionOnSet(f, S)
<1> DEFINE P(u) == UNION {{c} \X N[c] : c \in u}
           B == {u \in SUBSET S : ~(IsFiniteSet(P(u))
                                    /\ Cardinality(P(u)) = SumFunctionOnSet(f, u))}
<1>1. SUFFICES ASSUME B # {} PROVE FALSE BY DEF B
<1>2. PICK u \in B : \A v \in SUBSET u : v # u => v \notin B
  <2>1. B \subseteq SUBSET S OBVIOUS
  <2> HIDE DEF B
  <2> QED BY <1>1, <2>1, LeastSubset
<1>3. u \in SUBSET S /\ IsFiniteSet(u) BY FS_Subset
<1>4. ~(IsFiniteSet(P(u)) /\ Cardinality(P(u)) = SumFunctionOnSet(f, u)) BY <1>2
<1>5. u # {}
  <2>1. SUFFICES ASSUME u = {} PROVE FALSE OBVIOUS
  <2>2. P(u) = {} BY <2>1
  <2>3. IsFiniteSet({}) /\ Cardinality({}) = 0 BY FS_EmptySet
  <2>4. SumFunctionOnSet(f, {}) = 0 BY <2>3, SumStep
  <2> QED BY <1>4, <2>1, <2>2, <2>3, <2>4
<1>6. PICK x \in u : TRUE BY <1>5
<1> DEFINE v == u \ {x}
           Q == {x} \X N[x]
<1>7. v \in SUBSET u /\ v # u /\ v \in SUBSET S BY <1>3, <1>6
<1>8. IsFiniteSet(P(v)) /\ Cardinality(P(v)) = SumFunctionOnSet(f, v) BY <1>2, <1>7
<1>9. P(u) = P(v) \cup Q /\ P(v) \cap Q = {} OBVIOUS
<1>10. IsFiniteSet(Q) /\ Cardinality(Q) = f[x]
  <2>1. IsFiniteSet({x}) /\ Cardinality({x}) = 1 BY FS_Singleton
  <2>2. IsFiniteSet(N[x]) /\ f[x] = Cardinality(N[x]) BY <1>3
  <2>3. Cardinality(N[x]) \in Nat BY <2>2, FS_CardinalityType
  <2>4. IsFiniteSet(Q) /\ Cardinality(Q) = Cardinality({x}) * Cardinality(N[x])
    BY <2>1, <2>2, FS_Product
  <2> QED BY <2>1, <2>2, <2>3, <2>4
<1>11. \A y \in u : f[y] \in Nat BY <1>3, FS_CardinalityType
<1> HIDE DEF P, Q, v
<1>12. IsFiniteSet(P(u)) /\ Cardinality(P(u)) = Cardinality(P(v)) + Cardinality(Q)
  <2>1. /\ IsFiniteSet(P(v) \cup Q)
        /\ Cardinality(P(v) \cup Q) = Cardinality(P(v)) + Cardinality(Q)
    BY <1>8, <1>9, <1>10, DisjointUnion
  <2> QED BY <1>9, <2>1
<1>13. SumFunctionOnSet(f, u) = f[x] + SumFunctionOnSet(f, v) BY <1>3, <1>11, SumTake DEF v
<1>14. SumFunctionOnSet(f, v) \in Nat /\ f[x] \in Nat
  <2>1. Cardinality(P(v)) \in Nat BY <1>8, FS_CardinalityType
  <2> QED BY <1>8, <1>11, <2>1
<1> QED BY <1>4, <1>8, <1>10, <1>12, <1>13, <1>14

LEMMA TransferSound == ASSUME RecordInv, NEW d \in Directions PROVE TransferFigure(d)
<1>1. FileTypes /\ \A c \in Cases : tsummary.of[c] = summarize_transfers(tbasis[c])
  BY DEF RecordInv, Summaries
<1>2. \A c \in Cases, e \in Directions :
        /\ tsummary.of[c][e].ms = Mean(tbasis[c], Complete(tbasis[c], e), "ms")
        /\ tsummary.of[c][e].energy
             = Mean(tbasis[c], Metered(tbasis[c], e), "energy")
  <2> SUFFICES ASSUME NEW c \in Cases, NEW e \in Directions
               PROVE  LET rows == tbasis[c]
                      IN /\ tsummary.of[c][e].ms = Mean(rows, Complete(rows, e), "ms")
                         /\ tsummary.of[c][e].energy = Mean(rows, Metered(rows, e), "energy")
    BY Zenon
  <2> DEFINE rows == tbasis[c]
  <2>1. tsummary.of[c] = summarize_transfers(rows) BY <1>1
  <2> HIDE DEF rows
  <2>2. /\ summarize_transfers(rows)[e].ms = Mean(rows, Complete(rows, e), "ms")
        /\ summarize_transfers(rows)[e].energy = Mean(rows, Metered(rows, e), "energy")
    BY DEF summarize_transfers
  <2> QED BY <2>1, <2>2 DEF rows
<1>3. ASSUME NEW c \in Cases
      PROVE  /\ SameMean(tsummary.of[c][d].ms,
                         Mean(tbasis[c], Complete(tbasis[c], d), "ms"))
             /\ BalancedEnergy(c).n > 0 => Metered(tbasis[c], d) # {}
  <2>1. SameMean(tsummary.of[c][d].ms,
                 Mean(tbasis[c], Complete(tbasis[c], d), "ms"))
    BY <1>2, SameMeanOfEqual
  <2>2. ASSUME Metered(tbasis[c], d) = {} PROVE BalancedEnergy(c).n = 0
    <3>1. Cardinality({}) = 0 BY FS_EmptySet
    <3>2. Numbers(tbasis[c], {}, "energy") = {} BY DEF Numbers
    <3>3. Mean(tbasis[c], {}, "energy").n = 0 BY <3>1, <3>2 DEF Mean
    <3>4. tsummary.of[c][d].energy.n = 0 BY <1>2, <2>2, <3>3
    <3>5. d = "device_to_server" \/ d = "server_to_device" BY DEF Directions
    <3>6. BalancedEnergy(c) = NoMean BY <3>4, <3>5 DEF BalancedEnergy
    <3> QED BY <3>6 DEF NoMean
  <2> QED BY <2>1, <2>2
<1>4. ASSUME \A c \in Cases : /\ tbasis[c] = transmissions[c]
                              /\ \A i \in DOMAIN transmissions[c] : transmissions[c][i].complete
      PROVE  ScalingMean(d).n = SumFunction([c \in Cases |-> tsummary.of[c][d].ms.n])
  <2> DEFINE rows == [p \in AllTransfers |-> transmissions[p[1]][p[2]]]
             picked == {p \in AllTransfers : rows[p].dir = d}
             N == [c \in Cases |->
                     Numbers(transmissions[c], Complete(transmissions[c], d), "ms")]
             f == [c \in Cases |-> tsummary.of[c][d].ms.n]
  <2>1. ScalingMean(d).n = Cardinality(Numbers(rows, picked, "ms")) BY DEF ScalingMean, Mean
  <2>2. Numbers(rows, picked, "ms") = UNION {{c} \X N[c] : c \in Cases}
    <3>1. ASSUME NEW p
          PROVE  p \in Numbers(rows, picked, "ms") <=>
                   /\ p \in AllTransfers /\ transmissions[p[1]][p[2]].dir = d
                   /\ transmissions[p[1]][p[2]]["ms"] # Blank
      BY DEF Numbers
    <3>2. ASSUME NEW c \in Cases, NEW i
          PROVE  i \in N[c] <=>
                   /\ i \in LoadTransferAttempts(c) /\ transmissions[c][i].dir = d
                   /\ transmissions[c][i]["ms"] # Blank
      BY <1>4 DEF Numbers, Complete, Group, LoadTransferAttempts
    <3>3. ASSUME NEW p
          PROVE  p \in AllTransfers <=>
                   \E c \in Cases : \E i \in LoadTransferAttempts(c) : p = <<c, i>>
      BY DEF AllTransfers
    <3>4. ASSUME NEW p
          PROVE  p \in UNION {{c} \X N[c] : c \in Cases} <=>
                   \E c \in Cases : \E i \in N[c] : p = <<c, i>>
      OBVIOUS
    <3> HIDE DEF rows, picked, N
    <3>5. ASSUME NEW p \in Numbers(rows, picked, "ms")
          PROVE  p \in UNION {{c} \X N[c] : c \in Cases}
      <4>1. PICK c \in Cases : \E i \in LoadTransferAttempts(c) : p = <<c, i>> BY <3>1, <3>3
      <4>2. PICK i \in LoadTransferAttempts(c) : p = <<c, i>> BY <4>1
      <4>3. p[1] = c /\ p[2] = i BY <4>2
      <4>4. i \in N[c] BY <3>1, <3>2, <4>3
      <4> QED BY <3>4, <4>2, <4>4
    <3>6. ASSUME NEW p \in UNION {{c} \X N[c] : c \in Cases}
          PROVE  p \in Numbers(rows, picked, "ms")
      <4>1. PICK c \in Cases : \E i \in N[c] : p = <<c, i>> BY <3>4
      <4>2. PICK i \in N[c] : p = <<c, i>> BY <4>1
      <4>3. p[1] = c /\ p[2] = i BY <4>2
      <4>4. p \in AllTransfers BY <3>2, <3>3, <4>2
      <4> QED BY <3>1, <3>2, <4>3, <4>4
    <3> QED BY <3>5, <3>6
  <2>3. \A c \in Cases : IsFiniteSet(N[c]) /\ f[c] = Cardinality(N[c])
    <3> SUFFICES ASSUME NEW c \in Cases
                 PROVE  IsFiniteSet(N[c]) /\ f[c] = Cardinality(N[c])
      OBVIOUS
    <3>1. tbasis[c] = transmissions[c] BY <1>4
    <3>2. f[c] = Cardinality(N[c])
      <4>1. f[c] = tsummary.of[c][d].ms.n /\ N[c] = Numbers(transmissions[c],
                                                    Complete(transmissions[c], d), "ms")
        OBVIOUS
      <4>2. tsummary.of[c][d].ms = Mean(transmissions[c], Complete(transmissions[c], d), "ms")
        BY <1>2, <3>1
      <4> HIDE DEF f, N
      <4>3. tsummary.of[c][d].ms.n
              = Cardinality(Numbers(transmissions[c], Complete(transmissions[c], d), "ms"))
        BY <4>2 DEF Mean
      <4> QED BY <4>1, <4>3
    <3>3. transmissions[c] \in Seq(Transfers) /\ N[c] \in SUBSET DOMAIN transmissions[c]
      BY <1>1 DEF FileTypes, Numbers, Complete, Group
    <3> HIDE DEF N
    <3>4. IsFiniteSet(N[c]) BY <3>3, RowsFinite
    <3> QED BY <3>2, <3>4
  <2>4. SumFunction(f) = SumFunctionOnSet(f, Cases) BY DEF SumFunction
  <2> HIDE DEF rows, picked, N, f
  <2>5. Cardinality(UNION {{c} \X N[c] : c \in Cases}) = SumFunctionOnSet(f, Cases)
    BY <2>3, CasesAssumption, PairsCounted
  <2>6. ScalingMean(d).n = SumFunction(f) BY <2>1, <2>2, <2>4, <2>5
  <2> QED BY <2>6 DEF f
<1> QED BY <1>3, <1>4 DEF TransferFigure

(* run_benchmarks.py 2160-2185, 2661-2713, plot_tls_handshake_bars.py        *)
(* load_rows, plot_energy_bars.py load_rows and the transfer tables: however *)
(* often the run is stopped, killed, resumed or dry-run, every figure that   *)
(* a reader shows is the mean of recorded rows and of at most one block that *)
(* Ctrl-C kept from being recorded, and its parts fill it.                   *)
THEOREM FiguresSound == Spec => []FiguresFromRecords
<1>1. RecordInv => FiguresFromRecords
  BY HandshakeSound, EnergySound, TransferSound DEF FiguresFromRecords, RecordInv, Summaries, Drift
<1> QED BY <1>1, RecordSafe, PTL

-----------------------------------------------------------------------------
(***************************************************************************)
(* The ranks of the analysis.                                              *)
(***************************************************************************)
(* A mean with something to divide by, and how two of them compare. *)
Ratio(m) == m.sum \in Int /\ m.n \in Nat \ {0}

LEMMA CrossTimes ==
    ASSUME NEW a \in Int, NEW b \in Int, NEW c \in Int,
           NEW l \in Nat \ {0}, NEW m \in Nat \ {0}, NEW n \in Nat \ {0},
           a * m <= b * l, b * n <= c * m
    PROVE  a * n <= c * l
<1>1. \A x, y \in Int, z \in Nat : x <= y => x * z <= y * z OBVIOUS
<1>2. (a * m) * n <= (b * l) * n /\ (b * n) * l <= (c * m) * l BY <1>1
<1>3. (a * m) * n = (a * n) * m /\ (b * l) * n = (b * n) * l /\ (c * m) * l = (c * l) * m
  OBVIOUS
<1>4. (a * n) * m <= (c * l) * m BY <1>2, <1>3
<1>5. \A x, y \in Int, z \in Nat \ {0} : x * z <= y * z => x <= y OBVIOUS
<1>6. a * n \in Int /\ c * l \in Int OBVIOUS
<1> QED BY <1>4, <1>5, <1>6

LEMMA Compare ==
    ASSUME NEW a, NEW b, Ratio(a), Ratio(b)
    PROVE  /\ AtMost(a, b) \/ AtMost(b, a)
           /\ SameMean(a, b) <=> AtMost(a, b) /\ AtMost(b, a)
<1>1. a.sum * b.n \in Int /\ b.sum * a.n \in Int /\ a.n # 0 /\ b.n # 0 BY DEF Ratio
<1> QED BY <1>1 DEF AtMost, SameMean

LEMMA CompareTrans ==
    ASSUME NEW a, NEW b, NEW c, Ratio(a), Ratio(b), Ratio(c), AtMost(a, b), AtMost(b, c)
    PROVE  AtMost(a, c)
BY CrossTimes DEF AtMost, Ratio

(* Dominance is a strict order, the comparison of times a preorder. *)
LEMMA DominanceOrders ==
    ASSUME NEW at, NEW r,
           \A c, d \in DOMAIN at : <<c, d>> \in r <=> Dominates(at[c], at[d]),
           \A c \in DOMAIN at : DOMAIN at[c] = 1..5 /\ \A i \in 1..5 : Ratio(at[c][i])
    PROVE  StrictOrder(r, DOMAIN at)
<1>1. ASSUME NEW a \in DOMAIN at PROVE ~Dominates(at[a], at[a])
  BY Compare DEF Dominates
<1>2. ASSUME NEW a \in DOMAIN at, NEW b \in DOMAIN at, NEW c \in DOMAIN at,
             Dominates(at[a], at[b]), Dominates(at[b], at[c])
      PROVE  Dominates(at[a], at[c])
  <2>1. \A i \in 1..5 : /\ AtMost(at[a][i], at[b][i]) /\ AtMost(at[b][i], at[c][i])
                        /\ Ratio(at[a][i]) /\ Ratio(at[b][i]) /\ Ratio(at[c][i])
    BY <1>2 DEF Dominates
  <2>2. \A i \in 1..5 : AtMost(at[a][i], at[c][i]) BY <2>1, CompareTrans
  <2>3. PICK i \in 1..5 : ~AtMost(at[b][i], at[a][i]) BY <1>2 DEF Dominates
  <2>4. ~AtMost(at[c][i], at[a][i]) BY <2>1, <2>3, CompareTrans
  <2> QED BY <2>2, <2>4 DEF Dominates
<1> QED BY <1>1, <1>2 DEF StrictOrder

(* The fronts can be peeled off one by one. *)
Peels(g, at, p, n) == g = [k \in 1..(n + 1) |-> IF k = 1 THEN p
                              ELSE g[k - 1] \ ParetoFront(at, g[k - 1])]

LEMMA PeelsExist ==
    ASSUME NEW at, NEW p, NEW n \in Nat
    PROVE  \E g : Peels(g, at, p, n)
<1> DEFINE m == n + 1
           F == [rest \in SUBSET p |-> rest \ ParetoFront(at, rest)]
<1>1. F \in [SUBSET p -> SUBSET p] OBVIOUS
<1>2. p \in SUBSET p /\ m \in Nat OBVIOUS
<1>3. PICK g \in [1..m -> SUBSET p] : Iterates(g, m, p, F)
  <2> HIDE DEF F, m
  <2> QED BY <1>1, <1>2, Repeats
<1>g. g = [k \in 1..m |-> IF k = 1 THEN p ELSE F[g[k - 1]]] BY <1>3 DEF Iterates
<1> HIDE DEF m
<1>4. \A k \in 1..m : k # 1 => k - 1 \in 1..m BY <1>2
<1>5. \A k \in 1..m :
          (IF k = 1 THEN p ELSE F[g[k - 1]])
             = IF k = 1 THEN p ELSE g[k - 1] \ ParetoFront(at, g[k - 1])
  BY <1>3, <1>4
<1> HIDE DEF F
<1>6. [k \in 1..m |-> IF k = 1 THEN p ELSE F[g[k - 1]]]
        = [k \in 1..m |-> IF k = 1 THEN p ELSE g[k - 1] \ ParetoFront(at, g[k - 1])]
  BY <1>5
<1>7. g = [k \in 1..m |-> IF k = 1 THEN p ELSE g[k - 1] \ ParetoFront(at, g[k - 1])]
  BY <1>g, <1>6
<1> QED BY <1>7 DEF m, Peels

(* pareto_ranks gives each point the length of the longest chain above it. *)
LEMMA ParetoReference ==
    ASSUME NEW at, IsFiniteSet(DOMAIN at), NEW r, StrictOrder(r, DOMAIN at),
           \A c, d \in DOMAIN at : <<c, d>> \in r <=> Dominates(at[c], at[d])
    PROVE  ParetoRanks(at) = [c \in DOMAIN at |->
               1 + Max({Cardinality(C) : C \in ChainsBefore(r, DOMAIN at, c)})]
<1> DEFINE p == DOMAIN at
           n == Cardinality(p)
           rem == CHOOSE g : Peels(g, at, p, n)
<1>1. n \in Nat BY FS_CardinalityType
<1>2. ASSUME NEW rest \in SUBSET p
      PROVE  ParetoFront(at, rest) = Undominated(r, rest)
  <2>1. rest # {} => \E c \in rest : \A d \in rest : <<d, c>> \notin r BY HasFirst
  <2>2. {c \in rest : ~\E d \in rest : Dominates(at[d], at[c])} = Undominated(r, rest)
    BY DEF Undominated
  <2>3. Undominated(r, rest) = {} => rest = {} BY <2>1 DEF Undominated
  <2> QED BY <2>2, <2>3 DEF ParetoFront
<1>3. \E g : Peels(g, at, p, n)
  <2> HIDE DEF p, n
  <2> QED BY <1>1, PeelsExist
<1>4. Peels(rem, at, p, n) BY <1>3
<1>5. rem[1] = p /\ \A k \in 2..(n + 1) : rem[k] = rem[k - 1] \ ParetoFront(at, rem[k - 1])
  <2> HIDE DEF rem, p
  <2>1. 1 \in 1..(n + 1) /\ \A k \in 2..(n + 1) : k \in 1..(n + 1) /\ k # 1 BY <1>1
  <2> QED BY <1>4, <2>1 DEF Peels
<1> DEFINE B == {k \in 1..(n + 1) : ~(rem[k] \in SUBSET p)}
<1>6. B = {}
  <2> SUFFICES ASSUME B # {} PROVE FALSE OBVIOUS
  <2> HIDE DEF rem, p
  <2>1. B \in SUBSET Nat BY <1>1
  <2>2. PICK k \in B : \A i \in B : k <= i BY <2>1, LeastNat
  <2>3. k \in 1..(n + 1) /\ k # 1 BY <1>5, <2>2
  <2>4. k \in 2..(n + 1) /\ k - 1 \in 1..(n + 1) /\ ~(k <= k - 1) BY <1>1, <2>3
  <2>5. rem[k - 1] \in SUBSET p BY <2>2, <2>4
  <2> QED BY <1>5, <2>2, <2>4, <2>5
<1>7. \A k \in 1..(n + 1) : /\ rem[k] \in SUBSET p
                            /\ ParetoFront(at, rem[k]) = Undominated(r, rem[k])
  <2>1. \A k \in 1..(n + 1) : rem[k] \in SUBSET p BY <1>6
  <2> HIDE DEF rem, n
  <2> QED BY <1>2, <2>1
<1>8. \A k \in 2..(n + 1) : rem[k] = rem[k - 1] \ Undominated(r, rem[k - 1])
  <2> HIDE DEF rem
  <2>1. \A k \in 2..(n + 1) : k - 1 \in 1..(n + 1) BY <1>1
  <2> QED BY <1>5, <1>7, <2>1
<1>9. ParetoRanks(at) = [c \in p |-> CHOOSE k \in 1..n : c \in ParetoFront(at, rem[k])]
  BY DEF ParetoRanks, Peels
<1>10. ASSUME NEW c \in p
       PROVE  (CHOOSE k \in 1..n : c \in ParetoFront(at, rem[k]))
                = 1 + Max({Cardinality(C) : C \in ChainsBefore(r, p, c)})
  <2> DEFINE longest == Max({Cardinality(C) : C \in ChainsBefore(r, p, c)})
  <2> HIDE DEF rem
  <2>1. /\ longest \in Nat /\ longest + 1 \in 1..n
        /\ \A k \in 1..n : c \in Undominated(r, rem[k]) <=> k = longest + 1
    BY <1>5, <1>8, Layers
  <2> HIDE DEF longest
  <2>2. \A k \in 1..n : c \in ParetoFront(at, rem[k]) <=> k = longest + 1
    <3>1. \A k \in 1..n : k \in 1..(n + 1) BY <1>1
    <3> QED BY <1>7, <2>1, <3>1
  <2>3. (CHOOSE k \in 1..n : c \in ParetoFront(at, rem[k])) = longest + 1 BY <2>1, <2>2
  <2>4. longest + 1 = 1 + longest BY <2>1
  <2> QED BY <2>3, <2>4 DEF longest
<1> QED BY <1>9, <1>10

(* The walk over the runs of what is sorted, from start to start. *)
Walks(g, value, order, n) == g = [k \in 1..(n + 1) |-> IF k = 1 THEN 1
                                      ELSE IF g[k - 1] > n THEN g[k - 1]
                                      ELSE End(value, order, g[k - 1]) + 1]

LEMMA WalkExists ==
    ASSUME NEW value, NEW order, NEW n \in Nat,
           \A a \in 1..n : End(value, order, a) \in a..n
    PROVE  \E g : Walks(g, value, order, n)
<1> DEFINE m == n + 1
           F == [a \in 1..m |-> IF a > n THEN a ELSE End(value, order, a) + 1]
<1>1. F \in [1..m -> 1..m]
  <2> SUFFICES ASSUME NEW a \in 1..m, ~(a > n) PROVE End(value, order, a) + 1 \in 1..m
    OBVIOUS
  <2>1. a \in 1..n /\ End(value, order, a) \in a..n OBVIOUS
  <2> QED BY <2>1
<1>2. 1 \in 1..m /\ m \in Nat OBVIOUS
<1>3. PICK h \in [1..m -> 1..m] : Iterates(h, m, 1, F)
  <2> HIDE DEF F, m
  <2> QED BY <1>1, <1>2, Repeats
<1>4. h = [k \in 1..m |-> IF k = 1 THEN 1 ELSE F[h[k - 1]]] BY <1>3 DEF Iterates
<1>5. \A k \in 1..m : k # 1 => k - 1 \in 1..m OBVIOUS
<1>6. \A a \in 1..m : F[a] = IF a > n THEN a ELSE End(value, order, a) + 1 OBVIOUS
<1> HIDE DEF m, F
<1>7. \A k \in 1..m :
          (IF k = 1 THEN 1 ELSE F[h[k - 1]])
             = IF k = 1 THEN 1 ELSE IF h[k - 1] > n THEN h[k - 1]
               ELSE End(value, order, h[k - 1]) + 1
  BY <1>3, <1>5, <1>6
<1>8. [k \in 1..m |-> IF k = 1 THEN 1 ELSE F[h[k - 1]]]
        = [k \in 1..m |-> IF k = 1 THEN 1 ELSE IF h[k - 1] > n THEN h[k - 1]
                          ELSE End(value, order, h[k - 1]) + 1]
  BY <1>7
<1>9. h = [k \in 1..m |-> IF k = 1 THEN 1 ELSE IF h[k - 1] > n THEN h[k - 1]
                          ELSE End(value, order, h[k - 1]) + 1]
  BY <1>4, <1>8
<1>10. Walks(h, value, order, n) BY <1>9 DEF Walks, m
<1> QED BY <1>10

LEMMA WalkSteps ==
    ASSUME NEW value, NEW order, NEW n \in Nat,
           \A a \in 1..n : End(value, order, a) \in a..n,
           NEW g, Walks(g, value, order, n)
    PROVE  /\ g[1] = 1 /\ \A k \in 1..(n + 1) : g[k] \in 1..(n + 1)
           /\ \A k \in 2..(n + 1) :
                  g[k] = IF g[k - 1] > n THEN g[k - 1] ELSE End(value, order, g[k - 1]) + 1
<1> DEFINE m == n + 1
           B == {k \in 1..m : g[k] \notin 1..m}
<1>1. \A k \in 1..m :
          g[k] = IF k = 1 THEN 1 ELSE IF g[k - 1] > n THEN g[k - 1]
                 ELSE End(value, order, g[k - 1]) + 1
  BY DEF Walks
<1>2. g[1] = 1 BY <1>1
<1>3. \A k \in 2..m : k \in 1..m /\ k # 1 OBVIOUS
<1>4. \A k \in 2..m :
          g[k] = IF g[k - 1] > n THEN g[k - 1] ELSE End(value, order, g[k - 1]) + 1
  BY <1>1, <1>3
<1>5. B = {}
  <2> SUFFICES ASSUME B # {} PROVE FALSE OBVIOUS
  <2>1. B \in SUBSET Nat OBVIOUS
  <2>2. PICK k \in B : \A i \in B : k <= i BY <2>1, LeastNat
  <2>3. k \in 1..m /\ g[k] \notin 1..m BY <2>2
  <2>4. k # 1 BY <1>2, <2>3
  <2>5. k \in 2..m /\ k - 1 \in 1..m /\ ~(k <= k - 1) BY <2>3, <2>4
  <2>6. g[k - 1] \in 1..m BY <2>2, <2>5
  <2>7. CASE g[k - 1] > n BY <1>4, <2>3, <2>5, <2>6, <2>7
  <2>8. CASE ~(g[k - 1] > n)
    <3>1. g[k - 1] \in 1..n BY <2>6, <2>8
    <3>2. End(value, order, g[k - 1]) \in 1..n BY <3>1
    <3>3. g[k] = End(value, order, g[k - 1]) + 1 BY <1>4, <2>5, <2>8
    <3> QED BY <2>3, <3>2, <3>3
  <2> QED BY <2>7, <2>8
<1>6. \A k \in 1..m : g[k] \in 1..m BY <1>5
<1> QED BY <1>2, <1>4, <1>6

(* rank_values gives each value the mean of the places of its equals. *)
LEMMA RankReference ==
    ASSUME NEW value, IsFiniteSet(DOMAIN value), \A c \in DOMAIN value : Ratio(value[c])
    PROVE  RankValues(value) = [c \in DOMAIN value |->
               2 * Cardinality({d \in DOMAIN value : AtMost(value[d], value[c])}
                                 \ {d \in DOMAIN value : SameMean(value[d], value[c])})
                 + Cardinality({d \in DOMAIN value : SameMean(value[d], value[c])}) + 1]
<1> DEFINE p == DOMAIN value
           n == Cardinality(p)
           le == {x \in p \X p : AtMost(value[x[1]], value[x[2]])}
           order == Argsort(value)
<1>1. n \in Nat BY FS_CardinalityType
<1>2. \A a, b \in p : <<a, b>> \in le <=> AtMost(value[a], value[b]) OBVIOUS
<1> HIDE DEF le
<1>3. Preorder(le, p) BY <1>2, Compare, CompareTrans DEF Preorder
<1>4. \A a, b \in p : SameMean(value[a], value[b]) <=> Equal(le, a, b)
  BY <1>2, Compare DEF Equal
<1>5. Sorts(order, le, p)
  <2> DEFINE Q(s) == /\ \A c \in p : \E i \in 1..n : s[i] = c
                     /\ \A i, j \in 1..n : i < j => AtMost(value[s[i]], value[s[j]])
  <2>1. \A s \in [1..n -> p] : Q(s) <=> Sorts(s, le, p) BY <1>2 DEF Sorts
  <2>2. PICK s : Sorts(s, le, p) BY <1>3, CanSort
  <2>3. s \in [1..n -> p] BY <2>2 DEF Sorts
  <2>4. order = CHOOSE t \in [1..n -> p] : Q(t) BY DEF Argsort
  <2> HIDE DEF Q, n, order
  <2>5. order \in [1..n -> p] /\ Q(order) BY <2>1, <2>2, <2>3, <2>4
  <2> QED BY <2>1, <2>5
<1> HIDE DEF order
<1>6. order \in [1..n -> p] /\ \A c \in p : \E i \in 1..n : order[i] = c BY <1>5 DEF Sorts
<1>7. ASSUME NEW a \in 1..n
      PROVE  /\ End(value, order, a) = RunEnd(order, le, n, a)
             /\ End(value, order, a) \in a..n
  <2>1. ASSUME NEW t \in a..n
        PROVE  (\A u \in a..t : SameMean(value[order[u]], value[order[a]]))
                 <=> \A u \in a..t : Equal(le, order[u], order[a])
    <3>1. \A u \in a..t : u \in 1..n BY <1>1
    <3>2. \A u \in a..t : order[u] \in p /\ order[a] \in p BY <1>6, <3>1
    <3> QED BY <1>4, <3>2
  <2>2. {t \in a..n : \A u \in a..t : SameMean(value[order[u]], value[order[a]])}
          = {t \in a..n : \A u \in a..t : Equal(le, order[u], order[a])}
    BY <2>1
  <2>3. End(value, order, a) = RunEnd(order, le, n, a) BY <2>2 DEF End, RunEnd
  <2>4. RunEnd(order, le, n, a) \in a..n BY <1>3, <1>5, RunIs
  <2> QED BY <2>3, <2>4
<1> DEFINE start == CHOOSE g : Walks(g, value, order, n)
<1>8. Walks(start, value, order, n)
  <2>1. \E g : Walks(g, value, order, n)
    <3> HIDE DEF n
    <3> QED BY <1>1, <1>7, WalkExists
  <2> QED BY <2>1
<1>9. /\ start[1] = 1 /\ \A k \in 1..(n + 1) : start[k] \in 1..(n + 1)
      /\ \A k \in 2..(n + 1) :
             start[k] = IF start[k - 1] > n THEN start[k - 1]
                        ELSE End(value, order, start[k - 1]) + 1
  <2>1. \A a \in 1..n : End(value, order, a) \in a..n BY <1>7
  <2>2. n \in Nat BY <1>1
  <2>3. Walks(start, value, order, n) BY <1>8
  <2> HIDE DEF n, start
  <2>4. start[1] = 1 BY <2>1, <2>2, <2>3, WalkSteps
  <2>5. \A k \in 1..(n + 1) : start[k] \in 1..(n + 1) BY <2>1, <2>2, <2>3, WalkSteps
  <2>6. \A k \in 2..(n + 1) :
             start[k] = IF start[k - 1] > n THEN start[k - 1]
                        ELSE End(value, order, start[k - 1]) + 1
     BY <2>1, <2>2, <2>3, WalkSteps
  <2> QED BY <2>4, <2>5, <2>6
<1> DEFINE Runs == {start[k] : k \in 1..n} \cap (1..n)
           RunOf(c) == CHOOSE s \in Runs : \E i \in s..End(value, order, s) : order[i] = c
<1>10. RankValues(value) = [c \in p |-> RunOf(c) + End(value, order, RunOf(c))]
  BY DEF RankValues, Walks, order
<1> HIDE DEF start
<1>11. \A k \in 2..(n + 1) :
           start[k] = IF start[k - 1] > n THEN start[k - 1]
                      ELSE RunEnd(order, le, n, start[k - 1]) + 1
  <2> SUFFICES ASSUME NEW k \in 2..(n + 1), ~(start[k - 1] > n)
               PROVE  End(value, order, start[k - 1]) = RunEnd(order, le, n, start[k - 1])
    BY <1>9
  <2>1. k - 1 \in 1..(n + 1) BY <1>1
  <2>2. start[k - 1] \in 1..n BY <1>1, <1>9, <2>1
  <2> QED BY <1>7, <2>2
<1>12. /\ \A k \in 1..n : start[k] \in 1..n => RunStart(order, le, start[k])
       /\ \A i \in 1..n : \E k \in 1..n :
              start[k] \in 1..n /\ i \in start[k]..RunEnd(order, le, n, start[k])
  <2>1. start[1] = 1 BY <1>9
  <2> QED BY <1>3, <1>5, <1>11, <2>1, RunsMeetAll
<1>13. ASSUME NEW c \in p
       PROVE  RunOf(c) + End(value, order, RunOf(c))
                = 2 * Cardinality({d \in p : AtMost(value[d], value[c])}
                                    \ {d \in p : SameMean(value[d], value[c])})
                    + Cardinality({d \in p : SameMean(value[d], value[c])}) + 1
  <2> HIDE DEF n
  <2>1. PICK i \in 1..n : order[i] = c BY <1>6
  <2>2. PICK k \in 1..n : start[k] \in 1..n /\ i \in start[k]..RunEnd(order, le, n, start[k])
    BY <1>12
  <2>3. start[k] \in Runs /\ \E j \in start[k]..End(value, order, start[k]) : order[j] = c
    BY <1>7, <2>1, <2>2
  <2> DEFINE s == RunOf(c)
  <2>4. s \in Runs /\ \E j \in s..End(value, order, s) : order[j] = c
    <3> HIDE DEF Runs
    <3> QED BY <2>3
  <2> HIDE DEF s
  <2>5. s \in 1..n /\ RunStart(order, le, s) BY <1>12, <2>4
  <2> DEFINE e == RunEnd(order, le, n, s)
  <2>6. End(value, order, s) = e BY <1>7, <2>5
  <2>7. PICK j \in s..e : order[j] = c BY <2>4, <2>6
  <2>8. 2 * Cardinality({d \in p : <<d, order[j]>> \in le /\ <<order[j], d>> \notin le})
          + Cardinality({d \in p : Equal(le, d, order[j])}) + 1 = s + e
    BY <1>3, <1>5, <2>5, <2>7, RunCounts DEF n
  <2>9. {d \in p : <<d, order[j]>> \in le /\ <<order[j], d>> \notin le}
          = {d \in p : AtMost(value[d], value[c])} \ {d \in p : SameMean(value[d], value[c])}
    BY <1>2, <1>4, <2>7 DEF Equal
  <2>10. {d \in p : Equal(le, d, order[j])} = {d \in p : SameMean(value[d], value[c])}
    BY <1>4, <2>7
  <2>11. s + End(value, order, s)
           = 2 * Cardinality({d \in p : AtMost(value[d], value[c])}
                               \ {d \in p : SameMean(value[d], value[c])})
               + Cardinality({d \in p : SameMean(value[d], value[c])}) + 1
    BY <2>6, <2>8, <2>9, <2>10
  <2> QED BY <2>11 DEF s
<1> HIDE DEF RunOf
<1> QED BY <1>10, <1>13

LEMMA MeanRatio ==
    ASSUME NEW rows \in Seq(Attempts), NEW at \in SUBSET DOMAIN rows, NEW field,
           \A i \in Numbers(rows, at, field) : rows[i][field] \in Nat,
           Numbers(rows, at, field) # {}
    PROVE  Ratio(Mean(rows, at, field))
<1>1. IsMean(Mean(rows, at, field)) /\ Mean(rows, at, field).n # 0 BY MeanNat
<1> QED BY <1>1 DEF Ratio, IsMean

LEMMA LargestNat ==
    ASSUME NEW rows \in Seq(Attempts), NEW at \in SUBSET DOMAIN rows, NEW field,
           \A i \in Numbers(rows, at, field) : rows[i][field] \in Nat,
           Numbers(rows, at, field) # {}
    PROVE  Largest(rows, at, field) \in Nat
<1> DEFINE given == Numbers(rows, at, field)
           S == {rows[i][field] : i \in given}
<1>1. given \in SUBSET DOMAIN rows /\ given # {} BY DEF Numbers
<1>2. S \in SUBSET Nat /\ S # {} BY <1>1
<1>3. IsFiniteSet(S)
  <2> HIDE DEF given
  <2>1. IsFiniteSet(given) BY <1>1, RowsFinite
  <2>2. [i \in given |-> rows[i][field]] \in Surjection(given, S) BY DEF Surjection
  <2> HIDE DEF S
  <2> QED BY <2>1, <2>2, FS_Surjection DEF ExistsSurjection
<1>4. Largest(rows, at, field) = Max(S) BY DEF Largest
<1> HIDE DEF S
<1>5. Max(S) \in S BY <1>2, <1>3, MaxFinite
<1> QED BY <1>2, <1>4, <1>5

(* The objectives of a point can be compared: none is missing. *)
LEMMA ObjectivesTyped ==
    ASSUME FileTypes, NEW c \in Points
    PROVE  DOMAIN Objectives(c) = 1..5 /\ \A i \in 1..5 : Ratio(Objectives(c)[i])
<1> DEFINE rows == attempts[c]
           at == Accepted(rows)
           failures == {i \in DOMAIN rows : rows[i].status # "success"}
<1>1. rows \in Seq(Attempts) BY DEF Points, FileTypes
<1>2. at \in SUBSET DOMAIN rows BY DEF Accepted, Keep
<1>3. \A f \in {"hs", "energy", "heap", "chain"} : Numbers(rows, at, f) # {} BY DEF Points
<1>4. ASSUME NEW i \in at PROVE rows[i].energy \in Nat
  <2>1. rows[i].energy > 0 BY <1>1, AcceptsSound
  <2>2. rows[i] \in Attempts BY <1>1, <1>2
  <2>3. rows[i].energy \in Int BY <2>2 DEF Attempts
  <2> QED BY <2>1, <2>3
<1>5. Objectives(c) = <<Mean(rows, at, "hs"), Mean(rows, at, "energy"),
                        [sum |-> Largest(rows, at, "heap"), n |-> 1], Mean(rows, at, "chain"),
                        [sum |-> Cardinality(failures), n |-> Len(rows)]>>
  BY DEF Objectives
<1>6. failures \in SUBSET DOMAIN rows OBVIOUS
<1> HIDE DEF rows, at, failures
<1>7. \A f \in {"hs", "heap", "chain"} : \A i \in Numbers(rows, at, f) : rows[i][f] \in Nat
  BY <1>1, <1>2, CellsNat
<1>8. Ratio(Mean(rows, at, "hs")) /\ Ratio(Mean(rows, at, "chain"))
  BY <1>1, <1>2, <1>3, <1>7, MeanRatio
<1>9. Ratio(Mean(rows, at, "energy"))
  <2>1. \A i \in Numbers(rows, at, "energy") : rows[i]["energy"] \in Nat BY <1>4 DEF Numbers
  <2> QED BY <1>1, <1>2, <1>3, <2>1, MeanRatio
<1>10. Largest(rows, at, "heap") \in Nat BY <1>1, <1>2, <1>3, <1>7, LargestNat
<1>11. Cardinality(failures) \in Nat BY <1>1, <1>6, RowsFinite
<1>12. Len(rows) \in Nat \ {0}
  <2>1. Numbers(rows, at, "hs") # {} BY <1>3
  <2>2. DOMAIN rows # {} BY <1>2, <2>1 DEF Numbers
  <2> QED BY <1>1, <2>2
<1>13. Ratio([sum |-> Largest(rows, at, "heap"), n |-> 1]) BY <1>10 DEF Ratio
<1>14. Ratio([sum |-> Cardinality(failures), n |-> Len(rows)]) BY <1>11, <1>12 DEF Ratio
<1>15. DOMAIN Objectives(c) = 1..5 BY <1>5
<1>16. ASSUME NEW i \in 1..5 PROVE Ratio(Objectives(c)[i])
  <2>1. i = 1 \/ i = 2 \/ i = 3 \/ i = 4 \/ i = 5 OBVIOUS
  <2> QED BY <1>5, <1>8, <1>9, <1>13, <1>14, <2>1
<1> QED BY <1>15, <1>16

(* analyze_time_energy.py pareto_ranks, plot_tls_handshake_bars.py           *)
(* rank_values: whatever rows are on disk, the Pareto rank of a case is one  *)
(* more than the longest chain of cases that dominate each other and it,     *)
(* and its rank among the times is the mean place of those equal to it.      *)
THEOREM RanksSound == Spec => []RanksAreReference
<1>1. ASSUME FileTypes PROVE RanksAreReference
  <2> DEFINE at == [c \in Points |-> Objectives(c)]
             p == DOMAIN at
             r == {x \in p \X p : Dominates(at[x[1]], at[x[2]])}
             time == [c \in p |-> at[c][1]]
  <2>1. p = Points /\ IsFiniteSet(p) BY CasesAssumption, FS_Subset DEF Points
  <2>2. \A c \in p : DOMAIN at[c] = 1..5 /\ \A i \in 1..5 : Ratio(at[c][i])
    BY <1>1, <2>1, ObjectivesTyped
  <2> HIDE DEF at
  <2>3. \A c, d \in p : <<c, d>> \in r <=> Dominates(at[c], at[d])
    OBVIOUS
  <2>4. StrictOrder(r, p)
    <3> HIDE DEF r
    <3>1. \A c, d \in DOMAIN at : <<c, d>> \in r <=> Dominates(at[c], at[d]) BY <2>3
    <3>2. \A c \in DOMAIN at : DOMAIN at[c] = 1..5 /\ \A i \in 1..5 : Ratio(at[c][i])
      BY <2>2
    <3> QED BY <3>1, <3>2, DominanceOrders
  <2>5. ParetoRanks(at) = [c \in p |->
               1 + Max({Cardinality(C) : C \in ChainsBefore(r, p, c)})]
    <3> HIDE DEF r
    <3> QED BY <2>1, <2>3, <2>4, ParetoReference
  <2> DEFINE Chain(C) == \A a, b \in C : a = b \/ Dominates(at[a], at[b])
                                               \/ Dominates(at[b], at[a])
             Above(c) == {d \in p : Dominates(at[d], at[c])}
  <2>6. \A c \in p : ChainsBefore(r, p, c) = {D \in SUBSET Above(c) : Chain(D)}
    <3> SUFFICES ASSUME NEW c \in p
                 PROVE  ChainsBefore(r, p, c) = {D \in SUBSET Above(c) : Chain(D)}
      OBVIOUS
    <3> HIDE DEF r
    <3>1. Before(r, p, c) = Above(c) BY <2>3 DEF Before
    <3>2. \A D \in SUBSET Above(c) : IsChain(r, D) <=> Chain(D)
      <4> SUFFICES ASSUME NEW D \in SUBSET Above(c) PROVE IsChain(r, D) <=> Chain(D) OBVIOUS
      <4>1. \A a, b \in D : a \in p /\ b \in p OBVIOUS
      <4> QED BY <2>3, <4>1 DEF IsChain
    <3> HIDE DEF Above, Chain
    <3> QED BY <3>1, <3>2 DEF ChainsBefore
  <2>7. ParetoRanks(at) = [c \in p |->
               1 + Max({Cardinality(C) : C \in {D \in SUBSET Above(c) : Chain(D)}})]
    <3> HIDE DEF Above, Chain, r
    <3> QED BY <2>5, <2>6
  <2>8. DOMAIN time = p /\ \A c \in DOMAIN time : Ratio(time[c]) BY <2>2
  <2>9. RankValues(time) = [c \in p |->
               2 * Cardinality({d \in p : AtMost(time[d], time[c])}
                                 \ {d \in p : SameMean(time[d], time[c])})
                 + Cardinality({d \in p : SameMean(time[d], time[c])}) + 1]
    <3> HIDE DEF time
    <3> QED BY <2>1, <2>8, RankReference
  <2> QED BY <2>7, <2>9, Zenon DEF RanksAreReference, at
<1>2. RecordInv => RanksAreReference BY <1>1 DEF RecordInv
<1> QED BY <1>2, RecordSafe, PTL
=============================================================================
