------------------------------ MODULE Results ------------------------------
(***************************************************************************)
(* The result files of a run and everything that reads them.  The runner   *)
(* rewrites a case's attempts.csv and transmissions.csv after each block   *)
(* and the summaries only when it ends, from its memory, which after       *)
(* Ctrl-C can be ahead of the files; a killed run leaves old summaries     *)
(* beside newer rows, and --resume --dry-run puts empty ones there.  The   *)
(* checker, the plots, the tables and the statistical analysis read        *)
(* whatever is on disk, at any time.                                       *)
(*                                                                         *)
(* A measured quantity is an integer, or Blank for an empty cell.  A mean  *)
(* is the pair of its sum and its count, so that it stays exact; the       *)
(* formatting to three decimals is left out.  One payload size stands for  *)
(* the six.  The rewriting of a file is atomic here; a torn file is the    *)
(* subject of ResumableRun.  A selection of rows is the set of their places *)
(* in the file.                                                            *)
(***************************************************************************)
EXTENDS Integers, Sequences, FiniteSets, Functions, FiniteSetsExt

CONSTANTS
    Cases,        \* the cases of the run: finitely many
    Blocks,       \* what a block can record: a row and the rows of its transfers
    MaxEvents     \* bound: starts of the runner and rows on disk, together

Blank == -1
Cell == Nat \cup {Blank}   \* a duration, a number of bytes
Directions == {"server_to_device", "device_to_server"}

Attempts == [warm : BOOLEAN, status : {"success", "fail", "timeout", "unsupported"},
             hs : Cell, kem : Cell, sig : Cell, comm : Cell, heap : Cell, chain : Cell,
             dur : Cell,   \* handshake_duration_ms: the power window of the handshake
             power : {"success", "incomplete", ""}, energy : Int, reconnects : Nat]
Transfers == [dir : Directions, status : {"success", "fail", "timeout", "not_run"},
              complete : BOOLEAN, power : {"success", "incomplete", "unsupported"},
              ms : Cell, energy : Int]

ASSUME CasesAssumption == IsFiniteSet(Cases)

ASSUME BlocksAssumption ==
    \A b \in Blocks :
        /\ b.row \in Attempts /\ b.transfers \in Seq(Transfers)
        /\ b.row.power = "success" => b.row.energy # Blank
        /\ \A i \in DOMAIN b.transfers :
               (b.transfers[i].power = "success") = (b.transfers[i].energy # Blank)

VARIABLES
    pc,             \* the runner
    attempts,       \* attempts.csv of each case
    transmissions,  \* transmissions.csv of each case
    memory,         \* the runner's attempts
    tmemory,        \* the runner's transmissions
    pending,        \* the block, and its case, whose files are still to be written
    summary,        \* summary.csv (and handshake_summary.csv)
    tsummary,       \* transfer_summary.csv
    starts,
    basis,          \* history: the rows of each case that summary.csv was made from
    tbasis          \* history: the same for transfer_summary.csv

files == <<attempts, transmissions, summary, tsummary, basis, tbasis>>
summaries == <<summary, tsummary, basis, tbasis>>
vars == <<pc, files, memory, tmemory, pending, starts>>

(***************************************************************************)
(* Means                                                                   *)
(***************************************************************************)
\* the filled cells of a column, in the selected rows; their mean and maximum
Numbers(rows, at, field) == {i \in at : rows[i][field] # Blank}
Mean(rows, at, field) ==
    LET given == Numbers(rows, at, field)
    IN [sum |-> SumFunction([i \in given |-> rows[i][field]]), n |-> Cardinality(given)]
Largest(rows, at, field) ==
    LET given == Numbers(rows, at, field)
    IN IF given = {} THEN Blank ELSE Max({rows[i][field] : i \in given})

NoMean == [sum |-> 0, n |-> 0]
SameMean(a, b) == (a.n = 0) = (b.n = 0) /\ a.sum * b.n = b.sum * a.n
AtMost(a, b) == a.sum * b.n <= b.sum * a.n

(***************************************************************************)
(* The runner's summaries                                                  *)
(***************************************************************************)
Measured(rows) == {i \in DOMAIN rows : ~rows[i].warm}
Having(rows, status) == {i \in Measured(rows) : rows[i].status = status}
Successes(rows) == Having(rows, "success")
Count(rows, status) == Cardinality(Having(rows, status))

Status(rows) ==
    CASE Successes(rows) # {} /\ Successes(rows) = Measured(rows) -> "success"
      [] Successes(rows) # {} /\ Successes(rows) # Measured(rows) -> "mixed"
      [] Successes(rows) = {} /\ Count(rows, "unsupported") > 0 -> "unsupported"
      [] Successes(rows) = {} /\ Count(rows, "unsupported") = 0
             /\ Count(rows, "timeout") > 0 -> "timeout"
      [] OTHER -> "fail"

Powered(rows) == {i \in Successes(rows) : rows[i].power = "success"}

\* summarize: a power figure counts only the successes whose capture was complete
summarize(rows) ==
    [status |-> Status(rows),
     success |-> Count(rows, "success"), fail |-> Count(rows, "fail"),
     timeout |-> Count(rows, "timeout"), unsupported |-> Count(rows, "unsupported"),
     hs |-> Mean(rows, Successes(rows), "hs"), kem |-> Mean(rows, Successes(rows), "kem"),
     sig |-> Mean(rows, Successes(rows), "sig"), comm |-> Mean(rows, Successes(rows), "comm"),
     heap |-> Largest(rows, Successes(rows), "heap"),
     energy |-> Mean(rows, Powered(rows), "energy")]

DryRow == [summarize(<<>>) EXCEPT !.status = "dry_run"]

Group(rows, d) == {i \in DOMAIN rows : rows[i].dir = d}
Complete(rows, d) ==
    {i \in Group(rows, d) : rows[i].status = "success" /\ rows[i].complete}
Metered(rows, d) == {i \in Complete(rows, d) : rows[i].power = "success"}

summarize_transfers(rows) ==
    [d \in Directions |->
        [success |-> Cardinality(Complete(rows, d)),
         failed |-> Cardinality({i \in Group(rows, d) :
                                    rows[i].status \in {"fail", "timeout", "not_run"}}),
         ms |-> Mean(rows, Complete(rows, d), "ms"),
         energy |-> Mean(rows, Metered(rows, d), "energy")]]

(***************************************************************************)
(* The runner and its files                                                *)
(***************************************************************************)
NoRows == [c \in Cases |-> <<>>]
NoSummary == [on |-> FALSE, of |-> [c \in Cases |-> DryRow]]
EmptySummary == [on |-> TRUE, of |-> [c \in Cases |-> DryRow]]
NoTransferSummary == [on |-> FALSE, of |-> [c \in Cases |-> summarize_transfers(<<>>)]]

Init ==
    /\ pc = "down" /\ starts = 0
    /\ attempts = NoRows /\ transmissions = NoRows
    /\ memory = NoRows /\ tmemory = NoRows /\ pending = <<>>
    /\ summary = NoSummary /\ tsummary = NoTransferSummary
    /\ basis = NoRows /\ tbasis = NoRows

Events == starts + SumFunction([c \in Cases |-> Len(attempts[c])])   \* for the bound

StartForgets ==   \* mutant: a resumed run does not load its rows
    /\ pc = "down" /\ Events < MaxEvents
    /\ pc' = "loop" /\ starts' = starts + 1
    /\ memory' = NoRows /\ tmemory' = NoRows
    /\ UNCHANGED <<files, pending>>

\* A new run, whose directory is empty, or --resume: load_attempts, load_transmissions
Start ==
    /\ pc = "down" /\ Events < MaxEvents
    /\ pc' = "loop" /\ starts' = starts + 1
    /\ memory' = attempts /\ tmemory' = transmissions
    /\ UNCHANGED <<files, pending>>

\* --dry-run writes summaries of no attempt, also over those of a run it resumes
DryRun ==
    /\ pc = "down" /\ Events < MaxEvents
    /\ starts' = starts + 1
    /\ summary' = EmptySummary
    /\ tsummary' = [NoTransferSummary EXCEPT !.on = TRUE]
    /\ basis' = NoRows /\ tbasis' = NoRows
    /\ UNCHANGED <<pc, attempts, transmissions, memory, tmemory, pending>>

\* A block ends: its row is in memory ...
RunBlock(c, b) ==
    /\ pc = "loop" /\ Events < MaxEvents
    /\ memory' = [memory EXCEPT ![c] = Append(@, b.row)]
    /\ pending' = <<[case |-> c, block |-> b]>>
    /\ pc' = "row"
    /\ UNCHANGED <<files, tmemory, starts>>

\* ... then in attempts.csv ...
WriteAttempts ==
    /\ pc = "row"
    /\ LET c == pending[1].case IN attempts' = [attempts EXCEPT ![c] = memory[c]]
    /\ pc' = "rows"
    /\ UNCHANGED <<transmissions, summaries, memory, tmemory, pending, starts>>

\* ... its transfers are in memory, while handshakes.csv, a copy of attempts.csv, is
\* rewritten ...
ExtendTransmissions ==
    /\ pc = "rows"
    /\ LET c == pending[1].case
       IN tmemory' = [tmemory EXCEPT ![c] = @ \o pending[1].block.transfers]
    /\ pc' = "extended"
    /\ UNCHANGED <<files, memory, pending, starts>>

\* ... and then in transmissions.csv
WriteTransmissions ==
    /\ pc = "extended"
    /\ LET c == pending[1].case IN transmissions' = [transmissions EXCEPT ![c] = tmemory[c]]
    /\ pending' = <<>>
    /\ pc' = "loop"
    /\ UNCHANGED <<attempts, summaries, memory, tmemory, starts>>

\* The schedule is done, or Ctrl-C ended it between any two of these steps:
\* summary.csv, handshake_summary.csv
WriteSummary ==
    /\ pc \in {"loop", "row", "rows", "extended"}
    /\ summary' = [on |-> TRUE, of |-> [c \in Cases |-> summarize(memory[c])]]
    /\ basis' = memory
    /\ pc' = "summaries"
    /\ UNCHANGED <<attempts, transmissions, memory, tmemory, pending, tsummary, tbasis, starts>>

WriteTransferSummary ==
    /\ pc = "summaries"
    /\ tsummary' = [on |-> TRUE, of |-> [c \in Cases |-> summarize_transfers(tmemory[c])]]
    /\ tbasis' = tmemory
    /\ pc' = "down" /\ pending' = <<>> /\ memory' = NoRows /\ tmemory' = NoRows
    /\ UNCHANGED <<attempts, transmissions, summary, basis, starts>>

Kill ==
    /\ pc # "down"
    /\ pc' = "down" /\ pending' = <<>> /\ memory' = NoRows /\ tmemory' = NoRows
    /\ UNCHANGED <<files, starts>>

Next ==
    \/ Start \/ DryRun \/ Kill
    \/ \E c \in Cases, b \in Blocks : RunBlock(c, b)
    \/ WriteAttempts \/ ExtendTransmissions \/ WriteTransmissions
    \/ WriteSummary \/ WriteTransferSummary

Spec == Init /\ [][Next]_vars

(***************************************************************************)
(* The readers of handshake figures                                        *)
(***************************************************************************)
\* load_from_summary: the cases whose summary has a mean
LoadFromSummary == {c \in Cases : summary.on /\ summary.of[c].hs.n > 0}

\* load_from_attempts: a success without a handshake time is left out altogether
WithHandshake(rows) ==
    {i \in DOMAIN rows : rows[i].status = "success" /\ ~rows[i].warm /\ rows[i].hs # Blank}
LoadFromAttempts(c) ==
    LET rows == attempts[c]
        at == WithHandshake(rows)
    IN [hs |-> Mean(rows, at, "hs"), kem |-> Mean(rows, at, "kem"),
        sig |-> Mean(rows, at, "sig"), comm |-> Mean(rows, at, "comm"),
        success |-> Cardinality(at)]

\* add_attempt_resource_metrics takes the heap from attempts.csv, whatever the summary says
AttemptHeap(c) ==
    LET rows == attempts[c]
    IN Largest(rows, {i \in DOMAIN rows : rows[i].status = "success" /\ ~rows[i].warm}, "heap")

\* load_rows: what the time plots show of a case
Figure(c) ==
    LET row == IF LoadFromSummary # {} THEN summary.of[c] ELSE LoadFromAttempts(c)
    IN [hs |-> row.hs, kem |-> row.kem, sig |-> row.sig, comm |-> row.comm,
        success |-> row.success, heap |-> AttemptHeap(c)]

\* handshake_components and handshake_energy_components: the parts of a bar, over
\* the denominator den; parts that overlap are scaled down to the whole
Components(whole, kem, sig, comm) ==
    LET measured == kem + sig + comm
    IN IF measured > whole /\ measured > 0
       THEN [den |-> measured, kem |-> kem * whole, sig |-> sig * whole,
             comm |-> comm * whole, other |-> 0]
       ELSE [den |-> 1, kem |-> kem, sig |-> sig, comm |-> comm, other |-> whole - measured]

\* The means of a bar, brought to one denominator; a missing one is drawn as zero
Over(m) == IF m.n = 0 THEN 1 ELSE m.n
Scale(f) == Over(f.hs) * Over(f.kem) * Over(f.sig) * Over(f.comm)
Scaled(m, k) == IF m.n = 0 THEN 0 ELSE m.sum * (k \div m.n)
HandshakeComponents(f) ==
    LET k == Scale(f)
    IN Components(Scaled(f.hs, k), Scaled(f.kem, k), Scaled(f.sig, k), Scaled(f.comm, k))

\* plot_energy_bars load_rows and add_energy_confidence_intervals: the mean comes
\* from the summary if there is one, the sample of its interval from attempts.csv
EnergySample(c) == Mean(attempts[c], Successes(attempts[c]), "energy")
EnergyFigure(c) ==
    [mean |-> IF summary.on THEN summary.of[c].energy ELSE EnergySample(c),
     sample |-> EnergySample(c)]

(***************************************************************************)
(* The readers of transfer figures                                         *)
(***************************************************************************)
\* load_transfer_attempts: a row of an incomplete round is not left out
LoadTransferAttempts(c) ==
    {i \in DOMAIN transmissions[c] : transmissions[c][i].status = "success"}

\* generate_transfer_scaling_table aggregate: one mean over the cases of a PKI kind
AllTransfers == UNION {{c} \X LoadTransferAttempts(c) : c \in Cases}
ScalingMean(d) ==
    LET rows == [p \in AllTransfers |-> transmissions[p[1]][p[2]]]
    IN Mean(rows, {p \in AllTransfers : rows[p].dir = d}, "ms")

\* transfer_energy_by_case (balanced): twice the mean of the two directions' means
BalancedEnergy(c) ==
    LET up == tsummary.of[c]["device_to_server"].energy
        down == tsummary.of[c]["server_to_device"].energy
    IN IF up.n = 0 \/ down.n = 0 THEN NoMean
       ELSE [sum |-> up.sum * down.n + down.sum * up.n, n |-> up.n * down.n]

(***************************************************************************)
(* The statistical analysis                                                *)
(***************************************************************************)
\* load_attempt_data: the rejections in their order (without --include-reconnects), two
\* for each field of BASE_REQUIRED.  A column that a file lacks is one of empty cells:
\* the code rejects each of its rows as missing, as it does an empty cell.
Reasons == <<"not_success", "warmup", "power_incomplete", "reconnected",
             "missing_hs", "nonpositive_hs", "missing_dur", "nonpositive_dur",
             "missing_energy", "nonpositive_energy">>
Applies(reason, r) ==
    \/ reason = "not_success" /\ r.status # "success"
    \/ reason = "warmup" /\ r.warm
    \/ reason = "power_incomplete" /\ r.power # "success"
    \/ reason = "reconnected" /\ r.reconnects > 0
    \/ reason = "missing_hs" /\ r.hs = Blank
    \/ reason = "nonpositive_hs" /\ r.hs # Blank /\ r.hs <= 0
    \/ reason = "missing_dur" /\ r.dur = Blank
    \/ reason = "nonpositive_dur" /\ r.dur # Blank /\ r.dur <= 0
    \/ reason = "missing_energy" /\ r.energy = Blank
    \/ reason = "nonpositive_energy" /\ r.energy # Blank /\ r.energy <= 0

\* what the first k rejections keep, what the k-th one counts
Keep(rows, k) == {i \in DOMAIN rows : \A j \in 1..k : ~Applies(Reasons[j], rows[i])}
RejectionCountAll(rows, k) ==   \* mutant: each reason counted on its own
     Cardinality({i \in DOMAIN rows : Applies(Reasons[k], rows[i])})
RejectionCount(rows, k) ==
     Cardinality({i \in Keep(rows, k - 1) : Applies(Reasons[k], rows[i])})

Accepted(rows) == Keep(rows, Len(Reasons))

\* pareto_frontier: a case with accepted attempts, its objectives, lower being better
Objectives(c) ==
    LET rows == attempts[c]
        at == Accepted(rows)
        failures == {i \in DOMAIN rows : rows[i].status # "success"}
    IN <<Mean(rows, at, "hs"), Mean(rows, at, "energy"),
         [sum |-> Largest(rows, at, "heap"), n |-> 1], Mean(rows, at, "chain"),
         [sum |-> Cardinality(failures), n |-> Len(rows)]>>
Points == {c \in Cases : \A f \in {"hs", "energy", "heap", "chain"} :
                               Numbers(attempts[c], Accepted(attempts[c]), f) # {}}
Dominates(p, q) ==
    /\ \A i \in DOMAIN p : AtMost(p[i], q[i])
    /\ \E i \in DOMAIN p : ~AtMost(q[i], p[i])

\* pareto_ranks: the fronts, peeled off one by one; at[c] are the objectives of c
ParetoFront(at, rest) ==
    LET free == {c \in rest : ~\E d \in rest : Dominates(at[d], at[c])}
    IN IF free = {} THEN rest ELSE free
ParetoRanks(at) ==
    LET n == Cardinality(DOMAIN at)
        remaining[rank \in 1..(n + 1)] ==
            IF rank = 1 THEN DOMAIN at
            ELSE remaining[rank - 1] \ ParetoFront(at, remaining[rank - 1])
    IN [c \in DOMAIN at |-> CHOOSE rank \in 1..n : c \in ParetoFront(at, remaining[rank])]

\* rank_values (for the Spearman matrix): argsort (some order of equal values: the
\* rank does not tell), the end of the run of equal values from a start, and twice the
\* rank of each value, the members of a run sharing its middle
Argsort(value) ==
    LET n == Cardinality(DOMAIN value)
    IN CHOOSE s \in [1..n -> DOMAIN value] :
           /\ \A c \in DOMAIN value : \E i \in 1..n : s[i] = c
           /\ \A i, j \in 1..n : i < j => AtMost(value[s[i]], value[s[j]])
End(value, order, start) ==
    Max({t \in start..Cardinality(DOMAIN value) :
            \A u \in start..t : SameMean(value[order[u]], value[order[start]])})

RankValuesOrdinal(value) ==   \* mutant: ties are not shared
    LET order == Argsort(value)
    IN [c \in DOMAIN value |-> 2 * (CHOOSE i \in DOMAIN order : order[i] = c)]
RankValues(value) ==
    LET n == Cardinality(DOMAIN value)
        order == Argsort(value)
        start[k \in 1..(n + 1)] ==
            IF k = 1 THEN 1
            ELSE IF start[k - 1] > n THEN start[k - 1]
            ELSE End(value, order, start[k - 1]) + 1
        Runs == {start[k] : k \in 1..n} \cap (1..n)
        RunOf(c) == CHOOSE s \in Runs : \E i \in s..End(value, order, s) : order[i] = c
    IN [c \in DOMAIN value |-> RunOf(c) + End(value, order, RunOf(c))]

\* check_results: PASS
Pass(c) == attempts[c] # <<>> /\ \A i \in DOMAIN attempts[c] : attempts[c][i].status = "success"

(***************************************************************************)
(* Properties.  A reader sees only files, and Kill leads from any state to *)
(* one with the same files: two of them are stated where the runner is     *)
(* down.                                                                   *)
(***************************************************************************)
\* The first rows of a file; these, then those of at most one lost block
OnDisk(rows, file) == Len(rows) <= Len(file) /\ rows = SubSeq(file, 1, Len(rows))
OnDiskBut(rows, file, lost) ==
    \E k \in 0..Len(file), x \in lost \cup {<<>>} : rows = SubSeq(file, 1, k) \o x
LostRows == {<<b.row>> : b \in Blocks}
LostTransfers == {b.transfers : b \in Blocks}

Unmixed(rows) ==
    \A i \in Successes(rows) : rows[i].power = "success" \/ rows[i].energy = Blank

\* The mean a time plot shows is that of the measured successes among the rows the
\* summary was made from, or in attempts.csv if no summary has a mean, and the parts
\* of its bar fill it exactly
HandshakeFigure(c) ==
    LET rows == IF LoadFromSummary # {} THEN basis[c] ELSE attempts[c]
        bar == HandshakeComponents(Figure(c))
        whole == Scaled(Figure(c).hs, Scale(Figure(c)))
    IN /\ SameMean(Figure(c).hs, Mean(rows, Successes(rows), "hs"))
       /\ bar.other >= 0 /\ bar.kem >= 0 /\ bar.sig >= 0 /\ bar.comm >= 0
       /\ bar.kem + bar.sig + bar.comm + bar.other * bar.den = whole * bar.den

\* The interval of a mean energy is of the same sample as the mean when the summary
\* is current and no success with an incomplete capture carries an energy; the mean
\* is then that of the powered successes
EnergyFromRecords(c) ==
    LET rows == IF summary.on THEN basis[c] ELSE attempts[c]
        powered == Mean(rows, Powered(rows), "energy")
    IN Unmixed(attempts[c]) =>
           /\ SameMean(EnergyFigure(c).mean, powered)
           /\ basis[c] = attempts[c] => EnergyFigure(c).sample = powered

\* A transfer mean is that of the complete rounds the summary was made from; a
\* balanced energy has a powered transfer of a complete round in each direction
\* behind it; the scaling table agrees with the summary when that is current and no
\* round on disk is incomplete
TransferFigure(d) ==
    /\ \A c \in Cases :
           LET rows == tbasis[c]
           IN /\ SameMean(tsummary.of[c][d].ms, Mean(rows, Complete(rows, d), "ms"))
              /\ BalancedEnergy(c).n > 0 => Metered(rows, d) # {}
    /\ (\A c \in Cases : /\ tbasis[c] = transmissions[c]
                         /\ \A i \in DOMAIN transmissions[c] : transmissions[c][i].complete)
       => ScalingMean(d).n = SumFunction([c \in Cases |-> tsummary.of[c][d].ms.n])

\* Whatever stops and restarts the runner, every figure a plot or table shows is that
\* of recorded rows and of at most one block more, the one Ctrl-C hit between an append
\* or extend and the rewrite of its file: memory, files and summaries drift no further
\* apart (main's loop and its write_csv calls, load_attempts, summarize, load_rows)
FiguresFromRecords ==
    /\ \A c \in Cases : /\ OnDiskBut(basis[c], attempts[c], LostRows)
                        /\ OnDiskBut(tbasis[c], transmissions[c], LostTransfers)
    /\ \A c, d \in Cases : c # d =>
           /\ OnDisk(basis[c], attempts[c]) \/ OnDisk(basis[d], attempts[d])
           /\ OnDisk(tbasis[c], transmissions[c]) \/ OnDisk(tbasis[d], transmissions[d])
    /\ \A c \in Cases : HandshakeFigure(c) /\ EnergyFromRecords(c)
    /\ \A d \in Directions : TransferFigure(d)

\* Each row is counted once by each reader: the analysis accepts it or rejects it for
\* one reason, and accepts exactly the sound ones; the summary counts each measured
\* row under one status; and what check_results passes, the summary calls a success
\* unless it only holds warm-ups (load_attempt_data, summarize, check_results.main)
RowsAccounted ==
    pc = "down" => \A c \in Cases :
        LET rows == attempts[c]
            sum == summarize(rows)
            Sound(r) == /\ r.status = "success" /\ ~r.warm /\ r.power = "success"
                        /\ r.reconnects = 0 /\ r.hs > 0 /\ r.dur > 0 /\ r.energy > 0
        IN /\ Accepted(rows) = {i \in DOMAIN rows : Sound(rows[i])}
           /\ Cardinality(Accepted(rows))
                + SumFunction([k \in DOMAIN Reasons |-> RejectionCount(rows, k)]) = Len(rows)
           /\ sum.success + sum.fail + sum.timeout + sum.unsupported
                = Cardinality(Measured(rows))
           /\ Pass(c) => sum.status = IF Measured(rows) = {} THEN "fail" ELSE "success"
           /\ sum.status = "success" => Pass(c) \/ \E i \in DOMAIN rows : rows[i].warm

\* The rank of a case is one more than the longest chain of cases that dominate each
\* other and it (pareto_ranks), and the rank for the Spearman matrix is the mean place
\* of the equal values (rank_values)
RanksAreReference ==
    LET at == [c \in Points |-> Objectives(c)]
        points == DOMAIN at
        Chain(C) == \A a, b \in C : a = b \/ Dominates(at[a], at[b]) \/ Dominates(at[b], at[a])
        Above(c) == {d \in points : Dominates(at[d], at[c])}
        time == [c \in points |-> at[c][1]]
        Equals(c) == {d \in points : SameMean(time[d], time[c])}
        Below(c) == {d \in points : AtMost(time[d], time[c])} \ Equals(c)
    IN pc = "down" =>
       /\ ParetoRanks(at) = [c \in points |->
               1 + Max({Cardinality(C) : C \in {D \in SUBSET Above(c) : Chain(D)}})]
       /\ RankValues(time) = [c \in points |->
               2 * Cardinality(Below(c)) + Cardinality(Equals(c)) + 1]
=============================================================================
