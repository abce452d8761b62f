-------------------------- MODULE DeviceBenchProofs --------------------------
(* What is proved of DeviceBench, for every case file, any number of        *)
(* iterations, torn lines and progress lines.                               *)
EXTENDS DeviceBench, SequenceTheorems, FiniteSetTheorems, TLAPS

-----------------------------------------------------------------------------
(***************************************************************************)
(* The inductive invariant.  RESULT lines carry no attempt number, so that *)
(* a row holds its own command's values rests on what can lie in the input *)
(* buffer at each point of the runner: after a reset the RESULT of the     *)
(* command that timed out comes before every READY, hence is gone once a   *)
(* READY, stale or not, has been read.                                     *)
(***************************************************************************)
IsSeq(s) == \E S : s \in Seq(S)

Current == <<order[ci], at>>

BoardShape ==
  /\ DOMAIN board = {"st", "cmd", "todo", "boots", "prog"}
  /\ board.st \in {"boot", "idle", "busy", "post", "fatal"}
  /\ board.boots \in Nat

(* A line of this boot saying READY was printed by a board that has come up. *)
LinesKnown ==
  /\ IsSeq(rx)
  /\ \A i \in DOMAIN rx :
       /\ rx[i].m \in {"READY", "RESULT", "PROGRESS"}
       /\ rx[i].m = "RESULT" => rx[i].status \in {"success", "fail", "unsupported"}
       /\ rx[i].boots \in Nat /\ rx[i].boots <= board.boots
       /\ rx[i].m = "READY" /\ rx[i].boots = board.boots =>
            board.st \notin {"boot", "fatal"}

AllReady == \A i \in DOMAIN rx : rx[i].m = "READY"
NoReady == \A i \in DOMAIN rx : rx[i].m # "READY"
NoResult == \A i \in DOMAIN rx : rx[i].m # "RESULT"
ReadyLast == \A i, j \in DOMAIN rx : i < j /\ rx[i].m = "READY" => rx[j].m = "READY"

OnDevice == kind # "host"
Resetting == pc \in {"reset0", "reset", "ready0", "ready"}

NoCommand ==
  OnDevice /\ (Resetting \/ pc \in {"flash", "open", "record", "send"}) => board.todo = <<>>

BoardReset ==
  OnDevice /\ ((pc = "open" /\ ~skip) \/ pc \in {"ready0", "ready"}) =>
    board.st \in {"boot", "idle", "fatal"}

OldAnswersFirst == OnDevice /\ Resetting => ReadyLast /\ (board.st = "busy" => NoReady)

OldAnswersGone == OnDevice /\ pc \in {"record", "send"} => AllReady /\ board.st # "busy"

OnlyOwnAnswer ==
  OnDevice /\ pc = "wait" =>
    /\ \A i \in DOMAIN rx : rx[i].m # "READY" => rx[i].cmd = Current
    /\ \A i, j \in DOMAIN rx : i < j /\ rx[i].m = "RESULT" => rx[j].m = "READY"
    /\ board.todo # <<>> =>
         /\ \E c : board.todo = <<c>> /\ c.cmd = Current
         /\ AllReady /\ board.st # "busy"
    /\ board.st = "busy" => board.cmd = Current /\ NoResult

FreshReady ==
  OnDevice /\ pc \in {"record", "send", "wait"} /\ ~stale =>
    board.st \notin {"boot", "fatal"}

CommandHistory ==
  pc \in {"wait", "reset", "ready", "record"} =>
    /\ progress \in {NoCmd, Current}
    /\ ~given.got => given.stale

GoodRow(r) ==
  /\ r.from \in {NoCmd, <<r.alg, r.attempt>>}
  /\ r.status = "success" => r.timings = "whole"
  /\ r.status = "timeout" /\ ~r.got => r.stale

RowsGood == IsSeq(rows) /\ \A i \in DOMAIN rows : GoodRow(rows[i])

AttemptInRange == at \in 1 .. Iterations

BenchInv ==
  /\ kind \in {"kem", "cert", "host"}
  /\ BoardShape /\ LinesKnown /\ NoCommand /\ BoardReset /\ OldAnswersFirst
  /\ OldAnswersGone /\ OnlyOwnAnswer /\ FreshReady /\ CommandHistory /\ RowsGood

-----------------------------------------------------------------------------
(* Lines and rows as sequences.                                             *)

(* A line that is printed becomes the last one, or is lost. *)
LEMMA Printed ==
    ASSUME IsSeq(rx), NEW line, Emit(line)
    PROVE  /\ IsSeq(rx')
           /\ \A i \in DOMAIN rx' : \/ rx'[i] = line
                                    \/ i \in DOMAIN rx /\ rx'[i] = rx[i]
           /\ \A i, j \in DOMAIN rx' : i < j => i \in DOMAIN rx /\ rx'[i] = rx[i]
<1>1. PICK S : rx \in Seq(S) BY DEF IsSeq
<1>2. CASE open
  <2>1. rx' = Append(rx, line) BY <1>2 DEF Emit
  <2>2. rx \in Seq(S \cup {line})
    <3>1. rx \in [1 .. Len(rx) -> S \cup {line}] BY <1>1
    <3> QED BY <1>1, <3>1
  <2>3. rx' \in Seq(S \cup {line}) BY <2>1, <2>2
  <2>4. /\ Len(rx) \in Nat /\ DOMAIN rx = 1 .. Len(rx)
        /\ DOMAIN rx' = 1 .. (Len(rx) + 1)
        /\ \A i \in 1 .. Len(rx) : rx'[i] = rx[i]
        /\ rx'[Len(rx) + 1] = line
    BY <2>1, <2>2
  <2>5. \A i \in DOMAIN rx' : i \in DOMAIN rx \/ i = Len(rx) + 1
    BY <2>4
  <2>6. \A i, j \in DOMAIN rx' : i < j => i \in DOMAIN rx
    BY <2>4
  <2> QED BY <2>3, <2>4, <2>5, <2>6 DEF IsSeq
<1>3. CASE ~open
  <2>1. rx' = rx BY <1>3 DEF Emit
  <2> QED BY <1>1, <2>1 DEF IsSeq
<1> QED BY <1>2, <1>3

(* The first line is read, the others keep their order. *)
LEMMA Read ==
    ASSUME IsSeq(rx), rx # <<>>, rx' = Tail(rx)
    PROVE  /\ IsSeq(rx')
           /\ 1 \in DOMAIN rx /\ Head(rx) = rx[1]
           /\ \A i \in DOMAIN rx' :
                i \in Int /\ i + 1 \in DOMAIN rx /\ 1 < i + 1 /\ rx'[i] = rx[i + 1]
<1>1. PICK S : rx \in Seq(S) BY DEF IsSeq
<1>2. rx' \in Seq(S) BY <1>1
<1>3. /\ Len(rx) \in Nat /\ 0 < Len(rx) /\ DOMAIN rx = 1 .. Len(rx)
      /\ DOMAIN rx' = 1 .. (Len(rx) - 1) /\ Head(rx) = rx[1]
      /\ \A i \in 1 .. (Len(rx) - 1) : rx'[i] = rx[i + 1]
  BY <1>1
<1> QED BY <1>2, <1>3 DEF IsSeq

LEMMA RowAdded ==
    ASSUME RowsGood, NEW r, GoodRow(r), rows' = Append(rows, r)
    PROVE  RowsGood'
<1>1. PICK S : rows \in Seq(S) BY DEF RowsGood, IsSeq
<1>2. rows \in Seq(S \cup {r})
  <2>1. rows \in [1 .. Len(rows) -> S \cup {r}] BY <1>1
  <2> QED BY <1>1, <2>1
<1>3. rows' \in Seq(S \cup {r}) BY <1>2
<1>4. /\ Len(rows) \in Nat /\ DOMAIN rows = 1 .. Len(rows)
      /\ DOMAIN rows' = 1 .. (Len(rows) + 1)
      /\ \A i \in 1 .. Len(rows) : rows'[i] = rows[i]
      /\ rows'[Len(rows) + 1] = r
  BY <1>2
<1>5. \A i \in DOMAIN rows' : rows'[i] = r \/ (i \in DOMAIN rows /\ rows'[i] = rows[i])
  BY <1>4
<1>6. \A i \in DOMAIN rows' : GoodRow(rows'[i])
  BY <1>5 DEF RowsGood
<1> QED BY <1>3, <1>6 DEF RowsGood, IsSeq, GoodRow

(* The rows of a timeout: one for the attempt, one for each it cancels. *)
LEMMA RowsCancelled ==
    ASSUME RowsGood, NEW r, GoodRow(r),
           NEW C, \A x \in C : GoodRow(x), NEW c \in Seq(C),
           rows' = Append(rows, r) \o c
    PROVE  RowsGood'
<1>1. PICK S : rows \in Seq(S) BY DEF RowsGood, IsSeq
<1> DEFINE R == S \cup C \cup {r}
           a == Append(rows, r)
<1>2. rows \in Seq(R) /\ c \in Seq(R) /\ r \in R
  <2>1. rows \in [1 .. Len(rows) -> R] BY <1>1
  <2>2. c \in [1 .. Len(c) -> R] OBVIOUS
  <2> QED BY <1>1, <2>1, <2>2
<1>3. /\ Len(rows) \in Nat /\ DOMAIN rows = 1 .. Len(rows)
      /\ a \in Seq(R) /\ Len(a) = Len(rows) + 1
      /\ \A i \in 1 .. Len(rows) : a[i] = rows[i]
      /\ a[Len(rows) + 1] = r
  <2> HIDE DEF R
  <2> QED BY <1>2
<1>4. /\ Len(c) \in Nat /\ \A i \in 1 .. Len(c) : c[i] \in C
  OBVIOUS
<1>5. rows' = a \o c OBVIOUS
<1> HIDE DEF a, R
<1>6. rows' \in Seq(R) BY <1>2, <1>3, <1>5
<1>7. /\ DOMAIN rows' = 1 .. (Len(a) + Len(c))
      /\ \A i \in 1 .. (Len(a) + Len(c)) :
           rows'[i] = IF i <= Len(a) THEN a[i] ELSE c[i - Len(a)]
  <2>1. a \in Seq(R) /\ c \in Seq(R) BY <1>2, <1>3
  <2>2. /\ Len(a \o c) = Len(a) + Len(c)
        /\ \A i \in 1 .. (Len(a) + Len(c)) :
             (a \o c)[i] = IF i <= Len(a) THEN a[i] ELSE c[i - Len(a)]
    BY <2>1, ConcatProperties, Zenon
  <2>3. DOMAIN rows' = 1 .. Len(rows') BY <1>6
  <2> QED BY <1>5, <2>2, <2>3, Zenon
<1>8. ASSUME NEW i \in DOMAIN rows' PROVE GoodRow(rows'[i])
  <2>1. i \in 1 .. (Len(a) + Len(c)) BY <1>7
  <2>2. CASE i <= Len(rows)
    <3>1. i \in DOMAIN rows /\ rows'[i] = rows[i] BY <1>3, <1>7, <2>1, <2>2
    <3> QED BY <3>1 DEF RowsGood
  <2>3. CASE i = Len(rows) + 1
    <3>1. rows'[i] = r BY <1>3, <1>7, <2>1, <2>3
    <3> QED BY <3>1
  <2>4. CASE i > Len(rows) + 1
    <3>1. i - Len(a) \in 1 .. Len(c) /\ rows'[i] = c[i - Len(a)]
      BY <1>3, <1>4, <1>7, <2>1, <2>4
    <3> QED BY <1>4, <3>1
  <2> QED BY <1>3, <1>4, <2>1, <2>2, <2>3, <2>4
<1> QED BY <1>6, <1>8 DEF RowsGood, IsSeq, GoodRow

(* A line cut behind its sizes still has its timings: emit_result prints    *)
(* them first.                                                             *)
LEMMA SizesAfterTimings ==
    ASSUME kind \in {"kem", "cert"}, NEW v \in Readings
    PROVE  /\ v.sizes = "whole" => v.timings = "whole"
           /\ v.status \in FieldState
<1>1. PICK k \in Int : v = CutAt(k)
  <2>1. Len(Fields) + 1 \in Int /\ DOMAIN Fields \subseteq Int
    BY DEF Fields
  <2> QED BY <2>1 DEF Readings
<1>2. /\ DOMAIN Fields \subseteq Int
      /\ 1 \in DOMAIN Fields /\ 2 \in DOMAIN Fields /\ 3 \in DOMAIN Fields
      /\ Fields[1] = "status" /\ Fields[2] = "timings" /\ Fields[3] = "sizes"
      /\ \A j \in DOMAIN Fields : (Fields[j] = "timings" => j = 2)
                                  /\ (Fields[j] = "sizes" => j = 3)
  BY DEF Fields
<1>3. {"status", "timings", "sizes"} \subseteq ToSet(Fields)
  BY <1>2 DEF ToSet
<1>4. (CHOOSE j \in DOMAIN Fields : Fields[j] = "timings") = 2
  BY <1>2
<1>5. (CHOOSE j \in DOMAIN Fields : Fields[j] = "sizes") = 3
  BY <1>2
<1>6. v.timings = IF 2 < k THEN "whole" ELSE IF 2 = k THEN "cut" ELSE "none"
  BY <1>1, <1>3, <1>4 DEF CutAt
<1>7. v.sizes = IF 3 < k THEN "whole" ELSE IF 3 = k THEN "cut" ELSE "none"
  BY <1>1, <1>3, <1>5 DEF CutAt
<1>8. v.status \in {"whole", "cut", "none"}
  BY <1>1, <1>3 DEF CutAt
<1> QED BY <1>6, <1>7, <1>8 DEF FieldState
-----------------------------------------------------------------------------
(* The steps of the board.                                                  *)

(* What a step of the board cannot disturb. *)
LEMMA BoardKeepsRows ==
    ASSUME BenchInv, BoardUnchanged
    PROVE  kind' \in {"kem", "cert", "host"} /\ CommandHistory' /\ RowsGood'
<1> QED BY DEF BenchInv, BoardUnchanged, CommandHistory, OnDevice, Current,
               RowsGood, GoodRow, IsSeq

LEMMA BoardBootsKeeps == ASSUME BenchInv, BoardBoots PROVE BenchInv'
<1> USE DEF BenchInv
<1>1. BoardUnchanged /\ board.st = "boot" BY DEF BoardBoots
<1>2. CASE board' = [board EXCEPT !.st = "idle"] /\ Emit(ReadyLine)
  <2>1. /\ IsSeq(rx')
        /\ \A i \in DOMAIN rx' : \/ rx'[i] = ReadyLine
                                 \/ i \in DOMAIN rx /\ rx'[i] = rx[i]
        /\ \A i, j \in DOMAIN rx' : i < j => i \in DOMAIN rx /\ rx'[i] = rx[i]
    BY <1>2, Printed DEF LinesKnown
  <2>2. /\ BoardShape' /\ board'.st = "idle" /\ board'.boots = board.boots
        /\ board'.todo = board.todo /\ board'.cmd = board.cmd
    BY <1>2 DEF BoardShape
  <2>3. ReadyLine.m = "READY" /\ ReadyLine.boots = board.boots
    BY DEF ReadyLine
  <2>4. LinesKnown'
    BY <2>1, <2>2, <2>3 DEF LinesKnown, BoardShape
  <2>5. NoCommand' /\ BoardReset'
    BY <1>1, <2>2 DEF BoardUnchanged, NoCommand, BoardReset, OnDevice, Resetting
  <2>6. OldAnswersFirst'
    <3>1. ReadyLast => ReadyLast'
      BY <2>1, <2>3 DEF ReadyLast
    <3> QED BY <1>1, <2>2, <3>1 DEF BoardUnchanged, OldAnswersFirst, OnDevice, Resetting
  <2>7. AllReady => AllReady'
    BY <2>1, <2>3 DEF AllReady
  <2>8. OldAnswersGone'
    BY <1>1, <2>2, <2>7 DEF BoardUnchanged, OldAnswersGone, OnDevice
  <2>9. OnlyOwnAnswer'
    <3> SUFFICES ASSUME OnDevice, pc = "wait" PROVE OnlyOwnAnswer'
      BY <1>1 DEF BoardUnchanged, OnlyOwnAnswer, OnDevice
    <3>1. Current' = Current BY <1>1 DEF BoardUnchanged, Current
    <3>2. \A i \in DOMAIN rx' : rx'[i].m # "READY" => rx'[i].cmd = Current
      BY <2>1, <2>3 DEF OnlyOwnAnswer
    <3>3. \A i, j \in DOMAIN rx' : i < j /\ rx'[i].m = "RESULT" => rx'[j].m = "READY"
      BY <2>1, <2>3 DEF OnlyOwnAnswer
    <3> QED BY <2>2, <2>7, <3>1, <3>2, <3>3 DEF OnlyOwnAnswer
  <2>10. FreshReady'
    BY <1>1, <2>2 DEF BoardUnchanged, FreshReady, OnDevice
  <2> QED BY <1>1, <2>2, <2>4, <2>5, <2>6, <2>8, <2>9, <2>10, BoardKeepsRows
<1>3. CASE board' = [board EXCEPT !.st = "fatal", !.todo = <<>>] /\ UNCHANGED rx
  <2>1. /\ BoardShape' /\ board'.st = "fatal" /\ board'.boots = board.boots
        /\ board'.todo = <<>> /\ board'.cmd = board.cmd
    BY <1>3 DEF BoardShape
  <2>2. rx' = rx BY <1>3
  <2>3. LinesKnown' BY <1>1, <2>1, <2>2 DEF LinesKnown
  <2>4. NoCommand' /\ BoardReset' /\ OldAnswersFirst' /\ OldAnswersGone'
    BY <1>1, <2>1, <2>2 DEF BoardUnchanged, NoCommand, BoardReset, OldAnswersFirst,
       OldAnswersGone, OnDevice, Resetting, ReadyLast, AllReady, NoReady
  <2>5. OnlyOwnAnswer'
    BY <1>1, <2>1, <2>2 DEF BoardUnchanged, OnlyOwnAnswer, OnDevice, Current
  <2>6. FreshReady'
    BY <1>1 DEF BoardUnchanged, FreshReady, OnDevice
  <2> QED BY <1>1, <2>1, <2>3, <2>4, <2>5, <2>6, BoardKeepsRows
<1> QED BY <1>2, <1>3 DEF BoardBoots

(* Only a runner that waits has a command under way. *)
LEMMA BoardTakesKeeps == ASSUME BenchInv, BoardTakes PROVE BenchInv'
<1> USE DEF BenchInv
<1> DEFINE c == Head(board.todo)
<1>1. BoardUnchanged /\ board.st = "idle" /\ board.todo # <<>>
  BY DEF BoardTakes
<1>2. OnDevice => pc \notin {"flash", "open", "record", "send"} /\ ~Resetting
  BY <1>1 DEF NoCommand
<1>3. NoCommand' /\ BoardReset' /\ OldAnswersFirst' /\ OldAnswersGone'
  BY <1>1, <1>2 DEF BoardUnchanged, NoCommand, BoardReset, OldAnswersFirst,
     OldAnswersGone, OnDevice, Resetting
<1>4. OnDevice /\ pc = "wait" =>
        c.cmd = Current /\ Tail(board.todo) = <<>> /\ AllReady
  <2> SUFFICES ASSUME OnDevice, pc = "wait"
               PROVE  c.cmd = Current /\ Tail(board.todo) = <<>> /\ AllReady
    OBVIOUS
  <2>1. PICK d : board.todo = <<d>> /\ d.cmd = Current
    BY <1>1 DEF OnlyOwnAnswer
  <2>2. c = d /\ Tail(board.todo) = <<>> BY <2>1
  <2> QED BY <1>1, <2>1, <2>2 DEF OnlyOwnAnswer
<1>5. OnDevice' = OnDevice /\ pc' = pc /\ Current' = Current /\ stale' = stale
  BY <1>1 DEF BoardUnchanged, OnDevice, Current
<1> HIDE DEF c
<1>6. CASE /\ board' = [board EXCEPT !.st = "busy", !.cmd = c.cmd,
                                     !.todo = Tail(@), !.prog = 0]
           /\ UNCHANGED rx
  <2>1. /\ BoardShape' /\ board'.st = "busy" /\ board'.boots = board.boots
        /\ board'.todo = Tail(board.todo) /\ board'.cmd = c.cmd
    BY <1>6 DEF BoardShape
  <2>2. LinesKnown' BY <1>1, <1>6, <2>1 DEF LinesKnown
  <2>3. OnlyOwnAnswer'
    BY <1>4, <1>5, <1>6, <2>1 DEF OnlyOwnAnswer, AllReady, NoResult
  <2>4. FreshReady' BY <1>5, <2>1 DEF FreshReady
  <2> QED BY <1>1, <1>3, <2>1, <2>2, <2>3, <2>4, BoardKeepsRows
<1>7. CASE /\ board' = [board EXCEPT !.todo = Tail(@)]
           /\ Emit(ResultLine(c.cmd, "fail", TRUE))
  <2> DEFINE line == ResultLine(c.cmd, "fail", TRUE)
  <2>1. /\ BoardShape' /\ board'.st = "idle" /\ board'.boots = board.boots
        /\ board'.todo = Tail(board.todo)
    BY <1>1, <1>7 DEF BoardShape
  <2>2. /\ line.m = "RESULT" /\ line.boots = board.boots
        /\ line.status = "fail" /\ line.cmd = c.cmd
    BY DEF ResultLine
  <2> HIDE DEF line
  <2>3. /\ IsSeq(rx')
        /\ \A i \in DOMAIN rx' : \/ rx'[i] = line
                                 \/ i \in DOMAIN rx /\ rx'[i] = rx[i]
        /\ \A i, j \in DOMAIN rx' : i < j => i \in DOMAIN rx /\ rx'[i] = rx[i]
    BY <1>7, Printed DEF LinesKnown, line
  <2>4. LinesKnown'
    BY <1>1, <2>1, <2>2, <2>3 DEF LinesKnown, BoardShape
  <2>5. OnlyOwnAnswer'
    <3> SUFFICES ASSUME OnDevice, pc = "wait" PROVE OnlyOwnAnswer'
      BY <1>5 DEF OnlyOwnAnswer
    <3>1. \A i \in DOMAIN rx' : rx'[i].m # "READY" => rx'[i].cmd = Current
      BY <1>4, <2>2, <2>3 DEF AllReady
    <3>2. \A i, j \in DOMAIN rx' : i < j /\ rx'[i].m = "RESULT" => rx'[j].m = "READY"
      BY <1>4, <2>3 DEF AllReady
    <3> QED BY <1>4, <1>5, <2>1, <3>1, <3>2 DEF OnlyOwnAnswer
  <2>6. FreshReady' BY <1>5, <2>1 DEF FreshReady
  <2> QED BY <1>1, <1>3, <2>1, <2>4, <2>5, <2>6, BoardKeepsRows
<1> QED BY <1>6, <1>7 DEF BoardTakes, c

(* A busy board prints for the command it works on: behind every line but    *)
(* READY, and while the runner resets before any READY.                     *)
LEMMA BusyPrints ==
    ASSUME BenchInv, BoardUnchanged, board.st = "busy", NEW line, Emit(line),
           line.m \in {"RESULT", "PROGRESS"}, line.cmd = board.cmd,
           line.boots = board.boots,
           line.m = "RESULT" => line.status \in {"success", "fail", "unsupported"},
           BoardShape', board'.boots = board.boots, board'.todo = board.todo,
           \/ line.m = "RESULT" /\ board'.st = "post"
           \/ line.m = "PROGRESS" /\ board'.st = "busy" /\ board'.cmd = board.cmd
    PROVE  BenchInv'
<1> USE DEF BenchInv
<1>1. /\ IsSeq(rx')
      /\ \A i \in DOMAIN rx' : \/ rx'[i] = line
                               \/ i \in DOMAIN rx /\ rx'[i] = rx[i]
      /\ \A i, j \in DOMAIN rx' : i < j => i \in DOMAIN rx /\ rx'[i] = rx[i]
  BY Printed DEF LinesKnown
<1>2. LinesKnown' BY <1>1 DEF LinesKnown, BoardShape
<1>3. OnDevice' = OnDevice /\ pc' = pc /\ Current' = Current /\ stale' = stale
  BY DEF BoardUnchanged, OnDevice, Current
<1>4. NoCommand' BY <1>3 DEF NoCommand, Resetting
<1>5. BoardReset'
  BY DEF BoardUnchanged, BoardReset, OnDevice
<1>6. OldAnswersFirst'
  <2> SUFFICES ASSUME OnDevice, Resetting PROVE OldAnswersFirst'
    BY <1>3 DEF OldAnswersFirst, Resetting
  <2>1. NoReady BY DEF OldAnswersFirst
  <2>2. NoReady' BY <1>1, <2>1 DEF NoReady
  <2> QED BY <2>2 DEF OldAnswersFirst, NoReady, ReadyLast
<1>7. OldAnswersGone' BY <1>3 DEF OldAnswersGone
<1>8. OnlyOwnAnswer'
  <2> SUFFICES ASSUME OnDevice, pc = "wait" PROVE OnlyOwnAnswer'
    BY <1>3 DEF OnlyOwnAnswer
  <2>1. board.cmd = Current /\ NoResult /\ board.todo = <<>>
    BY DEF OnlyOwnAnswer
  <2>2. \A i \in DOMAIN rx' : rx'[i].m # "READY" => rx'[i].cmd = Current
    BY <1>1, <2>1 DEF OnlyOwnAnswer
  <2>3. \A i, j \in DOMAIN rx' : i < j /\ rx'[i].m = "RESULT" => rx'[j].m = "READY"
    BY <1>1, <2>1 DEF NoResult
  <2>4. board'.st = "busy" => NoResult' BY <1>1, <2>1 DEF NoResult
  <2> QED BY <1>3, <2>1, <2>2, <2>3, <2>4 DEF OnlyOwnAnswer
<1>9. FreshReady' BY <1>3 DEF FreshReady
<1> QED BY <1>2, <1>4, <1>5, <1>6, <1>7, <1>8, <1>9, BoardKeepsRows

LEMMA BoardProgressKeeps == ASSUME BenchInv, BoardProgress PROVE BenchInv'
<1> DEFINE line == [ReadyLine EXCEPT !.m = "PROGRESS", !.cmd = board.cmd]
<1>1. line.m = "PROGRESS" /\ line.cmd = board.cmd /\ line.boots = board.boots
  BY DEF ReadyLine
<1>2. /\ BoardShape' /\ board'.boots = board.boots /\ board'.todo = board.todo
      /\ board'.st = "busy" /\ board'.cmd = board.cmd
  BY DEF BenchInv, BoardShape, BoardProgress
<1>3. BoardUnchanged /\ board.st = "busy" /\ Emit(line) BY DEF BoardProgress
<1> HIDE DEF line
<1> QED BY <1>1, <1>2, <1>3, BusyPrints

LEMMA BoardResultKeeps == ASSUME BenchInv, BoardResult PROVE BenchInv'
<1>1. PICK s \in {"success", "fail", "unsupported"}, ok \in BOOLEAN :
        Emit(ResultLine(board.cmd, s, ok))
  BY DEF BoardResult
<1> DEFINE line == ResultLine(board.cmd, s, ok)
<1>2. /\ line.m = "RESULT" /\ line.cmd = board.cmd /\ line.boots = board.boots
      /\ line.status = s
  BY DEF ResultLine
<1>3. /\ BoardShape' /\ board'.boots = board.boots /\ board'.todo = board.todo
      /\ board'.st = "post"
  BY DEF BenchInv, BoardShape, BoardResult
<1>4. BoardUnchanged /\ board.st = "busy" /\ Emit(line) BY <1>1 DEF BoardResult
<1> HIDE DEF line
<1> QED BY <1>2, <1>3, <1>4, BusyPrints

LEMMA BoardReadyKeeps == ASSUME BenchInv, BoardReady PROVE BenchInv'
<1> USE DEF BenchInv
<1>1. BoardUnchanged /\ board.st = "post" /\ Emit(ReadyLine) BY DEF BoardReady
<1>2. /\ IsSeq(rx')
      /\ \A i \in DOMAIN rx' : \/ rx'[i] = ReadyLine
                               \/ i \in DOMAIN rx /\ rx'[i] = rx[i]
      /\ \A i, j \in DOMAIN rx' : i < j => i \in DOMAIN rx /\ rx'[i] = rx[i]
  BY <1>1, Printed DEF LinesKnown
<1>3. /\ BoardShape' /\ board'.st = "idle" /\ board'.boots = board.boots
      /\ board'.todo = board.todo
  BY DEF BoardShape, BoardReady
<1>4. ReadyLine.m = "READY" /\ ReadyLine.boots = board.boots
  BY DEF ReadyLine
<1>5. OnDevice' = OnDevice /\ pc' = pc /\ Current' = Current /\ stale' = stale
      /\ skip' = skip
  BY <1>1 DEF BoardUnchanged, OnDevice, Current
<1>6. LinesKnown' BY <1>2, <1>3, <1>4 DEF LinesKnown, BoardShape
<1>7. NoCommand' /\ BoardReset'
  BY <1>1, <1>3, <1>5 DEF NoCommand, BoardReset, Resetting
<1>8. ReadyLast => ReadyLast' BY <1>2, <1>4 DEF ReadyLast
<1>9. AllReady => AllReady' BY <1>2, <1>4 DEF AllReady
<1>10. OldAnswersFirst' /\ OldAnswersGone'
  BY <1>3, <1>5, <1>8, <1>9 DEF OldAnswersFirst, OldAnswersGone, Resetting
<1>11. OnlyOwnAnswer'
  <2> SUFFICES ASSUME OnDevice, pc = "wait" PROVE OnlyOwnAnswer'
    BY <1>5 DEF OnlyOwnAnswer
  <2>1. \A i \in DOMAIN rx' : rx'[i].m # "READY" => rx'[i].cmd = Current
    BY <1>2, <1>4 DEF OnlyOwnAnswer
  <2>2. \A i, j \in DOMAIN rx' : i < j /\ rx'[i].m = "RESULT" => rx'[j].m = "READY"
    BY <1>2, <1>4 DEF OnlyOwnAnswer
  <2> QED BY <1>3, <1>5, <1>9, <2>1, <2>2 DEF OnlyOwnAnswer
<1>12. FreshReady' BY <1>3, <1>5 DEF FreshReady
<1> QED BY <1>1, <1>3, <1>6, <1>7, <1>10, <1>11, <1>12, BoardKeepsRows

-----------------------------------------------------------------------------
(* The steps of the runner.                                                 *)

LEMMA FlashKeeps == ASSUME BenchInv, Flash PROVE BenchInv'
<1> USE DEF BenchInv
<1>1. /\ pc = "flash" /\ kind # "host" /\ pc' = "open" /\ kind' = kind
      /\ skip' = skip /\ rx' = rx /\ rows' = rows
  BY DEF Flash, RunnerKeeps, Fixed
<1>2. /\ BoardShape' /\ board'.todo = <<>> /\ board.boots <= board'.boots
      /\ board'.boots = board.boots => board' = board
      /\ ~skip => board'.st = "boot"
  <2>1. board.todo = <<>> BY <1>1 DEF NoCommand, OnDevice
  <2>2. CASE skip BY <2>1, <2>2 DEF Flash, BoardShape
  <2>3. CASE ~skip
    <3>1. board' = [board EXCEPT !.st = "boot", !.cmd = NoCmd, !.todo = <<>>,
                                 !.boots = @ + 1]
      BY <2>3 DEF Flash
    <3> QED BY <2>3, <3>1 DEF BoardShape
  <2> QED BY <2>2, <2>3
<1>3. LinesKnown' BY <1>1, <1>2 DEF LinesKnown, BoardShape
<1>4. BoardReset' BY <1>1, <1>2 DEF BoardReset
<1>5. RowsGood' BY <1>1 DEF RowsGood, GoodRow, IsSeq
<1> QED BY <1>1, <1>2, <1>3, <1>4, <1>5 DEF NoCommand, OldAnswersFirst,
       OldAnswersGone, OnlyOwnAnswer, FreshReady, CommandHistory, Resetting

LEMMA OpenPortKeeps == ASSUME BenchInv, OpenPort PROVE BenchInv'
<1> USE DEF BenchInv
<1>1. /\ pc = "open" /\ kind' = kind /\ skip' = skip /\ board' = board
      /\ rx' = <<>> /\ rows' = rows
      /\ pc' = IF skip THEN "reset0" ELSE "ready0"
  BY DEF OpenPort, RunnerKeeps, Fixed
<1>2. IsSeq(rx') /\ DOMAIN rx' = {}
  <2>1. rx' \in Seq({}) BY <1>1
  <2> QED BY <1>1, <2>1 DEF IsSeq
<1>3. LinesKnown' /\ BoardShape' BY <1>1, <1>2 DEF LinesKnown, BoardShape
<1>4. NoCommand' BY <1>1 DEF NoCommand, OnDevice
<1>5. BoardReset'
  <2>1. CASE skip BY <1>1, <2>1 DEF BoardReset
  <2>2. CASE ~skip BY <1>1, <2>2 DEF BoardReset, OnDevice
  <2> QED BY <2>1, <2>2
<1>6. OldAnswersFirst' BY <1>2 DEF OldAnswersFirst, ReadyLast, NoReady
<1>7. pc' \in {"reset0", "ready0"} BY <1>1
<1>8. RowsGood' BY <1>1 DEF RowsGood, GoodRow, IsSeq
<1> QED BY <1>1, <1>3, <1>4, <1>5, <1>6, <1>7, <1>8
       DEF OldAnswersGone, OnlyOwnAnswer, FreshReady, CommandHistory

(* A reset loses no line, so a late READY of the command that timed out may  *)
(* be the one that is awaited.                                              *)
LEMMA ResetKeeps == ASSUME BenchInv, Reset PROVE BenchInv'
<1> USE DEF BenchInv
<1>1. /\ pc \in {"reset0", "reset"} /\ kind' = kind /\ skip' = skip /\ order' = order
      /\ ci' = ci /\ at' = at /\ rx' = rx /\ rows' = rows /\ progress' = progress
      /\ given' = given
  BY DEF Reset, RunnerKeeps, Fixed
<1>2. RowsGood' BY <1>1 DEF RowsGood, GoodRow, IsSeq
<1>3. CASE /\ pc' = IF pc = "reset0" THEN "ready0" ELSE "ready"
           /\ board' = [board EXCEPT !.st = "boot", !.cmd = NoCmd, !.todo = <<>>,
                                     !.boots = @ + 1]
  <2>1. /\ BoardShape' /\ board'.todo = <<>> /\ board'.boots = board.boots + 1
        /\ board'.st = "boot"
    BY <1>3 DEF BoardShape
  <2>2. LinesKnown' BY <1>1, <2>1 DEF LinesKnown, BoardShape
  <2>3. pc' \in {"ready0", "ready"} /\ (pc' = "ready" => pc = "reset") BY <1>1, <1>3
  <2>4. OldAnswersFirst'
    BY <1>1, <2>1 DEF OldAnswersFirst, OnDevice, Resetting, ReadyLast
  <2>5. CommandHistory'
    BY <1>1, <2>3 DEF CommandHistory, OnDevice, Current
  <2> QED BY <1>1, <1>2, <2>1, <2>2, <2>3, <2>4, <2>5
       DEF NoCommand, BoardReset, OldAnswersGone, OnlyOwnAnswer, FreshReady
<1>4. CASE pc' = "aborted" /\ UNCHANGED board
  <2>1. LinesKnown' /\ BoardShape' BY <1>1, <1>4 DEF LinesKnown, BoardShape
  <2> QED BY <1>1, <1>2, <1>4, <2>1 DEF NoCommand, BoardReset, OldAnswersFirst,
       OldAnswersGone, OnlyOwnAnswer, FreshReady, CommandHistory, Resetting
<1> QED BY <1>3, <1>4 DEF Reset

LEMMA ReadyReadKeeps == ASSUME BenchInv, ReadyRead PROVE BenchInv'
<1> USE DEF BenchInv
<1>1. /\ pc \in {"ready0", "ready"} /\ kind' = kind /\ skip' = skip /\ order' = order
      /\ ci' = ci /\ at' = at /\ rows' = rows /\ progress' = progress
      /\ given' = given /\ board' = board /\ rx # <<>> /\ rx' = Tail(rx)
  BY DEF ReadyRead, RunnerKeeps
<1>2. /\ IsSeq(rx')
      /\ 1 \in DOMAIN rx /\ Head(rx) = rx[1]
      /\ \A i \in DOMAIN rx' :
           i \in Int /\ i + 1 \in DOMAIN rx /\ 1 < i + 1 /\ rx'[i] = rx[i + 1]
  BY <1>1, Read DEF LinesKnown
<1>3. RowsGood' BY <1>1 DEF RowsGood, GoodRow, IsSeq
<1>4. BoardShape' /\ LinesKnown' BY <1>1, <1>2 DEF BoardShape, LinesKnown
<1>5. CASE /\ Head(rx).m = "READY" /\ stale' = (Head(rx).boots # board.boots)
           /\ pc' = IF pc = "ready0" THEN "send" ELSE "record"
  <2>1. pc' \in {"send", "record"} /\ (pc' = "record" => pc = "ready") BY <1>1, <1>5
  <2>2. NoCommand' BY <1>1, <2>1 DEF NoCommand, OnDevice, Resetting
  <2>3. OldAnswersGone'
    <3> SUFFICES ASSUME OnDevice PROVE AllReady' /\ board'.st # "busy"
      BY <1>1 DEF OldAnswersGone, OnDevice
    <3>1. ReadyLast BY <1>1 DEF OldAnswersFirst, Resetting
    <3>2. AllReady' BY <1>2, <1>5, <3>1 DEF AllReady, ReadyLast
    <3>3. board.st # "busy" BY <1>1 DEF BoardReset
    <3> QED BY <1>1, <3>2, <3>3
  <2>4. FreshReady'
    <3>1. ~stale' => Head(rx).boots = board.boots BY <1>5
    <3>2. ~stale' => board.st \notin {"boot", "fatal"}
      BY <1>2, <1>5, <3>1 DEF LinesKnown
    <3> QED BY <1>1, <3>2 DEF FreshReady
  <2>5. CommandHistory' BY <1>1, <2>1 DEF CommandHistory, OnDevice, Current
  <2> QED BY <1>1, <1>3, <1>4, <2>1, <2>2, <2>3, <2>4, <2>5
       DEF BoardReset, OldAnswersFirst, OnlyOwnAnswer, Resetting
<1>6. CASE pc' = pc /\ stale' = stale
  <2>1. NoCommand' /\ BoardReset' BY <1>1, <1>6 DEF NoCommand, BoardReset, OnDevice, Resetting
  <2>2. OldAnswersFirst'
    <3>1. ReadyLast => ReadyLast' BY <1>2 DEF ReadyLast
    <3>2. NoReady => NoReady' BY <1>2 DEF NoReady
    <3> QED BY <1>1, <1>6, <3>1, <3>2 DEF OldAnswersFirst, OnDevice, Resetting
  <2>3. CommandHistory' BY <1>1, <1>6 DEF CommandHistory, OnDevice, Current
  <2> QED BY <1>1, <1>3, <1>4, <1>6, <2>1, <2>2, <2>3
       DEF OldAnswersGone, OnlyOwnAnswer, FreshReady
<1> QED BY <1>5, <1>6 DEF ReadyRead

(* The command goes to a console that holds none. *)
LEMMA SendKeeps == ASSUME BenchInv, Send PROVE BenchInv'
<1> USE DEF BenchInv
<1>1. /\ pc = "send" /\ kind # "host" /\ pc' = "wait" /\ kind' = kind /\ skip' = skip
      /\ order' = order /\ ci' = ci /\ at' = at /\ rows' = rows /\ rx' = rx
      /\ progress' = NoCmd /\ stale' = stale
  BY DEF Send, RunnerKeeps
<1>2. OnDevice /\ OnDevice' /\ Current' = Current BY <1>1 DEF OnDevice, Current
<1>3. PICK g \in {"lost", "part", "all"} :
       /\ g # "all" => board.st = "boot"
       /\ given' = [got |-> g # "lost" /\ board.st # "fatal", stale |-> stale]
       /\ board' = IF g = "lost" \/ board.st = "fatal" THEN board
                   ELSE [board EXCEPT !.todo =
                           Append(@, [cmd |-> <<order[ci], at>>, ok |-> g = "all"])]
  BY DEF Send
<1>4. board.todo = <<>> /\ AllReady /\ board.st # "busy"
  BY <1>1, <1>2 DEF NoCommand, OldAnswersGone
<1>5. /\ BoardShape' /\ board'.boots = board.boots /\ board'.st = board.st
      /\ board'.todo # <<>> => \E c : board'.todo = <<c>> /\ c.cmd = Current
  <2>1. CASE g = "lost" \/ board.st = "fatal"
    BY <1>3, <1>4, <2>1 DEF BoardShape
  <2>2. CASE ~(g = "lost" \/ board.st = "fatal")
    <3> DEFINE c == [cmd |-> <<order[ci], at>>, ok |-> g = "all"]
    <3>1. c.cmd = Current BY DEF Current
    <3> HIDE DEF c
    <3>2. board' = [board EXCEPT !.todo = Append(@, c)] BY <1>3, <2>2 DEF c
    <3>3. board'.todo = <<c>> BY <1>4, <3>2 DEF BoardShape
    <3> QED BY <3>1, <3>2, <3>3 DEF BoardShape
  <2> QED BY <2>1, <2>2
<1>6. LinesKnown' BY <1>1, <1>5 DEF LinesKnown
<1>7. OnlyOwnAnswer'
  BY <1>1, <1>2, <1>4, <1>5 DEF OnlyOwnAnswer, AllReady
<1>8. FreshReady' BY <1>1, <1>2, <1>5 DEF FreshReady
<1>9. ~given'.got => given'.stale
  <2>1. CASE stale
    <3>1. given'.stale BY <1>3, <2>1
    <3> QED BY <3>1
  <2>2. CASE ~stale
    <3>1. board.st # "boot" /\ board.st # "fatal" BY <1>1, <1>2, <2>2 DEF FreshReady
    <3>2. g # "lost" BY <1>3, <3>1
    <3>3. given'.got BY <1>3, <3>1, <3>2
    <3> QED BY <3>3
  <2> QED BY <2>1, <2>2
<1>10. CommandHistory' BY <1>1, <1>9 DEF CommandHistory
<1>11. RowsGood' BY <1>1 DEF RowsGood, GoodRow, IsSeq
<1> QED BY <1>1, <1>5, <1>6, <1>7, <1>8, <1>10, <1>11
       DEF NoCommand, BoardReset, OldAnswersFirst, OldAnswersGone, Resetting
(* The first RESULT a waiting runner meets is the last thing its command     *)
(* prints but for READY lines.                                              *)
LEMMA AnswerKeeps ==
    ASSUME BenchInv, OnDevice, pc = "wait", rx # <<>>, rx' = Tail(rx),
           Head(rx).m = "RESULT", Advance, RowsGood',
           kind' = kind, board' = board, stale' = stale
    PROVE  BenchInv'
<1> USE DEF BenchInv
<1>1. /\ IsSeq(rx')
      /\ 1 \in DOMAIN rx /\ Head(rx) = rx[1]
      /\ \A i \in DOMAIN rx' :
           i \in Int /\ i + 1 \in DOMAIN rx /\ 1 < i + 1 /\ rx'[i] = rx[i + 1]
  BY Read DEF LinesKnown
<1>2. BoardShape' /\ LinesKnown' BY <1>1 DEF BoardShape, LinesKnown
<1>3. pc' \in {"summary", "send"} BY DEF Advance
<1>4. board.todo = <<>> /\ board.st # "busy"
  BY <1>1 DEF OnlyOwnAnswer, AllReady, NoResult
<1>5. AllReady' BY <1>1 DEF OnlyOwnAnswer, AllReady
<1>6. FreshReady' BY <1>3 DEF FreshReady, OnDevice
<1> QED BY <1>2, <1>3, <1>4, <1>5, <1>6 DEF NoCommand, BoardReset, OldAnswersFirst,
       OldAnswersGone, OnlyOwnAnswer, CommandHistory, Resetting

(* Any other line is passed over. *)
LEMMA PassedKeeps ==
    ASSUME BenchInv, OnDevice, pc = "wait", rx # <<>>, rx' = Tail(rx),
           progress' \in {NoCmd, Current},
           UNCHANGED <<kind, order, pc, ci, at, rows, given, board, stale>>
    PROVE  BenchInv'
<1> USE DEF BenchInv
<1>1. /\ IsSeq(rx')
      /\ 1 \in DOMAIN rx /\ Head(rx) = rx[1]
      /\ \A i \in DOMAIN rx' :
           i \in Int /\ i + 1 \in DOMAIN rx /\ 1 < i + 1 /\ rx'[i] = rx[i + 1]
  BY Read DEF LinesKnown
<1>2. BoardShape' /\ LinesKnown' BY <1>1 DEF BoardShape, LinesKnown
<1>3. Current' = Current /\ OnDevice' = OnDevice BY DEF Current, OnDevice
<1>4. OnlyOwnAnswer'
  <2>1. \A i \in DOMAIN rx' : rx'[i].m # "READY" => rx'[i].cmd = Current
    BY <1>1 DEF OnlyOwnAnswer
  <2>2. \A i, j \in DOMAIN rx' : i < j /\ rx'[i].m = "RESULT" => rx'[j].m = "READY"
    BY <1>1 DEF OnlyOwnAnswer
  <2>3. (AllReady => AllReady') /\ (NoResult => NoResult')
    BY <1>1 DEF AllReady, NoResult
  <2> QED BY <1>3, <2>1, <2>2, <2>3 DEF OnlyOwnAnswer
<1>5. FreshReady' BY <1>3 DEF FreshReady
<1>6. CommandHistory' BY <1>3 DEF CommandHistory
<1>7. RowsGood' BY DEF RowsGood, GoodRow, IsSeq
<1> QED BY <1>2, <1>4, <1>5, <1>6, <1>7 DEF NoCommand, BoardReset, OldAnswersFirst,
       OldAnswersGone, Resetting

(* A row made of the answer is the command's own, and a success is whole. *)
LEMMA AnswerRow ==
    ASSUME kind \in {"kem", "cert"}, NEW line, line.cmd = Current,
           line.status \in {"success", "fail", "unsupported"}, NEW v \in Readings
    PROVE  GoodRow(KemRow(line, v)) /\ GoodRow(CertRow(line, v))
<1>1. (v.sizes = "whole" => v.timings = "whole") /\ v.status \in FieldState
  BY SizesAfterTimings
<1>2. Status(line, v) # "timeout" BY <1>1 DEF Status, FieldState
<1>3. GoodRow(KemRow(line, v))
  <2> DEFINE r == KemRow(line, v)
  <2>1. r.alg = order[ci] /\ r.attempt = at /\ r.from = line.cmd /\ r.timings = v.timings
    BY DEF KemRow
  <2>2. /\ r.status # "timeout"
        /\ r.status = "success" => v.sizes = "whole"
    BY <1>2 DEF KemRow
  <2> HIDE DEF r
  <2> QED BY <1>1, <2>1, <2>2 DEF GoodRow, Current, r
<1>4. GoodRow(CertRow(line, v))
  <2> DEFINE r == CertRow(line, v)
  <2>1. r.alg = order[ci] /\ r.attempt = at /\ r.from = line.cmd /\ r.timings = v.timings
    BY DEF CertRow
  <2>2. /\ r.status # "timeout"
        /\ r.status = "success" => v.sizes = "whole"
    BY <1>2 DEF CertRow
  <2> HIDE DEF r
  <2> QED BY <1>1, <2>1, <2>2 DEF GoodRow, Current, r
<1> QED BY <1>3, <1>4

(* The line that is read belongs to the command that is waited for. *)
LEMMA HeadIsOwn ==
    ASSUME BenchInv, OnDevice, pc = "wait", rx # <<>>
    PROVE  /\ Head(rx).m # "READY" => Head(rx).cmd = Current
           /\ Head(rx).m = "RESULT" =>
                Head(rx).status \in {"success", "fail", "unsupported"}
           /\ Head(rx).m \in {"READY", "RESULT", "PROGRESS"}
<1>1. PICK S : rx \in Seq(S) BY DEF BenchInv, LinesKnown, IsSeq
<1>2. 1 \in DOMAIN rx /\ Head(rx) = rx[1] BY <1>1
<1> QED BY <1>2 DEF BenchInv, LinesKnown, OnlyOwnAnswer

LEMMA KemReadKeeps == ASSUME BenchInv, KemRead PROVE BenchInv'
<1>1. /\ pc = "wait" /\ kind = "kem" /\ rx # <<>> /\ rx' = Tail(rx)
      /\ UNCHANGED <<kind, order, given, board, stale>> /\ progress' = progress
  BY DEF KemRead, RunnerKeeps
<1>2. OnDevice BY <1>1 DEF OnDevice
<1>3. CASE /\ Head(rx).m = "RESULT" /\ Advance
           /\ \E v \in Readings : rows' = Append(rows, KemRow(Head(rx), v)) /\ TornBy(v)
  <2>1. PICK v \in Readings : rows' = Append(rows, KemRow(Head(rx), v)) BY <1>3
  <2>2. GoodRow(KemRow(Head(rx), v)) BY <1>1, <1>2, <1>3, HeadIsOwn, AnswerRow
  <2>3. RowsGood' BY <2>1, <2>2, RowAdded DEF BenchInv
  <2> QED BY <1>1, <1>2, <1>3, <2>3, AnswerKeeps
<1>4. CASE UNCHANGED <<rows, ci, at, pc>>
  <2>1. progress' \in {NoCmd, Current} BY <1>1, <1>2 DEF BenchInv, CommandHistory
  <2> QED BY <1>1, <1>2, <1>4, <2>1, PassedKeeps
<1> QED BY <1>3, <1>4 DEF KemRead

LEMMA CertReadKeeps == ASSUME BenchInv, CertRead PROVE BenchInv'
<1>1. /\ pc = "wait" /\ kind = "cert" /\ rx # <<>> /\ rx' = Tail(rx)
      /\ UNCHANGED <<kind, order, given, board, stale>>
  BY DEF CertRead, RunnerKeeps
<1>2. OnDevice BY <1>1 DEF OnDevice
<1>3. CASE /\ Head(rx).m = "RESULT" /\ Advance
           /\ \E v \in Readings : rows' = Append(rows, CertRow(Head(rx), v)) /\ TornBy(v)
  <2>1. PICK v \in Readings : rows' = Append(rows, CertRow(Head(rx), v)) BY <1>3
  <2>2. GoodRow(CertRow(Head(rx), v)) BY <1>1, <1>2, <1>3, HeadIsOwn, AnswerRow
  <2>3. RowsGood' BY <2>1, <2>2, RowAdded DEF BenchInv
  <2> QED BY <1>1, <1>2, <1>3, <2>3, AnswerKeeps
<1>4. CASE /\ UNCHANGED <<rows, ci, at, pc>>
           /\ \/ progress' = progress
              \/ Head(rx).m = "PROGRESS" /\ progress' = Head(rx).cmd
  <2>1. progress' \in {NoCmd, Current}
    BY <1>1, <1>2, <1>4, HeadIsOwn DEF BenchInv, CommandHistory
  <2> QED BY <1>1, <1>2, <1>4, <2>1, PassedKeeps
<1> QED BY <1>3, <1>4 DEF CertRead

LEMMA WaitTimeoutKeeps == ASSUME BenchInv, WaitTimeout PROVE BenchInv'
<1> USE DEF BenchInv
<1>1. /\ pc = "wait" /\ pc' = "reset" /\ rx = <<>> /\ rx' = rx /\ board' = board
      /\ board.todo = <<>> /\ kind' = kind /\ order' = order /\ ci' = ci /\ at' = at
      /\ rows' = rows /\ given' = given /\ progress' = progress
  BY DEF WaitTimeout, DeadlinePassed, RunnerKeeps, Fixed, boardVars
<1>2. DOMAIN rx' = {} BY <1>1
<1>3. BoardShape' /\ LinesKnown' BY <1>1 DEF BoardShape, LinesKnown, IsSeq
<1>4. OldAnswersFirst' BY <1>2 DEF OldAnswersFirst, ReadyLast, NoReady
<1>5. CommandHistory' BY <1>1 DEF CommandHistory, OnDevice, Current
<1>6. RowsGood' BY <1>1 DEF RowsGood, GoodRow, IsSeq
<1> QED BY <1>1, <1>3, <1>4, <1>5, <1>6 DEF NoCommand, BoardReset,
       OldAnswersGone, OnlyOwnAnswer, FreshReady

LEMMA ReadyTimeoutKeeps == ASSUME BenchInv, ReadyTimeout PROVE BenchInv'
<1> USE DEF BenchInv
<1>1. pc' = "aborted" /\ rx' = rx /\ board' = board /\ kind' = kind /\ rows' = rows
  BY DEF ReadyTimeout, RunnerKeeps, Fixed, boardVars
<1>2. BoardShape' /\ LinesKnown' BY <1>1 DEF BoardShape, LinesKnown, IsSeq
<1>3. RowsGood' BY <1>1 DEF RowsGood, GoodRow, IsSeq
<1> QED BY <1>1, <1>2, <1>3 DEF NoCommand, BoardReset, OldAnswersFirst,
       OldAnswersGone, OnlyOwnAnswer, FreshReady, CommandHistory, Resetting

(* The row of the timeout carries the progress of its own command. *)
LEMMA RecordTimeoutKeeps ==
    ASSUME BenchInv, AttemptInRange, RecordTimeout
    PROVE  BenchInv'
<1> USE DEF BenchInv
<1>1. /\ pc = "record" /\ rx' = rx /\ board' = board /\ kind' = kind /\ stale' = stale
      /\ pc' \in {"summary", "send"}
  BY DEF RecordTimeout, RunnerKeeps, boardVars
<1>2. BoardShape' /\ LinesKnown' BY <1>1 DEF BoardShape, LinesKnown, IsSeq
<1>3. RowsGood'
  <2> DEFINE n == Iterations - at
             C == {LocalRow(at + i, "cancelled", NoCmd) : i \in 1 .. n}
             r == LocalRow(at, "timeout", progress)
  <2>1. n \in Nat BY IterationsPositive DEF AttemptInRange
  <2>2. \A i \in 1 .. n : LocalRow(at + i, "cancelled", NoCmd) \in C OBVIOUS
  <2>3. Cancelled \in Seq(C)
    <3>1. Cancelled = [i \in 1 .. n |-> LocalRow(at + i, "cancelled", NoCmd)]
      BY DEF Cancelled
    <3> HIDE DEF n, C
    <3>2. Cancelled \in [1 .. n -> C] BY <2>2, <3>1
    <3> QED BY <2>1, <3>2
  <2>4. \A x \in C : GoodRow(x) BY DEF LocalRow, GoodRow
  <2>5. GoodRow(r)
    <3>1. /\ r.alg = order[ci] /\ r.attempt = at /\ r.from = progress
          /\ r.status = "timeout" /\ r.got = given.got /\ r.stale = given.stale
      BY DEF LocalRow
    <3>2. progress \in {NoCmd, Current} /\ (~given.got => given.stale)
      BY <1>1 DEF CommandHistory
    <3>3. r.status = "timeout" /\ ~r.got => r.stale BY <3>1, <3>2
    <3> HIDE DEF r
    <3> QED BY <3>1, <3>2, <3>3 DEF GoodRow, Current
  <2>6. rows' = Append(rows, r) \o Cancelled BY DEF RecordTimeout
  <2> HIDE DEF C, r
  <2> QED BY <2>3, <2>4, <2>5, <2>6, RowsCancelled
<1>4. NoCommand' /\ OldAnswersGone'
  BY <1>1 DEF NoCommand, OldAnswersGone, OnDevice, Resetting, AllReady
<1>5. FreshReady' BY <1>1 DEF FreshReady, OnDevice
<1> QED BY <1>1, <1>2, <1>3, <1>4, <1>5 DEF BoardReset, OldAnswersFirst,
       OnlyOwnAnswer, CommandHistory, Resetting
LEMMA RunContainerKeeps == ASSUME BenchInv, RunContainer PROVE BenchInv'
<1> USE DEF BenchInv
<1>1. /\ kind = "host" /\ kind' = kind /\ rx' = rx /\ board' = board
      /\ pc' \in {"summary", "send"}
  BY DEF RunContainer, Advance, RunnerKeeps, boardVars
<1>2. PICK s \in {"success", "fail"} : rows' = Append(rows, ContainerRow(s))
  BY DEF RunContainer
<1>3. GoodRow(ContainerRow(s)) BY DEF ContainerRow, LocalRow, GoodRow
<1>4. RowsGood' BY <1>2, <1>3, RowAdded
<1>5. BoardShape' /\ LinesKnown' BY <1>1 DEF BoardShape, LinesKnown, IsSeq
<1> QED BY <1>1, <1>4, <1>5 DEF NoCommand, BoardReset, OldAnswersFirst, OldAnswersGone,
       OnlyOwnAnswer, FreshReady, CommandHistory, OnDevice

LEMMA WriteSummaryKeeps == ASSUME BenchInv, WriteSummary PROVE BenchInv'
<1> USE DEF BenchInv
<1>1. pc' = "done" /\ rx' = rx /\ board' = board /\ kind' = kind /\ rows' = rows
  BY DEF WriteSummary, RunnerKeeps, boardVars
<1>2. BoardShape' /\ LinesKnown' BY <1>1 DEF BoardShape, LinesKnown, IsSeq
<1>3. RowsGood' BY <1>1 DEF RowsGood, GoodRow, IsSeq
<1> QED BY <1>1, <1>2, <1>3 DEF NoCommand, BoardReset, OldAnswersFirst,
       OldAnswersGone, OnlyOwnAnswer, FreshReady, CommandHistory, Resetting

LEMMA StutterKeeps == ASSUME BenchInv, UNCHANGED vars PROVE BenchInv'
<1> USE DEF BenchInv
<1>1. /\ kind' = kind /\ skip' = skip /\ order' = order /\ pc' = pc /\ ci' = ci
      /\ at' = at /\ rows' = rows /\ rx' = rx /\ progress' = progress
      /\ board' = board /\ stale' = stale /\ given' = given
  BY DEF vars
<1>2. BoardShape' /\ LinesKnown' /\ RowsGood'
  BY <1>1 DEF BoardShape, LinesKnown, RowsGood, GoodRow, IsSeq
<1>3. NoCommand' /\ BoardReset' /\ OldAnswersFirst' /\ OldAnswersGone'
  BY <1>1 DEF NoCommand, BoardReset, OldAnswersFirst, OldAnswersGone, OnDevice,
     Resetting, ReadyLast, NoReady, AllReady
<1>4. OnlyOwnAnswer'
  BY <1>1 DEF OnlyOwnAnswer, OnDevice, Current, AllReady, NoResult
<1>5. FreshReady' /\ CommandHistory'
  BY <1>1 DEF FreshReady, CommandHistory, OnDevice, Current
<1> QED BY <1>1, <1>2, <1>3, <1>4, <1>5

-----------------------------------------------------------------------------
(* Attempts are counted 1 .. Iterations. *)
LEMMA AttemptsCounted == Spec => []AttemptInRange
<1>1. Init => AttemptInRange BY IterationsPositive DEF Init, AttemptInRange
<1>2. AttemptInRange /\ [Next]_vars => AttemptInRange'
  <2> SUFFICES ASSUME AttemptInRange, [Next]_vars PROVE AttemptInRange'
    OBVIOUS
  <2> USE IterationsPositive DEF AttemptInRange
  <2>1. CASE Advance BY <2>1 DEF Advance
  <2>2. CASE at' = at BY <2>2
  <2>3. CASE at' = 1 BY <2>3
  <2>4. CASE Runner
    <3>1. Advance \/ at' = at \/ at' = 1
      BY <2>4 DEF Runner, Flash, OpenPort, Reset, ReadyRead, ReadyTimeout, Send, KemRead,
         CertRead, WaitTimeout, RecordTimeout, RunContainer, WriteSummary, Fixed
    <3> QED BY <2>1, <2>2, <2>3, <3>1
  <2>5. CASE Board
    <3>1. at' = at
      BY <2>5 DEF Board, BoardBoots, BoardTakes, BoardProgress, BoardResult, BoardReady,
         BoardUnchanged
    <3> QED BY <2>2, <3>1
  <2>6. CASE UNCHANGED vars BY <2>2, <2>6 DEF vars
  <2> QED BY <2>4, <2>5, <2>6 DEF Next, Stutter
<1> QED BY <1>1, <1>2, PTL DEF Spec

(* The runner starts with an idle board, or one that an earlier run left     *)
(* busy, and an empty console.                                              *)
LEMMA BenchInit == ASSUME Init PROVE BenchInv
<1>1. /\ kind \in {"kem", "cert", "host"} /\ rx = <<>> /\ rows = <<>>
      /\ pc \in {"flash", "refused"}
  BY DEF Init
<1>2. PICK s \in {<<"idle", NoCmd>>, <<"busy", OldCmd>>} :
        board = [st |-> s[1], cmd |-> s[2], todo |-> <<>>, boots |-> 0, prog |-> 0]
  BY DEF Init
<1>3. BoardShape /\ board.todo = <<>> BY <1>2 DEF BoardShape
<1>4. <<>> \in Seq({}) /\ DOMAIN <<>> = {} OBVIOUS
<1>5. LinesKnown /\ RowsGood BY <1>1, <1>4 DEF LinesKnown, RowsGood, IsSeq
<1> QED BY <1>1, <1>3, <1>5 DEF BenchInv, NoCommand, BoardReset, OldAnswersFirst,
       OldAnswersGone, OnlyOwnAnswer, FreshReady, CommandHistory, Resetting

(* The invariant holds throughout. *)
LEMMA BenchSafe == Spec => []BenchInv
<1>1. BenchInv /\ AttemptInRange /\ [Next]_vars => BenchInv'
  <2> SUFFICES ASSUME BenchInv, AttemptInRange, [Next]_vars PROVE BenchInv'
    OBVIOUS
  <2>1. CASE Runner
    BY <2>1, FlashKeeps, OpenPortKeeps, ResetKeeps, ReadyReadKeeps, ReadyTimeoutKeeps,
       SendKeeps, KemReadKeeps, CertReadKeeps, WaitTimeoutKeeps, RecordTimeoutKeeps,
       RunContainerKeeps, WriteSummaryKeeps DEF Runner
  <2>2. CASE Board
    BY <2>2, BoardBootsKeeps, BoardTakesKeeps, BoardProgressKeeps, BoardResultKeeps,
       BoardReadyKeeps DEF Board
  <2>3. CASE UNCHANGED vars BY <2>3, StutterKeeps
  <2> QED BY <2>1, <2>2, <2>3 DEF Next, Stutter
<1> QED BY <1>1, BenchInit, AttemptsCounted, PTL DEF Spec

(* run_kem_benchmarks.py 509-541 and run_certificate_benchmarks.py 982-1013: *)
(* the values of a row are those of its own command, although RESULT and     *)
(* PROGRESS lines carry no attempt number: what a timed-out command still    *)
(* prints lies in front of the READY the runner waits for after the reset.   *)
THEOREM RowsOwn == Spec => []RowIsOwn
<1>1. BenchInv => RowIsOwn BY DEF BenchInv, RowsGood, GoodRow, RowIsOwn
<1> QED BY <1>1, BenchSafe, PTL

(* attempt_row and on_device_attempt_row: a success has whole timings,       *)
(* wherever readline() cut its line.                                        *)
THEOREM TimingsWhole == Spec => []TimingsExact
<1>1. BenchInv => TimingsExact BY DEF BenchInv, RowsGood, GoodRow, TimingsExact
<1> QED BY <1>1, BenchSafe, PTL

(* A timeout row of a command that never reached the console follows a stale *)
(* READY: a READY of the current boot means a board that reads commands.     *)
THEOREM LostOnlyWhenStale == Spec => []LostAfterStaleReady
<1>1. BenchInv => LostAfterStaleReady
  BY DEF BenchInv, RowsGood, GoodRow, LostAfterStaleReady
<1> QED BY <1>1, BenchSafe, PTL

-----------------------------------------------------------------------------
(***************************************************************************)
(* Every attempt has its row.  The loops over algorithms and attempts are  *)
(* left early by a timeout, which writes the rows of the attempts it       *)
(* cancels: RowsComplete says that what the counters have passed is what   *)
(* the rows hold, each attempt once and in order.                          *)
(***************************************************************************)
Behind(c, a, j, n) == j < c \/ (j = c /\ n < a)

OrderDistinct ==
  /\ Len(order) \in Nat /\ DOMAIN order = 1 .. Len(order)
  /\ \A i, j \in DOMAIN order : i # j => order[i] # order[j]

RowPassed(c, a, r) ==
  /\ r.attempt \in 1 .. Iterations
  /\ \E j \in DOMAIN order : r.alg = order[j] /\ Behind(c, a, j, r.attempt)

AttemptHasRow == \A j \in DOMAIN order, n \in 1 .. Iterations :
  Behind(ci, at, j, n) => \E i \in DOMAIN rows : rows[i].alg = order[j] /\ rows[i].attempt = n

RowsInOrder == \A i, k \in DOMAIN rows :
  i < k /\ rows[i].alg = rows[k].alg => rows[i].attempt < rows[k].attempt

RowsComplete ==
  /\ IsSeq(rows) /\ \A i \in DOMAIN rows : RowPassed(ci, at, rows[i])
  /\ AttemptHasRow /\ RowsInOrder

SummaryNow == [a \in ToSet(order) |-> IF kind = "kem" THEN KemSummary(Of(a))
                                      ELSE CertSummary(Of(a))]

Place ==
  /\ ci \in Nat \ {0}
  /\ pc \in {"flash", "open", "reset0", "ready0", "send", "wait", "reset", "ready",
             "record"} => ci \in DOMAIN order
  /\ pc \in {"summary", "done"} => ci = Len(order) + 1
  /\ pc = "done" => summary = SummaryNow

RecordInv == OrderDistinct /\ AttemptInRange /\ RowsComplete /\ Place

(* Rows for the attempts from the current one to m, and the counters behind  *)
(* them.                                                                    *)
LEMMA RowsExtended ==
    ASSUME OrderDistinct, AttemptInRange, RowsComplete, ci \in DOMAIN order,
           order' = order, IsSeq(rows'),
           NEW k \in Nat, DOMAIN rows = 1 .. k, NEW m \in at .. Iterations,
           DOMAIN rows' = 1 .. (k + (m - at + 1)),
           \A i \in 1 .. k : rows'[i] = rows[i],
           \A i \in (k + 1) .. (k + (m - at + 1)) :
             rows'[i].alg = order[ci] /\ rows'[i].attempt = at + (i - k) - 1,
           \/ m = Iterations /\ ci' = ci + 1 /\ at' = 1
           \/ m < Iterations /\ ci' = ci /\ at' = m + 1
    PROVE  RowsComplete'
<1> USE IterationsPositive
<1>1. /\ at \in 1 .. Iterations /\ Iterations \in Nat /\ m \in Int /\ ci \in Nat
      /\ \A j \in DOMAIN order : j \in Nat
  BY DEF AttemptInRange, OrderDistinct
<1>2. \A j \in DOMAIN order, n \in 1 .. Iterations :
        Behind(ci', at', j, n) <=> Behind(ci, at, j, n) \/ (j = ci /\ n \in at .. m)
  <2> SUFFICES ASSUME NEW j \in DOMAIN order, NEW n \in 1 .. Iterations
               PROVE  Behind(ci', at', j, n) <=> Behind(ci, at, j, n) \/ (j = ci /\ n \in at .. m)
    OBVIOUS
  <2>1. CASE m = Iterations /\ ci' = ci + 1 /\ at' = 1 BY <1>1, <2>1 DEF Behind
  <2>2. CASE m < Iterations /\ ci' = ci /\ at' = m + 1 BY <1>1, <2>2 DEF Behind
  <2> QED BY <2>1, <2>2
<1>3. ASSUME NEW i \in DOMAIN rows'
      PROVE  \/ i \in DOMAIN rows /\ i <= k /\ rows'[i] = rows[i]
             \/ /\ i > k /\ rows'[i].alg = order[ci]
                /\ rows'[i].attempt \in at .. m
                /\ rows'[i].attempt = at + (i - k) - 1
  <2>1. CASE i \in 1 .. k BY <2>1
  <2>2. CASE i \in (k + 1) .. (k + (m - at + 1)) BY <1>1, <2>2
  <2> QED BY <1>1, <2>1, <2>2
<1>4. ASSUME NEW i \in DOMAIN rows' PROVE RowPassed(ci', at', rows'[i])
  <2>1. CASE i \in DOMAIN rows /\ rows'[i] = rows[i]
    <3>1. RowPassed(ci, at, rows[i]) BY <2>1 DEF RowsComplete
    <3>2. PICK j \in DOMAIN order : rows[i].alg = order[j] /\ Behind(ci, at, j, rows[i].attempt)
      BY <3>1 DEF RowPassed
    <3>3. rows[i].attempt \in 1 .. Iterations BY <3>1 DEF RowPassed
    <3>4. Behind(ci', at', j, rows[i].attempt) BY <2>1, <3>2, <3>3, <1>2 DEF Behind
    <3> QED BY <2>1, <3>2, <3>3, <3>4 DEF RowPassed
  <2>2. CASE rows'[i].alg = order[ci] /\ rows'[i].attempt \in at .. m
    <3>1. rows'[i].attempt \in 1 .. Iterations BY <1>1, <2>2
    <3>2. Behind(ci', at', ci, rows'[i].attempt) BY <1>2, <2>2, <3>1 DEF Behind
    <3> QED BY <2>2, <3>1, <3>2 DEF RowPassed
  <2> QED BY <1>3, <2>1, <2>2
<1>5. AttemptHasRow'
  <2> SUFFICES ASSUME NEW j \in DOMAIN order, NEW n \in 1 .. Iterations, Behind(ci', at', j, n)
               PROVE  \E i \in DOMAIN rows' : rows'[i].alg = order[j] /\ rows'[i].attempt = n
    BY DEF AttemptHasRow
  <2>1. CASE Behind(ci, at, j, n)
    <3>1. PICK i \in DOMAIN rows : rows[i].alg = order[j] /\ rows[i].attempt = n
      BY <2>1 DEF RowsComplete, AttemptHasRow
    <3>2. i \in DOMAIN rows' /\ rows'[i] = rows[i] BY <1>1
    <3> QED BY <3>1, <3>2
  <2>2. CASE j = ci /\ n \in at .. m
    <3> DEFINE i == k + (n - at) + 1
    <3>1. /\ i \in (k + 1) .. (k + (m - at + 1)) /\ i \in DOMAIN rows'
          /\ at + (i - k) - 1 = n
      BY <1>1, <2>2
    <3> HIDE DEF i
    <3> QED BY <2>2, <3>1
  <2> QED BY <1>2, <2>1, <2>2
<1>6. RowsInOrder'
  <2> SUFFICES ASSUME NEW i \in DOMAIN rows', NEW l \in DOMAIN rows', i < l,
                      rows'[i].alg = rows'[l].alg
               PROVE  rows'[i].attempt < rows'[l].attempt
    BY DEF RowsInOrder
  <2>1. CASE l <= k
    <3>1. i \in DOMAIN rows /\ l \in DOMAIN rows /\ rows'[i] = rows[i] /\ rows'[l] = rows[l]
      BY <2>1
    <3> QED BY <3>1 DEF RowsComplete, RowsInOrder
  <2>2. CASE i > k
    <3>1. l > k BY <2>2
    <3>2. /\ rows'[i].attempt = at + (i - k) - 1
          /\ rows'[l].attempt = at + (l - k) - 1
      BY <1>3, <2>2, <3>1
    <3> QED BY <1>1, <3>2
  <2>3. CASE i <= k /\ l > k
    <3>1. rows'[l].alg = order[ci] /\ rows'[l].attempt \in at .. m BY <1>3, <2>3
    <3>2. i \in DOMAIN rows /\ rows'[i] = rows[i] BY <1>3, <2>3
    <3>3. PICK j \in DOMAIN order : rows[i].alg = order[j] /\ Behind(ci, at, j, rows[i].attempt)
      BY <3>2 DEF RowsComplete, RowPassed
    <3>4. j = ci BY <3>1, <3>2, <3>3 DEF OrderDistinct
    <3>5. rows[i].attempt < at BY <1>1, <3>3, <3>4 DEF Behind
    <3>6. rows[i].attempt \in Int BY <3>2 DEF RowsComplete, RowPassed
    <3> QED BY <1>1, <3>1, <3>2, <3>5, <3>6
  <2> QED BY <2>1, <2>2, <2>3
<1> QED BY <1>4, <1>5, <1>6 DEF RowsComplete, RowPassed, IsSeq

(* What a sequence looks like, whatever it holds. *)
LEMMA SeqShape ==
    ASSUME NEW s, IsSeq(s)
    PROVE  Len(s) \in Nat /\ DOMAIN s = 1 .. Len(s)
BY DEF IsSeq

LEMMA AppendShape ==
    ASSUME NEW s, IsSeq(s), NEW e
    PROVE  /\ IsSeq(Append(s, e)) /\ Len(Append(s, e)) = Len(s) + 1
           /\ DOMAIN Append(s, e) = 1 .. (Len(s) + 1)
           /\ \A i \in 1 .. Len(s) : Append(s, e)[i] = s[i]
           /\ Append(s, e)[Len(s) + 1] = e
<1>1. PICK S : s \in Seq(S) BY DEF IsSeq
<1>2. s \in Seq(S \cup {e})
  <2>1. s \in [1 .. Len(s) -> S \cup {e}] BY <1>1
  <2> QED BY <1>1, <2>1
<1>3. Append(s, e) \in Seq(S \cup {e}) BY <1>2
<1> QED BY <1>2, <1>3 DEF IsSeq

LEMMA ConcatShape ==
    ASSUME NEW s, IsSeq(s), NEW t, IsSeq(t)
    PROVE  /\ IsSeq(s \o t) /\ DOMAIN (s \o t) = 1 .. (Len(s) + Len(t))
           /\ \A i \in 1 .. (Len(s) + Len(t)) :
                (s \o t)[i] = IF i <= Len(s) THEN s[i] ELSE t[i - Len(s)]
<1>1. PICK S : s \in Seq(S) BY DEF IsSeq
<1>2. PICK T : t \in Seq(T) BY DEF IsSeq
<1> DEFINE R == S \cup T
<1>3. s \in Seq(R) /\ t \in Seq(R)
  <2>1. s \in [1 .. Len(s) -> R] BY <1>1
  <2>2. t \in [1 .. Len(t) -> R] BY <1>2
  <2> QED BY <1>1, <1>2, <2>1, <2>2
<1> HIDE DEF R
<1>4. s \o t \in Seq(R) BY <1>3
<1>5. /\ Len(s \o t) = Len(s) + Len(t)
      /\ \A i \in 1 .. (Len(s) + Len(t)) :
           (s \o t)[i] = IF i <= Len(s) THEN s[i] ELSE t[i - Len(s)]
  BY <1>3, ConcatProperties, Zenon
<1>6. DOMAIN (s \o t) = 1 .. Len(s \o t) BY <1>4
<1> QED BY <1>4, <1>5, <1>6 DEF IsSeq

(* The runner goes on to the next attempt with a row for this one. *)
LEMMA AdvanceRecords ==
    ASSUME RecordInv, pc \in {"flash", "wait", "send"}, order' = order, Advance,
           NEW r, r.alg = order[ci], r.attempt = at, rows' = Append(rows, r)
    PROVE  RecordInv'
<1> USE DEF RecordInv
<1> DEFINE k == Len(rows)
<1>1. ci \in DOMAIN order /\ ci \in Nat /\ at \in 1 .. Iterations
  BY DEF Place, AttemptInRange
<1>2. IsSeq(rows) BY DEF RowsComplete
<1>3. /\ k \in Nat /\ DOMAIN rows = 1 .. k /\ IsSeq(rows')
      /\ DOMAIN rows' = 1 .. (k + 1) /\ rows'[k + 1] = r
      /\ \A i \in 1 .. k : rows'[i] = rows[i]
  BY <1>2, SeqShape, AppendShape
<1>4. /\ at \in at .. Iterations /\ at - at + 1 = 1
      /\ \A i \in (k + 1) .. (k + 1) : i = k + 1 /\ at + (i - k) - 1 = at
  BY <1>1, <1>3, IterationsPositive
<1>5. \/ at = Iterations /\ ci' = ci + 1 /\ at' = 1
      \/ at < Iterations /\ ci' = ci /\ at' = at + 1
  BY <1>1, IterationsPositive DEF Advance
<1> HIDE DEF k
<1>6. RowsComplete'
  <2>1. /\ DOMAIN rows' = 1 .. (k + (at - at + 1))
        /\ \A i \in (k + 1) .. (k + (at - at + 1)) :
             rows'[i].alg = order[ci] /\ rows'[i].attempt = at + (i - k) - 1
    BY <1>3, <1>4
  <2> QED BY <1>1, <1>3, <1>4, <1>5, <2>1, RowsExtended
<1>7. OrderDistinct' BY DEF OrderDistinct
<1>8. AttemptInRange' BY <1>1, <1>5, IterationsPositive DEF AttemptInRange
<1>9. Place'
  <2>1. DOMAIN order = 1 .. Len(order) /\ Len(order) \in Nat BY DEF OrderDistinct
  <2>2. CASE at = Iterations /\ ci = Len(order)
    <3>1. pc' = "summary" /\ ci' = Len(order) + 1 /\ ci' \in Nat \ {0}
      BY <1>1, <2>1, <2>2 DEF Advance
    <3>2. Len(order') = Len(order) OBVIOUS
    <3> QED BY <3>1, <3>2 DEF Place
  <2>3. CASE ~(at = Iterations /\ ci = Len(order))
    <3>1. pc' = "send" /\ ci' \in DOMAIN order /\ ci' \in Nat \ {0}
      BY <1>1, <2>1, <2>3 DEF Advance
    <3> QED BY <3>1 DEF Place
  <2> QED BY <2>2, <2>3
<1> QED BY <1>6, <1>7, <1>8, <1>9

(* The rows of a timeout are those of all the attempts that are left. *)
LEMMA TimeoutRecords == ASSUME RecordInv, RecordTimeout PROVE RecordInv'
<1> USE DEF RecordInv
<1> DEFINE k == Len(rows)
           l == Iterations - at
           r == LocalRow(at, "timeout", progress)
           a == Append(rows, r)
<1>1. /\ pc = "record" /\ order' = order /\ ci' = ci + 1 /\ at' = 1
      /\ rows' = a \o Cancelled /\ pc' = IF ci = Len(order) THEN "summary" ELSE "send"
  BY DEF RecordTimeout, RunnerKeeps
<1>2. /\ ci \in DOMAIN order /\ ci \in Nat /\ at \in 1 .. Iterations /\ l \in Nat
      /\ Iterations \in Nat
  BY <1>1, IterationsPositive DEF Place, AttemptInRange
<1>3. IsSeq(rows) BY DEF RowsComplete
<1>4. /\ k \in Nat /\ DOMAIN rows = 1 .. k /\ IsSeq(a) /\ Len(a) = k + 1 /\ a[k + 1] = r
      /\ \A i \in 1 .. k : a[i] = rows[i]
  BY <1>3, SeqShape, AppendShape
<1>5. r.alg = order[ci] /\ r.attempt = at BY DEF LocalRow
<1>6. /\ IsSeq(Cancelled) /\ Len(Cancelled) = l
      /\ \A i \in 1 .. l : Cancelled[i].alg = order[ci] /\ Cancelled[i].attempt = at + i
  <2>1. Cancelled = [i \in 1 .. l |-> LocalRow(at + i, "cancelled", NoCmd)]
    BY DEF Cancelled
  <2> HIDE DEF l
  <2>2. \A i \in 1 .. l : Cancelled[i].alg = order[ci] /\ Cancelled[i].attempt = at + i
    BY <2>1 DEF LocalRow
  <2> DEFINE C == {Cancelled[i] : i \in 1 .. l}
  <2>3. Cancelled \in [1 .. l -> C] BY <2>1
  <2>4. Cancelled \in Seq(C) /\ Len(Cancelled) = l BY <1>2, <2>3
  <2> QED BY <2>2, <2>4 DEF IsSeq
<1> HIDE DEF l, a, r, k
<1>7. /\ IsSeq(rows') /\ DOMAIN rows' = 1 .. (Len(a) + l)
      /\ \A i \in 1 .. (Len(a) + l) :
           rows'[i] = IF i <= Len(a) THEN a[i] ELSE Cancelled[i - Len(a)]
  BY <1>1, <1>4, <1>6, ConcatShape
<1>8. /\ Iterations \in at .. Iterations
      /\ k + (Iterations - at + 1) = Len(a) + l
  BY <1>2, <1>4 DEF l
<1>9. \A i \in 1 .. k : rows'[i] = rows[i] BY <1>2, <1>4, <1>7
<1>10. ASSUME NEW i \in (k + 1) .. (k + (Iterations - at + 1))
       PROVE  rows'[i].alg = order[ci] /\ rows'[i].attempt = at + (i - k) - 1
  <2>1. CASE i = k + 1
    <3>1. rows'[i] = r BY <1>2, <1>4, <1>7, <2>1
    <3>2. at + (i - k) - 1 = at BY <1>2, <1>4, <2>1
    <3> QED BY <1>5, <3>1, <3>2
  <2>2. CASE i > k + 1
    <3>1. i - Len(a) \in 1 .. l /\ rows'[i] = Cancelled[i - Len(a)]
      BY <1>2, <1>4, <1>7, <1>8, <2>2
    <3>2. at + (i - Len(a)) = at + (i - k) - 1 BY <1>2, <1>4
    <3> QED BY <1>6, <3>1, <3>2
  <2> QED BY <1>4, <2>1, <2>2
<1>11. RowsComplete'
  <2>1. DOMAIN rows' = 1 .. (k + (Iterations - at + 1)) BY <1>7, <1>8
  <2> QED BY <1>1, <1>2, <1>4, <1>7, <1>8, <1>9, <1>10, <2>1, RowsExtended
<1>12. OrderDistinct' BY <1>1 DEF OrderDistinct
<1>13. AttemptInRange' BY <1>1, IterationsPositive DEF AttemptInRange
<1>14. Place'
  <2>1. DOMAIN order = 1 .. Len(order) /\ Len(order) \in Nat BY DEF OrderDistinct
  <2>2. Len(order') = Len(order) /\ DOMAIN order' = DOMAIN order BY <1>1
  <2>3. ci' \in Nat \ {0} BY <1>1, <1>2
  <2>4. CASE ci = Len(order)
    <3>1. pc' = "summary" /\ ci' = Len(order) + 1 BY <1>1, <2>4
    <3> QED BY <2>2, <2>3, <3>1 DEF Place
  <2>5. CASE ci # Len(order)
    <3>1. pc' = "send" /\ ci' \in DOMAIN order BY <1>1, <1>2, <2>1, <2>5
    <3> QED BY <2>2, <2>3, <3>1 DEF Place
  <2> QED BY <2>4, <2>5
<1> QED BY <1>11, <1>12, <1>13, <1>14

(* A step that neither writes a row nor counts. *)
LEMMA OthersRecord ==
    ASSUME RecordInv, UNCHANGED <<kind, order, ci, at, rows, summary>>,
           \/ pc' = pc \/ pc' = "aborted"
           \/ /\ pc \in {"flash", "open", "reset0", "ready0", "send", "wait", "reset", "ready"}
              /\ pc' \in {"open", "reset0", "ready0", "send", "wait", "reset", "ready",
                          "record"}
    PROVE  RecordInv'
<1> USE DEF RecordInv
<1>1. OrderDistinct' BY DEF OrderDistinct
<1>2. AttemptInRange' BY DEF AttemptInRange
<1>3. RowsComplete'
  BY DEF RowsComplete, RowPassed, Behind, AttemptHasRow, RowsInOrder, IsSeq
<1>4. SummaryNow' = SummaryNow
  BY DEF SummaryNow, KemSummary, CertSummary, CountStatus, With, Of
<1>5. Place' BY <1>4 DEF Place
<1> QED BY <1>1, <1>2, <1>3, <1>5

LEMMA SummaryRecords == ASSUME RecordInv, WriteSummary PROVE RecordInv'
<1> USE DEF RecordInv
<1>1. /\ pc = "summary" /\ pc' = "done" /\ summary' = SummaryNow
      /\ UNCHANGED <<kind, order, ci, at, rows>>
  BY DEF WriteSummary, RunnerKeeps, SummaryNow
<1>2. OrderDistinct' BY <1>1 DEF OrderDistinct
<1>3. AttemptInRange' BY <1>1 DEF AttemptInRange
<1>4. RowsComplete'
  BY <1>1 DEF RowsComplete, RowPassed, Behind, AttemptHasRow, RowsInOrder, IsSeq
<1>5. SummaryNow' = SummaryNow
  BY <1>1 DEF SummaryNow, KemSummary, CertSummary, CountStatus, With, Of
<1>6. Place' BY <1>1, <1>5 DEF Place
<1> QED BY <1>2, <1>3, <1>4, <1>6

(* The rows of an answer and of a container are those of the attempt.        *)
LEMMA AnswersRecord ==
    ASSUME RecordInv, KemRead \/ CertRead \/ RunContainer
    PROVE  RecordInv'
<1>1. order' = order /\ kind' = kind /\ pc \in {"flash", "wait", "send"}
  BY DEF KemRead, CertRead, RunContainer, RunnerKeeps
<1>2. CASE UNCHANGED <<ci, at, rows, summary, pc>> BY <1>1, <1>2, OthersRecord
<1>3. CASE /\ Advance
           /\ \E r : r.alg = order[ci] /\ r.attempt = at /\ rows' = Append(rows, r)
  BY <1>1, <1>3, AdvanceRecords
<1>4. CASE KemRead
  <2>1. \A line, v : KemRow(line, v).alg = order[ci] /\ KemRow(line, v).attempt = at
    BY DEF KemRow
  <2>2. CASE \E v \in Readings : rows' = Append(rows, KemRow(Head(rx), v)) /\ Advance
    BY <1>3, <2>1, <2>2
  <2>3. CASE UNCHANGED <<ci, at, rows, summary, pc>> BY <1>2, <2>3
  <2> QED BY <1>4, <2>2, <2>3 DEF KemRead
<1>5. CASE CertRead
  <2>1. \A line, v : CertRow(line, v).alg = order[ci] /\ CertRow(line, v).attempt = at
    BY DEF CertRow
  <2>2. CASE \E v \in Readings : rows' = Append(rows, CertRow(Head(rx), v)) /\ Advance
    BY <1>3, <2>1, <2>2
  <2>3. CASE UNCHANGED <<ci, at, rows, summary, pc>> BY <1>2, <2>3
  <2> QED BY <1>5, <2>2, <2>3 DEF CertRead
<1>6. CASE RunContainer
  <2>1. \A s : ContainerRow(s).alg = order[ci] /\ ContainerRow(s).attempt = at
    BY DEF ContainerRow, LocalRow
  <2>2. \E s \in {"success", "fail"} : rows' = Append(rows, ContainerRow(s))
    BY <1>6 DEF RunContainer
  <2>3. Advance BY <1>6 DEF RunContainer
  <2> QED BY <1>3, <2>1, <2>2, <2>3
<1> QED BY <1>4, <1>5, <1>6

(* The selection names an algorithm once, however often the case file does.  *)
LEMMA OrdersDistinct ==
    ASSUME NEW S, S \subseteq Algs, NEW p \in Orders(S)
    PROVE  /\ Len(p) \in Nat \ {0} /\ DOMAIN p = 1 .. Len(p)
           /\ \A i, j \in DOMAIN p : i # j => p[i] # p[j]
<1> DEFINE Good(q) == /\ \E n \in Nat : q \in [1 .. n -> Algs] /\ n # 0
                      /\ \A i, j \in DOMAIN q : i # j => q[i] # q[j]
           picked == {q \in UNION {SetToSeqs(T) : T \in SUBSET S} : q # <<>>}
<1>1. ASSUME NEW q \in picked PROVE Good(q)
  <2>1. PICK T \in SUBSET S : q \in SetToSeqs(T) OBVIOUS
  <2>2. IsFiniteSet(T) BY TableKnown, FS_Subset
  <2>3. Cardinality(T) \in Nat BY <2>2, FS_CardinalityType
  <2> DEFINE n == Cardinality(T)
  <2>4. q \in [1 .. n -> T] /\ \A i, j \in 1 .. n : i # j => q[i] # q[j]
    BY <2>1 DEF SetToSeqs
  <2> HIDE DEF n
  <2>5. n # 0
    <3> SUFFICES ASSUME n = 0 PROVE FALSE OBVIOUS
    <3>1. DOMAIN q = {} BY <2>4
    <3>2. q = <<>> BY <2>4, <3>1
    <3> QED BY <3>2
  <2>6. q \in [1 .. n -> Algs] BY <2>4
  <2>7. n \in Nat BY <2>3 DEF n
  <2> QED BY <2>4, <2>5, <2>6, <2>7
<1>2. CASE p \in picked
  <2>1. PICK n \in Nat : p \in [1 .. n -> Algs] /\ n # 0 BY <1>1, <1>2
  <2>2. Len(p) = n /\ DOMAIN p = 1 .. n BY <2>1
  <2> QED BY <1>1, <1>2, <2>1, <2>2
<1>3. CASE \E q \in picked : p = <<"client_identity">> \o q
  <2>1. PICK q \in picked : p = <<"client_identity">> \o q BY <1>3
  <2>2. PICK n \in Nat : q \in [1 .. n -> Algs] /\ n # 0 BY <1>1
  <2>3. q \in Seq(Algs) /\ Len(q) = n /\ DOMAIN q = 1 .. n BY <2>2
  <2>4. IsSeq(q) /\ IsSeq(<<"client_identity">>) /\ Len(<<"client_identity">>) = 1
    <3>1. <<"client_identity">> \in Seq({"client_identity"}) OBVIOUS
    <3> QED BY <2>3, <3>1 DEF IsSeq
  <2>5. /\ DOMAIN p = 1 .. (1 + n) /\ IsSeq(p)
        /\ \A i \in 1 .. (1 + n) :
             p[i] = IF i <= 1 THEN <<"client_identity">>[i] ELSE q[i - 1]
    BY <2>1, <2>3, <2>4, ConcatShape
  <2>6. Len(p) = n + 1
    <3>1. Len(p) \in Nat /\ DOMAIN p = 1 .. Len(p) BY <2>5, SeqShape
    <3> QED BY <2>2, <2>5, <3>1
  <2>7. p[1] = "client_identity" BY <2>2, <2>5
  <2>8. \A i \in 2 .. (n + 1) : i - 1 \in DOMAIN q /\ p[i] = q[i - 1] BY <2>2, <2>3, <2>5
  <2>9. \A i \in 2 .. (n + 1) : p[i] # p[1] BY <2>2, <2>7, <2>8, TableKnown
  <2>10. \A i, j \in DOMAIN q : i # j => q[i] # q[j] BY <1>1
  <2>11. ASSUME NEW i \in DOMAIN p, NEW j \in DOMAIN p, i # j PROVE p[i] # p[j]
    <3>1. CASE i = 1 BY <2>2, <2>5, <2>9, <2>11, <3>1
    <3>2. CASE j = 1 BY <2>2, <2>5, <2>9, <2>11, <3>2
    <3>3. CASE i # 1 /\ j # 1
      <4>1. i \in 2 .. (n + 1) /\ j \in 2 .. (n + 1) /\ i - 1 # j - 1
        BY <2>2, <2>5, <2>11, <3>3
      <4> QED BY <2>8, <2>10, <4>1
    <3> QED BY <3>1, <3>2, <3>3
  <2>12. Len(p) \in Nat \ {0} /\ DOMAIN p = 1 .. Len(p) BY <2>2, <2>5, <2>6
  <2> QED BY <2>11, <2>12
<1> QED BY <1>2, <1>3 DEF Orders

LEMMA RecordInit == ASSUME Init PROVE RecordInv
<1>1. ci = 1 /\ at = 1 /\ rows = <<>> /\ pc \in {"flash", "refused"} BY DEF Init
<1>2. OrderDistinct /\ (pc = "flash" => ci \in DOMAIN order)
  <2>1. PICK f \in CaseFiles :
          LET S == IF kind = "kem" THEN KemSelected(f) ELSE CertSelected(f)
          IN  \/ S # {} /\ order \in Orders(S) /\ pc = "flash"
              \/ S = {} /\ order = <<>> /\ pc = "refused"
    BY DEF Init
  <2> DEFINE S == IF kind = "kem" THEN KemSelected(f) ELSE CertSelected(f)
  <2>2. S \subseteq Algs BY DEF KemSelected, CertSelected
  <2>3. \/ order \in Orders(S)
        \/ order = <<>> /\ pc = "refused"
    BY <2>1
  <2> HIDE DEF S
  <2>4. CASE order \in Orders(S)
    <3>1. /\ Len(order) \in Nat \ {0} /\ DOMAIN order = 1 .. Len(order)
          /\ \A i, j \in DOMAIN order : i # j => order[i] # order[j]
      BY <2>2, <2>4, OrdersDistinct
    <3> QED BY <1>1, <3>1 DEF OrderDistinct
  <2>5. CASE order = <<>> /\ pc = "refused"
    <3>1. Len(order) = 0 /\ DOMAIN order = {} BY <2>5
    <3> QED BY <2>5, <3>1 DEF OrderDistinct
  <2> QED BY <2>3, <2>4, <2>5
<1>3. RowsComplete
  <2>1. <<>> \in Seq({}) /\ DOMAIN <<>> = {} OBVIOUS
  <2>2. \A j \in DOMAIN order, n \in 1 .. Iterations : ~Behind(ci, at, j, n)
    BY <1>1, <1>2, IterationsPositive DEF Behind, OrderDistinct
  <2> QED BY <1>1, <2>1, <2>2 DEF RowsComplete, AttemptHasRow, RowsInOrder, IsSeq
<1>4. AttemptInRange BY <1>1, IterationsPositive DEF AttemptInRange
<1>5. Place BY <1>1, <1>2 DEF Place
<1> QED BY <1>2, <1>3, <1>4, <1>5 DEF RecordInv

LEMMA RecordSafe == Spec => []RecordInv
<1>1. RecordInv /\ [Next]_vars => RecordInv'
  <2> SUFFICES ASSUME RecordInv, [Next]_vars PROVE RecordInv'
    OBVIOUS
  <2>1. CASE KemRead \/ CertRead \/ RunContainer BY <2>1, AnswersRecord
  <2>2. CASE RecordTimeout BY <2>2, TimeoutRecords
  <2>3. CASE WriteSummary BY <2>3, SummaryRecords
  <2>4. CASE Flash \/ OpenPort \/ Reset \/ ReadyRead \/ ReadyTimeout \/ Send \/ WaitTimeout
    <3>1. UNCHANGED <<kind, order, ci, at, rows, summary>>
      BY <2>4 DEF Flash, OpenPort, Reset, ReadyRead, ReadyTimeout, Send, WaitTimeout,
         RunnerKeeps, Fixed
    <3>2. \/ pc' = pc \/ pc' = "aborted"
          \/ /\ pc \in {"flash", "open", "reset0", "ready0", "send", "wait", "reset",
                        "ready"}
             /\ pc' \in {"open", "reset0", "ready0", "send", "wait", "reset", "ready",
                         "record"}
      BY <2>4 DEF Flash, OpenPort, Reset, ReadyRead, ReadyTimeout, Send, WaitTimeout
    <3> QED BY <3>1, <3>2, OthersRecord
  <2>5. CASE Board
    <3>1. UNCHANGED <<kind, order, ci, at, rows, summary, pc>>
      BY <2>5 DEF Board, BoardBoots, BoardTakes, BoardProgress, BoardResult, BoardReady,
         BoardUnchanged
    <3> QED BY <3>1, OthersRecord
  <2>6. CASE UNCHANGED vars BY <2>6, OthersRecord DEF vars
  <2> QED BY <2>1, <2>2, <2>3, <2>4, <2>5, <2>6 DEF Next, Runner, Stutter
<1> QED BY <1>1, RecordInit, PTL DEF Spec

(* At the end the rows of an algorithm are as many as its attempts. *)
LEMMA GroupWhole ==
    ASSUME RecordInv, ci = Len(order) + 1, NEW a \in ToSet(order)
    PROVE  /\ {rows[i].attempt : i \in Of(a)} = 1 .. Iterations
           /\ \A i, j \in Of(a) : i < j => rows[i].attempt < rows[j].attempt
           /\ IsFiniteSet(Of(a)) /\ Cardinality(Of(a)) = Iterations
<1> USE DEF RecordInv
<1>1. PICK j \in DOMAIN order : a = order[j] BY DEF ToSet
<1>2. IsSeq(rows) BY DEF RowsComplete
<1>3. Len(rows) \in Nat /\ DOMAIN rows = 1 .. Len(rows) BY <1>2, SeqShape
<1>4. \A i \in Of(a) : i \in DOMAIN rows /\ i \in Int /\ rows[i].alg = a
  BY <1>3 DEF Of
<1>5. \A i \in Of(a) : rows[i].attempt \in 1 .. Iterations
  BY <1>4 DEF RowsComplete, RowPassed
<1>6. \A n \in 1 .. Iterations : Behind(ci, at, j, n)
  BY <1>1 DEF Behind, OrderDistinct
<1>7. \A n \in 1 .. Iterations : \E i \in Of(a) : rows[i].attempt = n
  BY <1>1, <1>6 DEF RowsComplete, AttemptHasRow, Of
<1>8. \A i, l \in Of(a) : i < l => rows[i].attempt < rows[l].attempt
  BY <1>4 DEF RowsComplete, RowsInOrder
<1> DEFINE T == 1 .. Iterations
           f == [i \in Of(a) |-> rows[i].attempt]
<1>9. f \in [Of(a) -> T] BY <1>5
<1>10. \A i, l \in Of(a) : f[i] = f[l] => i = l
  <2> SUFFICES ASSUME NEW i \in Of(a), NEW l \in Of(a), i # l PROVE f[i] # f[l]
    OBVIOUS
  <2>1. i \in Int /\ l \in Int /\ rows[i].attempt \in Int /\ rows[l].attempt \in Int
    BY <1>4, <1>5
  <2>2. i < l \/ l < i BY <2>1
  <2>3. rows[i].attempt # rows[l].attempt BY <1>8, <2>1, <2>2
  <2> QED BY <2>3
<1>11. \A n \in T : \E i \in Of(a) : f[i] = n BY <1>7
<1>12. IsFiniteSet(T) /\ Cardinality(T) = Iterations
  BY FS_Interval, IterationsPositive
<1> HIDE DEF f, T
<1>13. f \in Injection(Of(a), T) /\ f \in Surjection(Of(a), T)
  <2>1. DOMAIN f = Of(a) BY <1>9
  <2> QED BY <1>9, <1>10, <1>11, <2>1 DEF Injection, Surjection, IsInjective
<1>14. IsFiniteSet(Of(a)) /\ Cardinality(Of(a)) = Cardinality(T)
  BY <1>12, <1>13, FS_Injection
<1> QED BY <1>5, <1>7, <1>8, <1>12, <1>14

(* Counting the successes of a group tells whether all succeeded. *)
LEMMA CountsTell ==
    ASSUME NEW items, IsFiniteSet(items)
    PROVE  /\ \A s : CountStatus(items, s) \in Nat
           /\ Cardinality(items) \in Nat
           /\ CountStatus(items, "success") <= Cardinality(items)
           /\ CountStatus(items, "success") = Cardinality(items) <=>
                \A i \in items : rows[i].status = "success"
           /\ CountStatus(items, "success") + CountStatus(items, "fail")
                <= Cardinality(items)
<1> DEFINE S == With(items, "success")
           F == With(items, "fail")
<1>1. \A s : With(items, s) \in SUBSET items BY DEF With
<1>2. \A s : IsFiniteSet(With(items, s)) /\ CountStatus(items, s) \in Nat
  BY <1>1, FS_Subset, FS_CardinalityType DEF CountStatus
<1>3. Cardinality(items) \in Nat BY FS_CardinalityType
<1>4. Cardinality(S) <= Cardinality(items) /\ (Cardinality(items) = Cardinality(S) => items = S)
  BY <1>1, FS_Subset
<1>5. items = S <=> \A i \in items : rows[i].status = "success" BY DEF With
<1>6. S \cap F = {} BY DEF With
<1> HIDE DEF S, F
<1>7. Cardinality(S \cup F) = Cardinality(S) + Cardinality(F)
  <2>1. IsFiniteSet(S) /\ IsFiniteSet(F) BY <1>2 DEF S, F
  <2>2. Cardinality(S \cup F) = Cardinality(S) + Cardinality(F) - Cardinality(S \cap F)
    BY <2>1, FS_Union
  <2>3. Cardinality(S) \in Nat /\ Cardinality(F) \in Nat BY <2>1, FS_CardinalityType
  <2> QED BY <1>6, <2>2, <2>3, FS_EmptySet
<1>8. Cardinality(S \cup F) <= Cardinality(items)
  <2>1. S \cup F \in SUBSET items BY <1>1 DEF S, F
  <2> QED BY <2>1, FS_Subset
<1> QED BY <1>2, <1>3, <1>4, <1>5, <1>7, <1>8 DEF CountStatus, S, F

(* The loops of main (run_kem_benchmarks.py 492-541) and of run_on_device     *)
(* (run_certificate_benchmarks.py 960-1039): whatever times out, a run that   *)
(* ends has one row per attempt, in order, and its summary says success       *)
(* exactly of the algorithms whose attempts all succeeded.                    *)
THEOREM EveryAttemptRecorded == Spec => []AllRecorded
<1>1. ASSUME RecordInv PROVE AllRecorded
  <2> SUFFICES ASSUME pc = "done"
               PROVE  /\ \A i \in DOMAIN rows : rows[i].alg \in ToSet(order)
                      /\ \A a \in ToSet(order) :
                           /\ {rows[i].attempt : i \in Of(a)} = 1 .. Iterations
                           /\ \A i, j \in Of(a) : i < j =>
                                rows[i].attempt < rows[j].attempt
                           /\ summary[a].status = "success" <=>
                                \A i \in Of(a) : rows[i].status = "success"
                           /\ summary[a].success + summary[a].fail <= Iterations
    BY DEF AllRecorded
  <2>1. ci = Len(order) + 1 /\ summary = SummaryNow BY <1>1 DEF RecordInv, Place
  <2>2. \A i \in DOMAIN rows : rows[i].alg \in ToSet(order)
    BY <1>1 DEF RecordInv, RowsComplete, RowPassed, ToSet
  <2>3. ASSUME NEW a \in ToSet(order)
        PROVE  /\ summary[a].status = "success" <=>
                    \A i \in Of(a) : rows[i].status = "success"
               /\ summary[a].success + summary[a].fail <= Iterations
    <3> DEFINE items == Of(a)
    <3>1. IsFiniteSet(items) /\ Cardinality(items) = Iterations BY <1>1, <2>1, GroupWhole
    <3>2. /\ \A s : CountStatus(items, s) \in Nat
          /\ CountStatus(items, "success") <= Cardinality(items)
          /\ CountStatus(items, "success") = Cardinality(items) <=>
               \A i \in items : rows[i].status = "success"
          /\ CountStatus(items, "success") + CountStatus(items, "fail")
               <= Cardinality(items)
      BY <3>1, CountsTell
    <3>3. summary[a] = IF kind = "kem" THEN KemSummary(items) ELSE CertSummary(items)
      BY <2>1 DEF SummaryNow
    <3> HIDE DEF items
    <3>4. CASE kind = "kem"
      <4>1. /\ summary[a].status = "success" <=>
                 CountStatus(items, "success") = Cardinality(items)
            /\ summary[a].success = CountStatus(items, "success")
            /\ summary[a].fail = CountStatus(items, "fail")
        BY <3>3, <3>4 DEF KemSummary
      <4> QED BY <3>1, <3>2, <4>1 DEF items
    <3>5. CASE kind # "kem"
      <4>1. /\ summary[a].status = "success" <=>
                 CountStatus(items, "success") = Cardinality(items)
            /\ summary[a].success = CountStatus(items, "success")
            /\ summary[a].fail = Cardinality(items) - CountStatus(items, "success")
        BY <3>3, <3>5 DEF CertSummary
      <4>2. summary[a].success + summary[a].fail = Cardinality(items)
        BY <3>1, <3>2, <4>1, IterationsPositive
      <4>3. Cardinality(items) \in Int /\ Cardinality(items) <= Iterations
        BY <3>1, IterationsPositive
      <4> QED BY <3>2, <4>1, <4>2, <4>3 DEF items
    <3> QED BY <3>4, <3>5
  <2> QED BY <1>1, <2>1, <2>2, <2>3, GroupWhole
<1> QED BY <1>1, RecordSafe, PTL
=============================================================================
