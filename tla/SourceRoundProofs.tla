-------------------------- MODULE SourceRoundProofs --------------------------
(* What is proved of SourceRound, for any number of transfers and retries.  *)
EXTENDS SourceRound, SequenceTheorems, FiniteSetTheorems, TLAPS

-----------------------------------------------------------------------------
(***************************************************************************)
(* What a session leaves in the gateway's logs.  A session of the current  *)
(* try is regular until it fails: then its logs hold exactly what it has   *)
(* done so far, and the controller prints one operation before the next    *)
(* begins.                                                                 *)
(***************************************************************************)
Shape ==
  /\ mode \in {"handshake", "transfer"} /\ try \in Nat \ {0}
  /\ DOMAIN board = {"st", "sess", "op", "hi", "hs"}
  /\ board.st \in {"adv", "session", "failing", "post", "boot"}
  /\ board.sess \in Nat /\ board.op \in Nat
  /\ DOMAIN rlog = {"of", "res", "hs", "dev"} /\ DOMAIN rlog.dev = Transfers

Flow ==
  /\ pc \in {"begin", "start", "poll", "pollbridge", "stop", "rows", "decide", "return",
             "done"}
  /\ board.sess <= try
  /\ pc \in {"begin", "start"} => board.sess < try
  /\ pc \in {"poll", "pollbridge"} => board.sess = try
  /\ bridge = "up" => pc \in {"poll", "pollbridge", "stop"}
  /\ board.st \in {"adv", "post", "boot"} => ~board.hi /\ board.hs = "no"

Regular == board.sess = try /\ (board.st = "session" \/ rlog.res = "success")

(* Once stop_session has killed the controller, the last metrics line is    *)
(* in its log only if it was prompt.                                        *)
Heard == "controller" \in Prompt \/ pc \notin {"rows", "decide", "return", "done"}

Metrics ==
  /\ printing # {} => ~board.hi /\ printing = {[op |-> board.op, ok |-> TRUE]}
  /\ \A j \in Transfers :
       j < board.op \/ (j = board.op /\ ~board.hi /\ printing = {} /\ Heard) =>
         rlog.dev[j] = [of |-> try, ok |-> TRUE]

Logged ==
  /\ board.sess = try /\ board.st \in {"session", "failing"} => rlog.res = "none"
  /\ board.sess = try /\ rlog.res = "success" =>
       board.st \in {"adv", "post", "boot"} /\ board.op = Cardinality(Transfers)
  /\ Regular =>
       /\ rlog.of = try /\ board.op \in Transfers \cup {0}
       /\ board.op > 0 \/ ~board.hi => rlog.hs
       /\ Metrics

FinalOwn ==
  final.status = "success" =>
    /\ final.of = try /\ board.sess = try /\ rlog.res = "success"
    /\ pc \in {"stop", "rows", "decide", "return", "done"}

CoreInv == Shape /\ Flow /\ Logged /\ FinalOwn

-----------------------------------------------------------------------------
(***************************************************************************)
(* What the capture thread sees.  The edges of a regular session are       *)
(* numbered: 1 and 2 raise total and handshake, 3 + 2 i lowers total after *)
(* transfer i (after the connection for i = 0), 4 + 2 i raises it for      *)
(* transfer i + 1.  The thread has processed the first EdgesSent - Len(usb) *)
(* of them; what lies in front of number 1 is of an earlier session.        *)
(***************************************************************************)
IsSeq(s) == \E S : s \in Seq(S)

EdgesSent ==
  IF board.op = 0
  THEN IF board.hi THEN IF board.hs = "no" THEN 1 ELSE 2 ELSE 3
  ELSE IF board.hi THEN 2 + 2 * board.op ELSE 3 + 2 * board.op

IsEdge(k, x) ==
  /\ k = 1 => x.e = "up" /\ x.w = <<try, 0>>
  /\ k = 2 => x.e = "hs"
  /\ \A i \in Nat : k = 3 + 2 * i => x.e = "down"
  /\ \A i \in Nat : k = 4 + 2 * i => x.e = "up" /\ x.w = <<try, i + 1>>

(* The last i + 1 windows are those of the connection and i transfers. *)
Windows(done, i) ==
  /\ i < Len(done)
  /\ \A j \in 0 .. i : /\ done[Len(done) - i + j].w = <<try, j>>
                       /\ done[Len(done) - i + j].hs <=> j = 0

IsOpen(j) == cap.open.w = <<try, j>> /\ (cap.open.hs => j = 0)

Captured(m) ==
  /\ m = 1 => IsOpen(0)
  /\ m = 2 => IsOpen(0) /\ cap.open.hs
  /\ \A i \in Nat : m = 3 + 2 * i => Windows(cap.done, i)
  /\ \A i \in Nat : m = 4 + 2 * i => Windows(cap.done, i) /\ IsOpen(i + 1)

Processed == EdgesSent - Len(usb)

CapShape ==
  /\ DOMAIN cap = {"on", "open", "done"}
  /\ DOMAIN cap.open = {"w", "hs"} /\ IsSeq(cap.done) /\ IsSeq(usb)
  /\ cap.on <=> pc \in {"start", "poll", "pollbridge", "stop", "rows"}
  /\ \A j \in DOMAIN usb : usb[j].e \in {"up", "hs", "down"}
  /\ ~cap.on => usb = <<>>

Stream ==
  Regular => /\ \A j \in DOMAIN usb : IsEdge(Processed + j, usb[j])
             /\ Captured(Processed)

CapInv == CapShape /\ Stream

-----------------------------------------------------------------------------
(* Rows and attempt. *)
Collected ==
  pc \in {"rows", "decide", "return", "done"} /\ final.status = "success" =>
    /\ llog.hs = try
    /\ \A i \in Transfers : llog.dev[i] = [of |-> try, ok |-> TRUE]

(* transfer_rows_for_round has run for this try, or never will. *)
Reported == pc \in {"decide", "return", "done"}

GoodRow(r) == r.complete => r.of = r.try /\ r.win = <<r.try, r.op>>

RowsKept ==
  /\ IsSeq(rows)
  /\ \A i \in DOMAIN rows :
       /\ GoodRow(rows[i]) /\ rows[i].try \in Nat /\ rows[i].try <= try
       /\ ~Reported => rows[i].try < try
       /\ Reported /\ final.status = "success" /\ rows[i].try = try => rows[i].complete

AttemptOwn ==
  attempt.status = "success" =>
    /\ pc = "done" /\ final.status = "success" /\ attempt.of = try
    /\ mode = "transfer" => attempt.hs = try

EnergyInv ==
  attempt.status = "success" =>
    /\ pc = "done" /\ final.status = "success"
    /\ attempt.power = "success" => attempt.total = <<try, 0>>

-----------------------------------------------------------------------------
(* The core invariant, action by action.                                    *)
LEMMA TransfersCount ==
    /\ Cardinality(Transfers) \in Nat
    /\ Transfers = 1 .. Cardinality(Transfers)
<1>1. CASE mode = "transfer"
  <2>1. Ops \in Nat /\ Transfers = 1 .. Ops BY <1>1, SourceConstants DEF Transfers
  <2>2. Cardinality(1 .. Ops) = IF 1 > Ops THEN 0 ELSE Ops - 1 + 1
    BY <2>1, FS_Interval
  <2> QED BY <2>1, <2>2
<1>2. CASE mode # "transfer"
  <2>1. Transfers = {} BY <1>2 DEF Transfers
  <2>2. Cardinality({}) = 0 BY FS_EmptySet
  <2> QED BY <2>1, <2>2
<1> QED BY <1>1, <1>2

(* A step of the board in a regular session that stays regular. *)
LEMMA BoardCore ==
    ASSUME CoreInv, BoardOnly, Linked, bridge' = bridge,
           Shape', board'.sess = board.sess, board'.st = "session",
           rlog'.res = rlog.res, rlog'.of = rlog.of,
           board'.op \in Transfers \cup {0},
           board'.op > 0 \/ ~board'.hi => rlog'.hs, Metrics'
    PROVE  CoreInv'
<1>1. /\ UNCHANGED <<mode, pc, try, final>> /\ board.sess = try
      /\ board.st = "session"
  BY DEF BoardOnly, Linked
<1>2. Transfers' = Transfers BY <1>1 DEF Transfers
<1>3. Flow' BY <1>1 DEF CoreInv, Flow
<1>4. rlog.res = "none" /\ rlog.of = try BY <1>1 DEF CoreInv, Logged, Regular
<1>5. Logged' BY <1>1, <1>2, <1>4 DEF Logged
<1>6. FinalOwn' BY <1>1, <1>4 DEF CoreInv, FinalOwn
<1> QED BY <1>3, <1>5, <1>6 DEF CoreInv

(* The board's session is over without a success; no regular state is left. *)
LEMMA SessionOver ==
    ASSUME CoreInv, BoardOnly, bridge' = bridge, DOMAIN rlog' = DOMAIN rlog,
           rlog'.dev = rlog.dev, board.st \in {"session", "failing"},
           board' = [board EXCEPT !.st = "post", !.hi = FALSE, !.hs = "no"],
           board.sess = try => rlog'.res # "success"
    PROVE  CoreInv' /\ ~Regular'
<1>1. UNCHANGED <<mode, pc, try, final>> BY DEF BoardOnly
<1>2. Transfers' = Transfers BY <1>1 DEF Transfers
<1>3. /\ DOMAIN board' = DOMAIN board /\ board'.st = "post" /\ ~board'.hi
      /\ board'.hs = "no" /\ board'.sess = board.sess /\ board'.op = board.op
  BY DEF CoreInv, Shape
<1>4. Shape' BY <1>1, <1>2, <1>3 DEF CoreInv, Shape
<1>5. Flow' BY <1>1, <1>3 DEF CoreInv, Flow
<1>6. ~Regular' BY <1>1, <1>3 DEF Regular
<1>7. Logged' BY <1>1, <1>3, <1>6 DEF Logged
<1>8. FinalOwn'
  <2>1. final.status # "success"
    BY DEF CoreInv, FinalOwn, Logged
  <2> QED BY <1>1, <2>1 DEF FinalOwn
<1> QED BY <1>4, <1>5, <1>6, <1>7, <1>8 DEF CoreInv

LEMMA HandshakeStartsCore == ASSUME CoreInv, HandshakeStarts PROVE CoreInv'
<1>1. /\ Linked /\ BoardOnly /\ board.op = 0 /\ board.hi
      /\ board' = [board EXCEPT !.hs = "high"] /\ UNCHANGED <<bridge, printing, rlog>>
  BY DEF HandshakeStarts, pi
<1>2. /\ DOMAIN board' = DOMAIN board /\ board'.st = board.st /\ board'.sess = board.sess
      /\ board'.op = board.op /\ board'.hi = board.hi
  BY <1>1 DEF CoreInv, Shape
<1>3. Transfers' = Transfers /\ UNCHANGED <<mode, pc, try>>
  BY <1>1 DEF BoardOnly, Transfers
<1>4. Shape' BY <1>1, <1>2, <1>3 DEF CoreInv, Shape
<1>5. Regular /\ board.st = "session" BY <1>1 DEF Linked, Regular
<1>6. Metrics' BY <1>1, <1>2, <1>3, <1>5 DEF CoreInv, Logged, Metrics, Heard
<1> QED BY <1>1, <1>2, <1>4, <1>5, <1>6, BoardCore DEF CoreInv, Logged

LEMMA HandshakeEndsCore == ASSUME CoreInv, HandshakeEnds PROVE CoreInv'
<1>1. /\ Linked /\ BoardOnly
      /\ board' = [board EXCEPT !.hs = "done"] /\ UNCHANGED <<bridge, printing, rlog>>
  BY DEF HandshakeEnds, pi
<1>2. /\ DOMAIN board' = DOMAIN board /\ board'.st = board.st /\ board'.sess = board.sess
      /\ board'.op = board.op /\ board'.hi = board.hi
  BY <1>1 DEF CoreInv, Shape
<1>3. Transfers' = Transfers /\ UNCHANGED <<mode, pc, try>>
  BY <1>1 DEF BoardOnly, Transfers
<1>4. Shape' BY <1>1, <1>2, <1>3 DEF CoreInv, Shape
<1>5. Regular /\ board.st = "session" BY <1>1 DEF Linked, Regular
<1>6. Metrics' BY <1>1, <1>2, <1>3, <1>5 DEF CoreInv, Logged, Metrics, Heard
<1> QED BY <1>1, <1>2, <1>4, <1>5, <1>6, BoardCore DEF CoreInv, Logged

LEMMA ConnectedCore == ASSUME CoreInv, Connected PROVE CoreInv'
<1>1. /\ Linked /\ BoardOnly /\ board.op = 0 /\ board.hi
      /\ board' = [board EXCEPT !.hi = FALSE, !.hs = "no"]
      /\ rlog' = [rlog EXCEPT !.hs = TRUE] /\ UNCHANGED <<bridge, printing>>
  BY DEF Connected
<1>2. /\ DOMAIN board' = DOMAIN board /\ board'.st = board.st /\ board'.sess = board.sess
      /\ board'.op = 0 /\ ~board'.hi
      /\ DOMAIN rlog' = DOMAIN rlog /\ rlog'.hs /\ rlog'.dev = rlog.dev
      /\ rlog'.of = rlog.of /\ rlog'.res = rlog.res
  BY <1>1 DEF CoreInv, Shape
<1>3. Transfers' = Transfers /\ UNCHANGED <<mode, pc, try>>
  BY <1>1 DEF BoardOnly, Transfers
<1>4. Shape' BY <1>1, <1>2, <1>3 DEF CoreInv, Shape
<1>5. Regular /\ board.st = "session" BY <1>1 DEF Linked, Regular
<1>6. Metrics'
  <2>1. printing = {} BY <1>1, <1>5 DEF CoreInv, Logged, Metrics, Heard
  <2>2. \A j \in Transfers : j \in Nat /\ 0 < j BY TransfersCount
  <2> QED BY <1>1, <1>2, <1>3, <2>1, <2>2 DEF Metrics
<1> QED BY <1>1, <1>2, <1>4, <1>5, <1>6, BoardCore DEF CoreInv, Logged

LEMMA OperationStartsCore == ASSUME CoreInv, OperationStarts PROVE CoreInv'
<1>1. /\ Linked /\ BoardOnly /\ ~board.hi /\ printing = {} /\ board.op + 1 \in Transfers
      /\ board' = [board EXCEPT !.op = @ + 1, !.hi = TRUE]
      /\ UNCHANGED <<bridge, printing, rlog>>
  BY DEF OperationStarts, pi
<1>2. /\ DOMAIN board' = DOMAIN board /\ board'.st = board.st /\ board'.sess = board.sess
      /\ board'.op = board.op + 1 /\ board'.hi /\ board.op \in Nat
  BY <1>1 DEF CoreInv, Shape
<1>3. Transfers' = Transfers /\ UNCHANGED <<mode, pc, try>>
  BY <1>1 DEF BoardOnly, Transfers
<1>4. Shape' BY <1>1, <1>2, <1>3 DEF CoreInv, Shape
<1>5. Regular /\ board.st = "session" BY <1>1 DEF Linked, Regular
<1>6. Metrics'
  <2>1. \A j \in Transfers : j \in Nat BY TransfersCount
  <2>2. Metrics BY <1>5 DEF CoreInv, Logged
  <2>3. ASSUME NEW j \in Transfers, j < board.op + 1
        PROVE  rlog.dev[j] = [of |-> try, ok |-> TRUE]
    <3>1. j < board.op \/ j = board.op BY <1>2, <2>1, <2>3
    <3>2. Heard BY <1>1 DEF Heard, CoreInv, Flow, Linked
    <3> QED BY <1>1, <2>2, <3>1, <3>2 DEF Metrics
  <2> QED BY <1>1, <1>2, <1>3, <2>3 DEF Metrics
<1>7. rlog.hs BY <1>1, <1>5 DEF CoreInv, Logged
<1> QED BY <1>1, <1>2, <1>4, <1>5, <1>6, <1>7, BoardCore DEF CoreInv, Logged

LEMMA OperationEndsCore == ASSUME CoreInv, OperationEnds PROVE CoreInv'
<1>1. /\ Linked /\ BoardOnly /\ board.op > 0 /\ board.hi /\ UNCHANGED <<bridge, rlog>>
  BY DEF OperationEnds
<1>2. PICK ok \in BOOLEAN :
        /\ printing' = {[op |-> board.op, ok |-> ok]}
        /\ board' = [board EXCEPT !.hi = FALSE,
                                  !.st = IF ok THEN "session" ELSE "failing"]
  BY DEF OperationEnds
<1>3. /\ DOMAIN board' = DOMAIN board /\ board'.sess = board.sess
      /\ board'.op = board.op /\ ~board'.hi
      /\ board'.st = IF ok THEN "session" ELSE "failing"
  BY <1>2 DEF CoreInv, Shape
<1>4. Transfers' = Transfers /\ UNCHANGED <<mode, pc, try, final>>
  BY <1>1 DEF BoardOnly, Transfers
<1>5. Shape' BY <1>1, <1>3, <1>4 DEF CoreInv, Shape
<1>6. Regular /\ board.st = "session" /\ board.sess = try BY <1>1 DEF Linked, Regular
<1>7. rlog.res = "none" /\ rlog.hs BY <1>1, <1>6 DEF CoreInv, Logged
<1>8. CASE ok = TRUE
  <2>1. printing' = {[op |-> board.op, ok |-> TRUE]} /\ board'.st = "session"
    BY <1>2, <1>3, <1>8
  <2>2. printing' # {} BY <2>1
  <2>3. Metrics' BY <1>1, <1>3, <1>4, <1>6, <2>1, <2>2 DEF CoreInv, Logged, Metrics
  <2> QED BY <1>1, <1>3, <1>5, <1>6, <1>7, <2>1, <2>3, BoardCore DEF CoreInv, Logged
<1>9. CASE ok = FALSE
  <2>1. board'.st = "failing" BY <1>3, <1>9
  <2>2. ~Regular' BY <1>1, <1>7, <2>1 DEF Regular
  <2>3. Flow' BY <1>1, <1>3, <1>4, <2>1 DEF CoreInv, Flow
  <2>4. Logged' BY <1>1, <1>7, <2>1, <2>2 DEF Logged
  <2>5. FinalOwn' BY <1>4, <1>7 DEF CoreInv, FinalOwn
  <2> QED BY <1>5, <2>3, <2>4, <2>5 DEF CoreInv
<1> QED BY <1>8, <1>9

LEMMA ResultCore == ASSUME CoreInv, Result PROVE CoreInv'
<1>1. /\ bridge = "up" /\ board.sess = try /\ BoardOnly /\ UNCHANGED <<bridge, printing>>
      /\ board' = [board EXCEPT !.st = "post", !.hi = FALSE, !.hs = "no"]
  BY DEF Result
<1>2. /\ DOMAIN board' = DOMAIN board /\ board'.st = "post" /\ ~board'.hi
      /\ board'.hs = "no" /\ board'.sess = board.sess /\ board'.op = board.op
  BY <1>1 DEF CoreInv, Shape
<1>3. Transfers' = Transfers /\ UNCHANGED <<mode, pc, try, final>>
  BY <1>1 DEF BoardOnly, Transfers
<1>4. ASSUME board.st = "session", ~board.hi, board.op = Cardinality(Transfers),
             rlog' = [rlog EXCEPT !.res = "success"]
      PROVE  CoreInv'
  <2>1. /\ DOMAIN rlog' = DOMAIN rlog /\ rlog'.res = "success" /\ rlog'.of = rlog.of
        /\ rlog'.hs = rlog.hs /\ rlog'.dev = rlog.dev
    BY <1>4 DEF CoreInv, Shape
  <2>2. Regular /\ rlog.res = "none" BY <1>1, <1>4 DEF CoreInv, Logged, Regular
  <2>3. Metrics' BY <1>1, <1>2, <1>3, <1>4, <2>1, <2>2 DEF CoreInv, Logged, Metrics, Heard
  <2>4. Shape' BY <1>2, <1>3, <2>1 DEF CoreInv, Shape
  <2>5. Flow' BY <1>1, <1>2, <1>3 DEF CoreInv, Flow
  <2>6. FinalOwn' BY <1>3, <2>2 DEF CoreInv, FinalOwn
  <2>7. Logged'
    <3>1. /\ rlog.of = try /\ board.op \in Transfers \cup {0} /\ rlog.hs
      BY <1>4, <2>2 DEF CoreInv, Logged
    <3> QED BY <1>2, <1>3, <1>4, <2>1, <2>3, <3>1 DEF Logged
  <2> QED BY <2>4, <2>5, <2>6, <2>7 DEF CoreInv
<1>5. ASSUME board.st \in {"session", "failing"}, rlog' = [rlog EXCEPT !.res = "fail"]
      PROVE  CoreInv'
  <2>1. DOMAIN rlog' = DOMAIN rlog /\ rlog'.res = "fail" /\ rlog'.dev = rlog.dev
    BY <1>5 DEF CoreInv, Shape
  <2> QED BY <1>1, <1>5, <2>1, SessionOver
<1> QED BY <1>4, <1>5 DEF Result

LEMMA SessionLostCore == ASSUME CoreInv, SessionLost PROVE CoreInv' /\ ~Regular'
<1>1. /\ BoardOnly /\ UNCHANGED <<bridge, rlog>> /\ board.st \in {"session", "failing"}
      /\ board' = [board EXCEPT !.st = "post", !.hi = FALSE, !.hs = "no"]
  BY DEF SessionLost, pi
<1>2. board.sess = try => rlog.res # "success"
  BY <1>1 DEF CoreInv, Logged
<1> QED BY <1>1, <1>2, SessionOver

LEMMA RebootsCore == ASSUME CoreInv, Reboots PROVE CoreInv'
<1>1. /\ BoardOnly /\ UNCHANGED <<bridge, printing, rlog>> /\ board.st \in {"post", "boot"}
      /\ board' = [board EXCEPT !.st = IF @ = "post" THEN "boot" ELSE "adv"]
  BY DEF Reboots, pi
<1>2. /\ DOMAIN board' = DOMAIN board /\ board'.st \in {"boot", "adv"}
      /\ board'.hi = board.hi /\ board'.hs = board.hs /\ board'.sess = board.sess
      /\ board'.op = board.op
  BY <1>1 DEF CoreInv, Shape
<1>3. Transfers' = Transfers /\ UNCHANGED <<mode, pc, try, final>>
  BY <1>1 DEF BoardOnly, Transfers
<1>4. Shape' BY <1>1, <1>2, <1>3 DEF CoreInv, Shape
<1>5. Flow' BY <1>1, <1>2, <1>3 DEF CoreInv, Flow
<1>6. FinalOwn' BY <1>1, <1>2, <1>3 DEF CoreInv, FinalOwn
<1>7. Metrics' <=> Metrics BY <1>1, <1>2, <1>3 DEF Metrics, Heard
<1>8. Regular' => Regular BY <1>1, <1>2, <1>3 DEF Regular
<1>9. Logged' BY <1>1, <1>2, <1>3, <1>7, <1>8 DEF CoreInv, Logged
<1> QED BY <1>4, <1>5, <1>6, <1>9 DEF CoreInv

LEMMA ControllerPrintsCore == ASSUME CoreInv, ControllerPrints PROVE CoreInv'
<1>1. /\ printing # {} /\ printing' = {} /\ UNCHANGED <<mode, pc, try, final, board, bridge>>
  BY DEF ControllerPrints
<1>2. PICK m \in printing : rlog' = [rlog EXCEPT !.dev[m.op] = [of |-> rlog.of, ok |-> m.ok]]
  BY DEF ControllerPrints
<1>3. /\ DOMAIN rlog' = DOMAIN rlog /\ rlog'.res = rlog.res /\ rlog'.of = rlog.of
      /\ rlog'.hs = rlog.hs /\ DOMAIN rlog'.dev = DOMAIN rlog.dev
      /\ \A j \in DOMAIN rlog.dev : rlog'.dev[j] =
           IF j = m.op THEN [of |-> rlog.of, ok |-> m.ok] ELSE rlog.dev[j]
  BY <1>2 DEF CoreInv, Shape
<1>4. Transfers' = Transfers BY <1>1 DEF Transfers
<1>5. Shape' BY <1>1, <1>3, <1>4 DEF CoreInv, Shape
<1>6. Flow' BY <1>1 DEF CoreInv, Flow
<1>7. FinalOwn' BY <1>1, <1>3 DEF CoreInv, FinalOwn
<1>8. Regular' <=> Regular BY <1>1, <1>3 DEF Regular
<1>9. ASSUME Regular PROVE Metrics'
  <2>1. /\ Metrics /\ rlog.of = try /\ DOMAIN rlog.dev = Transfers
    BY <1>9 DEF CoreInv, Logged, Shape
  <2>2. m.op = board.op /\ m.ok = TRUE /\ ~board.hi
    BY <1>1, <1>2, <2>1 DEF Metrics
  <2> QED BY <1>1, <1>3, <1>4, <2>1, <2>2 DEF Metrics
<1>10. Logged' BY <1>1, <1>3, <1>4, <1>8, <1>9 DEF CoreInv, Logged
<1> QED BY <1>5, <1>6, <1>7, <1>10 DEF CoreInv

(* Nothing the logs and the board say changes. *)
LEMMA QuietCore ==
    ASSUME CoreInv, UNCHANGED <<mode, try, board, rlog>>,
           printing' = printing \/ (printing' = {} /\ (Heard' => printing = {})),
           Heard' => Heard, Flow', FinalOwn'
    PROVE  CoreInv'
<1>1. Transfers' = Transfers BY DEF Transfers
<1>2. Shape' BY <1>1 DEF CoreInv, Shape
<1>3. Regular' <=> Regular BY DEF Regular
<1>4. Metrics => Metrics' BY <1>1 DEF Metrics
<1>5. Logged' BY <1>1, <1>3, <1>4 DEF CoreInv, Logged
<1> QED BY <1>2, <1>5 DEF CoreInv

LEMMA StartSessionCore == ASSUME CoreInv, StartSession PROVE CoreInv'
<1>1. /\ pc = "start" /\ printing' = {} /\ UNCHANGED <<mode, try>>
  BY DEF StartSession, Quiet
<1>2. /\ Transfers' = Transfers /\ board.sess < try
  BY <1>1 DEF Transfers, CoreInv, Flow
<1>3. final.status # "success" BY <1>1 DEF CoreInv, FinalOwn
<1>4. Failed(FALSE).status = "fail" BY DEF Failed
<1>5. /\ DOMAIN FreshLog(try) = {"of", "res", "hs", "dev"} /\ FreshLog(try).of = try
      /\ FreshLog(try).res = "none" /\ DOMAIN FreshLog(try).dev = Transfers
  BY DEF FreshLog, EmptyLog
<1>6. ASSUME board.st = "adv", bridge' = "up", rlog' = FreshLog(try),
             board' = [board EXCEPT !.st = "session", !.sess = try, !.op = 0,
                                    !.hi = TRUE],
             pc' \in {"poll", "stop"}, final' = final \/ final' = Failed(FALSE)
      PROVE  CoreInv'
  <2>1. /\ DOMAIN board' = DOMAIN board /\ board'.st = "session" /\ board'.sess = try
        /\ board'.op = 0 /\ board'.hi
    BY <1>6 DEF CoreInv, Shape
  <2>2. /\ DOMAIN rlog' = {"of", "res", "hs", "dev"} /\ rlog'.of = try
        /\ rlog'.res = "none" /\ DOMAIN rlog'.dev = Transfers
    BY <1>5, <1>6
  <2>3. Shape' BY <1>1, <1>2, <2>1, <2>2 DEF CoreInv, Shape
  <2>4. Flow' BY <1>1, <1>6, <2>1 DEF CoreInv, Shape, Flow
  <2>5. FinalOwn' BY <1>3, <1>4, <1>6 DEF FinalOwn
  <2>6. \A j \in Transfers : j \in Nat /\ 0 < j BY TransfersCount
  <2>7. Metrics' BY <1>1, <1>2, <2>1, <2>6 DEF Metrics
  <2>8. Logged' BY <1>1, <2>1, <2>2, <2>7 DEF Logged
  <2> QED BY <2>3, <2>4, <2>5, <2>8 DEF CoreInv
<1>7. ASSUME rlog' \in {rlog, FreshLog(try)}, bridge' = "none",
             final' = Failed(FALSE), pc' = "stop", UNCHANGED board
      PROVE  CoreInv'
  <2>1. ~Regular' /\ board'.sess # try' BY <1>1, <1>2, <1>7 DEF Regular, CoreInv, Shape
  <2>2. Shape' BY <1>1, <1>2, <1>5, <1>7 DEF CoreInv, Shape
  <2>3. Flow' BY <1>1, <1>2, <1>7 DEF CoreInv, Flow
  <2>4. FinalOwn' BY <1>4, <1>7 DEF FinalOwn
  <2>5. Logged' BY <2>1 DEF Logged
  <2> QED BY <2>2, <2>3, <2>4, <2>5 DEF CoreInv
<1> QED BY <1>6, <1>7 DEF StartSession

LEMMA PollResultCore == ASSUME CoreInv, PollResult PROVE CoreInv'
<1>1. /\ pc = "poll" /\ UNCHANGED <<mode, try, board, bridge, rlog, printing>>
  BY DEF PollResult, pi, Quiet
<1>2. ASSUME rlog.res # "none", pc' = "stop",
             final' = [status |-> rlog.res, of |-> rlog.of, fatal |-> FALSE]
      PROVE  Flow' /\ FinalOwn'
  <2>1. Flow' BY <1>1, <1>2 DEF CoreInv, Flow
  <2>2. rlog.res = "success" => rlog.of = try
    BY <1>1 DEF CoreInv, Flow, Logged, Regular
  <2>3. final'.status = rlog.res /\ final'.of = rlog.of BY <1>2
  <2>4. board.sess = try BY <1>1 DEF CoreInv, Flow
  <2>5. FinalOwn' BY <1>1, <1>2, <2>2, <2>3, <2>4 DEF FinalOwn
  <2> QED BY <2>1, <2>5
<1>3. ASSUME pc' = "pollbridge", UNCHANGED final PROVE Flow' /\ FinalOwn'
  BY <1>1, <1>3 DEF CoreInv, Flow, FinalOwn
<1>4. Flow' /\ FinalOwn' /\ (Heard' => Heard)
  BY <1>1, <1>2, <1>3 DEF PollResult, Heard
<1> QED BY <1>1, <1>4, QuietCore

LEMMA PollBridgeCore == ASSUME CoreInv, PollBridge PROVE CoreInv'
<1>1. /\ pc = "pollbridge" /\ UNCHANGED <<mode, try, board, bridge, rlog, printing>>
      /\ pc' \in {"stop", "poll"}
      /\ final' = final \/ \E f \in BOOLEAN : final' = Failed(f)
  BY DEF PollBridge, pi, Quiet
<1>2. final'.status # "success"
  BY <1>1 DEF CoreInv, FinalOwn, Failed
<1>3. Flow' BY <1>1 DEF CoreInv, Flow
<1>4. FinalOwn' /\ (Heard' => Heard) BY <1>1, <1>2 DEF FinalOwn, Heard
<1> QED BY <1>1, <1>3, <1>4, QuietCore

LEMMA WaitTimeoutCore == ASSUME CoreInv, WaitTimeout PROVE CoreInv'
<1>1. /\ pc = "poll" /\ UNCHANGED <<mode, try, board, bridge, rlog, printing>>
      /\ pc' = "stop" /\ final' = TimedOut
  BY DEF WaitTimeout, pi, Quiet
<1>2. final'.status # "success" BY <1>1 DEF TimedOut
<1>3. Flow' BY <1>1 DEF CoreInv, Flow
<1>4. FinalOwn' /\ (Heard' => Heard) BY <1>1, <1>2 DEF FinalOwn, Heard
<1> QED BY <1>1, <1>3, <1>4, QuietCore

LEMMA BeginTryCore == ASSUME CoreInv, BeginTry PROVE CoreInv'
<1>1. /\ pc = "begin" /\ UNCHANGED <<mode, try, board, bridge, rlog, printing>>
      /\ pc' \in {"return", "start"} /\ (final' = TimedOut \/ final' = final)
  BY DEF BeginTry, pi
<1>2. final'.status # "success" BY <1>1 DEF CoreInv, FinalOwn, TimedOut
<1>3. Flow' BY <1>1 DEF CoreInv, Flow
<1>4. FinalOwn' /\ (Heard' => Heard) BY <1>1, <1>2 DEF FinalOwn, Heard
<1> QED BY <1>1, <1>3, <1>4, QuietCore

LEMMA StopSessionCore == ASSUME CoreInv, StopSession PROVE CoreInv'
<1>1. /\ pc = "stop" /\ pc' = "rows" /\ printing' = {} /\ bridge' = "none"
      /\ UNCHANGED <<mode, try, board, rlog, final>>
      /\ "controller" \in Prompt => printing = {}
  BY DEF StopSession
<1>2. Flow' BY <1>1 DEF CoreInv, Flow
<1>3. FinalOwn' BY <1>1 DEF CoreInv, FinalOwn
<1>4. (Heard' => Heard) /\ (Heard' => printing = {}) BY <1>1 DEF Heard
<1> QED BY <1>1, <1>2, <1>3, <1>4, QuietCore

LEMMA StopCaptureCore == ASSUME CoreInv, StopCapture PROVE CoreInv'
<1>1. /\ pc = "rows" /\ pc' = "decide"
      /\ UNCHANGED <<mode, try, board, rlog, printing, bridge, final>>
  BY DEF StopCapture, pi
<1>2. Flow' BY <1>1 DEF CoreInv, Flow
<1>3. FinalOwn' BY <1>1 DEF CoreInv, FinalOwn
<1>4. Heard' => Heard BY <1>1 DEF Heard
<1> QED BY <1>1, <1>2, <1>3, <1>4, QuietCore

LEMMA ReturnCore == ASSUME CoreInv, Return PROVE CoreInv'
<1>1. /\ pc = "return" /\ pc' = "done"
      /\ UNCHANGED <<mode, try, board, rlog, printing, bridge, final>>
  BY DEF Return, pi
<1>2. Flow' BY <1>1 DEF CoreInv, Flow
<1>3. FinalOwn' BY <1>1 DEF CoreInv, FinalOwn
<1>4. Heard' => Heard BY <1>1 DEF Heard
<1> QED BY <1>1, <1>2, <1>3, <1>4, QuietCore

LEMMA DecideCore == ASSUME CoreInv, Decide PROVE CoreInv'
<1>1. pc = "decide" /\ UNCHANGED <<mode, rlog, printing, bridge>> BY DEF Decide, pi, Quiet
<1>2. ASSUME pc' = "return", UNCHANGED <<try, board>>,
             final' = IF late /\ final.status # "success" THEN TimedOut ELSE final
      PROVE  CoreInv'
  <2>1. Flow' BY <1>1, <1>2 DEF CoreInv, Flow
  <2>2. final' = final \/ final'.status # "success" BY <1>2 DEF TimedOut
  <2>3. FinalOwn' BY <1>1, <1>2, <2>2 DEF CoreInv, FinalOwn
  <2>4. Heard' => Heard BY <1>1, <1>2 DEF Heard
  <2> QED BY <1>1, <1>2, <2>1, <2>3, <2>4, QuietCore
<1>3. ASSUME final.status # "success", pc' = "begin", try' = try + 1, UNCHANGED final,
             board' = [board EXCEPT !.st = "boot", !.hi = FALSE, !.hs = "no"]
      PROVE  CoreInv'
  <2>1. /\ DOMAIN board' = DOMAIN board /\ board'.st = "boot" /\ board'.sess = board.sess
        /\ board'.op = board.op /\ ~board'.hi /\ board'.hs = "no"
    BY <1>3 DEF CoreInv, Shape
  <2>2. board'.sess < try' BY <1>3, <2>1 DEF CoreInv, Shape, Flow
  <2>3. Transfers' = Transfers BY <1>1 DEF Transfers
  <2>4. Shape' BY <1>1, <1>3, <2>1, <2>3 DEF CoreInv, Shape
  <2>5. board'.sess # try' BY <2>2, <2>4 DEF Shape
  <2>6. Flow' BY <1>1, <1>3, <2>1, <2>2, <2>4 DEF CoreInv, Flow, Shape
  <2>7. FinalOwn' BY <1>3 DEF FinalOwn
  <2>8. Logged' BY <2>5 DEF Logged, Regular
  <2> QED BY <2>4, <2>6, <2>7, <2>8 DEF CoreInv
<1> QED BY <1>2, <1>3 DEF Decide

(* No step changes anything the core invariant speaks of. *)
LEMMA StillCore ==
    ASSUME CoreInv, UNCHANGED <<mode, pc, try, final, board, printing, rlog>>,
           bridge' \in {bridge, "dead"}
    PROVE  CoreInv'
<1>1. Flow' BY DEF CoreInv, Flow
<1>2. FinalOwn' BY DEF CoreInv, FinalOwn
<1>3. Heard' => Heard BY DEF Heard
<1> QED BY <1>1, <1>2, <1>3, QuietCore

LEMMA CoreInit == ASSUME Init PROVE CoreInv
<1>1. /\ mode \in {"handshake", "transfer"} /\ pc = "begin" /\ try = 1
      /\ final = NoFinal /\ bridge = "none" /\ rlog = FreshLog(0)
  BY DEF Init
<1>2. /\ DOMAIN board = {"st", "sess", "op", "hi", "hs"} /\ board.sess = 0 /\ board.op = 0
      /\ board.st \in {"adv", "session"}
      /\ board.st = "adv" => ~board.hi /\ board.hs = "no"
  BY DEF Init
<1>3. /\ DOMAIN rlog = {"of", "res", "hs", "dev"} /\ DOMAIN rlog.dev = Transfers
  BY <1>1 DEF FreshLog, EmptyLog
<1>4. Shape BY <1>1, <1>2, <1>3 DEF Shape
<1>5. Flow BY <1>1, <1>2 DEF Flow
<1>6. Logged BY <1>1, <1>2 DEF Logged, Regular
<1>7. FinalOwn BY <1>1 DEF FinalOwn, NoFinal
<1> QED BY <1>4, <1>5, <1>6, <1>7 DEF CoreInv

LEMMA CoreStep == ASSUME CoreInv, [Next]_vars PROVE CoreInv'
<1>1. ASSUME Board PROVE CoreInv'
  BY <1>1, HandshakeStartsCore, HandshakeEndsCore, ConnectedCore, OperationStartsCore,
     OperationEndsCore, ResultCore, SessionLostCore, RebootsCore DEF Board
<1>2. ASSUME Runner PROVE CoreInv'
  BY <1>2, BeginTryCore, StartSessionCore, PollResultCore, PollBridgeCore,
     WaitTimeoutCore, StopSessionCore, StopCaptureCore, DecideCore, ReturnCore
  DEF Runner
<1>3. ASSUME BridgeEnds \/ CaptureLoop \/ DeadlinePasses \/ UNCHANGED vars
      PROVE  CoreInv'
  <2>1. /\ UNCHANGED <<mode, pc, try, final, board, printing, rlog>>
        /\ bridge' \in {bridge, "dead"}
    BY <1>3 DEF BridgeEnds, CaptureLoop, DeadlinePasses, vars, pi
  <2> QED BY <2>1, StillCore
<1> QED BY <1>1, <1>2, <1>3, ControllerPrintsCore DEF Next, Stutter

-----------------------------------------------------------------------------
(* The capture, action by action.                                           *)
LEMMA EdgesCounted == ASSUME Shape PROVE EdgesSent \in Nat
BY DEF Shape, EdgesSent

LEMMA StreamSame ==
    ASSUME Stream, Regular' => Regular, UNCHANGED <<try, usb>>,
           cap'.open = cap.open, cap'.done = cap.done, EdgesSent' = EdgesSent
    PROVE  Stream'
<1> SUFFICES ASSUME Regular' PROVE Stream' BY DEF Stream
<1>1. Processed' = Processed BY DEF Processed
<1>2. Captured(Processed)'
  <2>1. Captured(Processed) BY DEF Stream
  <2> QED BY <1>1, <2>1 DEF Captured, IsOpen, Windows
<1>3. ASSUME NEW j \in DOMAIN usb' PROVE IsEdge(Processed + j, usb[j])'
  <2>1. j \in DOMAIN usb /\ usb'[j] = usb[j] BY <1>3
  <2>2. IsEdge(Processed + j, usb[j]) BY <2>1 DEF Stream
  <2> QED BY <1>1, <2>1, <2>2 DEF IsEdge
<1> QED BY <1>2, <1>3 DEF Stream

(* A new edge of the session is queued. *)
LEMMA StreamEmits ==
    ASSUME NEW x, Stream, Regular, IsSeq(usb), EdgesSent \in Nat,
           UNCHANGED <<try, cap>>, usb' = Append(usb, x),
           EdgesSent' = EdgesSent + 1, IsEdge(EdgesSent + 1, x)
    PROVE  Stream'
<1>1. PICK S : usb \in Seq(S) BY DEF IsSeq
<1>2. usb \in Seq(S \cup {x}) /\ x \in S \cup {x} BY <1>1
<1>3. /\ Len(usb) \in Nat /\ Len(usb') = Len(usb) + 1 /\ DOMAIN usb = 1 .. Len(usb)
      /\ DOMAIN usb' = 1 .. Len(usb) + 1
      /\ \A j \in 1 .. Len(usb) : usb'[j] = usb[j]
      /\ usb'[Len(usb) + 1] = x
  BY <1>2
<1>4. Processed' = Processed BY <1>3 DEF Processed
<1>5. Captured(Processed)'
  <2>1. Captured(Processed) BY DEF Stream
  <2> QED BY <1>4, <2>1 DEF Captured, IsOpen, Windows
<1>6. ASSUME NEW j \in DOMAIN usb' PROVE IsEdge(Processed + j, usb[j])'
  <2>1. CASE j \in 1 .. Len(usb)
    <3>1. j \in DOMAIN usb /\ usb'[j] = usb[j] BY <1>3, <2>1
    <3>2. IsEdge(Processed + j, usb[j]) BY <3>1 DEF Stream
    <3> QED BY <1>4, <3>1, <3>2 DEF IsEdge
  <2>2. CASE j = Len(usb) + 1
    <3>1. Processed + j = EdgesSent + 1 BY <1>3, <2>2 DEF Processed
    <3> QED BY <1>3, <1>4, <2>2, <3>1 DEF IsEdge
  <2> QED BY <1>3, <1>6, <2>1, <2>2
<1> QED BY <1>5, <1>6 DEF Stream

(* The thread processes the next edge. *)
LEMMA CapturedNext ==
    ASSUME NEW m \in Int, NEW x, CapShape, Captured(m), IsEdge(m + 1, x),
           cap' = Process(cap, x), x.e \in {"up", "hs", "down"}, try' = try,
           try \in Nat \ {0}
    PROVE  Captured(m + 1)'
<1>1. ASSUME x.e = "up"
      PROVE  cap'.done = cap.done /\ cap'.open.w = x.w /\ ~cap'.open.hs
  <2>1. cap' = [cap EXCEPT !.open = [w |-> x.w, hs |-> FALSE]] BY <1>1 DEF Process
  <2> QED BY <2>1 DEF CapShape
<1>2. ASSUME x.e = "hs", cap.open # NoWindow
      PROVE  cap'.done = cap.done /\ cap'.open.w = cap.open.w /\ cap'.open.hs
  <2>1. cap' = [cap EXCEPT !.open.hs = (@ \/ cap.open # NoWindow)] BY <1>2 DEF Process
  <2>2. (cap.open.hs \/ cap.open # NoWindow) = TRUE BY <1>2, Zenon
  <2>3. cap' = [cap EXCEPT !.open = [cap.open EXCEPT !.hs = TRUE]] BY <2>1, <2>2, Zenon
  <2> QED BY <2>3 DEF CapShape
<1>3. ASSUME x.e = "down", cap.open # NoWindow
      PROVE  cap'.done = Append(cap.done, cap.open)
  <2>1. cap' = [cap EXCEPT !.done = Append(@, cap.open), !.open = NoWindow]
    BY <1>3 DEF Process
  <2> QED BY <2>1 DEF CapShape
<1>4. \A j : IsOpen(j) => cap.open # NoWindow
  <2>1. NoWindow.w = <<-1, 0>> BY DEF NoWindow
  <2>2. \A j : <<try, j>> # <<-1, 0>>
    <3>1. try # -1 OBVIOUS
    <3> QED BY <3>1
  <2> QED BY <2>1, <2>2 DEF IsOpen
<1>5. ASSUME m + 1 = 1 PROVE IsOpen(0)'
  BY <1>1, <1>5 DEF IsEdge, IsOpen
<1>6. ASSUME m + 1 = 2 PROVE IsOpen(0)' /\ cap'.open.hs
  <2>1. IsOpen(0) /\ x.e = "hs" BY <1>6 DEF Captured, IsEdge
  <2> QED BY <1>2, <1>4, <2>1 DEF IsOpen
<1>7. ASSUME NEW i \in Nat, m + 1 = 3 + 2 * i PROVE Windows(cap.done, i)'
  <2>1. x.e = "down" BY <1>7 DEF IsEdge
  <2>2. /\ IsOpen(i) /\ (cap.open.hs <=> i = 0)
        /\ i > 0 => Windows(cap.done, i - 1)
    <3>1. CASE i = 0
      <4>1. m = 2 BY <1>7, <3>1
      <4> QED BY <3>1, <4>1 DEF Captured
    <3>2. CASE i > 0
      <4>1. i - 1 \in Nat /\ m = 4 + 2 * (i - 1) /\ (i - 1) + 1 = i BY <1>7, <3>2
      <4>2. Windows(cap.done, i - 1) /\ IsOpen((i - 1) + 1) BY <4>1 DEF Captured
      <4> QED BY <3>2, <4>1, <4>2 DEF IsOpen
    <3> QED BY <3>1, <3>2
  <2>3. cap'.done = Append(cap.done, cap.open) BY <1>3, <1>4, <2>1, <2>2
  <2>4. PICK S : cap.done \in Seq(S) BY DEF CapShape, IsSeq
  <2>5. cap.done \in Seq(S \cup {cap.open}) /\ cap.open \in S \cup {cap.open} BY <2>4
  <2>6. /\ Len(cap.done) \in Nat /\ Len(cap'.done) = Len(cap.done) + 1
        /\ \A k \in 1 .. Len(cap.done) : cap'.done[k] = cap.done[k]
        /\ cap'.done[Len(cap.done) + 1] = cap.open
    BY <2>3, <2>5
  <2>7. i < Len(cap'.done)
    BY <2>2, <2>6 DEF Windows
  <2>8. ASSUME NEW j \in 0 .. i
        PROVE  /\ cap'.done[Len(cap'.done) - i + j].w = <<try, j>>
               /\ cap'.done[Len(cap'.done) - i + j].hs <=> j = 0
    <3>1. CASE j = i
      <4>1. Len(cap'.done) - i + j = Len(cap.done) + 1 BY <2>6, <3>1
      <4> QED BY <2>2, <2>6, <3>1, <4>1 DEF IsOpen
    <3>2. CASE j < i
      <4>1. /\ i > 0 /\ j \in 0 .. i - 1
            /\ Len(cap'.done) - i + j = Len(cap.done) - (i - 1) + j
        BY <2>6, <3>2
      <4>2. /\ cap.done[Len(cap.done) - (i - 1) + j].w = <<try, j>>
            /\ cap.done[Len(cap.done) - (i - 1) + j].hs <=> j = 0
        BY <2>2, <4>1 DEF Windows
      <4>3. Len(cap.done) - (i - 1) + j \in 1 .. Len(cap.done)
        <5>1. i - 1 < Len(cap.done) /\ Len(cap.done) \in Nat
          BY <2>2, <2>6, <4>1 DEF Windows
        <5>2. i \in Nat /\ j \in Nat /\ j <= i - 1 BY <3>2
        <5> QED BY <5>1, <5>2
      <4> QED BY <2>6, <4>1, <4>2, <4>3
    <3> QED BY <3>1, <3>2
  <2> QED BY <2>7, <2>8 DEF Windows
<1>8. ASSUME NEW i \in Nat, m + 1 = 4 + 2 * i
      PROVE  Windows(cap.done, i)' /\ IsOpen(i + 1)'
  <2>1. x.e = "up" /\ x.w = <<try, i + 1>> BY <1>8 DEF IsEdge
  <2>2. m = 3 + 2 * i BY <1>8
  <2>3. Windows(cap.done, i) BY <2>2 DEF Captured
  <2>4. Windows(cap.done, i)' BY <1>1, <2>1, <2>3 DEF Windows
  <2>5. IsOpen(i + 1)' BY <1>1, <2>1 DEF IsOpen
  <2> QED BY <2>4, <2>5
<1> QED BY <1>5, <1>6, <1>7, <1>8 DEF Captured

LEMMA ShapeEmits ==
    ASSUME CapShape, BoardOnly,
           \/ UNCHANGED usb
           \/ \E x : /\ x.e \in {"up", "hs", "down"}
                     /\ usb' = IF cap.on THEN Append(usb, x) ELSE usb
    PROVE  CapShape'
<1>1. UNCHANGED <<pc, cap>> BY DEF BoardOnly
<1>2. CASE UNCHANGED usb BY <1>1, <1>2 DEF CapShape, IsSeq
<1>3. ASSUME NEW x, x.e \in {"up", "hs", "down"}, cap.on, usb' = Append(usb, x)
      PROVE  CapShape'
  <2>1. PICK S : usb \in Seq(S) BY DEF CapShape, IsSeq
  <2>2. usb \in Seq(S \cup {x}) /\ x \in S \cup {x} BY <2>1
  <2>3. /\ usb' \in Seq(S \cup {x}) /\ Len(usb') = Len(usb) + 1 /\ Len(usb) \in Nat
        /\ DOMAIN usb' = 1 .. Len(usb) + 1 /\ DOMAIN usb = 1 .. Len(usb)
        /\ \A j \in 1 .. Len(usb) : usb'[j] = usb[j]
        /\ usb'[Len(usb) + 1] = x
    BY <1>3, <2>2
  <2>4. IsSeq(usb)' BY <2>3 DEF IsSeq
  <2>5. ASSUME NEW j \in DOMAIN usb' PROVE usb'[j].e \in {"up", "hs", "down"}
    <3>1. j \in DOMAIN usb \/ j = Len(usb) + 1 BY <2>3
    <3>2. CASE j \in DOMAIN usb BY <2>3, <3>2 DEF CapShape
    <3>3. CASE j = Len(usb) + 1 BY <1>3, <2>3, <3>3
    <3> QED BY <3>1, <3>2, <3>3
  <2>6. IsSeq(cap.done)' BY <1>1 DEF CapShape, IsSeq
  <2> QED BY <1>1, <1>3, <2>4, <2>5, <2>6 DEF CapShape
<1> QED BY <1>2, <1>3

LEMMA QueueTail ==
    ASSUME NEW s, IsSeq(s), s # <<>>
    PROVE  /\ IsSeq(Tail(s)) /\ Len(s) \in Nat /\ Len(Tail(s)) = Len(s) - 1
           /\ DOMAIN s = 1 .. Len(s) /\ DOMAIN Tail(s) = 1 .. Len(s) - 1
           /\ 1 \in DOMAIN s /\ Head(s) = s[1]
           /\ \A j \in DOMAIN Tail(s) : j + 1 \in DOMAIN s /\ Tail(s)[j] = s[j + 1]
<1>1. PICK S : s \in Seq(S) BY DEF IsSeq
<1>2. Tail(s) \in Seq(S) /\ Len(Tail(s)) = Len(s) - 1 /\ Len(s) \in Nat /\ Len(s) # 0
  BY <1>1
<1>3. \A j \in 1 .. Len(s) - 1 : Tail(s)[j] = s[j + 1] BY <1>1
<1>4. DOMAIN Tail(s) = 1 .. Len(Tail(s)) /\ DOMAIN s = 1 .. Len(s) BY <1>1, <1>2
<1> QED BY <1>1, <1>2, <1>3, <1>4 DEF IsSeq

LEMMA CaptureLoopCap == ASSUME CoreInv, CapInv, CaptureLoop PROVE CapInv'
<1> DEFINE x == Head(usb)
<1>1. /\ cap.on /\ usb # <<>> /\ usb' = Tail(usb) /\ cap' = Process(cap, x)
      /\ UNCHANGED <<mode, pc, try, board, rlog>>
  BY DEF CaptureLoop, pi
<1>2. /\ IsSeq(usb') /\ Len(usb) \in Nat /\ Len(usb') = Len(usb) - 1
      /\ DOMAIN usb = 1 .. Len(usb) /\ 1 \in DOMAIN usb /\ x = usb[1]
      /\ \A j \in DOMAIN usb' : j + 1 \in DOMAIN usb /\ usb'[j] = usb[j + 1]
      /\ DOMAIN usb' = 1 .. Len(usb) - 1
  BY <1>1, QueueTail DEF CapInv, CapShape
<1>3. x.e \in {"up", "hs", "down"} BY <1>2 DEF CapInv, CapShape
<1> HIDE DEF x
<1>4. DOMAIN cap' = {"on", "open", "done"} /\ DOMAIN cap'.open = {"w", "hs"}
      /\ cap'.on = cap.on /\ IsSeq(cap'.done)
  <2>1. CASE x.e = "up"
    <3>1. cap' = [cap EXCEPT !.open = [w |-> x.w, hs |-> FALSE]] BY <1>1, <2>1 DEF Process
    <3> QED BY <3>1 DEF CapInv, CapShape
  <2>2. CASE x.e = "hs"
    <3>1. cap' = [cap EXCEPT !.open.hs = (@ \/ cap.open # NoWindow)]
      BY <1>1, <2>2 DEF Process
    <3> QED BY <3>1 DEF CapInv, CapShape
  <2>3. CASE x.e = "down" /\ cap.open = NoWindow
    <3>1. cap' = cap BY <1>1, <2>3 DEF Process
    <3> QED BY <3>1 DEF CapInv, CapShape
  <2>4. CASE x.e = "down" /\ cap.open # NoWindow
    <3>1. cap' = [cap EXCEPT !.done = Append(@, cap.open), !.open = NoWindow]
      BY <1>1, <2>4 DEF Process
    <3>2. PICK S : cap.done \in Seq(S) BY DEF CapInv, CapShape, IsSeq
    <3>3. cap.done \in Seq(S \cup {cap.open}) /\ cap.open \in S \cup {cap.open} BY <3>2
    <3>4. Append(cap.done, cap.open) \in Seq(S \cup {cap.open}) BY <3>3
    <3>5. DOMAIN NoWindow = {"w", "hs"} BY DEF NoWindow
    <3>6. /\ DOMAIN cap' = DOMAIN cap /\ cap'.open = NoWindow /\ cap'.on = cap.on
          /\ cap'.done = Append(cap.done, cap.open)
      BY <3>1 DEF CapInv, CapShape
    <3> QED BY <3>4, <3>5, <3>6 DEF CapInv, CapShape, IsSeq
  <2> QED BY <1>3, <2>1, <2>2, <2>3, <2>4
<1>5. CapShape'
  <2>1. \A j \in DOMAIN usb' : usb'[j].e \in {"up", "hs", "down"}
    BY <1>2 DEF CapInv, CapShape
  <2>2. IsSeq(usb)' /\ IsSeq(cap.done)' BY <1>2, <1>4 DEF IsSeq
  <2> QED BY <1>1, <1>4, <2>1, <2>2 DEF CapInv, CapShape
<1>6. ASSUME Regular PROVE Stream'
  <2>1. EdgesSent' = EdgesSent /\ EdgesSent \in Nat
    BY <1>1, EdgesCounted DEF CoreInv, EdgesSent
  <2>2. Processed \in Int /\ Processed' = Processed + 1 BY <1>2, <2>1 DEF Processed
  <2>3. Captured(Processed) /\ IsEdge(Processed + 1, x)
    BY <1>2, <1>6 DEF CapInv, Stream
  <2>4. \A m \in Int : Captured(m) /\ IsEdge(m + 1, x) => Captured(m + 1)'
    BY <1>1, <1>3, CapturedNext DEF CapInv, CoreInv, Shape
  <2>5. Captured(Processed)'
    BY <2>2, <2>3, <2>4 DEF Captured
  <2>6. ASSUME NEW j \in DOMAIN usb' PROVE IsEdge(Processed + j, usb[j])'
    <3>1. /\ j + 1 \in DOMAIN usb /\ usb'[j] = usb[j + 1] /\ j \in Nat
      BY <1>2
    <3>2. IsEdge(Processed + (j + 1), usb[j + 1]) BY <1>6, <3>1 DEF CapInv, Stream
    <3>3. Processed' + j = Processed + (j + 1) BY <2>2, <3>1
    <3> QED BY <1>1, <3>1, <3>2, <3>3 DEF IsEdge
  <2> QED BY <2>5, <2>6 DEF Stream
<1>7. Regular' <=> Regular BY <1>1 DEF Regular
<1>8. Stream' BY <1>6, <1>7 DEF Stream
<1> QED BY <1>5, <1>8 DEF CapInv

LEMMA BoardCap == ASSUME CoreInv, CapInv, Board PROVE CapInv'
<1>1. BoardOnly /\ UNCHANGED <<mode, pc, try, cap>>
  BY DEF Board, HandshakeStarts, HandshakeEnds, Connected, OperationStarts,
         OperationEnds, Result, SessionLost, Reboots, BoardOnly
<1>2. CapShape'
  <2>1. \A e : [e |-> e, w |-> Window].e = e OBVIOUS
  <2>2. \A e \in {"up", "hs", "down"} : Edge(e) =>
          \E x : /\ x.e \in {"up", "hs", "down"}
                 /\ usb' = IF cap.on THEN Append(usb, x) ELSE usb
    BY <2>1 DEF Edge
  <2>3. OperationStarts =>
          \E x : /\ x.e \in {"up", "hs", "down"}
                 /\ usb' = IF cap.on THEN Append(usb, x) ELSE usb
    <3>1. [e |-> "up", w |-> <<board.sess, board.op + 1>>].e = "up" OBVIOUS
    <3> QED BY <3>1 DEF OperationStarts
  <2>4. \/ UNCHANGED usb
        \/ \E x : /\ x.e \in {"up", "hs", "down"}
                  /\ usb' = IF cap.on THEN Append(usb, x) ELSE usb
    BY <2>2, <2>3 DEF Board, HandshakeStarts, HandshakeEnds, Connected, OperationEnds,
                      Result, SessionLost, Reboots
  <2> QED BY <1>1, <2>4, ShapeEmits DEF CapInv
<1>3. IsSeq(usb) /\ Stream /\ EdgesSent \in Nat
  BY EdgesCounted DEF CoreInv, CapInv, CapShape
<1>4. Linked => Regular /\ cap.on /\ board.sess = try
  BY DEF Linked, Regular, CoreInv, Flow, CapInv, CapShape
<1>5. DOMAIN board = {"st", "sess", "op", "hi", "hs"} /\ board.op \in Nat
  BY DEF CoreInv, Shape
<1>6. Window = <<board.sess, board.op>> BY DEF Window
<1>7. ASSUME HandshakeStarts PROVE Stream'
  <2>1. /\ Linked /\ board.op = 0 /\ board.hi /\ board.hs = "no" /\ Edge("hs")
        /\ board' = [board EXCEPT !.hs = "high"]
    BY <1>7 DEF HandshakeStarts
  <2>2. board'.op = 0 /\ board'.hi /\ board'.hs = "high" BY <1>5, <2>1
  <2>3. EdgesSent = 1 /\ EdgesSent' = 2 BY <2>1, <2>2 DEF EdgesSent
  <2>4. usb' = Append(usb, [e |-> "hs", w |-> Window]) BY <1>4, <2>1 DEF Edge
  <2>5. IsEdge(2, [e |-> "hs", w |-> Window]) BY DEF IsEdge
  <2> QED BY <1>1, <1>3, <1>4, <2>1, <2>3, <2>4, <2>5, StreamEmits
<1>8. ASSUME HandshakeEnds PROVE Stream'
  <2>1. /\ Linked /\ board.hs = "high" /\ UNCHANGED usb
        /\ board' = [board EXCEPT !.hs = "done"]
    BY <1>8 DEF HandshakeEnds
  <2>2. board'.op = board.op /\ board'.hi = board.hi /\ board'.hs = "done" BY <1>5, <2>1
  <2>3. EdgesSent' = EdgesSent BY <2>1, <2>2 DEF EdgesSent
  <2> QED BY <1>1, <1>3, <1>4, <2>1, <2>3, StreamSame
<1>9. ASSUME Connected PROVE Stream'
  <2>1. /\ Linked /\ board.op = 0 /\ board.hi /\ board.hs = "done" /\ Edge("down")
        /\ board' = [board EXCEPT !.hi = FALSE, !.hs = "no"]
    BY <1>9 DEF Connected
  <2>2. board'.op = 0 /\ ~board'.hi BY <1>5, <2>1
  <2>3. EdgesSent = 2 /\ EdgesSent' = 3 BY <2>1, <2>2 DEF EdgesSent
  <2>4. usb' = Append(usb, [e |-> "down", w |-> Window]) BY <1>4, <2>1 DEF Edge
  <2>5. IsEdge(3, [e |-> "down", w |-> Window]) BY DEF IsEdge
  <2> QED BY <1>1, <1>3, <1>4, <2>1, <2>3, <2>4, <2>5, StreamEmits
<1>10. ASSUME OperationStarts PROVE Stream'
  <2> DEFINE x == [e |-> "up", w |-> <<board.sess, board.op + 1>>]
  <2>1. /\ Linked /\ ~board.hi /\ usb' = IF cap.on THEN Append(usb, x) ELSE usb
        /\ board' = [board EXCEPT !.op = @ + 1, !.hi = TRUE]
    BY <1>10 DEF OperationStarts
  <2>2. board'.op = board.op + 1 /\ board'.hi BY <1>5, <2>1
  <2>3. EdgesSent = 3 + 2 * board.op /\ EdgesSent' = EdgesSent + 1
    <3>1. EdgesSent = 3 + 2 * board.op BY <1>5, <2>1 DEF EdgesSent
    <3>2. board'.op # 0 BY <1>5, <2>2
    <3>3. EdgesSent' = 2 + 2 * board'.op BY <2>2, <3>2 DEF EdgesSent
    <3> QED BY <1>5, <2>2, <3>1, <3>3
  <2>4. usb' = Append(usb, x) BY <1>4, <2>1
  <2>5. x.e = "up" /\ x.w = <<try, board.op + 1>> BY <1>4, <2>1
  <2> HIDE DEF x
  <2>6. IsEdge(EdgesSent + 1, x)
    <3>1. ASSUME NEW i \in Nat, EdgesSent + 1 = 4 + 2 * i PROVE i = board.op
      BY <1>5, <2>3, <3>1
    <3>2. \A i \in Nat : EdgesSent + 1 # 3 + 2 * i BY <1>5, <2>3
    <3>3. EdgesSent + 1 # 1 /\ EdgesSent + 1 # 2 BY <1>5, <2>3
    <3> QED BY <2>5, <3>1, <3>2, <3>3 DEF IsEdge
  <2> QED BY <1>1, <1>3, <1>4, <2>1, <2>3, <2>4, <2>6, StreamEmits
<1>11. ASSUME OperationEnds PROVE Stream'
  <2>1. Linked /\ board.op > 0 /\ board.hi /\ Edge("down") BY <1>11 DEF OperationEnds
  <2>2. PICK st : board' = [board EXCEPT !.hi = FALSE, !.st = st]
    BY <1>11 DEF OperationEnds
  <2>3. board'.op = board.op /\ ~board'.hi BY <1>5, <2>2
  <2>4. EdgesSent = 2 + 2 * board.op /\ EdgesSent' = EdgesSent + 1
    BY <1>5, <2>1, <2>3 DEF EdgesSent
  <2>5. usb' = Append(usb, [e |-> "down", w |-> Window]) BY <1>4, <2>1 DEF Edge
  <2>6. IsEdge(EdgesSent + 1, [e |-> "down", w |-> Window])
    <3>1. \A i \in Nat : EdgesSent + 1 # 4 + 2 * i BY <1>5, <2>4
    <3>2. EdgesSent + 1 # 1 /\ EdgesSent + 1 # 2 BY <1>5, <2>1, <2>4
    <3> QED BY <3>1, <3>2 DEF IsEdge
  <2> QED BY <1>1, <1>3, <1>4, <2>1, <2>4, <2>5, <2>6, StreamEmits
<1>12. ASSUME Result PROVE Stream'
  <2>1. board' = [board EXCEPT !.st = "post", !.hi = FALSE, !.hs = "no"]
    BY <1>12 DEF Result
  <2>2. board'.op = board.op /\ ~board'.hi /\ board'.st = "post" BY <1>5, <2>1
  <2>3. CASE board.st = "session" /\ ~board.hi /\ board.sess = try /\ UNCHANGED usb
    <3>1. EdgesSent' = EdgesSent BY <2>2, <2>3 DEF EdgesSent
    <3>2. Regular BY <2>3 DEF Regular
    <3> QED BY <1>1, <1>3, <2>3, <3>1, <3>2, StreamSame
  <2>4. CASE rlog' = [rlog EXCEPT !.res = "fail"]
    <3>1. rlog'.res = "fail" BY <2>4 DEF CoreInv, Shape
    <3> QED BY <2>2, <3>1 DEF Stream, Regular
  <2> QED BY <1>12, <2>3, <2>4 DEF Result
<1>13. ASSUME SessionLost PROVE Stream' BY <1>13, SessionLostCore DEF Stream
<1>14. ASSUME Reboots PROVE Stream'
  <2>1. /\ board.st \in {"post", "boot"} /\ UNCHANGED <<usb, rlog>>
        /\ board' = [board EXCEPT !.st = IF @ = "post" THEN "boot" ELSE "adv"]
    BY <1>14 DEF Reboots, pi
  <2>2. /\ board'.op = board.op /\ board'.hi = board.hi /\ board'.hs = board.hs
        /\ board'.sess = board.sess /\ board'.st \in {"boot", "adv"}
    BY <1>5, <2>1
  <2>3. EdgesSent' = EdgesSent BY <2>2 DEF EdgesSent
  <2>4. Regular' => Regular BY <1>1, <2>1, <2>2 DEF Regular
  <2> QED BY <1>1, <1>3, <2>1, <2>3, <2>4, StreamSame
<1> QED BY <1>2, <1>7, <1>8, <1>9, <1>10, <1>11, <1>12, <1>13, <1>14 DEF Board, CapInv

(* Steps that leave board, capture and samples alone. *)
LEMMA StillCap ==
    ASSUME CapInv, UNCHANGED <<try, board, cap, usb>>, Regular' => Regular,
           pc' \in {"start", "poll", "pollbridge", "stop", "rows"} <=>
             pc \in {"start", "poll", "pollbridge", "stop", "rows"}
    PROVE  CapInv'
<1>1. EdgesSent' = EdgesSent BY DEF EdgesSent
<1>2. Stream' BY <1>1, StreamSame DEF CapInv
<1>3. CapShape' BY DEF CapInv, CapShape, IsSeq
<1> QED BY <1>2, <1>3 DEF CapInv

LEMMA StartSessionCap == ASSUME CoreInv, CapInv, StartSession PROVE CapInv'
<1>1. pc = "start" /\ UNCHANGED <<try, cap>> /\ pc' \in {"poll", "stop"}
  BY DEF StartSession
<1>2. board.sess < try BY <1>1 DEF CoreInv, Flow
<1>3. ASSUME UNCHANGED <<board, usb>> PROVE CapInv'
  <2>1. ~Regular' BY <1>1, <1>2, <1>3 DEF Regular, CoreInv, Shape
  <2> QED BY <1>1, <1>3, <2>1, StillCap
<1> DEFINE x == [e |-> "up", w |-> <<try, 0>>]
<1>4. ASSUME board.st = "adv", usb' = Append(usb, x),
             board' = [board EXCEPT !.st = "session", !.sess = try, !.op = 0,
                                    !.hi = TRUE]
      PROVE  CapInv'
  <2>1. x.e = "up" /\ x.w = <<try, 0>> OBVIOUS
  <2> HIDE DEF x
  <2>2. /\ board'.op = 0 /\ board'.hi /\ board'.hs = board.hs /\ board.hs = "no"
    BY <1>4 DEF CoreInv, Shape, Flow
  <2>3. EdgesSent' = 1 BY <2>2 DEF EdgesSent
  <2>4. PICK S : usb \in Seq(S) BY DEF CapInv, CapShape, IsSeq
  <2>5. usb \in Seq(S \cup {x}) /\ x \in S \cup {x} BY <2>4
  <2>6. /\ usb' \in Seq(S \cup {x}) /\ Len(usb') = Len(usb) + 1 /\ Len(usb) \in Nat
        /\ DOMAIN usb' = 1 .. Len(usb) + 1 /\ DOMAIN usb = 1 .. Len(usb)
        /\ \A j \in 1 .. Len(usb) : usb'[j] = usb[j]
        /\ usb'[Len(usb) + 1] = x
    BY <1>4, <2>5
  <2>7. Processed' = 0 - Len(usb) BY <2>3, <2>6 DEF Processed
  <2>8. Captured(Processed)' BY <2>6, <2>7 DEF Captured
  <2>9. ASSUME NEW j \in DOMAIN usb' PROVE IsEdge(Processed + j, usb[j])'
    <3>1. CASE j \in DOMAIN usb
      <4>1. Processed' + j \in Int /\ Processed' + j <= 0 BY <2>6, <2>7, <3>1
      <4> QED BY <4>1 DEF IsEdge
    <3>2. CASE j = Len(usb) + 1
      <4>1. Processed' + j = 1 /\ usb'[j] = x BY <2>6, <2>7, <3>2
      <4> QED BY <1>1, <2>1, <4>1 DEF IsEdge
    <3> QED BY <2>6, <2>9, <3>1, <3>2
  <2>10. Stream' BY <2>8, <2>9 DEF Stream
  <2>11. ASSUME NEW j \in DOMAIN usb' PROVE usb'[j].e \in {"up", "hs", "down"}
    <3>1. j \in DOMAIN usb \/ j = Len(usb) + 1 BY <2>6
    <3>2. CASE j \in DOMAIN usb BY <2>6, <3>2 DEF CapInv, CapShape
    <3>3. CASE j = Len(usb) + 1 BY <2>1, <2>6, <3>3
    <3> QED BY <3>1, <3>2, <3>3
  <2>12. cap.on BY <1>1 DEF CapInv, CapShape
  <2>13. IsSeq(usb)' BY <2>6 DEF IsSeq
  <2>14. CapShape' BY <1>1, <2>11, <2>12, <2>13 DEF CapInv, CapShape, IsSeq
  <2> QED BY <2>10, <2>14 DEF CapInv
<1> QED BY <1>3, <1>4 DEF StartSession

LEMMA BeginTryCap == ASSUME CoreInv, CapInv, BeginTry PROVE CapInv'
<1>1. /\ pc = "begin" /\ UNCHANGED <<try, board>> BY DEF BeginTry
<1>2. ~Regular' BY <1>1 DEF Regular, CoreInv, Flow, Shape
<1>3. ASSUME pc' = "return", UNCHANGED power PROVE CapInv'
  BY <1>1, <1>2, <1>3, StillCap DEF power
<1>4. ASSUME pc' = "start", cap' = [on |-> TRUE, open |-> NoWindow, done |-> <<>>],
             usb' = IF ~board.hi THEN <<>>
                    ELSE [i \in 1 .. (IF board.hs = "high" THEN 2 ELSE 1) |->
                            [e |-> IF i = 1 THEN "up" ELSE "hs", w |-> Window]]
      PROVE  CapInv'
  <2>1. /\ IsSeq(usb')
        /\ \A j \in DOMAIN usb' : usb'[j].e \in {"up", "hs", "down"}
    <3>1. CASE ~board.hi
      <4>1. usb' = <<>> BY <1>4, <3>1
      <4>2. usb' \in Seq({}) /\ DOMAIN usb' = {} BY <4>1
      <4> QED BY <4>2 DEF IsSeq
    <3>2. CASE board.hi
      <4> DEFINE n == IF board.hs = "high" THEN 2 ELSE 1
      <4> DEFINE f(i) == [e |-> IF i = 1 THEN "up" ELSE "hs", w |-> Window]
      <4>1. usb' = [i \in 1 .. n |-> f(i)] BY <1>4, <3>2
      <4>2. n \in Nat /\ \A i : f(i).e \in {"up", "hs", "down"} OBVIOUS
      <4>3. \A i \in 1 .. n : f(i) \in {f(k) : k \in 1 .. n} OBVIOUS
      <4> HIDE DEF n, f
      <4>4. usb' \in Seq({f(k) : k \in 1 .. n}) BY <4>1, <4>2, <4>3
      <4>5. DOMAIN usb' = 1 .. n /\ \A i \in 1 .. n : usb'[i] = f(i) BY <4>1
      <4> QED BY <4>2, <4>4, <4>5 DEF IsSeq
    <3> QED BY <3>1, <3>2
  <2>2. /\ DOMAIN cap' = {"on", "open", "done"} /\ cap'.on = TRUE /\ cap'.done = <<>>
        /\ cap'.open = NoWindow
    BY <1>4
  <2>3. DOMAIN NoWindow = {"w", "hs"} BY DEF NoWindow
  <2>4. <<>> \in Seq({}) OBVIOUS
  <2>5. IsSeq(usb)' /\ IsSeq(cap.done)' BY <2>1, <2>2, <2>4 DEF IsSeq
  <2>6. CapShape' BY <1>4, <2>1, <2>2, <2>3, <2>5 DEF CapShape
  <2> QED BY <1>2, <2>6 DEF CapInv, Stream
<1> QED BY <1>3, <1>4 DEF BeginTry

LEMMA StopCaptureCap ==
    ASSUME "capture" \in Prompt, CapInv, StopCapture PROVE CapInv'
<1>1. /\ pc = "rows" /\ pc' = "decide" /\ usb = <<>> /\ usb' = <<>>
      /\ cap' = [cap EXCEPT !.on = FALSE] /\ UNCHANGED <<try, board, rlog>>
  BY DEF StopCapture, pi
<1>2. /\ DOMAIN cap' = DOMAIN cap /\ cap'.on = FALSE /\ cap'.open = cap.open
      /\ cap'.done = cap.done
  BY <1>1 DEF CapInv, CapShape
<1>3. EdgesSent' = EdgesSent /\ (Regular' <=> Regular) BY <1>1 DEF EdgesSent, Regular
<1>4. Stream' BY <1>1, <1>2, <1>3, StreamSame DEF CapInv
<1>5. CapShape' BY <1>1, <1>2 DEF CapInv, CapShape, IsSeq
<1> QED BY <1>4, <1>5 DEF CapInv

LEMMA DecideCap == ASSUME CoreInv, CapInv, Decide PROVE CapInv'
<1>1. pc = "decide" /\ UNCHANGED <<rlog, cap, usb>> BY DEF Decide, pi, power
<1>2. ASSUME pc' = "return", UNCHANGED <<try, board>> PROVE CapInv'
  <2>1. Regular' => Regular BY <1>1, <1>2 DEF Regular
  <2> QED BY <1>1, <1>2, <2>1, StillCap
<1>3. ASSUME pc' = "begin", try' = try + 1,
             board' = [board EXCEPT !.st = "boot", !.hi = FALSE, !.hs = "no"]
      PROVE  CapInv'
  <2>1. board'.sess = board.sess BY <1>3 DEF CoreInv, Shape
  <2>2. ~Regular' BY <1>3, <2>1 DEF Regular, CoreInv, Shape, Flow
  <2>3. CapShape' BY <1>1, <1>3 DEF CapInv, CapShape, IsSeq
  <2> QED BY <2>2, <2>3 DEF CapInv, Stream
<1> QED BY <1>2, <1>3 DEF Decide

LEMMA CapInit == ASSUME Init PROVE CapInv
<1>1. /\ pc = "begin" /\ try = 1 /\ board.sess = 0 /\ usb = <<>>
      /\ cap = [on |-> FALSE, open |-> NoWindow, done |-> <<>>]
  BY DEF Init
<1>2. /\ DOMAIN cap = {"on", "open", "done"} /\ cap.on = FALSE /\ cap.open = NoWindow
      /\ cap.done = <<>>
  BY <1>1
<1>3. DOMAIN NoWindow = {"w", "hs"} BY DEF NoWindow
<1>4. <<>> \in Seq({}) /\ DOMAIN usb = {} BY <1>1
<1>5. IsSeq(usb) /\ IsSeq(cap.done) BY <1>1, <1>2, <1>4 DEF IsSeq
<1>6. CapShape BY <1>1, <1>2, <1>3, <1>4, <1>5 DEF CapShape
<1>7. Stream BY <1>1 DEF Stream, Regular
<1> QED BY <1>6, <1>7 DEF CapInv

LEMMA CapStep ==
    ASSUME "capture" \in Prompt, CoreInv, CapInv, [Next]_vars
    PROVE  CapInv'
<1>1. ASSUME \/ PollResult \/ PollBridge \/ WaitTimeout \/ StopSession \/ Return
             \/ BridgeEnds \/ DeadlinePasses \/ UNCHANGED vars
      PROVE  CapInv'
  <2>1. /\ UNCHANGED <<try, board, cap, usb, rlog>>
        /\ \/ pc' = pc
           \/ pc \in {"poll", "pollbridge", "stop"}
              /\ pc' \in {"poll", "pollbridge", "stop", "rows"}
           \/ pc = "return" /\ pc' = "done"
    BY <1>1 DEF PollResult, PollBridge, WaitTimeout, StopSession, Return, BridgeEnds,
                DeadlinePasses, vars, pi, power
  <2>2. Regular' => Regular BY <2>1 DEF Regular
  <2>3. pc' \in {"start", "poll", "pollbridge", "stop", "rows"} <=>
          pc \in {"start", "poll", "pollbridge", "stop", "rows"}
    BY <2>1
  <2> QED BY <2>1, <2>2, <2>3, StillCap
<1>2. ASSUME ControllerPrints PROVE CapInv'
  <2>1. UNCHANGED <<pc, try, board, cap, usb>> BY <1>2 DEF ControllerPrints, power
  <2>2. rlog'.res = rlog.res BY <1>2 DEF ControllerPrints, CoreInv, Shape
  <2>3. Regular' => Regular BY <2>1, <2>2 DEF Regular
  <2> QED BY <2>1, <2>3, StillCap
<1> QED BY <1>1, <1>2, BoardCap, CaptureLoopCap, BeginTryCap, StartSessionCap,
           StopCaptureCap, DecideCap DEF Next, Runner, Stutter

-----------------------------------------------------------------------------
(* What follows for the rows of a success.                                  *)
LEMMA DoneStays == ASSUME pc = "done", [Next]_vars PROVE UNCHANGED vars
BY DEF Next, Runner, BeginTry, StartSession, PollResult, PollBridge, WaitTimeout,
       StopSession, StopCapture, Decide, Return, DeadlinePasses, Stutter

(* Once the thread has caught up, a success has its windows. *)
LEMMA SuccessWindows ==
    ASSUME CoreInv, CapInv, final.status = "success", usb = <<>>
    PROVE  Windows(cap.done, Cardinality(Transfers))
<1>1. /\ Regular /\ board.op = Cardinality(Transfers) /\ ~board.hi
      /\ board.op \in Nat
  BY DEF CoreInv, FinalOwn, Logged, Regular, Flow, Shape
<1>2. EdgesSent = 3 + 2 * board.op BY <1>1 DEF EdgesSent
<1>3. Len(usb) = 0 OBVIOUS
<1>4. Processed = 3 + 2 * board.op BY <1>1, <1>2, <1>3 DEF Processed
<1>5. Captured(3 + 2 * board.op) BY <1>1, <1>4 DEF CapInv, Stream
<1> QED BY <1>1, <1>5 DEF Captured

(* _measurements finds the connection where the session's windows begin. *)
LEMMA ConnectionFound ==
    ASSUME NEW done, IsSeq(done), NEW n \in Nat, n = Cardinality(Transfers),
           Windows(done, n)
    PROVE  /\ TotalAt(done) = Len(done) - n /\ done # <<>>
           /\ done[TotalAt(done)].w = <<try, 0>>
           /\ mode = "transfer" => Handshakes(done) # {}
<1> DEFINE k == Len(done) - n
<1>1. Len(done) \in Nat /\ DOMAIN done = 1 .. Len(done) BY DEF IsSeq
<1>2. n < Len(done) BY DEF Windows
<1>3. k \in 1 .. Len(done) BY <1>1, <1>2
<1>4. done[k].w = <<try, 0>> /\ done[k].hs
  <2>1. 0 \in 0 .. n /\ Len(done) - n + 0 = k BY <1>1
  <2> QED BY <2>1 DEF Windows
<1>5. done # <<>> BY <1>1, <1>2
<1>6. k \in Handshakes(done) BY <1>1, <1>3, <1>4 DEF Handshakes
<1>7. \A i \in Handshakes(done) : i <= k
  <2> SUFFICES ASSUME NEW i \in 1 .. Len(done), i > k PROVE ~done[i].hs
    BY <1>1, <1>3 DEF Handshakes
  <2>1. /\ Len(done) \in Int /\ k \in Int /\ k = Len(done) - n /\ i \in Int
        /\ i <= Len(done)
    BY <1>1
  <2> HIDE DEF k
  <2>2. PICK j \in Int : j = i - k BY <2>1
  <2>3. j \in 0 .. n /\ j # 0 BY <2>1, <2>2
  <2>4. Len(done) - n + j = i BY <2>1, <2>2
  <2> QED BY <2>3, <2>4 DEF Windows
<1>8. \A i \in Handshakes(done) : i \in Int BY <1>1 DEF Handshakes
<1> HIDE DEF k
<1>9. CASE mode = "transfer"
  <2>1. TotalAt(done) = CHOOSE i \in Handshakes(done) : \A j \in Handshakes(done) : j <= i
    BY <1>6, <1>9 DEF TotalAt
  <2>2. /\ TotalAt(done) \in Handshakes(done)
        /\ \A j \in Handshakes(done) : j <= TotalAt(done)
    BY <1>6, <1>7, <2>1
  <2>3. TotalAt(done) \in Int /\ k \in Int /\ k <= TotalAt(done) /\ TotalAt(done) <= k
    BY <1>6, <1>7, <1>8, <2>2
  <2>4. TotalAt(done) = k BY <2>3
  <2> QED BY <1>4, <1>5, <1>6, <2>4 DEF k
<1>10. CASE mode # "transfer"
  <2>1. n = 0 BY <1>10, FS_EmptySet DEF Transfers
  <2>2. TotalAt(done) = Len(done) BY <1>10 DEF TotalAt
  <2>3. k = Len(done) BY <1>1, <2>1 DEF k
  <2> QED BY <1>4, <1>5, <1>10, <2>2, <2>3 DEF k
<1> QED BY <1>9, <1>10

LEMMA EnergyStep ==
    ASSUME CoreInv, CapInv, EnergyInv, [Next]_vars
    PROVE  EnergyInv'
<1>1. CASE pc = "done"
  <2>1. UNCHANGED vars BY <1>1, DoneStays
  <2> QED BY <2>1 DEF EnergyInv, vars
<1>2. CASE pc # "done" /\ UNCHANGED attempt
  BY <1>2 DEF EnergyInv
<1>3. CASE Return
  <2> SUFFICES ASSUME attempt'.status = "success"
               PROVE  /\ pc' = "done" /\ final'.status = "success"
                      /\ attempt'.total = <<try, 0>> /\ try' = try
    BY DEF EnergyInv
  <2>1. pc = "return" /\ pc' = "done" /\ UNCHANGED <<final, try>> BY <1>3 DEF Return
  <2>2. final.status = "success" BY <1>3 DEF Return
  <2>3. usb = <<>> /\ IsSeq(cap.done) BY <2>1 DEF CapInv, CapShape
  <2>4. Windows(cap.done, Cardinality(Transfers)) BY <2>2, <2>3, SuccessWindows
  <2>5. cap.done # <<>> /\ cap.done[TotalAt(cap.done)].w = <<try, 0>>
    BY <2>3, <2>4, TransfersCount, ConnectionFound
  <2>6. Energy(cap.done).w = <<try, 0>> BY <2>5 DEF Energy
  <2>7. attempt'.total = Energy(cap.done).w BY <1>3 DEF Return
  <2> QED BY <2>1, <2>2, <2>6, <2>7
<1>4. \/ Return \/ UNCHANGED attempt
  BY DEF Next, Runner, BeginTry, StartSession, PollResult, PollBridge, WaitTimeout,
         StopSession, StopCapture, Decide, DeadlinePasses, Stutter, Board,
         HandshakeStarts, HandshakeEnds, Connected, OperationStarts, OperationEnds,
         Result, SessionLost, Reboots, ControllerPrints, BridgeEnds, CaptureLoop,
         BoardOnly, Quiet, results, vars
<1> QED BY <1>1, <1>2, <1>3, <1>4

(* The energy of a successful attempt is that of its own connection          *)
(* (power_profiler.py 302-320), whatever was running when the capture began, *)
(* for any number of transfers and retries; only the thread that samples     *)
(* must catch up before stop() drops the rest.                               *)
THEOREM EnergyIsOwn == ASSUME "capture" \in Prompt PROVE Spec => []EnergyOwn
<1>1. Init => CoreInv /\ CapInv /\ EnergyInv
  <2> SUFFICES ASSUME Init PROVE CoreInv /\ CapInv /\ EnergyInv OBVIOUS
  <2>1. attempt.status = "none" BY DEF Init, NoAttempt
  <2> QED BY <2>1, CoreInit, CapInit DEF EnergyInv
<1>2. CoreInv /\ CapInv /\ EnergyInv /\ [Next]_vars => (CoreInv /\ CapInv /\ EnergyInv)'
  BY CoreStep, CapStep, EnergyStep
<1>3. EnergyInv => EnergyOwn BY DEF EnergyInv, EnergyOwn
<1> QED BY <1>1, <1>2, <1>3, PTL DEF Spec

-----------------------------------------------------------------------------
(* Logs and rows of a success.                                              *)
LEMMA CollectedStep ==
    ASSUME "controller" \in Prompt, "collect" \in Prompt, CoreInv, CoreInv', Collected,
           [Next]_vars
    PROVE  Collected'
<1>1. CASE StopSession
  <2> SUFFICES ASSUME final'.status = "success"
               PROVE  /\ llog'.hs = try /\ try' = try
                      /\ Transfers' = Transfers
                      /\ \A i \in Transfers : llog'.dev[i] = [of |-> try, ok |-> TRUE]
    BY DEF Collected
  <2>1. /\ UNCHANGED <<mode, try, final>> /\ printing = {} /\ llog' = Appended
    BY <1>1 DEF StopSession
  <2>2. Transfers' = Transfers BY <2>1 DEF Transfers
  <2>3. /\ Regular /\ board.op = Cardinality(Transfers) /\ ~board.hi
    BY <2>1 DEF CoreInv, FinalOwn, Logged, Regular, Flow, Shape
  <2>4. rlog.of = try /\ rlog.hs /\ Metrics BY <2>3 DEF CoreInv, Logged
  <2>5. ASSUME NEW i \in Transfers PROVE rlog.dev[i] = [of |-> try, ok |-> TRUE]
    <3>1. i < board.op \/ i = board.op BY <2>3, TransfersCount
    <3> QED BY <2>1, <2>3, <2>4, <3>1 DEF Metrics, Heard
  <2>6. [of |-> try, ok |-> TRUE] # NoMetrics
    <3>1. try # -1 BY DEF CoreInv, Shape
    <3>2. [of |-> try, ok |-> TRUE].of # NoMetrics.of BY <3>1 DEF NoMetrics
    <3> QED BY <3>2
  <2>7. Appended.hs = try BY <2>4 DEF Appended
  <2>8. \A i \in Transfers : Appended.dev[i] = rlog.dev[i]
    BY <2>5, <2>6 DEF Appended
  <2> QED BY <2>1, <2>2, <2>5, <2>7, <2>8
<1>2. ASSUME UNCHANGED <<mode, try, llog>>, final' = final \/ final'.status # "success",
             pc \in {"rows", "decide", "return", "done"} \/ final'.status # "success"
             \/ pc' \notin {"rows", "decide", "return", "done"}
      PROVE  Collected'
  <2>1. Transfers' = Transfers BY <1>2 DEF Transfers
  <2> QED BY <1>2, <2>1 DEF Collected
<1>3. CASE BeginTry \/ StartSession \/ PollResult \/ PollBridge \/ WaitTimeout
  <2>1. pc' \notin {"rows", "decide", "done"} /\ (pc' = "return" => final' = TimedOut)
    BY <1>3 DEF BeginTry, StartSession, PollResult, PollBridge, WaitTimeout
  <2> QED BY <2>1 DEF Collected, TimedOut
<1>4. CASE StopCapture \/ Return
  <2>1. UNCHANGED <<mode, try, llog, final>> /\ pc \in {"rows", "return"}
    BY <1>4 DEF StopCapture, Return
  <2> QED BY <1>2, <2>1
<1>5. CASE Decide
  <2>1. UNCHANGED <<mode, llog>> /\ pc = "decide"
        /\ \/ pc' = "begin"
           \/ UNCHANGED try /\ (final' = final \/ final' = TimedOut)
    BY <1>5 DEF Decide, Quiet
  <2>2. TimedOut.status # "success" BY DEF TimedOut
  <2>3. CASE pc' = "begin" BY <2>3 DEF Collected
  <2> QED BY <1>2, <2>1, <2>2, <2>3
<1>6. CASE Board \/ ControllerPrints \/ BridgeEnds \/ CaptureLoop \/ DeadlinePasses
           \/ UNCHANGED vars
  <2>1. UNCHANGED <<mode, try, llog, final, pc>>
    BY <1>6 DEF Board, HandshakeStarts, HandshakeEnds, Connected, OperationStarts,
                OperationEnds, Result, SessionLost, Reboots, ControllerPrints, BridgeEnds,
                CaptureLoop, DeadlinePasses, BoardOnly, results, vars
  <2>2. Transfers' = Transfers BY <2>1 DEF Transfers
  <2> QED BY <2>1, <2>2 DEF Collected
<1> QED BY <1>1, <1>3, <1>4, <1>5, <1>6 DEF Next, Runner, Stutter

(* transfer_rows_for_round on the windows of a success. *)
LEMMA RoundOwn ==
    ASSUME CoreInv, CapInv, Collected, pc = "rows", usb = <<>>,
           NEW i \in Transfers, NEW r,
           r = RoundRows(TransferWindows(cap.done))[i]
    PROVE  r.try = try /\ GoodRow(r) /\ (final.status = "success" => r.complete)
<1> DEFINE n == Cardinality(Transfers)
<1> DEFINE wins == TransferWindows(cap.done)
<1> DEFINE status(j) == IF llog.dev[j] = NoMetrics
                        THEN IF final.status = "timeout" THEN "timeout" ELSE "not_run"
                        ELSE IF llog.dev[j].ok THEN "success" ELSE "fail"
<1>1. /\ r.try = try /\ r.op = i /\ r.of = llog.dev[i].of
      /\ r.win = IF i <= Len(wins) THEN wins[i].w ELSE <<-1, 0>>
      /\ r.complete <=> /\ final.status = "success"
                        /\ \A j \in Transfers : status(j) = "success"
  BY DEF RoundRows
<1>2. ASSUME final.status = "success"
      PROVE  /\ \A j \in Transfers : status(j) = "success"
             /\ r.of = try /\ r.win = <<try, i>>
  <2>1. \A j \in Transfers : llog.dev[j] = [of |-> try, ok |-> TRUE]
    BY <1>2 DEF Collected
  <2>2. [of |-> try, ok |-> TRUE] # NoMetrics
    <3>1. try # -1 BY DEF CoreInv, Shape
    <3>2. [of |-> try, ok |-> TRUE].of # NoMetrics.of BY <3>1 DEF NoMetrics
    <3> QED BY <3>2
  <2>3. \A j \in Transfers : status(j) = "success" BY <2>1, <2>2
  <2>4. r.of = try BY <1>1, <2>1
  <2>5. n \in Nat /\ i \in 1 .. n BY TransfersCount
  <2>6. Windows(cap.done, n) /\ IsSeq(cap.done)
    BY <1>2, SuccessWindows DEF CapInv, CapShape
  <2>7. mode = "transfer" BY DEF Transfers
  <2> HIDE DEF n
  <2>8. TotalAt(cap.done) = Len(cap.done) - n /\ Handshakes(cap.done) # {}
    BY <2>5, <2>6, <2>7, ConnectionFound DEF n
  <2>9. wins = SubSeq(cap.done, Len(cap.done) - n + 1, Len(cap.done))
    BY <2>7, <2>8 DEF TransferWindows
  <2> HIDE DEF wins, status
  <2>10. PICK S : cap.done \in Seq(S) BY <2>6 DEF IsSeq
  <2>11. Len(cap.done) \in Nat /\ n < Len(cap.done) BY <2>6, <2>10 DEF Windows
  <2>12. Len(wins) = n /\ wins[i] = cap.done[Len(cap.done) - n + i]
    <3> DEFINE k == Len(cap.done) - n
    <3>1. k \in Nat /\ k + 1 \in 1 .. Len(cap.done) + 1 /\ k + n = Len(cap.done)
      BY <2>5, <2>11
    <3>2. wins = SubSeq(cap.done, k + 1, Len(cap.done)) BY <2>9
    <3> HIDE DEF k
    <3>3. Len(wins) = n BY <2>5, <2>10, <2>11, <3>1, <3>2
    <3>4. wins[i] = cap.done[k + i]
      <4>1. i \in 1 .. (Len(cap.done) - (k + 1) + 1) /\ (k + 1) + i - 1 = k + i
        BY <2>5, <2>11, <3>1
      <4>2. wins[i] = cap.done[(k + 1) + i - 1] BY <2>10, <2>11, <3>1, <3>2, <4>1
      <4> QED BY <4>1, <4>2
    <3> QED BY <3>3, <3>4 DEF k
  <2>13. cap.done[Len(cap.done) - n + i].w = <<try, i>> BY <2>5, <2>6 DEF Windows
  <2>14. r.win = <<try, i>> BY <1>1, <2>5, <2>12, <2>13
  <2> QED BY <2>3, <2>4, <2>14
<1> HIDE DEF status, wins
<1> QED BY <1>1, <1>2 DEF GoodRow

LEMMA StopCaptureRows ==
    ASSUME "capture" \in Prompt, CoreInv, CapInv, Collected, RowsKept, StopCapture
    PROVE  RowsKept'
<1> DEFINE new == RoundRows(TransferWindows(cap.done))
<1> DEFINE add == [i \in DOMAIN new |-> new[i]]
<1> DEFINE n == Cardinality(Transfers)
<1>1. /\ pc = "rows" /\ usb = <<>> /\ pc' = "decide" /\ UNCHANGED <<try, final>>
      /\ rows' = rows \o add
  BY DEF StopCapture
<1>2. n \in Nat /\ Transfers = 1 .. n BY TransfersCount
<1>3. DOMAIN new = Transfers BY DEF RoundRows
<1>4. \A i \in 1 .. n : /\ add[i].try = try /\ GoodRow(add[i])
                        /\ final.status = "success" => add[i].complete
  <2> SUFFICES ASSUME NEW i \in Transfers
               PROVE  /\ new[i].try = try /\ GoodRow(new[i])
                      /\ final.status = "success" => new[i].complete
    BY <1>2, <1>3
  <2>1. PICK r : r = RoundRows(TransferWindows(cap.done))[i] OBVIOUS
  <2>2. r.try = try /\ GoodRow(r) /\ (final.status = "success" => r.complete)
    BY <1>1, <2>1, RoundOwn
  <2> QED BY <2>1, <2>2
<1>5. /\ DOMAIN add = 1 .. n BY <1>2, <1>3
<1>6. \E S : add \in Seq(S)
  <2> HIDE DEF new
  <2>1. add \in Seq({new[i] : i \in 1 .. n}) BY <1>2, <1>3
  <2> QED BY <2>1
<1> HIDE DEF add
<1>7. PICK S : rows \in Seq(S) BY DEF RowsKept, IsSeq
<1>8. PICK T : add \in Seq(T) BY <1>6
<1>9. rows \in Seq(S \cup T) /\ add \in Seq(S \cup T) BY <1>7, <1>8
<1>10. /\ Len(rows) \in Nat /\ DOMAIN rows = 1 .. Len(rows) /\ Len(add) = n
  BY <1>2, <1>5, <1>7, <1>8
<1>11. /\ rows' \in Seq(S \cup T) /\ Len(rows') = Len(rows) + Len(add)
       /\ \A i \in 1 .. Len(rows) + Len(add) :
            rows'[i] = IF i <= Len(rows) THEN rows[i] ELSE add[i - Len(rows)]
  BY <1>1, <1>9, ConcatProperties, Zenon
<1>12. DOMAIN rows' = 1 .. Len(rows) + n BY <1>10, <1>11
<1>13. ASSUME NEW i \in DOMAIN rows'
       PROVE  /\ GoodRow(rows'[i]) /\ rows'[i].try \in Nat /\ rows'[i].try <= try
              /\ final.status = "success" /\ rows'[i].try = try => rows'[i].complete
  <2>1. CASE i <= Len(rows)
    <3>1. i \in DOMAIN rows /\ rows'[i] = rows[i] BY <1>10, <1>11, <1>12, <2>1
    <3>2. rows[i].try < try /\ rows[i].try \in Nat /\ GoodRow(rows[i])
      BY <1>1, <3>1 DEF RowsKept, Reported
    <3>3. try \in Nat BY DEF CoreInv, Shape
    <3> QED BY <3>1, <3>2, <3>3
  <2>2. CASE ~(i <= Len(rows))
    <3>1. PICK j \in 1 .. n : j = i - Len(rows) BY <1>2, <1>10, <1>12, <2>2
    <3>2. rows'[i] = add[j] BY <1>10, <1>11, <1>12, <2>2, <3>1
    <3>3. try \in Nat BY DEF CoreInv, Shape
    <3> QED BY <1>4, <3>1, <3>2, <3>3
  <2> QED BY <2>1, <2>2
<1>14. IsSeq(rows)' BY <1>11 DEF IsSeq
<1> QED BY <1>1, <1>13, <1>14 DEF RowsKept, Reported, GoodRow

(* Steps that add no row. *)
LEMMA RowsSame ==
    ASSUME CoreInv, RowsKept, UNCHANGED rows,
           \/ /\ UNCHANGED try /\ (~Reported' => ~Reported)
              /\ Reported' /\ final'.status = "success" =>
                   Reported /\ final.status = "success"
           \/ try' = try + 1 /\ ~Reported'
    PROVE  RowsKept'
<1>1. IsSeq(rows)' BY DEF RowsKept, IsSeq
<1>2. ASSUME NEW i \in DOMAIN rows
      PROVE  /\ GoodRow(rows[i])' /\ rows'[i].try \in Nat /\ rows'[i].try <= try'
             /\ ~Reported' => rows'[i].try < try'
             /\ Reported' /\ final'.status = "success" /\ rows'[i].try = try' =>
                  rows'[i].complete
  <2>1. /\ GoodRow(rows[i]) /\ rows[i].try \in Nat /\ rows[i].try <= try
        /\ ~Reported => rows[i].try < try
        /\ Reported /\ final.status = "success" /\ rows[i].try = try => rows[i].complete
    BY DEF RowsKept
  <2>2. try \in Nat BY DEF CoreInv, Shape
  <2>3. GoodRow(rows[i])' BY <2>1 DEF GoodRow
  <2> QED BY <2>1, <2>2, <2>3
<1> QED BY <1>1, <1>2 DEF RowsKept

LEMMA RowsStep ==
    ASSUME "capture" \in Prompt, CoreInv, CapInv, Collected, RowsKept, [Next]_vars
    PROVE  RowsKept'
<1>1. TimedOut.status # "success" BY DEF TimedOut
<1>2. CASE BeginTry \/ StartSession \/ PollResult \/ PollBridge \/ WaitTimeout \/ StopSession
  <2>1. /\ UNCHANGED <<try, rows>> /\ ~Reported
        /\ Reported' => final' = TimedOut
    BY <1>2 DEF BeginTry, StartSession, PollResult, PollBridge, WaitTimeout, StopSession,
                Quiet, Reported, results
  <2> QED BY <1>1, <2>1, RowsSame
<1>3. CASE Decide
  <2>1. /\ UNCHANGED rows /\ Reported
        /\ \/ ~Reported' /\ try' = try + 1
           \/ Reported' /\ UNCHANGED try /\ (final' = final \/ final' = TimedOut)
    BY <1>3 DEF Decide, Quiet, Reported
  <2> QED BY <1>1, <2>1, RowsSame
<1>4. CASE Return
  <2>1. UNCHANGED <<rows, try, final>> /\ Reported /\ Reported'
    BY <1>4 DEF Return, Reported
  <2> QED BY <2>1, RowsSame
<1>5. CASE Board \/ ControllerPrints \/ BridgeEnds \/ CaptureLoop \/ DeadlinePasses
           \/ UNCHANGED vars
  <2>1. UNCHANGED <<try, rows, final, pc>>
    BY <1>5 DEF Board, HandshakeStarts, HandshakeEnds, Connected, OperationStarts,
                OperationEnds, Result, SessionLost, Reboots, ControllerPrints, BridgeEnds,
                CaptureLoop, DeadlinePasses, BoardOnly, results, vars
  <2>2. Reported' <=> Reported BY <2>1 DEF Reported
  <2> QED BY <2>1, <2>2, RowsSame
<1> QED BY <1>2, <1>3, <1>4, <1>5, StopCaptureRows DEF Next, Runner, Stutter

LEMMA AttemptStep ==
    ASSUME CoreInv, Collected, AttemptOwn, [Next]_vars
    PROVE  AttemptOwn'
<1>1. CASE pc = "done"
  <2>1. UNCHANGED vars BY <1>1, DoneStays
  <2> QED BY <2>1 DEF AttemptOwn, vars
<1>2. CASE pc # "done" /\ UNCHANGED attempt
  BY <1>2 DEF AttemptOwn
<1>3. CASE Return
  <2>1. pc = "return" /\ pc' = "done" /\ UNCHANGED <<mode, final, try>> BY <1>3 DEF Return
  <2>2. attempt'.of = final.of /\ attempt'.hs = llog.hs BY <1>3 DEF Return
  <2>3. attempt'.status = "success" => final.status = "success" BY <1>3 DEF Return
  <2>4. final.status = "success" => final.of = try /\ llog.hs = try
    BY <2>1 DEF CoreInv, FinalOwn, Collected
  <2> QED BY <2>1, <2>2, <2>3, <2>4 DEF AttemptOwn
<1>4. \/ Return \/ UNCHANGED attempt
  BY DEF Next, Runner, BeginTry, StartSession, PollResult, PollBridge, WaitTimeout,
         StopSession, StopCapture, Decide, DeadlinePasses, Stutter, Board,
         HandshakeStarts, HandshakeEnds, Connected, OperationStarts, OperationEnds,
         Result, SessionLost, Reboots, ControllerPrints, BridgeEnds, CaptureLoop,
         BoardOnly, Quiet, results, vars
<1> QED BY <1>1, <1>2, <1>3, <1>4

(* Every row that enters an aggregate carries the metrics and the power      *)
(* window of its own transfer, and the handshake values of a success are of  *)
(* its own session (run_benchmarks.py 807-935, 1067-1120), for any number of *)
(* transfers and retries.  The three grants are what the runner relies on    *)
(* and does not check: a prompt controller, log collection that succeeds,    *)
(* and a capture thread that catches up.                                     *)
THEOREM RoundsOwn ==
    ASSUME {"controller", "collect", "capture"} \subseteq Prompt
    PROVE  Spec => []AggregatesOwn
<1> DEFINE Inv == CoreInv /\ CapInv /\ Collected /\ RowsKept /\ AttemptOwn
<1>1. Init => Inv
  <2> SUFFICES ASSUME Init PROVE Inv OBVIOUS
  <2>1. /\ pc = "begin" /\ rows = <<>> /\ attempt.status = "none"
    BY DEF Init, NoAttempt
  <2>2. rows \in Seq({}) /\ DOMAIN rows = {} BY <2>1
  <2>3. RowsKept BY <2>2 DEF RowsKept, IsSeq
  <2> QED BY <2>1, <2>3, CoreInit, CapInit DEF Collected, AttemptOwn
<1>2. Inv /\ [Next]_vars => Inv'
  <2> SUFFICES ASSUME Inv, [Next]_vars PROVE Inv' OBVIOUS
  <2>1. CoreInv' /\ CapInv' BY CoreStep, CapStep
  <2>2. Collected' BY <2>1, CollectedStep
  <2>3. RowsKept' /\ AttemptOwn' BY RowsStep, AttemptStep
  <2> QED BY <2>1, <2>2, <2>3
<1>3. Inv => AggregatesOwn
  <2> SUFFICES ASSUME Inv PROVE AggregatesOwn OBVIOUS
  <2>1. ASSUME NEW r \in ToSet(rows)
        PROVE  /\ GoodRow(r)
               /\ pc = "done" /\ final.status = "success" /\ r.try = try => r.complete
    <3>1. PICK i \in DOMAIN rows : r = rows[i] BY <2>1 DEF ToSet
    <3> QED BY <3>1 DEF RowsKept, Reported
  <2> QED BY <2>1 DEF AggregatesOwn, GoodRow, AttemptOwn
<1> QED BY <1>1, <1>2, <1>3, PTL DEF Spec
=============================================================================
