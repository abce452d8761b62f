---------------------------- MODULE L2capProofs -----------------------------
(***************************************************************************)
(* What is proved of the device's L2CAP channel: of the receive path       *)
(* (L2capRx), for every pool, SDU and read size and any number of bytes    *)
(* and sessions, and, in the second half, of the transmit path (L2capTx),  *)
(* for a stream and messages of any length.                                *)
(***************************************************************************)
EXTENDS L2capRx, L2capTx, SequenceTheorems, TLAPS

-----------------------------------------------------------------------------
(***************************************************************************)
(* The inductive invariant.  What wolfSSL has read is right only because   *)
(* the SDUs still held continue exactly where it stopped: the current SDU  *)
(* and the FIFO are adjacent intervals that end at the last byte received. *)
(* That every SDU ends within the bytes received is stated for each of     *)
(* them, which spares an induction along the FIFO.                         *)
(***************************************************************************)
Counts ==
    /\ pc \in {"adv", "idle", "check", "wait", "closed", "over", "drain"}
    /\ fifo \in Seq(Sdus) /\ cur \in Sdus
    /\ queued \in Nat /\ free \in 0..PoolCount
    /\ total \in Nat /\ base \in Nat /\ got \in Seq(Nat) /\ sessions \in Nat

Flags ==
    conn \in BOOLEAN /\ closing \in BOOLEAN /\ peerGone \in BOOLEAN /\ sawGone \in BOOLEAN

End(sdu) == sdu.at + sdu.len

SdusReal ==
    /\ cur # NoSdu => cur.len >= 1
    /\ \A i \in 1..Len(fifo) : fifo[i].len >= 1 /\ End(fifo[i]) <= total + 1

(* The next byte to be read, and where the FIFO goes on. *)
NextByte == base + Len(got) + 1
FifoStart == IF fifo = <<>> THEN total + 1 ELSE fifo[1].at

Adjacent ==
    /\ \A i \in 1..(Len(fifo) - 1) : fifo[i + 1].at = End(fifo[i])
    /\ fifo # <<>> => End(fifo[Len(fifo)]) = total + 1
    /\ cur # NoSdu => cur.at = NextByte /\ End(cur) = FifoStart
    /\ cur = NoSdu => FifoStart = NextByte

StreamHeld == InSession => Adjacent /\ queued = total - base - Len(got)

BetweenSessions ==
    /\ pc = "adv" => fifo = <<>> /\ cur = NoSdu /\ queued = 0
    /\ pc = "adv" /\ conn /\ ~closing => base = total /\ got = <<>>
    /\ pc \in {"over", "drain"} => (conn => closing)

SeenDown ==
    pc \in {"check", "closed"} /\ sawGone =>
        cur = NoSdu /\ fifo = <<>> /\ (peerGone \/ ~conn)

RxInv ==
    /\ Counts /\ SdusReal /\ StreamHeld /\ BetweenSessions /\ SeenDown
    /\ BuffersConserved /\ ReadsThisSession

-----------------------------------------------------------------------------
(* Facts about the FIFO. *)

(* The interval an SDU carries. *)
LEMMA SduFields ==
    ASSUME NEW e \in Sdus
    PROVE  e.at \in Nat /\ e.len \in Nat
  BY DEF Sdus

(* And every one in the FIFO. *)
LEMMA FifoFields ==
    ASSUME NEW s \in Seq(Sdus), NEW i \in 1..Len(s)
    PROVE  s[i] \in Sdus /\ s[i].at \in Nat /\ s[i].len \in Nat
<1>1. s[i] \in Sdus
  OBVIOUS
<1> QED BY <1>1, SduFields

(* k_fifo_get: the rest, and which SDU is at each place of it. *)
LEMMA TailFacts ==
    ASSUME NEW s \in Seq(Sdus), s # <<>>
    PROVE  /\ Head(s) = s[1] /\ s[1] \in Sdus /\ Len(s) \in Nat \ {0}
           /\ Tail(s) \in Seq(Sdus) /\ Len(Tail(s)) = Len(s) - 1
           /\ \A i \in 1..(Len(s) - 1) : Tail(s)[i] = s[i + 1]
           /\ Tail(s) = <<>> <=> Len(s) = 1
<1>1. Head(s) = s[1] /\ s[1] \in Sdus /\ Len(s) \in Nat \ {0}
  OBVIOUS
<1>2. Tail(s) \in Seq(Sdus) /\ Len(Tail(s)) = Len(s) - 1
  OBVIOUS
<1>3. \A i \in 1..(Len(s) - 1) : Tail(s)[i] = s[i + 1]
  OBVIOUS
<1>4. Tail(s) = <<>> <=> Len(s) = 1
  BY <1>1, <1>2, EmptySeq
<1> QED BY <1>1, <1>2, <1>3, <1>4

(* k_fifo_put: the new SDU goes last and the others stay. *)
LEMMA AppendFacts ==
    ASSUME NEW s \in Seq(Sdus), NEW e \in Sdus
    PROVE  /\ Append(s, e) \in Seq(Sdus) /\ Append(s, e) # <<>>
           /\ Len(s) \in Nat /\ Len(Append(s, e)) = Len(s) + 1
           /\ \A i \in 1..Len(s) : Append(s, e)[i] = s[i]
           /\ Append(s, e)[Len(s) + 1] = e
<1>1. Append(s, e) \in Seq(Sdus) /\ Len(s) \in Nat /\ Len(Append(s, e)) = Len(s) + 1
  OBVIOUS
<1>2. \A i \in 1..Len(s) : Append(s, e)[i] = s[i]
  OBVIOUS
<1>3. Append(s, e)[Len(s) + 1] = e
  OBVIOUS
<1> QED BY <1>1, <1>2, <1>3

(* The bytes wolfSSL is handed go after those it has. *)
LEMMA ReadFacts ==
    ASSUME NEW s \in Seq(Nat), NEW sdu \in Sdus, NEW n \in Nat, sdu.at >= 1
    PROVE  LET t == s \o Bytes(sdu, n)
           IN  /\ t \in Seq(Nat) /\ Len(t) = Len(s) + n
               /\ \A i \in 1..Len(s) : t[i] = s[i]
               /\ \A i \in (Len(s) + 1)..(Len(s) + n) : t[i] = sdu.at + (i - Len(s)) - 1
<1>1. sdu.at \in Nat
  BY DEF Sdus
<1>2. Bytes(sdu, n) \in Seq(Nat) /\ Len(Bytes(sdu, n)) = n
  <2>1. Bytes(sdu, n) \in [1..n -> Nat]
    BY <1>1 DEF Bytes
  <2>2. Bytes(sdu, n) \in Seq(Nat)
    BY <2>1, SeqDef
  <2> QED BY <2>2 DEF Bytes
<1>3. \A i \in 1..n : Bytes(sdu, n)[i] = sdu.at + i - 1
  BY DEF Bytes
<1> DEFINE b == Bytes(sdu, n)
<1> HIDE DEF b
<1>4. /\ b \in Seq(Nat) /\ Len(b) = n
      /\ \A i \in 1..n : b[i] = sdu.at + i - 1
  BY <1>2, <1>3 DEF b
<1>5. /\ s \o b \in Seq(Nat) /\ Len(s \o b) = Len(s) + n
      /\ \A i \in 1..(Len(s) + n) : (s \o b)[i] = IF i <= Len(s) THEN s[i] ELSE b[i - Len(s)]
  BY <1>4, ConcatProperties
<1>6. \A i \in (Len(s) + 1)..(Len(s) + n) : (s \o b)[i] = sdu.at + (i - Len(s)) - 1
  <2> SUFFICES ASSUME NEW i \in (Len(s) + 1)..(Len(s) + n)
               PROVE  (s \o b)[i] = sdu.at + (i - Len(s)) - 1
    OBVIOUS
  <2>1. i \in 1..(Len(s) + n) /\ ~(i <= Len(s)) /\ i - Len(s) \in 1..n
    OBVIOUS
  <2> QED BY <1>4, <1>5, <2>1
<1> QED BY <1>5, <1>6 DEF b

-----------------------------------------------------------------------------
(* A powered-up board satisfies the invariant. *)
LEMMA InitRx == Init => RxInv
<1> SUFFICES ASSUME Init PROVE RxInv
  OBVIOUS
<1>1. NoSdu \in Sdus
  BY DEF NoSdu, Sdu, Sdus
<1>2. Len(fifo) = 0 /\ fifo = <<>> /\ cur = NoSdu /\ pc = "adv" /\ free = PoolCount
  BY DEF Init
<1>3. Counts
  BY <1>1, RxAssumption DEF Init, Counts
<1>4. Held = 0
  <2>1. (IF cur # NoSdu THEN 1 ELSE 0) = 0 /\ Len(fifo) = 0
    BY <1>2
  <2> QED BY <2>1 DEF Held
<1>5. BuffersConserved
  BY <1>2, <1>4, RxAssumption DEF BuffersConserved
<1> QED
  BY <1>2, <1>3, <1>5
  DEF Init, RxInv, SdusReal, StreamHeld, BetweenSessions, SeenDown, ReadsThisSession,
      InSession

(* What a step that leaves the buffers and the bytes alone must respect. *)
LEMMA QuietStep ==
    ASSUME RxInv, Counts', UNCHANGED <<buffers, ghosts>>,
           InSession' /\ ~InSession => pc = "adv",
           pc = "adv" /\ pc' # "adv" => conn /\ ~closing,
           BetweenSessions', SeenDown', pc' = "adv" => pc = "adv"
    PROVE  RxInv'
<1> USE DEF buffers, ghosts
<1>1. SdusReal' /\ BuffersConserved'
  BY DEF RxInv, SdusReal, BuffersConserved, Held
<1>2. Adjacent => Adjacent'
  BY DEF Adjacent, FifoStart, NextByte
<1>3. pc = "adv" /\ conn /\ ~closing => Adjacent /\ queued = total - base - Len(got)
  BY DEF RxInv, Counts, BetweenSessions, Adjacent, FifoStart, NextByte
<1>4. StreamHeld'
  BY <1>2, <1>3 DEF RxInv, StreamHeld, InSession
<1>5. ReadsThisSession'
  <2>1. CASE pc # "adv" \/ pc' = "adv"
    BY <2>1 DEF RxInv, ReadsThisSession
  <2>2. CASE pc = "adv" /\ pc' # "adv"
    <3>1. got = <<>> /\ got' = got
      BY <2>2 DEF RxInv, BetweenSessions
    <3> QED BY <3>1 DEF ReadsThisSession
  <2> QED BY <2>1, <2>2
<1> QED BY <1>1, <1>4, <1>5 DEF RxInv

(* l2cap_recv: the new SDU goes on where the last byte received left off. *)
LEMMA RecvStep ==
    ASSUME RxInv, l2cap_recv
    PROVE  RxInv'
<1>t. Counts
  BY DEF RxInv
<1>1. PICK n \in 1..MaxSdu :
         /\ fifo' = Append(fifo, Sdu(total + 1, n))
         /\ queued' = queued + n
         /\ total' = total + n
  BY DEF l2cap_recv
<1> DEFINE e == Sdu(total + 1, n)
<1>2. e \in Sdus /\ e.at = total + 1 /\ e.len = n /\ n \in Nat /\ n >= 1 /\ total \in Nat
  BY <1>t, RxAssumption DEF Sdu, Sdus, Counts
<1>3. /\ UNCHANGED <<pc, cur, conn, closing, peerGone, sawGone, base, got, sessions>>
      /\ free' = free - 1 /\ free > 0 /\ pc # "adv" /\ conn /\ ~closing /\ ~peerGone
  BY DEF l2cap_recv, link
<1> HIDE DEF e
<1>4. /\ fifo' \in Seq(Sdus) /\ fifo' # <<>>
      /\ Len(fifo) \in Nat /\ Len(fifo') = Len(fifo) + 1
      /\ \A i \in 1..Len(fifo) : fifo'[i] = fifo[i]
      /\ fifo'[Len(fifo) + 1] = e
  BY <1>t, <1>1, <1>2, AppendFacts DEF Counts, e
<1>5. Counts'
  <2>1. free' \in 0..PoolCount
    BY <1>3, <1>t, RxAssumption DEF Counts
  <2>2. queued' \in Nat /\ total' \in Nat
    BY <1>1, <1>2, <1>t DEF Counts
  <2> QED BY <1>3, <1>4, <1>t, <2>1, <2>2 DEF Counts
<1>6. \A i \in 1..Len(fifo') : i \in 1..Len(fifo) \/ i = Len(fifo) + 1
  BY <1>4
<1>7. \A i \in 1..Len(fifo) : fifo[i].at \in Nat /\ fifo[i].len \in Nat
  BY <1>t, FifoFields DEF Counts
<1>8. SdusReal'
  BY <1>1, <1>2, <1>3, <1>4, <1>6, <1>7 DEF RxInv, SdusReal, End
<1>9. BuffersConserved'
  <2> DEFINE h == IF cur # NoSdu THEN 1 ELSE 0
  <2>1. Held = Len(fifo) + h /\ Held' = Len(fifo) + 1 + h /\ h \in Nat
    BY <1>3, <1>4 DEF Held
  <2>2. free + Held = PoolCount /\ free \in Nat
    BY <1>t DEF RxInv, BuffersConserved, Counts
  <2> HIDE DEF h
  <2> QED BY <1>3, <1>4, <2>1, <2>2 DEF BuffersConserved
<1>10. StreamHeld'
  <2> SUFFICES ASSUME InSession'
               PROVE  Adjacent' /\ queued' = total' - base' - Len(got')
    BY DEF StreamHeld
  <2>1. Adjacent /\ queued = total - base - Len(got)
    BY <1>3 DEF InSession, RxInv, StreamHeld
  <2>2. queued' = total' - base' - Len(got')
    BY <1>1, <1>2, <1>3, <1>t, <2>1 DEF Counts
  <2>3. NextByte' = NextByte /\ FifoStart' = FifoStart
    <3>1. CASE fifo = <<>>
      BY <1>2, <1>3, <1>4, <3>1 DEF NextByte, FifoStart
    <3>2. CASE fifo # <<>>
      <4>1. 1 \in 1..Len(fifo)
        BY <1>t, <3>2, EmptySeq DEF Counts
      <4> QED BY <1>3, <1>4, <3>2, <4>1 DEF NextByte, FifoStart
    <3> QED BY <3>1, <3>2
  <2>4. \A i \in 1..(Len(fifo') - 1) : fifo'[i + 1].at = End(fifo'[i])
    <3> SUFFICES ASSUME NEW i \in 1..Len(fifo) PROVE fifo'[i + 1].at = End(fifo'[i])
      BY <1>4
    <3>1. CASE i = Len(fifo)
      <4>1. fifo # <<>>
        BY <3>1
      <4>2. End(fifo[Len(fifo)]) = total + 1
        BY <2>1, <4>1 DEF Adjacent
      <4> QED BY <1>2, <1>4, <3>1, <4>2 DEF End
    <3>2. CASE i # Len(fifo)
      <4>1. i \in 1..(Len(fifo) - 1) /\ i + 1 \in 1..Len(fifo)
        BY <1>4, <3>2
      <4> QED BY <1>4, <2>1, <4>1 DEF Adjacent, End
    <3> QED BY <3>1, <3>2
  <2>5. End(fifo'[Len(fifo')]) = total' + 1
    BY <1>1, <1>2, <1>4 DEF End
  <2>6. cur # NoSdu => cur'.at = NextByte' /\ End(cur') = FifoStart'
    BY <1>3, <2>1, <2>3 DEF Adjacent, End
  <2>7. cur' = NoSdu => FifoStart' = NextByte'
    BY <1>3, <2>1, <2>3 DEF Adjacent
  <2> QED BY <1>3, <2>2, <2>4, <2>5, <2>6, <2>7 DEF Adjacent, End
<1>11. BetweenSessions' /\ SeenDown' /\ ReadsThisSession'
  BY <1>3 DEF RxInv, BetweenSessions, SeenDown, ReadsThisSession
<1> QED BY <1>5, <1>8, <1>9, <1>10, <1>11 DEF RxInv

(* A recv call with data: the bytes handed over are the next ones of the   *)
(* stream, and what is left still starts right behind them.                *)
LEMMA DataStep ==
    ASSUME RxInv, RecvData
    PROVE  RxInv'
<1>t. Counts
  BY DEF RxInv
<1>a. pc = "idle" /\ Adjacent /\ queued = total - base - Len(got)
  BY DEF RecvData, RxInv, StreamHeld, InSession
<1> DEFINE sdu == IF cur # NoSdu THEN cur ELSE Head(fifo)
<1>1. PICK want \in 1..MaxRead :
         LET n == IF want < sdu.len THEN want ELSE sdu.len
         IN  /\ got' = got \o Bytes(sdu, n)
             /\ queued' = queued - n
             /\ IF n = sdu.len
                THEN cur' = NoSdu /\ RecvComplete
                ELSE cur' = Sdu(sdu.at + n, sdu.len - n) /\ UNCHANGED free
  BY DEF RecvData
<1> DEFINE n == IF want < sdu.len THEN want ELSE sdu.len
<1>2. /\ fifo' = IF cur # NoSdu THEN fifo ELSE Tail(fifo)
      /\ cur # NoSdu \/ fifo # <<>>
      /\ UNCHANGED <<pc, conn, closing, peerGone, sawGone, total, base, sessions>>
  BY DEF RecvData, link
<1>3. cur = NoSdu => /\ fifo[1] \in Sdus /\ sdu = fifo[1] /\ Len(fifo) \in Nat \ {0}
                     /\ fifo' \in Seq(Sdus) /\ Len(fifo') = Len(fifo) - 1
                     /\ \A i \in 1..(Len(fifo) - 1) : fifo'[i] = fifo[i + 1]
                     /\ fifo' = <<>> <=> Len(fifo) = 1
  BY <1>2, <1>t, TailFacts DEF Counts
<1>4. cur # NoSdu => sdu = cur /\ fifo' = fifo
  BY <1>2
<1>5. sdu \in Sdus /\ sdu.at \in Nat /\ sdu.len \in Nat /\ sdu.len >= 1
  <2>1. sdu \in Sdus
    BY <1>t, <1>3, <1>4 DEF Counts
  <2>2. sdu.len >= 1
    <3>1. CASE cur # NoSdu
      BY <1>4, <3>1 DEF RxInv, SdusReal
    <3>2. CASE cur = NoSdu
      <4>1. 1 \in 1..Len(fifo)
        BY <1>3, <3>2
      <4> QED BY <1>3, <3>2, <4>1 DEF RxInv, SdusReal
    <3> QED BY <3>1, <3>2
  <2> HIDE DEF sdu
  <2> QED BY <2>1, <2>2, SduFields
<1>6. fifo' \in Seq(Sdus) /\ Len(fifo) \in Nat /\ Len(fifo') \in Nat
  BY <1>t, <1>3, <1>4 DEF Counts
<1>7. sdu.at = NextByte /\ FifoStart' = End(sdu)
  <2>1. CASE cur # NoSdu
    BY <1>2, <1>4, <1>a, <2>1 DEF Adjacent, FifoStart
  <2>2. CASE cur = NoSdu
    <3>1. sdu.at = NextByte
      BY <1>2, <1>3, <1>a, <2>2 DEF Adjacent, FifoStart
    <3>2. CASE Len(fifo) = 1
      BY <1>2, <1>3, <1>a, <2>2, <3>2 DEF Adjacent, FifoStart
    <3>3. CASE Len(fifo) # 1
      <4>1. 1 \in 1..(Len(fifo) - 1) /\ fifo' # <<>>
        BY <1>3, <2>2, <3>3
      <4> QED BY <1>3, <1>a, <2>2, <3>1, <4>1 DEF Adjacent, FifoStart
    <3> QED BY <3>1, <3>2, <3>3
  <2> QED BY <2>1, <2>2
<1>8. NextByte \in Nat /\ NextByte >= 1 /\ base \in Nat /\ total \in Nat /\ Len(got) \in Nat
      /\ queued \in Nat /\ free \in Nat
  BY <1>t, RxAssumption DEF Counts, NextByte
<1>9. End(sdu) <= total + 1
  <2>1. CASE cur = NoSdu
    <3>1. 1 \in 1..Len(fifo)
      BY <1>3, <2>1
    <3> QED BY <1>3, <2>1, <3>1 DEF RxInv, SdusReal
  <2>2. CASE cur # NoSdu /\ fifo = <<>>
    BY <1>4, <1>7, <1>2, <1>8, <2>2 DEF FifoStart
  <2>3. CASE cur # NoSdu /\ fifo # <<>>
    <3>1. 1 \in 1..Len(fifo)
      BY <1>t, <2>3, EmptySeq DEF Counts
    <3>2. fifo[1].at \in Nat /\ fifo[1].len \in Nat
      BY <1>t, <3>1, FifoFields DEF Counts
    <3>3. End(sdu) = fifo[1].at
      BY <1>a, <1>4, <2>3 DEF Adjacent, FifoStart
    <3> QED BY <1>8, <3>1, <3>2, <3>3 DEF RxInv, SdusReal, End
  <2> QED BY <2>1, <2>2, <2>3
<1>10. n \in Nat /\ n >= 1 /\ n <= sdu.len
  BY <1>5, RxAssumption
<1>11. /\ got' = got \o Bytes(sdu, n) /\ queued' = queued - n
       /\ IF n = sdu.len
          THEN cur' = NoSdu /\ free' = free + 1
          ELSE cur' = Sdu(sdu.at + n, sdu.len - n) /\ free' = free
  BY <1>1 DEF RecvComplete
<1> HIDE DEF n, sdu
<1>12. /\ got' \in Seq(Nat) /\ Len(got') = Len(got) + n
       /\ \A i \in 1..Len(got) : got'[i] = got[i]
       /\ \A i \in (Len(got) + 1)..(Len(got) + n) : got'[i] = sdu.at + (i - Len(got)) - 1
  <2>1. got \in Seq(Nat) /\ sdu.at >= 1
    BY <1>t, <1>7, <1>8 DEF Counts
  <2> QED BY <1>5, <1>10, <1>11, <2>1, ReadFacts
<1>13. ReadsThisSession'
  <2>1. \A i \in 1..Len(got) : got[i] = base + i
    BY <1>a DEF RxInv, ReadsThisSession
  <2> SUFFICES ASSUME NEW i \in 1..Len(got') PROVE got'[i] = base + i
    BY <1>2 DEF ReadsThisSession
  <2>2. CASE i \in 1..Len(got)
    BY <1>12, <2>1, <2>2
  <2>3. CASE i \in (Len(got) + 1)..(Len(got) + n)
    BY <1>7, <1>8, <1>12, <2>3 DEF NextByte
  <2> QED BY <1>8, <1>10, <1>12, <2>2, <2>3
<1>14. NextByte' = NextByte + n
  BY <1>2, <1>8, <1>10, <1>12 DEF NextByte
<1>15. /\ n = sdu.len => cur' = NoSdu
       /\ n # sdu.len => /\ cur' \in Sdus /\ cur' # NoSdu /\ cur'.len >= 1
                         /\ cur'.at = sdu.at + n /\ End(cur') = End(sdu)
  <2> SUFFICES ASSUME n # sdu.len
               PROVE  /\ cur' \in Sdus /\ cur' # NoSdu /\ cur'.len >= 1
                      /\ cur'.at = sdu.at + n /\ End(cur') = End(sdu)
    BY <1>11
  <2>1. cur' = [at |-> sdu.at + n, len |-> sdu.len - n]
    BY <1>11 DEF Sdu
  <2>2. sdu.at + n \in Nat /\ sdu.len - n \in Nat /\ sdu.len - n >= 1
    BY <1>5, <1>10
  <2>3. cur'.at = sdu.at + n /\ cur'.len = sdu.len - n /\ cur' \in Sdus
    BY <2>1, <2>2 DEF Sdus
  <2>4. NoSdu.len = 0
    BY DEF NoSdu, Sdu
  <2> QED BY <1>5, <1>10, <2>2, <2>3, <2>4 DEF End
<1>16. cur' \in Sdus
  <2>1. NoSdu \in Sdus
    BY DEF NoSdu, Sdu, Sdus
  <2> QED BY <1>15, <2>1
<1>17. queued' \in Nat /\ queued' = total' - base' - Len(got')
  <2>1. queued' = total' - base' - Len(got')
    BY <1>a, <1>2, <1>8, <1>10, <1>11, <1>12
  <2>2. base + Len(got) + n <= total
    BY <1>5, <1>7, <1>8, <1>9, <1>10 DEF NextByte, End
  <2> QED BY <1>2, <1>8, <1>10, <1>12, <2>1, <2>2
<1>18. /\ \A i \in 1..(Len(fifo') - 1) : fifo'[i + 1].at = End(fifo'[i])
       /\ fifo' # <<>> => End(fifo'[Len(fifo')]) = total' + 1
  <2>1. CASE cur # NoSdu
    BY <1>2, <1>4, <1>a, <2>1 DEF Adjacent, End
  <2>2. CASE cur = NoSdu
    <3>1. ASSUME NEW i \in 1..(Len(fifo') - 1) PROVE fifo'[i + 1].at = End(fifo'[i])
      <4>1. i \in 1..(Len(fifo) - 1) /\ i + 1 \in 1..(Len(fifo) - 1)
        BY <1>3, <2>2
      <4> QED BY <1>3, <1>a, <2>2, <4>1 DEF Adjacent, End
    <3>2. ASSUME fifo' # <<>> PROVE End(fifo'[Len(fifo')]) = total' + 1
      <4>1. Len(fifo') \in 1..(Len(fifo) - 1) /\ Len(fifo') + 1 = Len(fifo)
        BY <1>3, <2>2, <3>2
      <4> QED BY <1>2, <1>3, <1>a, <2>2, <4>1 DEF Adjacent, End
    <3> QED BY <3>1, <3>2
  <2> QED BY <2>1, <2>2
<1>19. StreamHeld'
  <2>1. cur' # NoSdu => cur'.at = NextByte' /\ End(cur') = FifoStart'
    BY <1>7, <1>14, <1>15
  <2>2. cur' = NoSdu => FifoStart' = NextByte'
    BY <1>5, <1>7, <1>8, <1>14, <1>15 DEF End
  <2> QED BY <1>17, <1>18, <2>1, <2>2 DEF StreamHeld, Adjacent, End
<1>20. SdusReal'
  <2>1. CASE cur # NoSdu
    BY <1>2, <1>4, <1>15, <2>1 DEF RxInv, SdusReal, End
  <2>2. CASE cur = NoSdu
    <3>1. ASSUME NEW i \in 1..Len(fifo')
          PROVE  fifo'[i].len >= 1 /\ End(fifo'[i]) <= total' + 1
      <4>1. i \in 1..(Len(fifo) - 1) /\ i + 1 \in 1..Len(fifo)
        BY <1>3, <2>2
      <4> QED BY <1>2, <1>3, <2>2, <4>1 DEF RxInv, SdusReal, End
    <3> QED BY <1>15, <3>1 DEF SdusReal, End
  <2> QED BY <2>1, <2>2
<1>21. BuffersConserved' /\ free' \in 0..PoolCount
  <2> DEFINE h == IF cur # NoSdu THEN 1 ELSE 0
             k == IF cur' # NoSdu THEN 1 ELSE 0
  <2>1. Held = Len(fifo) + h /\ Held' = Len(fifo') + k
    BY DEF Held
  <2>2. free + Held = PoolCount
    BY DEF RxInv, BuffersConserved
  <2>3. Len(fifo') + 1 = Len(fifo) + h
    BY <1>3, <1>4, <1>6
  <2>4. free' = free + (1 - k) /\ k \in 0..1 /\ h \in 0..1
    BY <1>8, <1>11, <1>15
  <2> HIDE DEF h, k
  <2>5. free' + Held' = PoolCount /\ free' \in Nat
    BY <1>6, <1>8, <2>1, <2>2, <2>3, <2>4, RxAssumption
  <2> QED BY <1>6, <2>1, <2>4, <2>5, RxAssumption DEF BuffersConserved
<1>22. Counts'
  BY <1>2, <1>6, <1>12, <1>16, <1>17, <1>21, <1>t DEF Counts
<1>23. BetweenSessions' /\ SeenDown'
  BY <1>2, <1>a DEF BetweenSessions, SeenDown
<1> QED BY <1>13, <1>19, <1>20, <1>21, <1>22, <1>23 DEF RxInv

(* Reclaiming, and the reboot, empty the queues. *)
LEMMA ReclaimStep ==
    ASSUME RxInv, Reclaim
    PROVE  RxInv'
<1>t. Counts /\ fifo \in Seq(Sdus)
  BY DEF RxInv, Counts
<1>1. /\ UNCHANGED <<pc, queued, conn, closing, peerGone, sawGone, total, base, got,
                     sessions>>
      /\ pc = "drain" /\ free' = free + 1
      /\ \/ cur # NoSdu /\ cur' = NoSdu /\ fifo' = fifo
         \/ cur = NoSdu /\ fifo # <<>> /\ fifo' = Tail(fifo) /\ cur' = cur
  BY DEF Reclaim, RecvComplete, link, ghosts
<1>2. /\ fifo' \in Seq(Sdus) /\ cur' = NoSdu /\ NoSdu \in Sdus
      /\ Len(fifo) \in Nat /\ Len(fifo') \in Nat
      /\ Len(fifo') + 1 = Len(fifo) + (IF cur # NoSdu THEN 1 ELSE 0)
  <2>1. NoSdu \in Sdus
    BY DEF NoSdu, Sdu, Sdus
  <2>2. CASE cur # NoSdu /\ cur' = NoSdu /\ fifo' = fifo
    BY <1>t, <2>1, <2>2
  <2>3. CASE cur = NoSdu /\ fifo # <<>> /\ fifo' = Tail(fifo) /\ cur' = cur
    BY <1>t, <2>1, <2>3, TailFacts
  <2> QED BY <1>1, <2>2, <2>3
<1>3. BuffersConserved' /\ free' \in 0..PoolCount
  <2> DEFINE h == IF cur # NoSdu THEN 1 ELSE 0
  <2>1. Held = Len(fifo) + h /\ Held' = Len(fifo') /\ h \in 0..1
    BY <1>2 DEF Held
  <2>2. free + Held = PoolCount /\ free \in Nat
    BY <1>t DEF RxInv, BuffersConserved, Counts
  <2> HIDE DEF h
  <2> QED BY <1>1, <1>2, <2>1, <2>2, RxAssumption DEF BuffersConserved, h
<1>4. Counts'
  BY <1>1, <1>2, <1>3, <1>t DEF Counts
<1>5. SdusReal'
  <2>1. CASE fifo' = fifo
    BY <1>1, <1>2, <2>1 DEF RxInv, SdusReal, End
  <2>2. CASE fifo # <<>> /\ fifo' = Tail(fifo)
    <3>1. ASSUME NEW i \in 1..Len(fifo')
          PROVE  fifo'[i].len >= 1 /\ End(fifo'[i]) <= total' + 1
      <4>1. i \in 1..(Len(fifo) - 1) /\ i + 1 \in 1..Len(fifo) /\ fifo'[i] = fifo[i + 1]
        BY <1>t, <2>2, TailFacts
      <4> QED BY <1>1, <4>1 DEF RxInv, SdusReal, End
    <3> QED BY <1>2, <3>1 DEF SdusReal, End
  <2> QED BY <1>1, <2>1, <2>2
<1>6. StreamHeld' /\ BetweenSessions' /\ SeenDown' /\ ReadsThisSession'
  BY <1>1
  DEF RxInv, StreamHeld, InSession, BetweenSessions, SeenDown, ReadsThisSession
<1> QED BY <1>3, <1>4, <1>5, <1>6 DEF RxInv

(* Every step of the host thread and of the main thread keeps it. *)
LEMMA RxStep ==
    ASSUME RxInv, [Next]_vars
    PROVE  RxInv'
<1>t. Counts
  BY DEF RxInv
<1>1. CASE l2cap_connected
  <2>1. /\ UNCHANGED <<pc, fifo, cur, queued, free, closing, sawGone, total>>
        /\ pc = "adv" /\ base' = total /\ got' = <<>> /\ sessions' = sessions + 1
    BY <1>1 DEF l2cap_connected, buffers
  <2>2. Counts'
    BY <1>t, <2>1 DEF Counts
  <2> QED
    BY <2>1, <2>2
    DEF RxInv, SdusReal, StreamHeld, InSession, BetweenSessions, SeenDown,
        BuffersConserved, Held, ReadsThisSession, End
<1>2. CASE l2cap_recv
  BY <1>2, RecvStep
<1>3. CASE RecvData
  BY <1>3, DataStep
<1>4. CASE Reclaim
  BY <1>4, ReclaimStep
<1>5. CASE sys_reboot
  <2>1. /\ pc' = "adv" /\ fifo' = <<>> /\ cur' = NoSdu /\ queued' = 0
        /\ free' = PoolCount /\ conn' = FALSE
        /\ UNCHANGED <<total, base, got, sessions>>
    BY <1>5 DEF sys_reboot, ghosts
  <2>2. Counts'
    <3>1. NoSdu \in Sdus
      BY DEF NoSdu, Sdu, Sdus
    <3> QED BY <1>t, <2>1, <3>1, RxAssumption DEF Counts
  <2>3. BuffersConserved'
    <3>1. Held' = 0
      <4>1. (IF cur' # NoSdu THEN 1 ELSE 0) = 0 /\ Len(fifo') = 0
        BY <2>1
      <4> QED BY <4>1 DEF Held
    <3> QED BY <2>1, <3>1, RxAssumption DEF BuffersConserved
  <2> QED
    BY <2>1, <2>2, <2>3
    DEF RxInv, SdusReal, StreamHeld, InSession, BetweenSessions, SeenDown,
        ReadsThisSession
<1>6. CASE ReclaimDone
  <2>1. /\ pc = "drain" /\ pc' = "adv" /\ fifo' = <<>> /\ cur' = NoSdu /\ queued' = 0
        /\ UNCHANGED <<fifo, cur, free, conn, closing, total, base, got, sessions>>
    BY <1>6 DEF ReclaimDone, ghosts
  <2>2. Counts'
    BY <1>t, <2>1 DEF Counts
  <2> QED
    BY <2>1, <2>2
    DEF RxInv, SdusReal, StreamHeld, InSession, BetweenSessions, SeenDown,
        BuffersConserved, Held, ReadsThisSession
<1>7. CASE \/ bt_disconnected \/ l2cap_disconnected \/ SessionStart \/ RecvNone
           \/ RecvCheck \/ RecvWait \/ SessionEnd \/ SessionFail \/ SelectionFailed
           \/ Rearm
  <2>1. /\ UNCHANGED <<buffers, ghosts, sessions>>
        /\ pc' \in {"adv", "idle", "check", "wait", "closed", "over", "drain"}
    BY <1>7, <1>t
    DEF bt_disconnected, l2cap_disconnected, SessionStart, RecvNone, RecvCheck, RecvWait,
        SessionEnd, SessionFail, SelectionFailed, Rearm, Cleanup, Counts
  <2>2. Counts'
    BY <1>t, <2>1 DEF Counts, buffers, ghosts
  <2>3. /\ InSession' /\ ~InSession => pc = "adv"
        /\ pc = "adv" /\ pc' # "adv" => conn /\ ~closing
        /\ pc' = "adv" => pc = "adv"
    BY <1>7
    DEF bt_disconnected, l2cap_disconnected, SessionStart, RecvNone, RecvCheck, RecvWait,
        SessionEnd, SessionFail, SelectionFailed, Rearm, Cleanup, InSession
  <2>4. BetweenSessions'
    BY <1>7
    DEF bt_disconnected, l2cap_disconnected, SessionStart, RecvNone, RecvCheck, RecvWait,
        SessionEnd, SessionFail, SelectionFailed, Rearm, Cleanup, buffers, ghosts, link,
        RxInv, BetweenSessions
  <2>5. SeenDown'
    BY <1>7
    DEF bt_disconnected, l2cap_disconnected, SessionStart, RecvNone, RecvCheck, RecvWait,
        SessionEnd, SessionFail, SelectionFailed, Rearm, Cleanup, buffers, link, RxInv,
        SeenDown
  <2> QED BY <2>1, <2>2, <2>3, <2>4, <2>5, QuietStep
<1>8. CASE UNCHANGED vars
  BY <1>8
  DEF vars, buffers, link, ghosts, RxInv, Counts, SdusReal, StreamHeld, InSession,
      Adjacent, NextByte, FifoStart, BetweenSessions, SeenDown, BuffersConserved, Held,
      ReadsThisSession, End
<1> QED
  BY <1>1, <1>2, <1>3, <1>4, <1>5, <1>6, <1>7, <1>8
  DEF Next, HostThread, RecvCall, MainLoop, Finished

(* The flags stay flags. *)
LEMMA FlagsStep ==
    ASSUME Flags, [Next]_vars
    PROVE  Flags'
<1> USE DEF Flags
<1>1. CASE HostThread
  BY <1>1, Zenon
  DEF HostThread, l2cap_connected, l2cap_recv, bt_disconnected, l2cap_disconnected, link
<1>2. CASE SessionStart \/ RecvCall
  BY <1>2, Zenon DEF SessionStart, RecvCall, RecvData, RecvNone, RecvCheck, RecvWait, link
<1>3. CASE MainLoop
  BY <1>3, Zenon
  DEF MainLoop, SelectionFailed, SessionEnd, SessionFail, Cleanup, sys_reboot, Rearm,
      Reclaim, ReclaimDone, link
<1>4. CASE UNCHANGED vars
  BY <1>4, Zenon DEF vars, link
<1> QED BY <1>1, <1>2, <1>3, <1>4 DEF Next, Finished

(* RxInv holds in every reachable state. *)
LEMMA RxInvariant == Spec => []RxInv
<1>1. RxInv /\ [Next]_vars => RxInv'
  BY RxStep
<1> QED BY <1>1, InitRx, PTL DEF Spec

-----------------------------------------------------------------------------
(* The queues, counters and flags of the receive path keep their types:    *)
(* the queue counter never wraps and the pool is never overfilled.         *)
THEOREM RxTypeCorrect == Spec => []TypeOK
<1>1. Init => Flags
  BY Zenon DEF Init, Flags
<1>2. Flags /\ [Next]_vars => Flags'
  BY FlagsStep
<1>3. RxInv /\ Flags => TypeOK
  BY DEF RxInv, Counts, Flags, TypeOK
<1> QED BY <1>1, <1>2, <1>3, RxInvariant, PTL DEF Spec

(* What wolfSSL reads is the stream of its session, from the first byte,   *)
(* in order and without a gap, for every pool, SDU and read size.          *)
THEOREM StreamRead == Spec => []ReadsThisSession
<1>1. RxInv => ReadsThisSession
  BY DEF RxInv
<1> QED BY <1>1, RxInvariant, PTL

(* No receive buffer is leaked or given back twice. *)
THEOREM BuffersKept == Spec => []BuffersConserved
<1>1. RxInv => BuffersConserved
  BY DEF RxInv
<1> QED BY <1>1, RxInvariant, PTL

(* A recv call that found the link down reports it closed only when        *)
(* everything received has been read.                                      *)
THEOREM DrainedWhenDown == Spec => []DrainedIfSeenDown
<1>1. RxInv => DrainedIfSeenDown
  BY DEF RxInv, SeenDown, DrainedIfSeenDown
<1> QED BY <1>1, RxInvariant, PTL

(* The queue counter is the number of bytes received and not yet read, and *)
(* is zero exactly when nothing is held.                                   *)
THEOREM QueueCounted == Spec => []NothingLost
<1>1. RxInv => NothingLost
  <2> SUFFICES ASSUME RxInv, InSession PROVE NothingLost
    BY DEF NothingLost
  <2>1. Adjacent /\ queued = total - base - Len(got) /\ Counts
    BY DEF RxInv, StreamHeld
  <2>2. /\ total \in Nat /\ base \in Nat /\ Len(got) \in Nat /\ queued \in Nat
        /\ fifo \in Seq(Sdus) /\ cur \in Sdus
    BY <2>1 DEF Counts
  <2>3. ASSUME cur = NoSdu, fifo = <<>> PROVE queued = 0
    BY <2>1, <2>2, <2>3 DEF Adjacent, FifoStart, NextByte
  <2>4. ASSUME fifo # <<>> PROVE fifo[1].at \in Nat /\ fifo[1].at <= total
    <3>1. 1 \in 1..Len(fifo)
      BY <2>2, <2>4, EmptySeq
    <3>2. fifo[1].at \in Nat /\ fifo[1].len \in Nat
      BY <2>2, <3>1, FifoFields
    <3>3. fifo[1].len >= 1 /\ End(fifo[1]) <= total + 1
      BY <3>1 DEF RxInv, SdusReal
    <3> QED BY <2>2, <3>2, <3>3 DEF End
  <2>5. ASSUME cur # NoSdu PROVE queued # 0
    <3>1. cur.len >= 1 /\ cur.at = NextByte /\ End(cur) = FifoStart
      BY <2>1, <2>5 DEF RxInv, SdusReal, Adjacent
    <3>2. cur.at \in Nat /\ cur.len \in Nat
      BY <2>2, SduFields
    <3>3. FifoStart <= total + 1
      BY <2>2, <2>4 DEF FifoStart
    <3> QED BY <2>1, <2>2, <3>1, <3>2, <3>3 DEF NextByte, End
  <2>6. ASSUME cur = NoSdu, fifo # <<>> PROVE queued # 0
    BY <2>1, <2>2, <2>4, <2>6 DEF Adjacent, FifoStart, NextByte
  <2> QED BY <2>1, <2>3, <2>5, <2>6 DEF NothingLost
<1> QED BY <1>1, RxInvariant, PTL

-----------------------------------------------------------------------------
(***************************************************************************)
(* The transmit path: the one buffer always has one owner, the peer never  *)
(* sees the stream go backwards, and, when no completion overtakes its     *)
(* timeout, the peer receives exactly the stream wolfSSL counts as sent.   *)
(***************************************************************************)
(* What a received SDU does to the peer's sequence. *)
LEMMA AppendChunk ==
    ASSUME NEW s \in Seq(Nat), NEW e \in Nat
    PROVE  /\ Append(s, e) \in Seq(Nat)
           /\ Len(Append(s, e)) = Len(s) + 1
           /\ Len(s) \in Nat
           /\ \A i \in 1..Len(s) : Append(s, e)[i] = s[i] /\ s[i] \in Nat
           /\ Append(s, e)[Len(s) + 1] = e
    OBVIOUS

(* Every step of the transmit path keeps its counters in their types. *)
LEMMA TxCountersStep == ASSUME Counters, [TxNext]_txVars PROVE Counters'
<1> USE TxAssumption DEF Counters, TxSdus, TxSdu, NoTxSdu
<1>1. CASE TlsStep
  <2>1. CASE SendCall BY <2>1 DEF SendCall, bounds, stack
  <2>2. CASE LoopAbort BY <2>2 DEF LoopAbort, ReturnSent, bounds, stack
  <2>3. CASE LoopAlloc BY <2>3 DEF LoopAlloc, bounds, stack
  <2>4. CASE LoopNoBuffer BY <2>4 DEF LoopNoBuffer, bounds, stack
  <2>5. CASE QueueOk BY <2>5 DEF QueueOk, Chunk, bounds, stack
  <2>6. CASE QueueFull BY <2>6 DEF QueueFull, bounds, stack
  <2>7. CASE QueueError BY <2>7 DEF QueueError, ReturnSent, bounds, stack
  <2>8. CASE WaitTaken BY <2>8 DEF WaitTaken, ReturnSent, bounds, stack
  <2>9. CASE WaitTimeout BY <2>9 DEF WaitTimeout, ReturnSent, bounds, stack
  <2> QED BY <1>1, <2>1, <2>2, <2>3, <2>4, <2>5, <2>6, <2>7, <2>8, <2>9 DEF TlsStep
<1>2. CASE ControlStep
  <2>1. CASE ControlStart BY <2>1 DEF ControlStart, bounds, stack
  <2>2. CASE ControlAlloc BY <2>2 DEF ControlAlloc, ControlReturn, bounds, stack
  <2>3. CASE ControlQueueOk BY <2>3 DEF ControlQueueOk, bounds, stack
  <2>4. CASE ControlQueueError BY <2>4 DEF ControlQueueError, ControlReturn, bounds, stack
  <2>5. CASE ControlWaitTaken BY <2>5 DEF ControlWaitTaken, ControlReturn, bounds, stack
  <2>6. CASE ControlTimeout BY <2>6 DEF ControlTimeout, ControlReturn, bounds, stack
  <2> QED BY <1>2, <2>1, <2>2, <2>3, <2>4, <2>5, <2>6 DEF ControlStep
<1>3. CASE Transmit
  BY <1>3, AppendChunk DEF Transmit, thread, bounds
<1>4. CASE ReleaseBuffer \/ l2cap_sent
  <2>1. CASE ReleaseBuffer BY <2>1 DEF ReleaseBuffer, thread, bounds
  <2>2. CASE l2cap_sent BY <2>2 DEF l2cap_sent, thread, bounds
  <2> QED BY <1>4, <2>1, <2>2
<1>5. CASE tx_bt_disconnected \/ tx_l2cap_disconnected \/ RxArrive \/ RxRead
  <2>1. CASE tx_bt_disconnected BY <2>1 DEF tx_bt_disconnected, thread, bounds, stack
  <2>2. CASE tx_l2cap_disconnected BY <2>2 DEF tx_l2cap_disconnected, thread, bounds
  <2>3. CASE RxArrive BY <2>3 DEF RxArrive, thread, bounds, stack
  <2>4. CASE RxRead BY <2>4 DEF RxRead, thread, bounds, stack
  <2> QED BY <1>5, <2>1, <2>2, <2>3, <2>4
<1>6. CASE UNCHANGED txVars
  BY <1>6 DEF txVars, thread, bounds, stack
<1> QED BY <1>1, <1>2, <1>3, <1>4, <1>5, <1>6 DEF TxNext, StackStep, Ended

(* And its flags. *)
LEMMA TxFlagsStep == ASSUME TxFlags, [TxNext]_txVars PROVE TxFlags'
<1> USE DEF TxFlags
<1>1. CASE TlsStep
  BY <1>1, Zenon DEF TlsStep, SendCall, LoopAbort, LoopAlloc, LoopNoBuffer, QueueOk,
     QueueFull, QueueError, WaitTaken, WaitTimeout, bounds, stack, txLink
<1>2. CASE ControlStep
  BY <1>2, Zenon DEF ControlStep, ControlStart, ControlAlloc, ControlQueueOk,
     ControlQueueError, ControlWaitTaken, ControlTimeout, bounds, stack, txLink
<1>3. CASE StackStep
  BY <1>3, Zenon DEF StackStep, Transmit, ReleaseBuffer, l2cap_sent, txLink
<1>4. CASE tx_bt_disconnected \/ tx_l2cap_disconnected \/ RxArrive \/ RxRead
  BY <1>4, Zenon DEF tx_bt_disconnected, tx_l2cap_disconnected, RxArrive, RxRead, stack
<1>5. CASE UNCHANGED txVars
  BY <1>5, Zenon DEF txVars, stack, txLink
<1> QED BY <1>1, <1>2, <1>3, <1>4, <1>5 DEF TxNext, Ended

(* The type invariant of the transmit path. *)
THEOREM TxTypeCorrect == TxSpec => []TxTypeOK
<1>1. TxInit => Counters BY DEF TxInit, Counters, TxSdus, TxSdu, NoTxSdu
<1>2. TxInit => TxFlags BY Zenon DEF TxInit, TxFlags
<1> QED BY <1>1, <1>2, TxCountersStep, TxFlagsStep, PTL DEF TxSpec, TxTypeOK

-----------------------------------------------------------------------------
(* The transmit buffer has exactly one owner while it is taken, in every   *)
(* interleaving of the thread with the stack and with the loss of the      *)
(* link, late completions included.                                        *)
THEOREM BufferOwned == TxSpec => []BufferOneOwner
<1>1. TxInit => BufferOneOwner BY DEF TxInit, BufferOneOwner, NoTxSdu, TxSdu
<1>2. ASSUME BufferOneOwner, TxFlags, [TxNext]_txVars PROVE BufferOneOwner'
  <2> USE <1>2 DEF BufferOneOwner, NoTxSdu, TxSdu
  <2>1. CASE TlsStep
    BY <2>1 DEF TlsStep, SendCall, LoopAbort, LoopAlloc, LoopNoBuffer, QueueOk, QueueFull,
       QueueError, WaitTaken, WaitTimeout, ReturnSent, Chunk, bounds, stack, txLink
  <2>2. CASE ControlStep
    BY <2>2 DEF ControlStep, ControlStart, ControlReturn, ControlAlloc, ControlQueueOk,
       ControlQueueError, ControlWaitTaken, ControlTimeout, bounds, stack, txLink
  <2>3. CASE StackStep
    BY <2>3 DEF StackStep, Transmit, ReleaseBuffer, l2cap_sent, thread, bounds, txLink
  <2>4. CASE tx_bt_disconnected \/ tx_l2cap_disconnected \/ RxArrive \/ RxRead
    <3>1. CASE tx_l2cap_disconnected
      BY <3>1, Zenon DEF tx_l2cap_disconnected, thread, TxFlags
    <3> QED BY <2>4, <3>1 DEF tx_bt_disconnected, RxArrive, RxRead, thread, stack
  <2>5. CASE UNCHANGED txVars
    BY <2>5 DEF txVars, thread, bounds, stack, txLink
  <2> QED BY <2>1, <2>2, <2>3, <2>4, <2>5 DEF TxNext, Ended
<1>3. TxTypeOK => TxFlags BY DEF TxTypeOK
<1> QED BY <1>1, <1>2, <1>3, TxTypeCorrect, PTL DEF TxSpec

-----------------------------------------------------------------------------
(* Whatever completions do, the stream never goes backwards at the peer. *)
THEOREM StreamInOrder == TxSpec => []InOrder
<1>1. TxInit => OrderInv
  BY DEF TxInit, OrderInv, InOrder, CallShape, InCall, Counters, TxSdus, TxSdu, NoTxSdu
<1>2. ASSUME OrderInv, [TxNext]_txVars PROVE OrderInv'
  <2>1. Counters' BY <1>2, TxCountersStep DEF OrderInv
  <2> USE <1>2, <2>1 DEF OrderInv, InOrder, CallShape, InCall, NoTxSdu, TxSdu
  <2>2. CASE TlsStep
    <3>1. CASE SendCall BY <3>1 DEF SendCall, stack, Counters
    <3>2. CASE LoopAbort BY <3>2 DEF LoopAbort, ReturnSent, stack, Counters
    <3>3. CASE LoopAlloc BY <3>3 DEF LoopAlloc, stack, Counters
    <3>4. CASE LoopNoBuffer BY <3>4 DEF LoopNoBuffer, stack, Counters
    <3>5. CASE QueueOk BY <3>5 DEF QueueOk, Chunk, stack, Counters
    <3>6. CASE QueueFull BY <3>6 DEF QueueFull, stack, Counters
    <3>7. CASE QueueError BY <3>7 DEF QueueError, ReturnSent, stack, Counters
    <3>8. CASE WaitTaken
      <4>1. /\ accepted' + sent' >= accepted + sent /\ accepted' + sent' \in Nat
            /\ accepted + sent \in Nat /\ CallShape'
        <5>1. accepted \in Nat /\ sent \in Nat /\ sz \in Nat /\ sent < sz
          BY <3>8 DEF WaitTaken, Counters
        <5>2. CASE ~txConn \/ txPeerGone BY <3>8, <5>1, <5>2 DEF WaitTaken, ReturnSent
        <5>3. CASE ~(~txConn \/ txPeerGone) BY <3>8, <5>1, <5>3 DEF WaitTaken
        <5> QED BY <5>2, <5>3
      <4>2. peer' = peer /\ flying' = flying /\ flying.n \in Nat /\ peer \in Seq(Nat)
        BY <3>8 DEF WaitTaken, stack, Counters, TxSdus
      <4>3. \A i \in 1..Len(peer) : peer[i] \in Nat BY <4>2
      <4> QED BY <4>1, <4>2, <4>3
    <3>9. CASE WaitTimeout BY <3>9 DEF WaitTimeout, ReturnSent, stack, Counters
    <3> QED BY <2>2, <3>1, <3>2, <3>3, <3>4, <3>5, <3>6, <3>7, <3>8, <3>9 DEF TlsStep
  <2>3. CASE ControlStep
    <3>1. CASE ControlStart BY <3>1 DEF ControlStart, stack, Counters
    <3>2. CASE ControlAlloc BY <3>2 DEF ControlAlloc, ControlReturn, stack, Counters
    <3>3. CASE ControlQueueOk BY <3>3 DEF ControlQueueOk, stack, Counters
    <3>4. CASE ControlQueueError
      BY <3>4 DEF ControlQueueError, ControlReturn, stack, Counters
    <3>5. CASE ControlWaitTaken BY <3>5 DEF ControlWaitTaken, ControlReturn, stack, Counters
    <3>6. CASE ControlTimeout BY <3>6 DEF ControlTimeout, ControlReturn, stack, Counters
    <3> QED BY <2>3, <3>1, <3>2, <3>3, <3>4, <3>5, <3>6 DEF ControlStep
  <2>4. CASE Transmit
    <3>1. CASE flying.kind = "tls"
      <4>1. flying.n \in Nat /\ peer \in Seq(Nat) BY DEF Counters, TxSdus
      <4>2. peer' = Append(peer, flying.n) BY <2>4, <3>1 DEF Transmit
      <4>3. \A i \in 1..Len(peer)' : peer'[i] <= flying.n
        BY <3>1, <4>1, <4>2, AppendChunk
      <4>4. InOrder' BY <3>1, <4>1, <4>2, <4>3, AppendChunk
      <4> QED
        BY <2>4, <3>1, <4>1, <4>2, <4>3, <4>4, AppendChunk DEF Transmit, thread, Counters
    <3>2. CASE flying.kind # "tls"
      BY <2>4, <3>2 DEF Transmit, thread
    <3> QED BY <3>1, <3>2
  <2>5. CASE ReleaseBuffer \/ l2cap_sent
    BY <2>5 DEF ReleaseBuffer, l2cap_sent, thread
  <2>6. CASE tx_bt_disconnected \/ tx_l2cap_disconnected \/ RxArrive \/ RxRead
    BY <2>6 DEF tx_bt_disconnected, tx_l2cap_disconnected, RxArrive, RxRead, thread, stack
  <2>7. CASE UNCHANGED txVars
    BY <2>7 DEF txVars, thread, stack
  <2> QED BY <2>2, <2>3, <2>4, <2>5, <2>6, <2>7 DEF TxNext, StackStep, Ended
<1>3. OrderInv => InOrder BY DEF OrderInv
<1> QED BY <1>1, <1>2, <1>3, PTL DEF TxSpec

-----------------------------------------------------------------------------
(* One step keeps the invariant behind StreamIntact: the thread and the    *)
(* stack agree on the one chunk that may be under way.                     *)
LEMMA PromptStep ==
    ASSUME ~LateCompletion, PromptInv, TxFlags, [TxNext]_txVars
    PROVE  PromptInv'
<1>1. Counters' BY TxCountersStep DEF PromptInv
<1>a. /\ accepted \in Nat /\ sent \in Nat /\ sz \in Nat /\ cbDue \in Nat /\ sem \in {0, 1}
      /\ flying \in TxSdus /\ peer \in Seq(Nat) /\ Len(peer) \in Nat
  BY DEF PromptInv, Counters
<1> USE <1>1, <1>a DEF PromptInv, StreamIntact, CallShape, InCall, StackQuiet, OneCompletion,
        Delivered, Chunk, NoTxSdu, TxSdu
<1>2. CASE TlsStep
  <2>1. CASE SendCall
    BY <2>1 DEF SendCall, stack, txLink
  <2>2. CASE LoopAbort
    BY <2>2 DEF LoopAbort, ReturnSent, stack, txLink
  <2>3. CASE LoopAlloc
    BY <2>3 DEF LoopAlloc, stack, txLink
  <2>4. CASE LoopNoBuffer
    BY <2>4 DEF LoopNoBuffer, stack, txLink
  <2>5. CASE QueueOk
    BY <2>5 DEF QueueOk, Chunk, stack, txLink
  <2>6. CASE QueueFull
    BY <2>6 DEF QueueFull, stack, txLink
  <2>7. CASE QueueError
    BY <2>7 DEF QueueError, ReturnSent, stack, txLink
  <2>8. CASE WaitTaken
    BY <2>8 DEF WaitTaken, ReturnSent, stack, txLink
  <2>9. CASE WaitTimeout
    BY <2>9 DEF WaitTimeout, ReturnSent, MayTimeOut, stack, txLink
  <2> QED BY <1>2, <2>1, <2>2, <2>3, <2>4, <2>5, <2>6, <2>7, <2>8, <2>9 DEF TlsStep
<1>3. CASE ControlStep
  <2>1. CASE ControlStart
    BY <2>1 DEF ControlStart, stack, txLink
  <2>2. CASE ControlAlloc
    BY <2>2 DEF ControlAlloc, ControlReturn, stack, txLink
  <2>3. CASE ControlQueueOk
    BY <2>3 DEF ControlQueueOk, stack, txLink
  <2>4. CASE ControlQueueError
    BY <2>4 DEF ControlQueueError, ControlReturn, stack, txLink
  <2>5. CASE ControlWaitTaken
    BY <2>5 DEF ControlWaitTaken, ControlReturn, stack, txLink
  <2>6. CASE ControlTimeout
    BY <2>6 DEF ControlTimeout, ControlReturn, MayTimeOut, stack, txLink
  <2> QED BY <1>3, <2>1, <2>2, <2>3, <2>4, <2>5, <2>6 DEF ControlStep
<1>4. CASE Transmit
  BY <1>4, AppendChunk DEF Transmit, thread, txLink, TxSdus
<1>5. CASE ReleaseBuffer BY <1>5 DEF ReleaseBuffer, thread, txLink
<1>6. CASE l2cap_sent BY <1>6 DEF l2cap_sent, thread, txLink
<1>7. CASE tx_bt_disconnected BY <1>7 DEF tx_bt_disconnected, thread, stack
<1>8. CASE tx_l2cap_disconnected BY <1>8 DEF tx_l2cap_disconnected, thread
<1>9. CASE RxArrive \/ RxRead BY <1>9 DEF RxArrive, RxRead, thread, stack
<1>10. CASE UNCHANGED txVars BY <1>10 DEF txVars, thread, stack, txLink
<1> QED
  BY <1>2, <1>3, <1>4, <1>5, <1>6, <1>7, <1>8, <1>9, <1>10 DEF TxNext, StackStep, Ended

(* When no completion overtakes its timeout, the peer receives exactly the *)
(* TLS stream in order, and the send callback's count is what the peer has *)
(* (short by at most the chunk under way).                                 *)
THEOREM StreamDelivered == ASSUME ~LateCompletion PROVE TxSpec => []StreamIntact
<1>1. TxInit => PromptInv
  BY
  DEF TxInit, PromptInv, Counters, TxSdus, TxSdu, NoTxSdu, StreamIntact, CallShape, InCall,
     StackQuiet, OneCompletion, Delivered, Chunk
<1>2. PromptInv /\ TxFlags /\ [TxNext]_txVars => PromptInv' BY PromptStep
<1>3. PromptInv => StreamIntact BY DEF PromptInv
<1>4. TxTypeOK => TxFlags BY DEF TxTypeOK
<1> QED BY <1>1, <1>2, <1>3, <1>4, TxTypeCorrect, PTL DEF TxSpec
=============================================================================
