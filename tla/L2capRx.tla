------------------------------ MODULE L2capRx -------------------------------
(***************************************************************************)
(* The receive path of the device firmware (main.c): l2cap_recv queues the *)
(* SDUs of the Bluetooth host thread, l2cap_wolfssl_recv hands their bytes *)
(* to wolfSSL on the main thread, and the main loop reclaims what is left  *)
(* before it serves the next connection.                                   *)
(*                                                                         *)
(* The bytes the peer sends are numbered 1, 2, ... over all sessions; an   *)
(* SDU is the interval of them it carries.  The host thread preempts the   *)
(* main thread, so a callback is one step and l2cap_wolfssl_recv is        *)
(* several.  rx_sem is left out: the wait for it ends within 50 ms either  *)
(* way, and returns WANT_READ either way.                                  *)
(***************************************************************************)
EXTENDS Integers, Sequences

CONSTANTS
    PoolCount,   \* L2CAP_RX_POOL_COUNT
    MaxSdu,      \* bound: bytes of an SDU
    MaxRead,     \* bound: bytes wolfSSL asks for
    MaxBytes,    \* bound: bytes the peer sends
    MaxSessions  \* bound: connections

ASSUME RxAssumption ==
    /\ PoolCount \in Nat \ {0} /\ MaxSdu \in Nat \ {0} /\ MaxRead \in Nat \ {0}
    /\ MaxBytes \in Nat /\ MaxSessions \in Nat

VARIABLES
    pc,        \* the main thread: the main loop, or a point of the recv call
    fifo,      \* l2cap_rx_fifo
    cur,       \* l2cap_rx_current
    queued,    \* l2cap_rx_queued_bytes
    free,      \* buffers left in l2cap_rx_pool
    conn,      \* chan->conn
    closing,   \* a disconnect has been requested and not yet completed
    peerGone,  \* l2cap_peer_disconnected
    sawGone,   \* peerGone held when the recv call found the FIFO empty
    total,     \* bytes received so far, over all sessions
    base,      \* total when this session's channel connected
    got,       \* bytes wolfSSL has read in this session
    sessions   \* connections so far (bounds the model)

buffers == <<fifo, cur, queued, free>>
link == <<conn, closing, peerGone>>
ghosts == <<total, base, got>>
vars == <<pc, buffers, link, sawGone, ghosts, sessions>>

(* The bytes at, at + 1, ..., at + len - 1. *)
Sdu(at, len) == [at |-> at, len |-> len]
NoSdu == Sdu(0, 0)
Sdus == [at : Nat, len : Nat]

TypeOK ==
    /\ pc \in {"adv", "idle", "check", "wait", "closed", "over", "drain"}
    /\ fifo \in Seq(Sdus) /\ cur \in Sdus
    /\ queued \in Nat /\ free \in 0..PoolCount
    /\ conn \in BOOLEAN /\ closing \in BOOLEAN /\ peerGone \in BOOLEAN
    /\ sawGone \in BOOLEAN
    /\ total \in Nat /\ base \in Nat /\ got \in Seq(Nat) /\ sessions \in Nat

Init ==
    /\ pc = "adv"
    /\ fifo = <<>> /\ cur = NoSdu /\ queued = 0 /\ free = PoolCount
    /\ conn = FALSE /\ closing = FALSE /\ peerGone = FALSE /\ sawGone = FALSE
    /\ total = 0 /\ base = 0 /\ got = <<>> /\ sessions = 0

-----------------------------------------------------------------------------
(* The Bluetooth host thread. *)

(* A new channel comes only while the board advertises.  One that is lost  *)
(* before the main loop serves it carried no TLS bytes.                    *)
l2cap_connected ==
    /\ pc = "adv" /\ ~conn /\ sessions < MaxSessions
    /\ sessions' = sessions + 1
    /\ conn' = TRUE /\ peerGone' = FALSE
    /\ base' = total /\ got' = <<>>
    /\ UNCHANGED <<pc, buffers, closing, sawGone, total>>

(***************************************************************************)
(* l2cap_alloc_buf and l2cap_recv of an SDU of TLS bytes: counted, queued, *)
(* and kept, with its credit, until it is consumed.  A control frame only  *)
(* selects the PKI profile and its buffer goes back at once.  An SDU that  *)
(* finds no buffer for 100 ms makes the stack close the channel.  The TLS  *)
(* server speaks only once the session has begun.                          *)
(***************************************************************************)
l2cap_recv ==
    /\ pc # "adv"
    /\ conn /\ ~closing /\ ~peerGone
    /\ free > 0
    /\ \E n \in 1..MaxSdu :
         /\ total + n <= MaxBytes
         /\ fifo' = Append(fifo, Sdu(total + 1, n))
         /\ queued' = queued + n
         /\ total' = total + n
    /\ free' = free - 1
    /\ UNCHANGED <<pc, cur, link, sawGone, base, got, sessions>>

bt_disconnected ==
    /\ conn /\ ~peerGone
    /\ peerGone' = TRUE
    /\ UNCHANGED <<pc, buffers, conn, closing, sawGone, ghosts, sessions>>

l2cap_disconnected ==
    /\ conn
    /\ conn' = FALSE /\ closing' = FALSE /\ peerGone' = TRUE
    /\ UNCHANGED <<pc, buffers, sawGone, ghosts, sessions>>

-----------------------------------------------------------------------------
RecvCompleteNot == UNCHANGED free     \* mutant: the buffer is not given back

(* bt_l2cap_chan_recv_complete: the buffer and the credit go back. *)
RecvComplete == free' = free + 1

(* l2cap_connected_sem wakes the main loop, which serves the session; the  *)
(* give of a channel that is being closed was reset with the queues.       *)
SessionStart ==
    /\ pc = "adv" /\ conn /\ ~closing
    /\ pc' = "idle"
    /\ UNCHANGED <<buffers, link, sawGone, ghosts, sessions>>

BytesShort(sdu, n) == [i \in 1..(n - 1) |-> sdu.at + i - 1]  \* mutant

Bytes(sdu, n) == [i \in 1..n |-> sdu.at + i - 1]

(* A call that finds data: the current SDU, or the next one of the FIFO. *)
RecvData ==
    /\ pc = "idle"
    /\ cur # NoSdu \/ fifo # <<>>
    /\ \E want \in 1..MaxRead :
         LET sdu == IF cur # NoSdu THEN cur ELSE Head(fifo)
             n == IF want < sdu.len THEN want ELSE sdu.len
         IN  /\ got' = got \o Bytes(sdu, n)
             /\ queued' = queued - n
             /\ IF n = sdu.len
                THEN cur' = NoSdu /\ RecvComplete
                ELSE cur' = Sdu(sdu.at + n, sdu.len - n) /\ UNCHANGED free
    /\ fifo' = IF cur # NoSdu THEN fifo ELSE Tail(fifo)
    /\ UNCHANGED <<pc, link, sawGone, total, base, sessions>>

RecvNoneEarly ==  \* mutant: the link is looked at before the FIFO
    /\ pc = "idle" /\ cur = NoSdu
    /\ pc' = "check"
    /\ sawGone' = (peerGone \/ ~conn)
    /\ UNCHANGED <<buffers, link, ghosts, sessions>>

(* A call that finds none goes on to look at the link. *)
RecvNone ==
    /\ pc = "idle" /\ cur = NoSdu /\ fifo = <<>>
    /\ pc' = "check"
    /\ sawGone' = (peerGone \/ ~conn)
    /\ UNCHANGED <<buffers, link, ghosts, sessions>>

(* WOLFSSL_CBIO_ERR_CONN_CLOSE, or the bounded wait. *)
RecvCheck ==
    /\ pc = "check"
    /\ pc' = IF ~conn \/ peerGone THEN "closed" ELSE "wait"
    /\ UNCHANGED <<buffers, link, sawGone, ghosts, sessions>>

RecvWait ==
    /\ pc = "wait"
    /\ pc' = "idle"
    /\ UNCHANGED <<buffers, link, sawGone, ghosts, sessions>>

-----------------------------------------------------------------------------
(* The session ends, of its own accord or because wolfSSL fails on the     *)
(* closed link; the main loop asks for the disconnect of the ACL.          *)
Cleanup ==
    /\ pc' = "over"
    /\ closing' = conn
    /\ UNCHANGED <<buffers, conn, peerGone, sawGone, ghosts, sessions>>

SessionEnd == pc = "idle" /\ Cleanup

SessionFail == pc = "closed" /\ Cleanup

(* Without a valid PKI selection only the channel is closed, and the loop  *)
(* starts over without waiting for it.                                     *)
SelectionFailed ==
    /\ pc = "idle" /\ got = <<>>
    /\ pc' = "drain"
    /\ closing' = conn
    /\ UNCHANGED <<buffers, conn, peerGone, sawGone, ghosts, sessions>>

(* BENCH_REBOOT_AFTER_SESSION, or no disconnect event within 5 s. *)
sys_reboot ==
    /\ pc = "over"
    /\ pc' = "adv"
    /\ fifo' = <<>> /\ cur' = NoSdu /\ queued' = 0 /\ free' = PoolCount
    /\ conn' = FALSE /\ closing' = FALSE /\ peerGone' = FALSE
    /\ UNCHANGED <<sawGone, ghosts, sessions>>

(* The other build: the channel object is cleared once the link is down. *)
Rearm ==
    /\ pc = "over" /\ peerGone
    /\ pc' = "drain"
    /\ conn' = FALSE /\ closing' = FALSE
    /\ UNCHANGED <<buffers, peerGone, sawGone, ghosts, sessions>>

(* The top of the main loop: the current SDU, then the FIFO, one by one. *)
Reclaim ==
    /\ pc = "drain"
    /\ \/ cur # NoSdu /\ cur' = NoSdu /\ UNCHANGED fifo
       \/ cur = NoSdu /\ fifo # <<>> /\ fifo' = Tail(fifo) /\ UNCHANGED cur
    /\ RecvComplete
    /\ UNCHANGED <<pc, queued, link, sawGone, ghosts, sessions>>

ReclaimDoneEarly ==  \* mutant: only the current SDU is reclaimed
    /\ pc = "drain" /\ cur = NoSdu
    /\ queued' = 0 /\ peerGone' = FALSE
    /\ pc' = "adv"
    /\ UNCHANGED <<fifo, cur, free, conn, closing, sawGone, ghosts, sessions>>

ReclaimDone ==
    /\ pc = "drain" /\ cur = NoSdu /\ fifo = <<>>
    /\ queued' = 0 /\ peerGone' = FALSE
    /\ pc' = "adv"
    /\ UNCHANGED <<fifo, cur, free, conn, closing, sawGone, ghosts, sessions>>

-----------------------------------------------------------------------------
HostThread == l2cap_connected \/ l2cap_recv \/ bt_disconnected \/ l2cap_disconnected

RecvCall == RecvData \/ RecvNone \/ RecvCheck \/ RecvWait

MainLoop ==
    \/ SelectionFailed \/ SessionEnd \/ SessionFail \/ sys_reboot \/ Rearm
    \/ Reclaim \/ ReclaimDone

Finished ==
    /\ pc = "adv" /\ ~conn /\ sessions = MaxSessions
    /\ UNCHANGED vars

Next == HostThread \/ SessionStart \/ RecvCall \/ MainLoop \/ Finished

Spec == Init /\ [][Next]_vars

(* The main thread runs, all its waits are bounded, and wolfSSL's fatal    *)
(* error ends the session.  The peer and the stack owe nothing.            *)
FairSpec ==
    /\ Spec
    /\ WF_vars(SessionStart) /\ WF_vars(RecvCall) /\ WF_vars(SessionFail)
    /\ WF_vars(sys_reboot \/ Rearm) /\ WF_vars(Reclaim) /\ WF_vars(ReclaimDone)

-----------------------------------------------------------------------------
Held == Len(fifo) + (IF cur # NoSdu THEN 1 ELSE 0)

InSession == pc \in {"idle", "check", "wait", "closed"}

(* What wolfSSL reads in a session is the stream of that session from its  *)
(* first byte, in order, whole: nothing of an earlier session and nothing  *)
(* twice, through partial reads, lost links, reclaimed queues and reboots. *)
ReadsThisSession ==
    pc # "adv" => \A i \in 1..Len(got) : got[i] = base + i

(* During a session no received byte is lost: those not yet read lie in    *)
(* the current SDU and the FIFO, and the queue counter is their number.    *)
NothingLost ==
    InSession =>
        /\ queued = total - base - Len(got)
        /\ queued = 0 <=> cur = NoSdu /\ fifo = <<>>

(* Every receive buffer is in the pool, in the FIFO or being read: none is *)
(* leaked, which would take a credit from the peer for good, and none is   *)
(* given back twice.                                                       *)
BuffersConserved == free + Held = PoolCount

(* "Drain data that was already received before treating the transport as  *)
(* closed": a recv call that finds the link already down reports it closed *)
(* only when no received byte is left unread.                              *)
DrainedIfSeenDown == pc = "closed" /\ sawGone => cur = NoSdu /\ fifo = <<>>

(* The same, for every recv call that reports the link closed. *)
DrainedBeforeClose == pc = "closed" => cur = NoSdu /\ fifo = <<>>

(* The peer is never left without credit: a full pool gets room again. *)
CreditReturns == free = 0 ~> free > 0
=============================================================================
