------------------------------ MODULE L2capTx -------------------------------
(***************************************************************************)
(* The transmit path of the device firmware (main.c): wolfSSL's send       *)
(* callback l2cap_wolfssl_send and the telemetry sender                    *)
(* benchmark_control_send, both on the main thread, over one L2CAP channel *)
(* with a transmit pool of a single buffer and a binary completion         *)
(* semaphore, against the callbacks of the Bluetooth host thread.          *)
(*                                                                         *)
(* Data is counted in chunks of one SDU.  The TLS stream of the session is *)
(* chunks 1..NChunks; wolfSSL offers the rest of it, call after call, and  *)
(* advances by what each call returns.  The Bluetooth stack is external:   *)
(* it transmits the queued SDU, and then releases its buffer and reports   *)
(* it sent in either order.                                                *)
(***************************************************************************)
EXTENDS Integers, Sequences

CONSTANTS
    NChunks,         \* length of the TLS stream
    MaxCalls,        \* bound: calls of the send callback
    MaxControl,      \* bound: telemetry messages sent
    CtlFragments,    \* fragments of a telemetry message
    MaxRetries,      \* bound: "radio full" answers of the stack
    LateCompletion   \* TRUE when a completion may come after the wait for it
                     \* has timed out

ASSUME TxAssumption ==
    /\ NChunks \in Nat /\ MaxCalls \in Nat /\ MaxControl \in Nat /\ MaxRetries \in Nat
    /\ CtlFragments \in Nat \ {0}
    /\ LateCompletion \in BOOLEAN

VARIABLES
    txPc,      \* the main thread: between calls, or a point of a call
    accepted,  \* chunks that returned calls reported as sent
    sz,        \* chunks this call was asked to send
    sent,      \* chunks this call counts as sent
    frag,      \* fragment of the telemetry message under way
    calls,     \* calls of the send callback (bounds the model)
    controls,  \* telemetry messages started (bounds the model)
    retries,   \* "radio full" answers (bounds the model)
    sem,       \* l2cap_tx_complete_sem
    held,      \* the pool's buffer is taken
    flying,    \* the SDU queued in the stack
    cbDue,     \* l2cap_sent callbacks the stack still owes
    relDue,    \* the stack has still to release the buffer of a sent SDU
    txConn,    \* chan->conn
    txPeerGone, \* l2cap_peer_disconnected
    rxPending, \* received SDUs not yet read by wolfSSL
    peer       \* TLS chunks the peer has received, in order

thread == <<txPc, accepted, sz, sent, frag>>
bounds == <<calls, controls, retries>>
stack == <<flying, cbDue, relDue>>
txLink == <<txConn, txPeerGone, rxPending>>
txVars == <<thread, bounds, sem, held, stack, txLink, peer>>

(* A queued SDU: chunk n of the TLS stream, or fragment n of telemetry. *)
TxSdu(kind, n) == [kind |-> kind, n |-> n]
NoTxSdu == TxSdu("none", 0)
TxSdus == [kind : {"none", "tls", "ctl"}, n : Nat]

Counters ==
    /\ txPc \in {"idle", "loop", "queue", "wait", "ctl_alloc", "ctl_queue", "ctl_wait"}
    /\ accepted \in Nat /\ sz \in Nat /\ sent \in Nat /\ frag \in Nat
    /\ calls \in Nat /\ controls \in Nat /\ retries \in Nat
    /\ sem \in {0, 1} /\ cbDue \in Nat
    /\ flying \in TxSdus /\ peer \in Seq(Nat)

TxFlags ==
    /\ held \in BOOLEAN /\ relDue \in BOOLEAN
    /\ txConn \in BOOLEAN /\ txPeerGone \in BOOLEAN /\ rxPending \in BOOLEAN

TxTypeOK == Counters /\ TxFlags

(* The channel just connected: l2cap_connected has reset the semaphore. *)
TxInit ==
    /\ txPc = "idle" /\ accepted = 0 /\ sz = 0 /\ sent = 0 /\ frag = 0
    /\ calls = 0 /\ controls = 0 /\ retries = 0
    /\ sem = 0 /\ held = FALSE
    /\ flying = NoTxSdu /\ cbDue = 0 /\ relDue = FALSE
    /\ txConn = TRUE /\ txPeerGone = FALSE /\ rxPending = FALSE
    /\ peer = <<>>

-----------------------------------------------------------------------------
ReturnSentNothing ==  \* mutant: an aborted call reports no progress
    /\ txPc' = "idle"
    /\ sz' = 0 /\ sent' = 0
    /\ UNCHANGED <<accepted, frag>>

(***************************************************************************)
(* SEND_RETURN(sent > 0 ? sent : error).  wolfSSL keeps what was not       *)
(* counted and offers it again in its next call: the retry after           *)
(* WANT_READ, or the close_notify that follows a fatal error.              *)
(***************************************************************************)
ReturnSent ==
    /\ txPc' = "idle"
    /\ accepted' = accepted + sent
    /\ sz' = 0 /\ sent' = 0
    /\ UNCHANGED frag

Chunk == TxSdu("tls", accepted + sent + 1)

(* The checks on entry, which repeat before every attempt of a chunk: what *)
(* the peer sent before it closed is read first (WANT_READ).               *)
MustDrain == txPeerGone /\ rxPending

SendCall ==
    /\ txPc = "idle" /\ accepted < NChunks
    /\ calls < MaxCalls /\ calls' = calls + 1
    /\ ~MustDrain /\ txConn
    /\ sz' \in 1..(NChunks - accepted)
    /\ txPc' = "loop"
    /\ UNCHANGED <<accepted, sent, frag, controls, retries, sem, held, stack, txLink, peer>>

LoopAbort ==
    /\ txPc = "loop"
    /\ MustDrain \/ ~txConn
    /\ ReturnSent
    /\ UNCHANGED <<bounds, sem, held, stack, txLink, peer>>

(* A fresh buffer, then k_sem_reset. *)
LoopAlloc ==
    /\ txPc = "loop" /\ ~MustDrain /\ txConn
    /\ ~held
    /\ held' = TRUE
    /\ sem' = 0
    /\ txPc' = "queue"
    /\ UNCHANGED <<accepted, sz, sent, frag, bounds, stack, txLink, peer>>

(* No buffer within 10 ms: `continue` evaluates the loop condition with    *)
(* err = 0 and leaves the loop for the wait, with nothing queued.          *)
LoopNoBuffer ==
    /\ txPc = "loop" /\ ~MustDrain /\ txConn
    /\ held
    /\ txPc' = "wait"
    /\ UNCHANGED <<accepted, sz, sent, frag, bounds, sem, held, stack, txLink, peer>>

QueueOk ==
    /\ txPc = "queue" /\ txConn /\ ~txPeerGone
    /\ flying' = Chunk
    /\ txPc' = "wait"
    /\ UNCHANGED <<accepted, sz, sent, frag, bounds, sem, held, cbDue, relDue, txLink, peer>>

(* -EAGAIN or -ENOMEM: unref, sleep, rebuild. *)
QueueFull ==
    /\ txPc = "queue" /\ txConn /\ ~txPeerGone
    /\ retries < MaxRetries
    /\ retries' = retries + 1
    /\ held' = FALSE
    /\ txPc' = "loop"
    /\ UNCHANGED <<accepted, sz, sent, frag, calls, controls, sem, stack, txLink, peer>>

QueueErrorLeaks ==  \* mutant: no unref on the error path
    /\ txPc = "queue" /\ (~txConn \/ txPeerGone)
    /\ ReturnSent
    /\ UNCHANGED <<bounds, sem, held, stack, txLink, peer>>

(* Any other error: the link is gone. *)
QueueError ==
    /\ txPc = "queue" /\ (~txConn \/ txPeerGone)
    /\ held' = FALSE
    /\ ReturnSent
    /\ UNCHANGED <<bounds, sem, stack, txLink, peer>>

WaitTaken ==
    /\ txPc = "wait" /\ sem = 1
    /\ sem' = 0
    /\ IF ~txConn \/ txPeerGone
       THEN ReturnSent
       ELSE /\ IF sent + 1 < sz
               THEN txPc' = "loop" /\ sent' = sent + 1 /\ UNCHANGED <<accepted, sz>>
               ELSE txPc' = "idle" /\ accepted' = accepted + sz /\ sent' = 0 /\ sz' = 0
            /\ UNCHANGED frag
    /\ UNCHANGED <<bounds, held, stack, txLink, peer>>

(* A completion still owed can only be overtaken by the timeout when       *)
(* LateCompletion is TRUE.                                                 *)
MayTimeOut == sem = 0 /\ (LateCompletion \/ (flying = NoTxSdu /\ cbDue = 0))

WaitTimeoutCounts ==  \* mutant: a timed-out chunk is counted as sent
    /\ txPc = "wait" /\ MayTimeOut
    /\ txPc' = "idle" /\ accepted' = accepted + sent + 1
    /\ sz' = 0 /\ sent' = 0
    /\ UNCHANGED <<frag, bounds, sem, held, stack, txLink, peer>>

WaitTimeoutNever == FALSE /\ UNCHANGED txVars  \* mutant: K_FOREVER

WaitTimeout ==
    /\ txPc = "wait" /\ MayTimeOut
    /\ ReturnSent
    /\ UNCHANGED <<bounds, sem, held, stack, txLink, peer>>

-----------------------------------------------------------------------------
(* benchmark_control_send; benchmark_output ignores what it returns. *)
ControlStart ==
    /\ txPc = "idle" /\ controls < MaxControl
    /\ txConn /\ ~txPeerGone
    /\ controls' = controls + 1
    /\ sem' = 0
    /\ frag' = 1
    /\ txPc' = "ctl_alloc"
    /\ UNCHANGED <<accepted, sz, sent, calls, retries, held, stack, txLink, peer>>

ControlReturn == txPc' = "idle" /\ frag' = 0

(* No buffer within 100 ms: -ENOMEM. *)
ControlAlloc ==
    /\ txPc = "ctl_alloc"
    /\ IF held
       THEN ControlReturn /\ UNCHANGED held
       ELSE held' = TRUE /\ txPc' = "ctl_queue" /\ UNCHANGED frag
    /\ UNCHANGED <<accepted, sz, sent, bounds, sem, stack, txLink, peer>>

ControlQueueOk ==
    /\ txPc = "ctl_queue" /\ txConn /\ ~txPeerGone
    /\ flying' = TxSdu("ctl", frag)
    /\ txPc' = "ctl_wait"
    /\ UNCHANGED <<accepted, sz, sent, frag, bounds, sem, held, cbDue, relDue, txLink, peer>>

(* Here "radio full" is final too. *)
ControlQueueError ==
    /\ txPc = "ctl_queue"
    /\ \/ (~txConn \/ txPeerGone) /\ UNCHANGED retries
       \/ retries < MaxRetries /\ retries' = retries + 1
    /\ held' = FALSE
    /\ ControlReturn
    /\ UNCHANGED <<accepted, sz, sent, calls, controls, sem, stack, txLink, peer>>

ControlWaitTaken ==
    /\ txPc = "ctl_wait" /\ sem = 1
    /\ sem' = 0
    /\ IF txConn /\ ~txPeerGone /\ frag < CtlFragments
       THEN frag' = frag + 1 /\ txPc' = "ctl_alloc"
       ELSE ControlReturn
    /\ UNCHANGED <<accepted, sz, sent, bounds, held, stack, txLink, peer>>

ControlTimeout ==
    /\ txPc = "ctl_wait" /\ MayTimeOut
    /\ ControlReturn
    /\ UNCHANGED <<accepted, sz, sent, bounds, sem, held, stack, txLink, peer>>

-----------------------------------------------------------------------------
(* The Bluetooth host thread. *)
Transmit ==
    /\ flying # NoTxSdu /\ ~txPeerGone
    /\ peer' = IF flying.kind = "tls" THEN Append(peer, flying.n) ELSE peer
    /\ flying' = NoTxSdu
    /\ cbDue' = cbDue + 1
    /\ relDue' = TRUE
    /\ UNCHANGED <<thread, bounds, sem, held, txLink>>

ReleaseBuffer ==
    /\ relDue
    /\ relDue' = FALSE
    /\ held' = FALSE
    /\ UNCHANGED <<thread, bounds, sem, flying, cbDue, txLink, peer>>

l2cap_sent ==
    /\ cbDue > 0
    /\ cbDue' = cbDue - 1
    /\ sem' = 1
    /\ UNCHANGED <<thread, bounds, held, flying, relDue, txLink, peer>>

tx_bt_disconnected ==
    /\ ~txPeerGone
    /\ txPeerGone' = TRUE
    /\ UNCHANGED <<thread, bounds, sem, held, stack, txConn, rxPending, peer>>

(* The channel goes: queued SDUs are dropped, both waits are woken. *)
tx_l2cap_disconnected ==
    /\ txConn
    /\ txConn' = FALSE
    /\ txPeerGone' = TRUE
    /\ sem' = 1
    /\ flying' = NoTxSdu
    /\ cbDue' = 0
    /\ relDue' = (relDue \/ flying # NoTxSdu)
    /\ UNCHANGED <<thread, bounds, held, rxPending, peer>>

(* Received data arrives, and is read by wolfSSL between sends. *)
RxArrive ==
    /\ txConn /\ ~txPeerGone /\ ~rxPending
    /\ rxPending' = TRUE
    /\ UNCHANGED <<thread, bounds, sem, held, stack, txConn, txPeerGone, peer>>

RxRead ==
    /\ txPc = "idle" /\ rxPending
    /\ rxPending' = FALSE
    /\ UNCHANGED <<thread, bounds, sem, held, stack, txConn, txPeerGone, peer>>

-----------------------------------------------------------------------------
TlsStep ==
    \/ SendCall \/ LoopAbort \/ LoopAlloc \/ LoopNoBuffer
    \/ QueueOk \/ QueueFull \/ QueueError \/ WaitTaken \/ WaitTimeout

ControlStep ==
    \/ ControlStart \/ ControlAlloc \/ ControlQueueOk \/ ControlQueueError
    \/ ControlWaitTaken \/ ControlTimeout

StackStep == Transmit \/ ReleaseBuffer \/ l2cap_sent

(* The session is over once the link is down and nothing is under way. *)
Ended ==
    /\ txPc = "idle" /\ ~txConn
    /\ UNCHANGED txVars

TxNext ==
    \/ TlsStep \/ ControlStep \/ StackStep
    \/ tx_bt_disconnected \/ tx_l2cap_disconnected \/ RxArrive \/ RxRead
    \/ Ended

TxSpec == TxInit /\ [][TxNext]_txVars

(* The main thread runs, its waits are bounded by their timeouts. *)
TxFairSpec == TxSpec /\ WF_txVars(TlsStep) /\ WF_txVars(ControlStep) /\ WF_txVars(RxRead)

-----------------------------------------------------------------------------
(***************************************************************************)
(* What the peer receives is the TLS stream without gap, duplicate or      *)
(* reordering, and wolfSSL counts all of it but at most the one chunk      *)
(* whose call a lost link cut short, through telemetry in between, full    *)
(* radio and late buffers (when completions are not late).                 *)
(***************************************************************************)
StreamIntact ==
    /\ \A i \in 1..Len(peer) : peer[i] = i
    /\ Len(peer) - (accepted + sent) \in {0, 1}

(* Completions that overtake their timeout can make the thread send a      *)
(* chunk twice or pass over one, but the peer never sees the stream go     *)
(* backwards: at most one SDU is ever in the stack.                        *)
InOrder == \A i, j \in 1..Len(peer) : i <= j => peer[i] <= peer[j]

(* The single transmit buffer has one owner while it is taken: the thread  *)
(* that fills it, the queued SDU, or the stack about to release it.  It is *)
(* neither leaked, which would stop every later send, nor freed twice.     *)
BufferOneOwner ==
    /\ held <=> txPc \in {"queue", "ctl_queue"} \/ flying # NoTxSdu \/ relDue
    /\ txPc \in {"queue", "ctl_queue"} => flying = NoTxSdu /\ ~relDue
    /\ flying # NoTxSdu => ~relDue

(* A chunk counted as sent was given to the stack ("if it fails, wait 10ms *)
(* for pool to drain and continue loop", the comment on the allocation).   *)
CountedWasQueued ==
    accepted + sent > 0 =>
        \/ \E i \in 1..Len(peer) : peer[i] = accepted + sent
        \/ ~txConn \/ txPeerGone
        \/ flying = TxSdu("tls", accepted + sent)

(* Every send call and every telemetry message returns. *)
CallsReturn == txPc # "idle" ~> txPc = "idle"

(***************************************************************************)
(* The facts that make StreamIntact inductive: outside a wait the stack    *)
(* has nothing of ours, and inside one the chunk is either in the stack,   *)
(* announced by exactly one completion, or was never queued.               *)
(***************************************************************************)
InCall == txPc \in {"loop", "queue", "wait"}

CallShape == IF InCall THEN sent < sz ELSE sent = 0

StackQuiet ==
    /\ txPc \notin {"wait", "ctl_wait"} => flying = NoTxSdu /\ cbDue = 0 /\ (txConn => sem = 0)
    /\ ~txConn => flying = NoTxSdu /\ cbDue = 0
    /\ ~txConn => txPeerGone

OneCompletion ==
    /\ flying # NoTxSdu => cbDue = 0 /\ sem = 0
    /\ cbDue > 0 => cbDue = 1 /\ sem = 0

Delivered ==
    /\ txPc = "wait" /\ flying # NoTxSdu => flying = Chunk /\ Len(peer) = accepted + sent
    /\ txPc = "ctl_wait" /\ flying # NoTxSdu => flying.kind = "ctl"
    /\ txPc = "wait" /\ txConn /\ (sem = 1 \/ cbDue > 0) => Len(peer) = accepted + sent + 1
    /\ ~txPeerGone /\ (txPc # "wait" \/ (sem = 0 /\ cbDue = 0)) => Len(peer) = accepted + sent

PromptInv ==
    /\ Counters /\ StreamIntact
    /\ CallShape /\ StackQuiet /\ OneCompletion /\ Delivered

(* What the peer has never runs ahead of the chunk now being sent. *)
OrderInv ==
    /\ Counters /\ InOrder /\ CallShape
    /\ \A i \in 1..Len(peer) : peer[i] <= accepted + sent + 1
    /\ flying.kind = "tls" =>
         /\ flying.n <= accepted + sent + 1
         /\ \A i \in 1..Len(peer) : peer[i] <= flying.n
=============================================================================
