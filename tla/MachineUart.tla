----------------------------- MODULE MachineUart -----------------------------
(***************************************************************************)
(* machine.UART of the rp2 port (ports/rp2/machine_uart.c): the interrupt  *)
(* handler, the read, write, any and poll operations of one Python thread  *)
(* and the two ring buffers between them.                                  *)
(*                                                                         *)
(* The handler runs on the core of the thread: it interrupts the thread    *)
(* between any two memory accesses and the thread stands still until it    *)
(* returns.  The peripheral keeps running throughout.                      *)
(*                                                                         *)
(* A byte is the number of its place on the line (received bytes) or in    *)
(* the data passed to write (sent bytes), so that a lost, repeated or      *)
(* reordered byte shows.  The peripheral (FIFOs, interrupt status) is      *)
(* external and modelled after the PL011: the receive interrupt is raised  *)
(* when the FIFO reaches RxLevel and the transmit interrupt when it falls  *)
(* to TxLevel, each by the transition and not by the level itself.         *)
(***************************************************************************)
EXTENDS RingBuf

CONSTANTS
    RxSize,     \* slots of read_buffer (rxbuf + 1)
    TxSize,     \* slots of write_buffer (txbuf + 1)
    FifoDepth,  \* depth of each hardware FIFO
    RxLevel,    \* level at which the receive interrupt is raised
    TxLevel,    \* level at which the transmit interrupt is raised
    Ops,        \* the operations the program calls
    MaxRead,    \* bound: bytes asked for by one read
    MaxWrite,   \* bound: bytes passed to one write
    MaxRx,      \* bound: bytes arriving on the line
    MaxTx,      \* bound: bytes passed to write altogether
    Stall       \* whether the transmit FIFO may drain down to TxLevel
                \* between the last test of the fill loop and the unlock

ASSUME UartAssumption ==
    /\ RxSize \in Nat \ {0, 1}
    /\ TxSize \in Nat \ {0, 1}
    /\ FifoDepth \in Nat \ {0}
    /\ RxLevel \in 1..FifoDepth
    /\ TxLevel \in 0..FifoDepth - 1
    /\ Ops \subseteq {"read", "any", "write", "poll"}
    /\ MaxRead \in Nat /\ MaxWrite \in Nat
    /\ MaxRx \in Nat /\ MaxTx \in Nat
    /\ Stall \in BOOLEAN

VARIABLES
    read_buffer, write_buffer,   \* ring buffers
    read_lock, write_lock,       \* set while the thread works on a FIFO
    rxfifo, txfifo,              \* hardware FIFOs
    rxint, txint,                \* raw interrupt status
    isr,        \* where the interrupt handler is, "off" if not running
    pc,         \* where the thread is, "idle" between two calls
    arg,        \* size of the current call
    i,          \* bytes transferred by the current call
    old, v,     \* index and byte of the ringbuf_get in progress
    result,     \* result of the last call that returned
    line,       \* bytes that have arrived on the receive line
    accepted,   \* bytes stored into read_buffer, in that order
    taken,      \* bytes handed to the program by read
    overrun,    \* a byte came for a read_buffer that was full
    written,    \* number of bytes stored into write_buffer
    sent        \* bytes sent on the line, in that order

rxvars == <<read_buffer, read_lock, rxfifo, line, accepted, overrun>>
getvars == <<old, v, taken>>
txvars == <<write_buffer, write_lock, txfifo, written, sent>>
callvars == <<pc, arg, i, result>>
vars == <<rxvars, getvars, txvars, callvars, rxint, txint, isr>>

Init ==
    /\ read_buffer = ringbuf_alloc(RxSize)
    /\ write_buffer = ringbuf_alloc(TxSize)
    /\ read_lock = FALSE /\ write_lock = FALSE
    /\ rxfifo = <<>> /\ txfifo = <<>>
    /\ rxint = FALSE /\ txint = FALSE
    /\ isr = "off"
    /\ pc = "idle" /\ arg = 0 /\ i = 0 /\ result = [op |-> "none"]
    /\ old = 0 /\ v = 0
    /\ line = 0 /\ accepted = <<>> /\ taken = <<>> /\ overrun = FALSE
    /\ written = 0 /\ sent = <<>>

-----------------------------------------------------------------------------
(* The peripheral.                                                         *)

LineIn ==
    /\ line < MaxRx
    /\ line' = line + 1
    /\ IF Len(rxfifo) < FifoDepth
       THEN /\ rxfifo' = Append(rxfifo, line + 1)
            /\ rxint' = (rxint \/ Len(rxfifo') = RxLevel)
       ELSE UNCHANGED <<rxfifo, rxint>>
    /\ UNCHANGED <<read_buffer, read_lock, accepted, overrun, getvars, txvars,
                   callvars, txint, isr>>

LineOut ==
    /\ txfifo /= <<>>
    /\ Stall \/ pc /= "wunlock" \/ Len(txfifo) > TxLevel + 1
    /\ sent' = Append(sent, Head(txfifo))
    /\ txfifo' = Tail(txfifo)
    /\ txint' = (txint \/ Len(txfifo') = TxLevel)
    /\ UNCHANGED <<write_buffer, write_lock, written, rxvars, getvars,
                   callvars, rxint, isr>>

-----------------------------------------------------------------------------
(* A byte for the read buffer; it is lost if there is no room for it.      *)
StoreRx(byte) ==
    /\ read_buffer' = ringbuf_put(read_buffer, byte)
    /\ accepted' = IF HasRoom(read_buffer) THEN Append(accepted, byte)
                                           ELSE accepted
    /\ overrun' = (overrun \/ Held(read_buffer) = RxSize - 1)

(* A byte written to the data register.                                    *)
StoreTx(byte) ==
    /\ txfifo' = Append(txfifo, byte)
    /\ txint' = (txint /\ Len(txfifo') <= TxLevel)

CanFill == Len(txfifo) < FifoDepth /\ ringbuf_avail(write_buffer) > 0

-----------------------------------------------------------------------------
(* uart_service_interrupt: the receive part, then the transmit part.       *)
(* Each clears its interrupt before it looks at the lock.                  *)

IrqEnter ==
    /\ isr = "off"
    /\ rxint \/ txint
    /\ isr' = IF rxint /\ ~read_lock THEN "drain" ELSE "tx"
    /\ rxint' = FALSE
    /\ UNCHANGED <<rxvars, getvars, txvars, callvars, txint>>

IrqDrain ==
    /\ isr = "drain"
    /\ IF rxfifo /= <<>>
       THEN /\ StoreRx(Head(rxfifo))
            /\ rxfifo' = Tail(rxfifo)
            /\ rxint' = (rxint /\ Len(rxfifo') >= RxLevel)
            /\ isr' = isr
       ELSE /\ isr' = "tx"
            /\ UNCHANGED <<read_buffer, accepted, overrun, rxfifo, rxint>>
    /\ UNCHANGED <<read_lock, line, getvars, txvars, callvars, txint>>

\* Mutant: the handler clears the interrupt and leaves the FIFO empty.
IrqTxDropped ==
    /\ isr = "tx"
    /\ isr' = "off"
    /\ txint' = FALSE
    /\ UNCHANGED <<rxvars, getvars, txvars, callvars, rxint>>

IrqTx ==
    /\ isr = "tx"
    /\ isr' = IF txint /\ ~write_lock THEN "fill" ELSE "off"
    /\ txint' = FALSE
    /\ UNCHANGED <<rxvars, getvars, txvars, callvars, rxint>>

IrqFill ==
    /\ isr = "fill"
    /\ IF CanFill
       THEN /\ StoreTx(GetByte(write_buffer, write_buffer.iget))
            /\ write_buffer' = ringbuf_get(write_buffer)
            /\ isr' = isr
       ELSE /\ isr' = "off"
            /\ UNCHANGED <<write_buffer, txfifo, txint>>
    /\ UNCHANGED <<write_lock, written, sent, rxvars, getvars, callvars, rxint>>

-----------------------------------------------------------------------------
(* The thread.                                                             *)

At(where) == isr = "off" /\ pc = where

(* Steps that leave the peripheral and the handler alone.                  *)
ThreadOnly == UNCHANGED <<rxfifo, txfifo, rxint, txint, isr, line, sent>>

Return(r) == pc' = "idle" /\ result' = r /\ arg' = 0 /\ i' = 0

Goto(where) == pc' = where /\ UNCHANGED <<arg, i, result>>

Call ==
    /\ At("idle")
    /\ i' = 0
    /\ \/ "read" \in Ops /\ pc' = "rtest" /\ arg' \in 1..MaxRead
       \/ "any" \in Ops /\ pc' = "alock" /\ arg' = 0
       \/ "write" \in Ops /\ pc' = "wput" /\ arg' \in 1..MaxWrite
                          /\ written + arg' <= MaxTx
    /\ UNCHANGED <<result, rxvars, getvars, txvars, rxint, txint, isr>>

(* machine_uart_ioctl with MP_STREAM_POLL *)
Poll ==
    /\ At("idle") /\ "poll" \in Ops
    /\ Return([op |-> "poll", rd |-> ringbuf_avail(read_buffer) > 0,
               wr |-> ringbuf_free(write_buffer) > 0])
    /\ UNCHANGED <<rxvars, getvars, txvars, rxint, txint, isr>>

(* machine_uart_read: all asked for.                                       *)
ReadDone ==
    /\ At("rtest") /\ i = arg
    /\ Return([op |-> "read", n |-> i])
    /\ UNCHANGED <<rxvars, getvars, txvars, rxint, txint, isr>>

\* Mutant: the lock is taken before the timeout is tested.
ReadEmptyLocked ==
    /\ At("rtest") /\ i < arg
    /\ ringbuf_avail(read_buffer) = 0
    /\ read_lock' = TRUE
    /\ Return([op |-> "read", n |-> i]) \/ Goto("rdrain")
    /\ UNCHANGED <<read_buffer, accepted, overrun, getvars, write_buffer,
                   write_lock, written>>
    /\ ThreadOnly

(* No byte buffered: the read times out and returns what it has (EAGAIN    *)
(* when that is nothing), or the event poll hook raises, and the bytes     *)
(* already copied are lost with the call, or the FIFO is drained.          *)
ReadEmpty ==
    /\ At("rtest") /\ i < arg
    /\ ringbuf_avail(read_buffer) = 0
    /\ \/ /\ Return([op |-> "read", n |-> i]) \/ Return([op |-> "raised"])
          /\ read_lock' = read_lock
       \/ Goto("rdrain") /\ read_lock' = TRUE
    /\ UNCHANGED <<read_buffer, accepted, overrun, getvars, write_buffer,
                   write_lock, written>>
    /\ ThreadOnly

\* Mutant: a byte is fetched whether there is one or not.
ReadAdvanceBlind ==
    /\ At("rtest") /\ i < arg
    /\ old' = read_buffer.iget
    /\ read_buffer' = GetAdvance(read_buffer)
    /\ Goto("rload")
    /\ UNCHANGED <<read_lock, accepted, overrun, v, taken, txvars>>
    /\ ThreadOnly

ReadAdvance ==
    /\ At("rtest") /\ i < arg
    /\ ringbuf_avail(read_buffer) > 0
    /\ old' = read_buffer.iget
    /\ read_buffer' = GetAdvance(read_buffer)
    /\ Goto("rload")
    /\ UNCHANGED <<read_lock, accepted, overrun, v, taken, txvars>>
    /\ ThreadOnly

ReadLoad ==
    /\ At("rload")
    /\ v' = GetByte(read_buffer, old)
    /\ Goto("rwrap")
    /\ UNCHANGED <<rxvars, old, taken, txvars>>
    /\ ThreadOnly

\* Mutant: the index is not wrapped.
ReadWrapMissing ==
    /\ At("rwrap")
    /\ taken' = Append(taken, v)
    /\ i' = i + 1
    /\ pc' = "rtest"
    /\ UNCHANGED <<arg, result, rxvars, old, v, txvars>>
    /\ ThreadOnly

ReadWrap ==
    /\ At("rwrap")
    /\ read_buffer' = GetWrap(read_buffer)
    /\ taken' = Append(taken, v)
    /\ i' = i + 1
    /\ pc' = "rtest"
    /\ UNCHANGED <<arg, result, read_lock, accepted, overrun, old, v, txvars>>
    /\ ThreadOnly

(* The loop of uart_drain_rx_fifo in read ("rdrain") and any ("adrain"):   *)
(* a byte is read from the FIFO, then put into the buffer.                 *)
ThreadDrain ==
    /\ isr = "off" /\ pc \in {"rdrain", "adrain"}
    /\ IF rxfifo /= <<>>
       THEN /\ v' = Head(rxfifo)
            /\ rxfifo' = Tail(rxfifo)
            /\ rxint' = (rxint /\ Len(rxfifo') >= RxLevel)
            /\ Goto(IF pc = "rdrain" THEN "rstore" ELSE "astore")
       ELSE /\ Goto(IF pc = "rdrain" THEN "runlock" ELSE "aunlock")
            /\ UNCHANGED <<v, rxfifo, rxint>>
    /\ UNCHANGED <<read_buffer, read_lock, line, accepted, overrun, old, taken,
                   txvars, txint, isr>>

ThreadStore ==
    /\ isr = "off" /\ pc \in {"rstore", "astore"}
    /\ StoreRx(v)
    /\ Goto(IF pc = "rstore" THEN "rdrain" ELSE "adrain")
    /\ UNCHANGED <<read_lock, getvars, txvars>>
    /\ ThreadOnly

ReadUnlock ==
    /\ isr = "off" /\ pc \in {"runlock", "aunlock"}
    /\ read_lock' = FALSE
    /\ Goto(IF pc = "runlock" THEN "rtest" ELSE "aret")
    /\ UNCHANGED <<read_buffer, accepted, overrun, getvars, write_buffer,
                   write_lock, written>>
    /\ ThreadOnly

\* Mutant: any() drains the FIFO without the lock.
AnyLockMissing ==
    /\ At("alock")
    /\ Goto("adrain")
    /\ UNCHANGED <<rxvars, getvars, txvars>>
    /\ ThreadOnly

(* machine_uart_any *)
AnyLock ==
    /\ At("alock")
    /\ read_lock' = TRUE
    /\ Goto("adrain")
    /\ UNCHANGED <<read_buffer, accepted, overrun, getvars, write_buffer,
                   write_lock, written>>
    /\ ThreadOnly

AnyReturn ==
    /\ At("aret")
    /\ Return([op |-> "any", n |-> ringbuf_avail(read_buffer)])
    /\ UNCHANGED <<rxvars, getvars, txvars, rxint, txint, isr>>

\* Mutant: write fills the FIFO without the lock.
WritePutUnlocked ==
    /\ At("wput")
    /\ IF i < arg /\ ringbuf_free(write_buffer) > 0
       THEN write_buffer' = PutByte(write_buffer, written + 1) /\ Goto("wpub")
       ELSE write_buffer' = write_buffer /\ Goto("wfill")
    /\ UNCHANGED <<write_lock, written, rxvars, getvars>>
    /\ ThreadOnly

\* Mutant: write leaves the first byte to the interrupt.
WritePutNoKick ==
    /\ At("wput")
    /\ IF i < arg /\ ringbuf_free(write_buffer) > 0
       THEN write_buffer' = PutByte(write_buffer, written + 1) /\ Goto("wpub")
       ELSE write_buffer' = write_buffer /\ Goto("wwait")
    /\ UNCHANGED <<write_lock, written, rxvars, getvars>>
    /\ ThreadOnly

(* machine_uart_write: first as much as fits ("wput", publishing at        *)
(* "wpub"), then byte by byte ("wwait", "wpub1").                          *)
WritePut ==
    /\ At("wput")
    /\ IF i < arg /\ ringbuf_free(write_buffer) > 0
       THEN /\ write_buffer' = PutByte(write_buffer, written + 1)
            /\ write_lock' = write_lock
            /\ Goto("wpub")
       ELSE /\ write_lock' = TRUE
            /\ Goto("wfill")
            /\ UNCHANGED write_buffer
    /\ UNCHANGED <<written, rxvars, getvars>>
    /\ ThreadOnly

WritePublish ==
    /\ isr = "off" /\ pc \in {"wpub", "wpub1"}
    /\ write_buffer' = PutIndex(write_buffer)
    /\ written' = written + 1
    /\ i' = i + 1
    /\ IF pc = "wpub" THEN pc' = "wput" /\ write_lock' = write_lock
                      ELSE pc' = "wfill" /\ write_lock' = TRUE
    /\ UNCHANGED <<arg, result, rxvars, getvars>>
    /\ ThreadOnly

(* The loop of uart_fill_tx_fifo: a byte is taken from the buffer, then    *)
(* written to the FIFO.                                                    *)
WriteFill ==
    /\ At("wfill")
    /\ IF CanFill
       THEN /\ v' = GetByte(write_buffer, write_buffer.iget)
            /\ write_buffer' = ringbuf_get(write_buffer)
            /\ Goto("wstore")
       ELSE /\ Goto("wunlock")
            /\ UNCHANGED <<v, write_buffer>>
    /\ UNCHANGED <<write_lock, written, rxvars, old, taken>>
    /\ ThreadOnly

WriteStore ==
    /\ At("wstore")
    /\ StoreTx(v)
    /\ Goto("wfill")
    /\ UNCHANGED <<write_buffer, write_lock, written, sent, rxvars, getvars,
                   rxint, isr>>

WriteUnlock ==
    /\ At("wunlock")
    /\ write_lock' = FALSE
    /\ Goto("wwait")
    /\ UNCHANGED <<write_buffer, written, rxvars, getvars>>
    /\ ThreadOnly

(* A full buffer is waited for: a pass of the wait loop changes nothing    *)
(* but the time, and the timeout or an exception of the hook ends it.      *)
WriteWait ==
    /\ At("wwait")
    /\ \/ /\ i < arg /\ ringbuf_free(write_buffer) > 0
          /\ write_buffer' = PutByte(write_buffer, written + 1)
          /\ Goto("wpub1")
       \/ /\ i = arg \/ ringbuf_free(write_buffer) = 0
          /\ \/ Return([op |-> "write", n |-> i])
             \/ i < arg /\ Return([op |-> "raised"])
          /\ UNCHANGED write_buffer
    /\ UNCHANGED <<write_lock, written, rxvars, getvars>>
    /\ ThreadOnly

Handler == IrqEnter \/ IrqDrain \/ IrqTx \/ IrqFill

Thread == \/ Call \/ Poll \/ ReadDone \/ ReadEmpty \/ ReadAdvance \/ ReadLoad
          \/ ReadWrap \/ ThreadDrain \/ ThreadStore \/ ReadUnlock \/ AnyLock \/ AnyReturn
          \/ WritePut \/ WritePublish \/ WriteFill \/ WriteStore \/ WriteUnlock \/ WriteWait

Next == LineIn \/ LineOut \/ Handler \/ Thread

Spec == Init /\ [][Next]_vars

(* The peripheral keeps sending, a pending interrupt is taken, and a call  *)
(* that has begun goes on (its timeout passes in the end).                 *)
Fairness == /\ WF_vars(LineOut)
            /\ WF_vars(Handler)
            /\ WF_vars(Thread /\ pc /= "idle")

FairSpec == Spec /\ Fairness

-----------------------------------------------------------------------------
(* The indices stay inside the rings, but for iget = size in the middle of *)
(* ringbuf_get of read, and no FIFO is written beyond its depth            *)
(* (uart_fill_tx_fifo looks before each byte).                             *)
TypeOK ==
    /\ read_buffer \in [buf: [0..RxSize - 1 -> Nat], size: {RxSize},
                       iget: 0..RxSize, iput: 0..RxSize - 1]
    /\ write_buffer \in [buf: [0..TxSize - 1 -> Nat], size: {TxSize},
                        iget: 0..TxSize - 1, iput: 0..TxSize - 1]
    /\ read_lock \in BOOLEAN /\ write_lock \in BOOLEAN
    /\ rxfifo \in Seq(Nat) /\ Len(rxfifo) <= FifoDepth
    /\ txfifo \in Seq(Nat) /\ Len(txfifo) <= FifoDepth
    /\ rxint \in BOOLEAN /\ txint \in BOOLEAN
    /\ isr \in {"off", "drain", "tx", "fill"}
    /\ pc \in {"idle", "rtest", "rload", "rwrap", "rdrain", "rstore", "runlock",
               "alock", "adrain", "astore", "aunlock", "aret",
               "wput", "wpub", "wfill", "wstore", "wunlock", "wwait", "wpub1"}
    /\ arg \in Nat /\ i \in 0..arg
    /\ old \in 0..RxSize - 1 /\ v \in Nat
    /\ line \in Nat /\ accepted \in Seq(Nat) /\ taken \in Seq(Nat)
    /\ overrun \in BOOLEAN
    /\ written \in Nat /\ sent \in Seq(Nat)

(* The byte a ringbuf_get of read has removed but not yet handed over.     *)
Reading == CASE pc = "rload" -> <<GetByte(read_buffer, old)>>
             [] pc = "rwrap" -> <<v>>
             [] OTHER -> <<>>

(* As long as no byte arrives for a full read_buffer, read hands over      *)
(* every byte stored into it, once and in order, whatever interrupts fall  *)
(* between the accesses of ringbuf_get (machine_uart_read against          *)
(* uart_drain_rx_fifo).                                                    *)
RxExact == ~overrun => accepted = taken \o Reading \o Contents(read_buffer)

(* Even when bytes are lost, read never repeats a byte or hands two over   *)
(* in the wrong order: the two drain loops, the handler's and the          *)
(* thread's, never cross.                                                  *)
RxOrder == \A a, b \in DOMAIN taken : a < b => taken[a] < taken[b]

(* The byte that write has taken from write_buffer on its way to the FIFO. *)
Writing == IF pc = "wstore" THEN <<v>> ELSE <<>>

(* What has been sent, what the FIFO holds and what write_buffer holds is  *)
(* what write accepted, in that order and without a byte lost, repeated or *)
(* made up: the fill loops of write and of the handler never cross, and a  *)
(* byte is published only after it is stored.                              *)
TxExact ==
    sent \o txfifo \o Writing \o Contents(write_buffer) = [k \in 1..written |-> k]

(* A call that is over holds neither lock, however it ended: a lock left   *)
(* behind would stop the handler from serving its FIFO for good.           *)
Unlocked == pc \in {"idle", "rtest", "wwait"} => ~read_lock /\ ~write_lock

(* Bytes are left in write_buffer only while an interrupt is due that will *)
(* fetch them: the FIFO is above the trigger level, or the interrupt is    *)
(* raised, or the handler or write itself is on the way to the fill loop.  *)
TxArmed ==
    ringbuf_avail(write_buffer) > 0 =>
        \/ Len(txfifo) > TxLevel
        \/ txint
        \/ isr = "fill"
        \/ pc \in {"wput", "wpub", "wpub1", "wfill", "wstore"}

(* Every byte that write has accepted is sent in the end (UART.write,      *)
(* "Write the buffer of bytes to the bus").                                *)
EventuallySent ==
    \A n \in 1..MaxTx : (written >= n) ~> (Len(sent) >= n)

(* any() returns 0 if there are no characters, and a positive number if    *)
(* there are: if some have been stored into the buffer and not been read.  *)
AnyCounts ==
    [][AnyReturn => (result'.n > 0 <=> Len(accepted) > Len(taken))]_vars

=============================================================================
