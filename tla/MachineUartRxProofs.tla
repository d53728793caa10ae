-------------------------- MODULE MachineUartRxProofs --------------------------
(***************************************************************************)
(* The inductive invariant of MachineUart, and the part of the proof that  *)
(* every step keeps it which is about the control state, the locks and the *)
(* receive side.                                                           *)
(***************************************************************************)
EXTENDS MachineUart, RingBufProofs, TLAPS

-----------------------------------------------------------------------------
(***************************************************************************)
(* The inductive invariant.  RxExact and TxExact speak of what has become  *)
(* of the bytes; to carry them from step to step one has to know where the *)
(* thread may be while a lock is held or an index is not yet in its range. *)
(***************************************************************************)

Getting == pc \in {"rload", "rwrap"}

Publishing == pc \in {"wpub", "wpub1"}

Locks ==
    /\ read_lock <=> pc \in {"rdrain", "rstore", "runlock",
                             "adrain", "astore", "aunlock"}
    /\ write_lock <=> pc \in {"wfill", "wstore", "wunlock"}
    /\ isr = "drain" => ~read_lock
    /\ isr = "fill" => ~write_lock

Progressing ==
    /\ Getting \/ Publishing => i < arg
    /\ pc = "wstore" => Len(txfifo) < FifoDepth

RxWindow == IF Getting THEN read_buffer.iget = old + 1
                       ELSE read_buffer.iget < RxSize

TxWindow == Publishing => /\ Held(write_buffer) < TxSize - 1
                          /\ write_buffer.buf[write_buffer.iput] = written + 1

(* The inductive invariant of the driver: which positions of the thread    *)
(* hold which lock, what the rings look like in the middle of ringbuf_get  *)
(* and ringbuf_put, and where every byte received or written is.           *)
UartInv == TypeOK /\ Locks /\ Progressing /\ RxWindow /\ TxWindow /\ RxExact /\ TxExact

-----------------------------------------------------------------------------
(* The buffers of a state are ring buffers of the declared sizes.          *)
LEMMA Rings ==
    ASSUME TypeOK
    PROVE  /\ Ring(read_buffer) /\ read_buffer.size = RxSize
           /\ Ring(write_buffer) /\ write_buffer.size = TxSize
           /\ write_buffer.iget < TxSize
           /\ ringbuf_avail(write_buffer) = Held(write_buffer)
           /\ ringbuf_free(write_buffer) = TxSize - 1 - Held(write_buffer)
<1>1. /\ Ring(read_buffer) /\ read_buffer.size = RxSize
      /\ Ring(write_buffer) /\ write_buffer.size = TxSize
      /\ write_buffer.iget < TxSize
  <2>1. /\ read_buffer \in [buf: [0..RxSize - 1 -> Nat], size: {RxSize},
                            iget: 0..RxSize, iput: 0..RxSize - 1]
        /\ RxSize \in Nat \ {0, 1}
    BY Zenon, UartAssumption DEF TypeOK
  <2>2. /\ write_buffer \in [buf: [0..TxSize - 1 -> Nat], size: {TxSize},
                             iget: 0..TxSize - 1, iput: 0..TxSize - 1]
        /\ TxSize \in Nat \ {0, 1}
    BY Zenon, UartAssumption DEF TypeOK
  <2>3. Ring(read_buffer) /\ read_buffer.size = RxSize
    BY <2>1 DEF Ring
  <2>4. /\ write_buffer \in [buf: [0..TxSize - 1 -> Nat], size: {TxSize},
                             iget: 0..TxSize, iput: 0..TxSize - 1]
        /\ write_buffer.size = TxSize /\ write_buffer.iget < TxSize
    BY <2>2
  <2>5. Ring(write_buffer)
    BY <2>2, <2>4 DEF Ring
  <2> QED BY <2>3, <2>4, <2>5
<1> QED BY <1>1, Counts

(* A ring buffer of the declared size has the type of the buffer.          *)
LEMMA RingTypes ==
    ASSUME NEW r, Ring(r)
    PROVE  /\ r.size = RxSize => r \in [buf: [0..RxSize - 1 -> Nat], size: {RxSize},
                                       iget: 0..RxSize, iput: 0..RxSize - 1]
           /\ r.size = TxSize /\ r.iget \in 0..TxSize - 1 =>
                r \in [buf: [0..TxSize - 1 -> Nat], size: {TxSize},
                      iget: 0..TxSize - 1, iput: 0..TxSize - 1]
  BY DEF Ring

-----------------------------------------------------------------------------
(* The types, buffer by buffer.                                            *)

RxType == read_buffer \in [buf: [0..RxSize - 1 -> Nat], size: {RxSize},
                          iget: 0..RxSize, iput: 0..RxSize - 1]

TxType == write_buffer \in [buf: [0..TxSize - 1 -> Nat], size: {TxSize},
                           iget: 0..TxSize - 1, iput: 0..TxSize - 1]

RxSeqs == /\ rxfifo \in Seq(Nat) /\ Len(rxfifo) <= FifoDepth
          /\ accepted \in Seq(Nat) /\ taken \in Seq(Nat)
          /\ v \in Nat /\ line \in Nat

TxSeqs == /\ txfifo \in Seq(Nat) /\ Len(txfifo) <= FifoDepth
          /\ sent \in Seq(Nat) /\ written \in Nat

CtrlType ==
    /\ read_lock \in BOOLEAN /\ write_lock \in BOOLEAN
    /\ rxint \in BOOLEAN /\ txint \in BOOLEAN
    /\ isr \in {"off", "drain", "tx", "fill"}
    /\ pc \in {"idle", "rtest", "rload", "rwrap", "rdrain", "rstore", "runlock",
               "alock", "adrain", "astore", "aunlock", "aret",
               "wput", "wpub", "wfill", "wstore", "wunlock", "wwait", "wpub1"}
    /\ arg \in Nat /\ i \in 0..arg
    /\ old \in 0..RxSize - 1
    /\ overrun \in BOOLEAN

(* TypeOK is made of these parts.                                          *)
LEMMA TypeParts == TypeOK <=> RxType /\ TxType /\ RxSeqs /\ TxSeqs /\ CtrlType
  BY Zenon DEF TypeOK, RxType, TxType, RxSeqs, TxSeqs, CtrlType

(* The control state of the thread, the handler and the locks.             *)
LEMMA CtrlStep ==
    ASSUME UartInv, [Next]_vars
    PROVE  CtrlType' /\ Locks'
<1> USE UartAssumption DEF CtrlType, Locks
<1>0. CtrlType /\ Locks /\ RxType /\ RxWindow /\ (Getting \/ Publishing => i < arg)
  BY TypeParts DEF UartInv, Progressing
<1>1. CASE UNCHANGED vars
  BY <1>0, <1>1 DEF vars, rxvars, getvars, txvars, callvars
<1>2. CASE LineIn
  <2>1. /\ UNCHANGED <<read_lock, write_lock, txint, isr, pc, arg, i, old, overrun>>
        /\ rxint' \in BOOLEAN
    BY Zenon, <1>0, <1>2 DEF LineIn, getvars, txvars, callvars
  <2> QED BY Zenon, <1>0, <2>1
<1>3. CASE LineOut
  BY <1>0, <1>3 DEF LineOut, rxvars, getvars, callvars
<1>4. CASE IrqEnter
  BY Zenon, <1>0, <1>4 DEF IrqEnter, rxvars, getvars, txvars, callvars
<1>5. CASE IrqDrain
  BY Zenon, <1>0, <1>5 DEF IrqDrain, StoreRx, getvars, txvars, callvars
<1>6. CASE IrqTx
  BY Zenon, <1>0, <1>6 DEF IrqTx, rxvars, getvars, txvars, callvars
<1>7. CASE IrqFill
  BY <1>0, <1>7 DEF IrqFill, StoreTx, rxvars, getvars, callvars
<1>8. CASE Call
  BY <1>0, <1>8 DEF Call, At, rxvars, getvars, txvars
<1>9. CASE Poll
  BY <1>0, <1>9 DEF Poll, At, Return, rxvars, getvars, txvars
<1>10. CASE ReadDone
  BY <1>0, <1>10 DEF ReadDone, At, Return, rxvars, getvars, txvars
<1>11. CASE ReadEmpty
  <2>1. /\ pc = "rtest" /\ isr = "off" /\ write_lock' = write_lock
        /\ UNCHANGED <<rxint, txint, isr, old, overrun>>
    BY <1>11 DEF ReadEmpty, At, ThreadOnly, getvars
  <2>2. CASE Goto("rdrain") /\ read_lock' = TRUE
    BY <2>1, <2>2, <1>0 DEF Goto
  <2>3. CASE pc' = "idle" /\ arg' = 0 /\ i' = 0 /\ read_lock' = read_lock
    BY <2>1, <2>3, <1>0
  <2> QED BY Zenon, <2>2, <2>3, <1>11 DEF ReadEmpty, Return
<1>12. CASE ReadAdvance
  BY <1>0, <1>12 DEF ReadAdvance, At, Goto, ThreadOnly, txvars, RxType, RxWindow, Getting
<1>13. CASE ReadLoad
  BY <1>0, <1>13 DEF ReadLoad, At, Goto, ThreadOnly, rxvars, txvars
<1>14. CASE ReadWrap
  BY <1>0, <1>14 DEF ReadWrap, At, ThreadOnly, txvars, Getting
<1>15. CASE ThreadDrain
  BY <1>0, <1>15 DEF ThreadDrain, Goto, txvars
<1>16. CASE ThreadStore
  BY <1>0, <1>16 DEF ThreadStore, StoreRx, Goto, ThreadOnly, getvars, txvars
<1>17. CASE ReadUnlock
  BY Zenon, <1>0, <1>17 DEF ReadUnlock, Goto, ThreadOnly, getvars
<1>18. CASE AnyLock
  BY <1>0, <1>18 DEF AnyLock, At, Goto, ThreadOnly, getvars
<1>19. CASE AnyReturn
  BY <1>0, <1>19 DEF AnyReturn, At, Return, rxvars, getvars, txvars
<1>20. CASE WritePut
  BY Zenon, <1>0, <1>20 DEF WritePut, At, Goto, ThreadOnly, rxvars, getvars
<1>21. CASE WritePublish
  <2>1. /\ pc \in {"wpub", "wpub1"} /\ isr = "off" /\ i < arg /\ i' = i + 1 /\ arg' = arg
        /\ UNCHANGED <<rxint, txint, isr, old, overrun, read_lock>>
    BY <1>0, <1>21 DEF WritePublish, ThreadOnly, rxvars, getvars, Publishing
  <2>2. CASE pc = "wpub" /\ pc' = "wput" /\ write_lock' = write_lock
    BY <2>1, <2>2, <1>0
  <2>3. CASE pc = "wpub1" /\ pc' = "wfill" /\ write_lock' = TRUE
    BY <2>1, <2>3, <1>0
  <2> QED BY Zenon, <2>1, <2>2, <2>3, <1>21 DEF WritePublish
<1>22. CASE WriteFill
  BY <1>0, <1>22 DEF WriteFill, At, Goto, ThreadOnly, rxvars
<1>23. CASE WriteStore
  BY <1>0, <1>23 DEF WriteStore, StoreTx, At, Goto, rxvars, getvars
<1>24. CASE WriteUnlock
  BY Zenon, <1>0, <1>24 DEF WriteUnlock, At, Goto, ThreadOnly, rxvars, getvars
<1>25. CASE WriteWait
  BY <1>0, <1>25 DEF WriteWait, At, Goto, Return, ThreadOnly, rxvars, getvars
<1> QED
  BY Zenon, <1>1, <1>2, <1>3, <1>4, <1>5, <1>6, <1>7, <1>8, <1>9, <1>10, <1>11, <1>12,
     <1>13, <1>14, <1>15, <1>16, <1>17, <1>18, <1>19, <1>20, <1>21, <1>22, <1>23,
     <1>24, <1>25 DEF Next, Handler, Thread

-----------------------------------------------------------------------------
(* The receive side.                                                       *)

Byte == Nat

RxInv == RxType /\ RxWindow /\ RxExact

(* The byte in flight, by the place of the thread.                         *)
LEMMA ReadingIs ==
    ASSUME RxType, v \in Nat, old \in 0..RxSize - 1
    PROVE  /\ ~Getting => Reading = <<>>
           /\ pc = "rload" => Reading = <<read_buffer.buf[old]>>
           /\ pc = "rwrap" => Reading = <<v>>
           /\ Reading \in Seq(Byte)
<1>1. /\ ~Getting => Reading = <<>>
      /\ pc = "rload" => Reading = <<read_buffer.buf[old]>>
      /\ pc = "rwrap" => Reading = <<v>>
  BY DEF Reading, Getting, GetByte
<1>2. read_buffer.buf[old] \in Byte /\ v \in Byte
  BY Zenon DEF RxType, Byte
<1>3. <<>> \in Seq(Byte) /\ <<read_buffer.buf[old]>> \in Seq(Byte) /\ <<v>> \in Seq(Byte)
  BY <1>2, Singleton
<1>4. Reading \in Seq(Byte)
  <2>1. CASE ~Getting
    BY <2>1, <1>1, <1>3
  <2>2. CASE pc = "rload"
    BY Zenon, <2>2, <1>1, <1>3
  <2>3. CASE pc = "rwrap"
    BY Zenon, <2>3, <1>1, <1>3
  <2> QED BY <2>1, <2>2, <2>3 DEF Getting
<1> QED BY <1>1, <1>4

(* A step that leaves the buffer and the byte in flight alone keeps the    *)
(* receive invariant.                                                      *)
LEMMA RxQuiet ==
    ASSUME RxInv, UNCHANGED <<read_buffer, accepted, taken, overrun, old>>,
           (~Getting /\ ~Getting') \/ (pc' = pc /\ v' = v)
    PROVE  RxInv'
<1>1. CASE ~Getting /\ ~Getting'
  <2>1. Reading = <<>> /\ Reading' = <<>>
    BY <1>1 DEF Reading, Getting
  <2> QED BY <1>1, <2>1 DEF RxInv, RxType, RxWindow, RxExact
<1>2. CASE pc' = pc /\ v' = v
  <2>1. Reading' = Reading /\ Getting' = Getting
    BY <1>2 DEF Reading, Getting
  <2> QED BY <1>2, <2>1 DEF RxInv, RxType, RxWindow, RxExact
<1> QED BY <1>1, <1>2

(* A byte put into the read buffer, by the handler or by the thread.       *)
LEMMA RxStored ==
    ASSUME UartInv, NEW x \in Nat, StoreRx(x), UNCHANGED <<taken, old>>,
           (~Getting /\ ~Getting') \/ (pc' = pc /\ v' = v)
    PROVE  RxInv' /\ accepted' \in Seq(Nat)
<1> DEFINE r == read_buffer
           s == read_buffer'
<1>1. /\ RxType /\ RxWindow /\ RxExact /\ RxSeqs
      /\ old \in 0..RxSize - 1 /\ overrun \in BOOLEAN
      /\ RxSize \in Nat \ {0, 1}
  BY TypeParts, UartAssumption DEF UartInv, CtrlType
<1>2. Ring(r) /\ r.size = RxSize
  BY Rings DEF UartInv
<1>3. /\ Ring(s) /\ s.size = RxSize /\ s.iget = r.iget
      /\ \A k \in 0..RxSize - 1 : k /= r.iput => s.buf[k] = r.buf[k]
      /\ Held(r) < RxSize - 1 => /\ HasRoom(r)
                                /\ Contents(s) = Append(Contents(r), x)
  <2>1. s = ringbuf_put(r, x)
    BY DEF StoreRx
  <2> HIDE DEF r, s
  <2> QED BY <1>2, <2>1, PutContents
<1>4. RxType'
  BY <1>3, RingTypes DEF RxType
<1>5. Getting' <=> Getting
  BY DEF Getting
<1>6. RxWindow'
  BY <1>1, <1>3, <1>5 DEF RxWindow
<1>7. accepted' \in Seq(Nat)
  BY <1>1 DEF StoreRx, RxSeqs
<1>8. ASSUME ~overrun'
      PROVE  accepted' = (taken' \o Reading') \o Contents(read_buffer')
  <2>1. ~overrun /\ Held(r) /= RxSize - 1
    BY Zenon, <1>8, <1>1 DEF StoreRx
  <2>2. Held(r) < RxSize - 1
    BY <2>1, <1>1, <1>2, HeldRange
  <2>3. accepted' = Append(accepted, x)
    BY <2>2, <1>3 DEF StoreRx
  <2>4. accepted = (taken \o Reading) \o Contents(r)
    BY <2>1, <1>1 DEF RxExact
  <2>5. Reading' = Reading
    <3>1. CASE ~Getting
      BY <3>1, <1>5 DEF Reading, Getting
    <3>2. CASE pc = "rload"
      <4>1. r.iget = old + 1
        BY <3>2, <1>1 DEF RxWindow, Getting
      <4>2. old /= r.iput
        <5>1. Held(r) = IF r.iput >= First(r) THEN r.iput - First(r)
                                              ELSE RxSize + r.iput - First(r)
          BY <1>2 DEF Held
        <5>2. First(r) = IF old + 1 >= RxSize THEN 0 ELSE old + 1
          BY <4>1, <1>2 DEF First, WrapIndex
        <5>3. r.iput \in 0..RxSize - 1
          BY <1>1 DEF RxType
        <5> HIDE DEF r
        <5> QED BY <5>1, <5>2, <5>3, <2>2, <1>1
      <4>3. s.buf[old] = r.buf[old]
        BY <4>2, <1>1, <1>3
      <4>4. Reading = <<r.buf[old]>> /\ Reading' = <<s.buf[old]>>
        BY <3>2 DEF Reading, GetByte, Getting
      <4> QED BY <4>3, <4>4
    <3>3. CASE pc = "rwrap"
      BY <3>3 DEF Reading, Getting
    <3> QED BY <3>1, <3>2, <3>3 DEF Getting
  <2>6. /\ taken \in Seq(Byte) /\ Contents(r) \in Seq(Byte) /\ x \in Byte
    BY <1>1, <1>2, HeldRange DEF RxSeqs, Byte
  <2>7. Reading \in Seq(Byte)
    BY <1>1, ReadingIs DEF RxSeqs
  <2> DEFINE a == taken \o Reading
             c == Contents(r)
  <2>8. a \in Seq(Byte)
    BY <2>6, <2>7, Moves
  <2>9. Append(a \o c, x) = a \o Append(c, x)
    <3> HIDE DEF a, c
    <3>1. c \in Seq(Byte) /\ x \in Byte
      BY <2>6 DEF c
    <3>2. a \o Append(c, x) = Append(a \o c, x)
      BY ONLY <2>8, <3>1, Moves
    <3> QED BY <3>2
  <2>10. Contents(s) = Append(Contents(r), x)
    BY <2>2, <1>3
  <2> QED BY <2>3, <2>4, <2>5, <2>9, <2>10
<1> QED BY <1>4, <1>6, <1>7, <1>8 DEF RxInv, RxExact

(* Every step keeps the receive invariant.                                 *)
LEMMA RxStep ==
    ASSUME UartInv, [Next]_vars
    PROVE  RxInv' /\ RxSeqs'
<1>0. /\ RxInv /\ RxType /\ RxWindow /\ RxExact /\ RxSeqs /\ TypeOK
      /\ old \in 0..RxSize - 1 /\ overrun \in BOOLEAN /\ FifoDepth \in Nat
  BY TypeParts, UartAssumption DEF UartInv, CtrlType, RxInv
<1>1. CASE UNCHANGED vars
  <2>1. UNCHANGED <<read_buffer, accepted, taken, overrun, old, rxfifo, line, pc, v>>
    BY <1>1 DEF vars, rxvars, getvars, callvars
  <2> QED BY <2>1, <1>0, RxQuiet DEF RxSeqs
<1>2. CASE LineIn
  <2>1. UNCHANGED <<read_buffer, accepted, taken, overrun, old, pc, v>>
    BY <1>2 DEF LineIn, getvars, callvars
  <2>2. rxfifo' \in Seq(Nat) /\ Len(rxfifo') <= FifoDepth /\ line' \in Nat
    <3>1. CASE Len(rxfifo) < FifoDepth
      <4>1. rxfifo' = Append(rxfifo, line + 1) /\ line' = line + 1
        BY <3>1, <1>2 DEF LineIn
      <4> QED BY <4>1, <3>1, <1>0 DEF RxSeqs
    <3>2. CASE ~(Len(rxfifo) < FifoDepth)
      BY <3>2, <1>2, <1>0 DEF LineIn, RxSeqs
    <3> QED BY <3>1, <3>2
  <2> QED BY <2>1, <2>2, <1>0, RxQuiet DEF RxSeqs
<1>3. CASE LineOut
  <2>1. /\ UNCHANGED <<read_buffer, accepted, taken, overrun, old, rxfifo, line>>
        /\ (~Getting /\ ~Getting') \/ (pc' = pc /\ v' = v)
        /\ v' \in Nat
    BY <1>0, <1>3 DEF LineOut, rxvars, getvars, callvars, Getting, RxSeqs
  <2> QED BY <2>1, <1>0, RxQuiet DEF RxSeqs
<1>4. CASE IrqEnter
  <2>1. /\ UNCHANGED <<read_buffer, accepted, taken, overrun, old, rxfifo, line>>
        /\ (~Getting /\ ~Getting') \/ (pc' = pc /\ v' = v)
        /\ v' \in Nat
    BY <1>0, <1>4 DEF IrqEnter, rxvars, getvars, callvars, Getting, RxSeqs
  <2> QED BY <2>1, <1>0, RxQuiet DEF RxSeqs
<1>5. CASE IrqDrain
  <2>1. UNCHANGED <<taken, old, pc, v, line>>
    BY <1>5 DEF IrqDrain, getvars, callvars
  <2>2. CASE rxfifo /= <<>>
    <3>1. StoreRx(Head(rxfifo)) /\ rxfifo' = Tail(rxfifo)
      BY <1>5, <2>2 DEF IrqDrain
    <3>2. /\ Head(rxfifo) \in Nat /\ Tail(rxfifo) \in Seq(Nat)
          /\ Len(Tail(rxfifo)) <= FifoDepth
      BY <2>2, <1>0, Split DEF RxSeqs
    <3>3. RxInv' /\ accepted' \in Seq(Nat)
      BY <2>1, <3>1, <3>2, RxStored
    <3> QED BY <2>1, <3>1, <3>2, <3>3, <1>0 DEF RxSeqs
  <2>3. CASE rxfifo = <<>>
    <3>1. UNCHANGED <<read_buffer, accepted, overrun, rxfifo>>
      BY <1>5, <2>3 DEF IrqDrain
    <3> QED BY <2>1, <3>1, <1>0, RxQuiet DEF RxSeqs
  <2> QED BY <2>2, <2>3
<1>6. CASE IrqTx
  <2>1. /\ UNCHANGED <<read_buffer, accepted, taken, overrun, old, rxfifo, line>>
        /\ (~Getting /\ ~Getting') \/ (pc' = pc /\ v' = v)
        /\ v' \in Nat
    BY <1>0, <1>6 DEF IrqTx, rxvars, getvars, callvars, Getting, RxSeqs
  <2> QED BY <2>1, <1>0, RxQuiet DEF RxSeqs
<1>7. CASE IrqFill
  <2>1. /\ UNCHANGED <<read_buffer, accepted, taken, overrun, old, rxfifo, line>>
        /\ (~Getting /\ ~Getting') \/ (pc' = pc /\ v' = v)
        /\ v' \in Nat
    BY <1>0, <1>7 DEF IrqFill, rxvars, getvars, callvars, Getting, RxSeqs
  <2> QED BY <2>1, <1>0, RxQuiet DEF RxSeqs
<1>8. CASE Call
  <2>1. /\ UNCHANGED <<read_buffer, accepted, taken, overrun, old, rxfifo, line>>
        /\ (~Getting /\ ~Getting') \/ (pc' = pc /\ v' = v)
        /\ v' \in Nat
    BY <1>0, <1>8 DEF Call, At, rxvars, getvars, Getting, RxSeqs
  <2> QED BY <2>1, <1>0, RxQuiet DEF RxSeqs
<1>9. CASE Poll
  <2>1. /\ UNCHANGED <<read_buffer, accepted, taken, overrun, old, rxfifo, line>>
        /\ (~Getting /\ ~Getting') \/ (pc' = pc /\ v' = v)
        /\ v' \in Nat
    BY <1>0, <1>9 DEF Poll, At, Return, rxvars, getvars, Getting, RxSeqs
  <2> QED BY <2>1, <1>0, RxQuiet DEF RxSeqs
<1>10. CASE ReadDone
  <2>1. /\ UNCHANGED <<read_buffer, accepted, taken, overrun, old, rxfifo, line>>
        /\ (~Getting /\ ~Getting') \/ (pc' = pc /\ v' = v)
        /\ v' \in Nat
    BY <1>0, <1>10 DEF ReadDone, At, Return, rxvars, getvars, Getting, RxSeqs
  <2> QED BY <2>1, <1>0, RxQuiet DEF RxSeqs
<1>11. CASE ReadEmpty
  <2>1. /\ UNCHANGED <<read_buffer, accepted, taken, overrun, old, rxfifo, line>>
        /\ (~Getting /\ ~Getting') \/ (pc' = pc /\ v' = v)
        /\ v' \in Nat
    BY <1>0, <1>11 DEF ReadEmpty, At, Return, Goto, ThreadOnly, getvars, Getting, RxSeqs
  <2> QED BY <2>1, <1>0, RxQuiet DEF RxSeqs
<1>12. CASE ReadAdvance
  <2> DEFINE r == read_buffer
             s == read_buffer'
             x == r.buf[r.iget]
  <2>1. /\ pc = "rtest" /\ pc' = "rload" /\ old' = r.iget /\ s = GetAdvance(r)
        /\ ringbuf_avail(r) > 0
        /\ UNCHANGED <<accepted, overrun, v, taken, rxfifo, line>>
    BY <1>12 DEF ReadAdvance, At, Goto, ThreadOnly
  <2>2. Ring(r) /\ r.size = RxSize /\ r.iget < RxSize
    BY <1>0, <2>1, Rings DEF RxWindow, Getting
  <2>3. Held(r) > 0
    BY <2>1, <2>2, Counts
  <2>4. /\ Ring(s) /\ s.size = RxSize /\ s.iget = r.iget + 1 /\ s.buf = r.buf
        /\ x \in Nat /\ Contents(r) = <<x>> \o Contents(s)
    BY <2>1, <2>2, <2>3, AdvanceContents
  <2>5. RxType' /\ RxWindow'
    BY <2>1, <2>4, RingTypes DEF RxType, RxWindow, Getting
  <2>6. Reading = <<>> /\ Reading' = <<x>>
    BY <2>1, <2>4 DEF Reading, GetByte
  <2>7. (taken \o <<>>) \o (<<x>> \o Contents(s)) = (taken \o <<x>>) \o Contents(s)
    <3> DEFINE c == Contents(s)
               e == <<x>>
    <3>1. taken \in Seq(Byte) /\ c \in Seq(Byte) /\ x \in Byte
      BY <1>0, <2>4, HeldRange DEF RxSeqs, Byte
    <3>2. e \in Seq(Byte)
      BY <3>1, Singleton
    <3>3. taken \o <<>> = taken
      BY <3>1, Moves
    <3> HIDE DEF c, e
    <3>4. (taken \o e) \o c = taken \o (e \o c)
      BY <3>1, <3>2, Moves
    <3> QED BY <3>3, <3>4 DEF c, e
  <2>8. RxExact'
    <3> HIDE DEF x
    <3> QED BY Zenon, <1>0, <2>1, <2>4, <2>6, <2>7 DEF RxExact
  <2> QED BY <2>1, <2>5, <2>8, <1>0 DEF RxInv, RxSeqs
<1>13. CASE ReadLoad
  <2>1. /\ pc = "rload" /\ pc' = "rwrap" /\ v' = read_buffer.buf[old]
        /\ UNCHANGED <<read_buffer, accepted, overrun, old, taken, rxfifo, line>>
    BY <1>13 DEF ReadLoad, At, Goto, GetByte, rxvars
  <2>2. v' \in Nat
    BY Zenon, <2>1, <1>0 DEF RxType
  <2>3. Reading' = Reading
    BY <2>1 DEF Reading, GetByte
  <2>4. RxInv'
    BY <2>1, <2>3, <1>0 DEF RxInv, RxType, RxWindow, RxExact, Getting
  <2> QED BY <2>1, <2>2, <2>4, <1>0 DEF RxSeqs
<1>14. CASE ReadWrap
  <2> DEFINE r == read_buffer
             s == read_buffer'
  <2>1. /\ pc = "rwrap" /\ pc' = "rtest" /\ s = GetWrap(r) /\ taken' = Append(taken, v)
        /\ UNCHANGED <<accepted, overrun, old, v, rxfifo, line>>
    BY <1>14 DEF ReadWrap, At, ThreadOnly
  <2>2. Ring(r) /\ r.size = RxSize
    BY <1>0, Rings
  <2>3. /\ Ring(s) /\ s.size = RxSize /\ s.iget \in 0..RxSize - 1
        /\ Contents(s) = Contents(r)
    BY <2>1, <2>2, WrapContents
  <2>4. RxType' /\ RxWindow'
    <3>1. RxType'
      BY <2>3, RingTypes DEF RxType
    <3>2. s.iget < RxSize
      BY <2>3, UartAssumption
    <3> QED BY <3>1, <3>2, <2>1 DEF RxWindow, Getting
  <2>5. Reading = <<v>> /\ Reading' = <<>>
    BY <2>1 DEF Reading
  <2>6. taken \in Seq(Byte) /\ v \in Byte
    BY <1>0 DEF RxSeqs, Byte
  <2>7. taken' \in Seq(Byte) /\ taken' = taken \o <<v>> /\ taken' \o <<>> = taken'
    BY <2>1, <2>6, AppendConcat
  <2>8. RxExact'
    BY <1>0, <2>1, <2>3, <2>5, <2>7 DEF RxExact
  <2>9. taken' \in Seq(Nat)
    BY <2>7 DEF Byte
  <2> QED BY <2>1, <2>4, <2>8, <2>9, <1>0 DEF RxInv, RxSeqs
<1>15. CASE ThreadDrain
  <2>1. /\ UNCHANGED <<read_buffer, accepted, taken, overrun, old, line>>
        /\ ~Getting /\ ~Getting'
    BY <1>15 DEF ThreadDrain, Goto, Getting
  <2>2. v' \in Nat /\ rxfifo' \in Seq(Nat) /\ Len(rxfifo') <= FifoDepth
    <3>1. CASE rxfifo /= <<>>
      <4>1. v' = Head(rxfifo) /\ rxfifo' = Tail(rxfifo)
        BY <1>15, <3>1 DEF ThreadDrain
      <4> QED BY <4>1, <3>1, <1>0, Split DEF RxSeqs
    <3>2. CASE rxfifo = <<>>
      BY <1>15, <3>2, <1>0 DEF ThreadDrain, RxSeqs
    <3> QED BY <3>1, <3>2
  <2> QED BY <2>1, <2>2, <1>0, RxQuiet DEF RxSeqs
<1>16. CASE ThreadStore
  <2>1. /\ StoreRx(v) /\ UNCHANGED <<taken, old, v, rxfifo, line>>
        /\ ~Getting /\ ~Getting'
    BY <1>16 DEF ThreadStore, Goto, ThreadOnly, Getting, getvars
  <2>2. RxInv' /\ accepted' \in Seq(Nat)
    BY <2>1, <1>0, RxStored DEF RxSeqs
  <2> QED BY <2>1, <2>2, <1>0 DEF RxSeqs
<1>17. CASE ReadUnlock
  <2>1. /\ UNCHANGED <<read_buffer, accepted, taken, overrun, old, rxfifo, line>>
        /\ (~Getting /\ ~Getting') \/ (pc' = pc /\ v' = v)
        /\ v' \in Nat
    BY <1>0, <1>17 DEF ReadUnlock, Goto, ThreadOnly, getvars, Getting, RxSeqs
  <2> QED BY <2>1, <1>0, RxQuiet DEF RxSeqs
<1>18. CASE AnyLock
  <2>1. /\ UNCHANGED <<read_buffer, accepted, taken, overrun, old, rxfifo, line>>
        /\ (~Getting /\ ~Getting') \/ (pc' = pc /\ v' = v)
        /\ v' \in Nat
    BY <1>0, <1>18 DEF AnyLock, At, Goto, ThreadOnly, getvars, Getting, RxSeqs
  <2> QED BY <2>1, <1>0, RxQuiet DEF RxSeqs
<1>19. CASE AnyReturn
  <2>1. /\ UNCHANGED <<read_buffer, accepted, taken, overrun, old, rxfifo, line>>
        /\ (~Getting /\ ~Getting') \/ (pc' = pc /\ v' = v)
        /\ v' \in Nat
    BY <1>0, <1>19 DEF AnyReturn, At, Return, rxvars, getvars, Getting, RxSeqs
  <2> QED BY <2>1, <1>0, RxQuiet DEF RxSeqs
<1>20. CASE WritePut
  <2>1. /\ UNCHANGED <<read_buffer, accepted, taken, overrun, old, rxfifo, line>>
        /\ (~Getting /\ ~Getting') \/ (pc' = pc /\ v' = v)
        /\ v' \in Nat
    BY <1>0, <1>20 DEF WritePut, At, Goto, ThreadOnly, rxvars, getvars, Getting, RxSeqs
  <2> QED BY <2>1, <1>0, RxQuiet DEF RxSeqs
<1>21. CASE WritePublish
  <2>1. /\ UNCHANGED <<read_buffer, accepted, taken, overrun, old, rxfifo, line>>
        /\ (~Getting /\ ~Getting') \/ (pc' = pc /\ v' = v)
        /\ v' \in Nat
    BY <1>0, <1>21 DEF WritePublish, ThreadOnly, rxvars, getvars, Getting, RxSeqs
  <2> QED BY <2>1, <1>0, RxQuiet DEF RxSeqs
<1>22. CASE WriteFill
  <2>1. /\ UNCHANGED <<read_buffer, accepted, taken, overrun, old, rxfifo, line>>
        /\ ~Getting /\ ~Getting'
    BY <1>22 DEF WriteFill, At, Goto, ThreadOnly, rxvars, Getting
  <2>2. v' \in Nat
    <3>1. write_buffer.buf[write_buffer.iget] \in Nat
      BY Zenon, <1>0 DEF TypeOK
    <3> QED BY <3>1, <1>0, <1>22 DEF WriteFill, GetByte, RxSeqs
  <2> QED BY <2>1, <2>2, <1>0, RxQuiet DEF RxSeqs
<1>23. CASE WriteStore
  <2>1. /\ UNCHANGED <<read_buffer, accepted, taken, overrun, old, rxfifo, line>>
        /\ (~Getting /\ ~Getting') \/ (pc' = pc /\ v' = v)
        /\ v' \in Nat
    BY <1>0, <1>23 DEF WriteStore, At, Goto, rxvars, getvars, Getting, RxSeqs
  <2> QED BY <2>1, <1>0, RxQuiet DEF RxSeqs
<1>24. CASE WriteUnlock
  <2>1. /\ UNCHANGED <<read_buffer, accepted, taken, overrun, old, rxfifo, line>>
        /\ (~Getting /\ ~Getting') \/ (pc' = pc /\ v' = v)
        /\ v' \in Nat
    BY <1>0, <1>24 DEF WriteUnlock, At, Goto, ThreadOnly, rxvars, getvars, Getting, RxSeqs
  <2> QED BY <2>1, <1>0, RxQuiet DEF RxSeqs
<1>25. CASE WriteWait
  <2>1. /\ UNCHANGED <<read_buffer, accepted, taken, overrun, old, rxfifo, line>>
        /\ (~Getting /\ ~Getting') \/ (pc' = pc /\ v' = v)
        /\ v' \in Nat
    BY <1>0, <1>25 DEF WriteWait, At, Goto, Return, ThreadOnly, rxvars, getvars, Getting, RxSeqs
  <2> QED BY <2>1, <1>0, RxQuiet DEF RxSeqs
<1> QED
  BY <1>1, <1>2, <1>3, <1>4, <1>5, <1>6, <1>7, <1>8, <1>9, <1>10, <1>11, <1>12,
     <1>13, <1>14, <1>15, <1>16, <1>17, <1>18, <1>19, <1>20, <1>21, <1>22, <1>23,
     <1>24, <1>25 DEF Next, Handler, Thread

=============================================================================
