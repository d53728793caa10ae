-------------------------- MODULE MachineUartProofs --------------------------
(***************************************************************************)
(* Theorems about MachineUart, for every size of the buffers and of the    *)
(* hardware FIFOs: what read hands over and what write sends is what was   *)
(* stored, and bytes are left in write_buffer only with an interrupt due.  *)
(***************************************************************************)
EXTENDS MachineUartRxProofs

-----------------------------------------------------------------------------
(* The transmit side.                                                      *)

TxInv == TxType /\ TxWindow /\ TxExact

Storing == pc = "wstore"

StoreRoom == Storing => Len(txfifo) < FifoDepth

(* A step that leaves the buffer, the FIFO and the byte in flight alone    *)
(* keeps the transmit invariant.                                           *)
LEMMA TxQuiet ==
    ASSUME TxInv, TxSeqs, StoreRoom,
           UNCHANGED <<write_buffer, txfifo, sent, written>>,
           \/ ~Storing /\ ~Storing' /\ ~Publishing'
           \/ pc' = pc /\ v' = v
    PROVE  TxInv' /\ TxSeqs' /\ StoreRoom'
<1>1. CASE ~Storing /\ ~Storing' /\ ~Publishing'
  <2>1. Writing = <<>> /\ Writing' = <<>>
    BY <1>1 DEF Writing, Storing
  <2> QED BY <1>1, <2>1 DEF TxInv, TxType, TxWindow, TxExact, TxSeqs, StoreRoom
<1>2. CASE pc' = pc /\ v' = v
  <2>1. Writing' = Writing
    BY <1>2 DEF Writing
  <2> QED BY <1>2, <2>1 DEF TxInv, TxType, TxWindow, TxExact, TxSeqs, StoreRoom,
                            Storing, Publishing
<1> QED BY <1>1, <1>2

(* What is known of the transmit side in a state of the invariant.         *)
LEMMA TxFacts ==
    ASSUME UartInv
    PROVE  /\ TxInv /\ TxSeqs /\ StoreRoom
           /\ v \in Byte /\ sent \in Seq(Byte) /\ txfifo \in Seq(Byte)
           /\ Writing \in Seq(Byte) /\ Contents(write_buffer) \in Seq(Byte)
           /\ FifoDepth \in Nat /\ TxSize \in Nat \ {0, 1}
           /\ Ring(write_buffer) /\ write_buffer.size = TxSize
           /\ write_buffer.iget < write_buffer.size
           /\ write_buffer.iget \in 0..TxSize - 1
           /\ Held(write_buffer) \in 0..TxSize - 1
           /\ ringbuf_avail(write_buffer) = Held(write_buffer)
           /\ ringbuf_free(write_buffer) = TxSize - 1 - Held(write_buffer)
<1>1. TxInv /\ TxSeqs /\ StoreRoom
  BY TypeParts DEF UartInv, TxInv, Progressing, StoreRoom, Storing
<1>2. v \in Byte /\ sent \in Seq(Byte) /\ txfifo \in Seq(Byte)
  BY <1>1 DEF UartInv, TypeOK, Byte
<1>3. Writing \in Seq(Byte)
  BY <1>2, Singleton DEF Writing
<1>4. /\ Ring(write_buffer) /\ write_buffer.size = TxSize
      /\ write_buffer.iget < write_buffer.size
      /\ ringbuf_avail(write_buffer) = Held(write_buffer)
      /\ ringbuf_free(write_buffer) = TxSize - 1 - Held(write_buffer)
  BY Rings DEF UartInv
<1>5. Contents(write_buffer) \in Seq(Byte) /\ Held(write_buffer) \in 0..TxSize - 1
  BY <1>4, HeldRange DEF Byte
<1>6. write_buffer.iget \in 0..TxSize - 1
  BY <1>1 DEF TxInv, TxType
<1> QED BY <1>1, <1>2, <1>3, <1>4, <1>5, <1>6, UartAssumption

(* The bytes passed to write are numbered in their order.                  *)
LEMMA Numbered ==
    ASSUME NEW n \in Nat
    PROVE  /\ [k \in 1..n |-> k] \in Seq(Byte)
           /\ [k \in 1..n + 1 |-> k] = Append([k \in 1..n |-> k], n + 1)
           /\ n + 1 \in Byte
<1>1. n + 1 \in Byte /\ \A k \in 1..n : k \in Byte
  BY DEF Byte
<1>2. [k \in 1..n |-> k] \in Seq(Byte)
  <2> HIDE DEF Byte
  <2> QED BY <1>1
<1>3. [k \in 1..n + 1 |-> k] = Append([k \in 1..n |-> k], n + 1)
  OBVIOUS
<1> QED BY <1>1, <1>2, <1>3

(* A byte fetched by the fill loop leaves the buffer at its front.         *)
LEMMA TxFetched ==
    ASSUME UartInv, CanFill, write_buffer' = ringbuf_get(write_buffer)
    PROVE  /\ TxType'
           /\ written' = written /\ pc' = pc => TxWindow'
           /\ write_buffer.buf[write_buffer.iget] \in Byte
           /\ Contents(write_buffer') \in Seq(Byte)
           /\ Contents(write_buffer)
                = <<write_buffer.buf[write_buffer.iget]>> \o Contents(write_buffer')
           /\ txfifo' = Append(txfifo, write_buffer.buf[write_buffer.iget]) =>
                sent \o txfifo' \o <<>> \o Contents(write_buffer')
                  = sent \o txfifo \o <<>> \o Contents(write_buffer)
<1> DEFINE r == write_buffer
           s == ringbuf_get(r)
           x == r.buf[r.iget]
<1>0. TxInv /\ Ring(r) /\ r.size = TxSize /\ r.iget < r.size /\ Held(r) > 0
      /\ sent \in Seq(Byte) /\ txfifo \in Seq(Byte)
  BY TxFacts DEF CanFill
<1>1. /\ Ring(s) /\ s.size = TxSize /\ s.iput = r.iput
      /\ s.buf = r.buf /\ s.iget \in 0..TxSize - 1
      /\ Held(s) = Held(r) - 1
      /\ x \in Byte /\ Contents(r) = <<x>> \o Contents(s)
  BY <1>0, GetContents DEF Byte
<1>2. write_buffer' = s
  OBVIOUS
<1>3. TxType'
  BY <1>1, <1>2, RingTypes DEF TxType
<1>4. ASSUME written' = written, pc' = pc
      PROVE  TxWindow'
  <2>1. Held(r) \in Nat /\ TxSize \in Nat
    BY <1>0, HeldRange, UartAssumption
  <2> HIDE DEF s
  <2> QED BY <1>0, <1>1, <1>2, <1>4, <2>1 DEF TxInv, TxWindow, Publishing
<1>5. Contents(s) \in Seq(Byte) /\ Contents(r) \in Seq(Byte)
  BY <1>0, <1>1, HeldRange DEF Byte
<1>6. ASSUME txfifo' = Append(txfifo, x)
      PROVE  ((sent \o txfifo') \o <<>>) \o Contents(s)
                = ((sent \o txfifo) \o <<>>) \o Contents(r)
  <2> DEFINE c == Contents(s)
             d == Contents(r)
             f == Append(txfifo, x)
             p == sent \o txfifo
             e == <<x>>
  <2>1. /\ f \in Seq(Byte) /\ c \in Seq(Byte) /\ d = <<x>> \o c /\ p \in Seq(Byte)
        /\ x \in Byte
    <3>1. c \in Seq(Byte) /\ d = <<x>> \o c
      BY <1>1, <1>5
    <3>2. p \in Seq(Byte) /\ f \in Seq(Byte)
      <4> HIDE DEF x
      <4> QED BY <1>0, <1>1
    <3> QED BY <3>1, <3>2, <1>1
  <2>2. sent \o f = p \o <<x>>
    BY <1>0, <1>1, ByteWithin
  <2>3. (sent \o f) \o <<>> = sent \o f
    BY <1>0, <2>1, Nothing
  <2>4. p \o <<>> = p
    BY <1>0, Nothing
  <2>5. e \in Seq(Byte)
    <3> HIDE DEF x
    <3> QED BY <2>1, Singleton
  <2> HIDE DEF c, d, x, p, f, e
  <2>6. (p \o e) \o c = p \o (e \o c)
    <3>1. p \in Seq(Byte) /\ e \in Seq(Byte) /\ c \in Seq(Byte)
      BY <2>1, <2>5
    <3> QED BY ONLY <3>1, Associative
  <2>7. ((sent \o f) \o <<>>) \o c = (p \o <<>>) \o d
    BY Zenon, <2>1, <2>2, <2>3, <2>4, <2>6 DEF e
  <2> QED BY <1>6, <2>7 DEF f, c, d, p
<1> HIDE DEF s
<1> QED BY Zenon, <1>1, <1>2, <1>3, <1>4, <1>5, <1>6

(* A byte stored in the free slot, not yet published.                      *)
LEMMA TxPut ==
    ASSUME UartInv, ringbuf_free(write_buffer) > 0,
           write_buffer' = PutByte(write_buffer, written + 1),
           UNCHANGED <<written, sent, txfifo>>, ~Storing, ~Storing'
    PROVE  TxInv' /\ TxSeqs' /\ StoreRoom'
<1> DEFINE r == write_buffer
           s == PutByte(r, written + 1)
<1>0. /\ TxInv /\ TxSeqs /\ Ring(r) /\ r.size = TxSize /\ r.iget < r.size
      /\ Held(r) \in 0..TxSize - 1 /\ TxSize - 1 - Held(r) > 0
      /\ TxSize \in Nat /\ r.iget \in 0..TxSize - 1
  BY TxFacts
<1>1. written + 1 \in Nat
  BY <1>0 DEF TxSeqs
<1>2. /\ Ring(s) /\ s.size = TxSize /\ s.iget = r.iget /\ s.iput = r.iput
      /\ s.buf[r.iput] = written + 1 /\ Held(s) = Held(r) /\ Contents(s) = Contents(r)
  BY Zenon, <1>0, <1>1, PutByteContents
<1>3. write_buffer' = s
  OBVIOUS
<1> HIDE DEF s
<1>4. TxType'
  BY <1>0, <1>2, <1>3, RingTypes DEF TxType
<1>5. TxWindow'
  BY <1>0, <1>2, <1>3 DEF TxWindow
<1>6. TxExact'
  <2>1. Writing = <<>> /\ Writing' = <<>>
    BY DEF Writing, Storing
  <2> QED BY Zenon, <2>1, <1>0, <1>2, <1>3 DEF TxInv, TxExact
<1> QED BY <1>0, <1>4, <1>5, <1>6 DEF TxInv, TxSeqs, StoreRoom

(* Every step keeps the transmit part of the invariant.                    *)
LEMMA TxStep ==
    ASSUME UartInv, [Next]_vars
    PROVE  TxInv' /\ TxSeqs' /\ StoreRoom'
<1>0. /\ TxInv /\ TxSeqs /\ StoreRoom
      /\ v \in Byte /\ sent \in Seq(Byte) /\ txfifo \in Seq(Byte)
      /\ Contents(write_buffer) \in Seq(Byte)
      /\ FifoDepth \in Nat /\ TxSize \in Nat \ {0, 1}
      /\ Ring(write_buffer) /\ write_buffer.size = TxSize
      /\ write_buffer.iget \in 0..TxSize - 1
  BY TxFacts
<1>1. CASE UNCHANGED vars
  <2>1. UNCHANGED <<write_buffer, txfifo, sent, written, pc, v>>
    BY <1>1 DEF vars, txvars, getvars, callvars
  <2> QED BY <2>1, <1>0, TxQuiet
<1>2. CASE LineIn
  <2>1. UNCHANGED <<write_buffer, txfifo, sent, written, pc, v>>
    BY <1>2 DEF LineIn, txvars, getvars, callvars
  <2> QED BY <2>1, <1>0, TxQuiet
<1>3. CASE LineOut
  <2>1. /\ txfifo /= <<>> /\ sent' = Append(sent, Head(txfifo)) /\ txfifo' = Tail(txfifo)
        /\ UNCHANGED <<write_buffer, written, pc, v>>
    BY <1>3 DEF LineOut, getvars, callvars
  <2>2. Append(sent, Head(txfifo)) \o Tail(txfifo) = sent \o txfifo
    BY Zenon, <2>1, <1>0, Passed
  <2>3. /\ Tail(txfifo) \in Seq(Nat) /\ Len(Tail(txfifo)) = Len(txfifo) - 1
        /\ Append(sent, Head(txfifo)) \in Seq(Nat)
    BY <2>1, <1>0, Split DEF TxSeqs
  <2>4. Writing' = Writing
    BY <2>1 DEF Writing
  <2>5. TxInv'
    BY Zenon, <2>1, <2>2, <2>4, <1>0 DEF TxInv, TxType, TxWindow, TxExact, Publishing
  <2>6. TxSeqs' /\ StoreRoom'
    BY <2>1, <2>3, <1>0 DEF TxSeqs, StoreRoom, Storing
  <2> QED BY <2>5, <2>6
<1>4. CASE IrqEnter
  <2>1. UNCHANGED <<write_buffer, txfifo, sent, written, pc, v>>
    BY <1>4 DEF IrqEnter, txvars, getvars, callvars
  <2> QED BY <2>1, <1>0, TxQuiet
<1>5. CASE IrqDrain
  <2>1. UNCHANGED <<write_buffer, txfifo, sent, written, pc, v>>
    BY <1>5 DEF IrqDrain, txvars, getvars, callvars
  <2> QED BY <2>1, <1>0, TxQuiet
<1>6. CASE IrqTx
  <2>1. UNCHANGED <<write_buffer, txfifo, sent, written, pc, v>>
    BY <1>6 DEF IrqTx, txvars, getvars, callvars
  <2> QED BY <2>1, <1>0, TxQuiet
<1>7. CASE IrqFill
  <2>1. UNCHANGED <<written, sent, pc, v>> /\ ~Storing
    BY <1>7 DEF IrqFill, getvars, callvars, UartInv, Locks, Storing
  <2>2. CASE CanFill
    <3>1. /\ txfifo' = Append(txfifo, write_buffer.buf[write_buffer.iget])
          /\ write_buffer' = ringbuf_get(write_buffer)
          /\ Len(txfifo) < FifoDepth
      BY <1>7, <2>2 DEF IrqFill, StoreTx, GetByte, CanFill
    <3>2. TxType' /\ TxWindow' /\ write_buffer.buf[write_buffer.iget] \in Byte
      BY <2>1, <2>2, <3>1, TxFetched
    <3>3. sent \o txfifo' \o <<>> \o Contents(write_buffer')
            = sent \o txfifo \o <<>> \o Contents(write_buffer)
      BY Zenon, <2>2, <3>1, TxFetched
    <3>4. Writing = <<>> /\ Writing' = <<>>
      BY <2>1 DEF Writing, Storing
    <3>5. TxExact'
      BY Zenon, <3>3, <3>4, <2>1, <1>0 DEF TxInv, TxExact
    <3>6. txfifo' \in Seq(Nat) /\ Len(txfifo') <= FifoDepth
      BY <3>1, <3>2, <1>0 DEF Byte, TxSeqs
    <3> QED BY <3>2, <3>5, <3>6, <2>1, <1>0 DEF TxInv, TxSeqs, StoreRoom, Storing
  <2>3. CASE ~CanFill
    <3>1. UNCHANGED <<write_buffer, txfifo>>
      BY <1>7, <2>3 DEF IrqFill
    <3> QED BY <2>1, <3>1, <1>0, TxQuiet
  <2> QED BY <2>2, <2>3
<1>8. CASE Call
  <2>1. /\ UNCHANGED <<write_buffer, txfifo, sent, written>>
        /\ ~Storing /\ ~Storing' /\ ~Publishing'
    BY <1>8 DEF Call, At, txvars, Storing, Publishing
  <2> QED BY <2>1, <1>0, TxQuiet
<1>9. CASE Poll
  <2>1. /\ UNCHANGED <<write_buffer, txfifo, sent, written>>
        /\ ~Storing /\ ~Storing' /\ ~Publishing'
    BY <1>9 DEF Poll, At, Return, txvars, Storing, Publishing
  <2> QED BY <2>1, <1>0, TxQuiet
<1>10. CASE ReadDone
  <2>1. /\ UNCHANGED <<write_buffer, txfifo, sent, written>>
        /\ ~Storing /\ ~Storing' /\ ~Publishing'
    BY <1>10 DEF ReadDone, At, Return, txvars, Storing, Publishing
  <2> QED BY <2>1, <1>0, TxQuiet
<1>11. CASE ReadEmpty
  <2>1. /\ UNCHANGED <<write_buffer, txfifo, sent, written>>
        /\ ~Storing /\ ~Storing' /\ ~Publishing'
    BY <1>11 DEF ReadEmpty, At, Return, Goto, ThreadOnly, Storing, Publishing
  <2> QED BY <2>1, <1>0, TxQuiet
<1>12. CASE ReadAdvance
  <2>1. /\ UNCHANGED <<write_buffer, txfifo, sent, written>>
        /\ ~Storing /\ ~Storing' /\ ~Publishing'
    BY <1>12 DEF ReadAdvance, At, Goto, txvars, Storing, Publishing
  <2> QED BY <2>1, <1>0, TxQuiet
<1>13. CASE ReadLoad
  <2>1. /\ UNCHANGED <<write_buffer, txfifo, sent, written>>
        /\ ~Storing /\ ~Storing' /\ ~Publishing'
    BY <1>13 DEF ReadLoad, At, Goto, txvars, Storing, Publishing
  <2> QED BY <2>1, <1>0, TxQuiet
<1>14. CASE ReadWrap
  <2>1. /\ UNCHANGED <<write_buffer, txfifo, sent, written>>
        /\ ~Storing /\ ~Storing' /\ ~Publishing'
    BY <1>14 DEF ReadWrap, At, txvars, Storing, Publishing
  <2> QED BY <2>1, <1>0, TxQuiet
<1>15. CASE ThreadDrain
  <2>1. /\ UNCHANGED <<write_buffer, txfifo, sent, written>>
        /\ ~Storing /\ ~Storing' /\ ~Publishing'
    BY <1>15 DEF ThreadDrain, Goto, txvars, Storing, Publishing
  <2> QED BY <2>1, <1>0, TxQuiet
<1>16. CASE ThreadStore
  <2>1. /\ UNCHANGED <<write_buffer, txfifo, sent, written>>
        /\ ~Storing /\ ~Storing' /\ ~Publishing'
    BY <1>16 DEF ThreadStore, Goto, txvars, Storing, Publishing
  <2> QED BY <2>1, <1>0, TxQuiet
<1>17. CASE ReadUnlock
  <2>1. /\ UNCHANGED <<write_buffer, txfifo, sent, written>>
        /\ ~Storing /\ ~Storing' /\ ~Publishing'
    BY <1>17 DEF ReadUnlock, Goto, ThreadOnly, Storing, Publishing
  <2> QED BY <2>1, <1>0, TxQuiet
<1>18. CASE AnyLock
  <2>1. /\ UNCHANGED <<write_buffer, txfifo, sent, written>>
        /\ ~Storing /\ ~Storing' /\ ~Publishing'
    BY <1>18 DEF AnyLock, At, Goto, ThreadOnly, Storing, Publishing
  <2> QED BY <2>1, <1>0, TxQuiet
<1>19. CASE AnyReturn
  <2>1. /\ UNCHANGED <<write_buffer, txfifo, sent, written>>
        /\ ~Storing /\ ~Storing' /\ ~Publishing'
    BY <1>19 DEF AnyReturn, At, Return, txvars, Storing, Publishing
  <2> QED BY <2>1, <1>0, TxQuiet
<1>20. CASE WritePut
  <2>1. /\ UNCHANGED <<written, sent, txfifo>> /\ ~Storing /\ ~Storing'
    BY <1>20 DEF WritePut, At, Goto, ThreadOnly, Storing
  <2>2. CASE i < arg /\ ringbuf_free(write_buffer) > 0
    <3>1. write_buffer' = PutByte(write_buffer, written + 1)
      BY <1>20, <2>2 DEF WritePut
    <3> QED BY <2>1, <2>2, <3>1, TxPut
  <2>3. CASE ~(i < arg /\ ringbuf_free(write_buffer) > 0)
    <3>1. UNCHANGED write_buffer /\ ~Publishing'
      BY <1>20, <2>3 DEF WritePut, Goto, Publishing
    <3> QED BY <2>1, <3>1, <1>0, TxQuiet
  <2> QED BY <2>2, <2>3
<1>21. CASE WritePublish
  <2> DEFINE r == write_buffer
             c == Contents(r)
             a == [k \in 1..written |-> k]
             x == written + 1
             p == sent \o txfifo
  <2>1. /\ UNCHANGED <<sent, txfifo>> /\ ~Storing /\ ~Storing' /\ ~Publishing'
        /\ Publishing /\ write_buffer' = PutIndex(r) /\ written' = x
    BY <1>21 DEF WritePublish, ThreadOnly, Storing, Publishing
  <2>2. Held(r) < TxSize - 1 /\ r.buf[r.iput] = x
    BY <2>1, <1>0 DEF TxInv, TxWindow
  <2>3. /\ Ring(PutIndex(r)) /\ PutIndex(r).size = TxSize /\ PutIndex(r).iget = r.iget
        /\ Contents(PutIndex(r)) = Append(c, x)
    BY <2>2, <1>0, PutIndexContents
  <2>4. TxType'
    BY <2>1, <2>3, <1>0, RingTypes DEF TxType
  <2>5. x \in Byte /\ [k \in 1..x |-> k] = Append(a, x)
    BY Zenon, <1>0, Numbered DEF TxSeqs
  <2>6. p \o <<>> \o c = a
    <3>1. Writing = <<>>
      BY <2>1 DEF Writing, Storing
    <3> QED BY <3>1, <1>0 DEF TxInv, TxExact
  <2>7. p \o <<>> \o Append(c, x) = Append(p \o <<>> \o c, x)
    <3>1. p \in Seq(Byte) /\ c \in Seq(Byte)
      <4>1. p \in Seq(Byte)
        <5> HIDE DEF x
        <5> QED BY <1>0, <2>5, Moves
      <4> QED BY <4>1, <1>0
    <3> HIDE DEF p, c, x
    <3>2. p \o <<>> = p
      BY <3>1, <2>5, Moves
    <3>3. p \o Append(c, x) = Append(p \o c, x)
      BY <3>1, <2>5, Moves
    <3> QED BY <3>2, <3>3
  <2>8. TxExact'
    <3>1. Writing' = <<>>
      BY <2>1 DEF Writing, Storing
    <3>2. p' = p /\ Contents(write_buffer') = Append(c, x)
      BY <2>1, <2>3
    <3>3. [k \in 1..written' |-> k] = Append(a, x)
      BY Zenon, <2>1, <2>5
    <3> HIDE DEF a, c, x
    <3> QED BY Zenon, <3>1, <3>2, <3>3, <2>6, <2>7 DEF TxExact
  <2> QED BY <2>1, <2>4, <2>8, <1>0 DEF TxInv, TxWindow, TxSeqs, StoreRoom
<1>22. CASE WriteFill
  <2>1. /\ UNCHANGED <<written, sent, txfifo>> /\ ~Storing /\ ~Publishing'
        /\ pc = "wfill"
    BY <1>22 DEF WriteFill, At, Goto, ThreadOnly, Storing, Publishing
  <2>2. CASE CanFill
    <3> DEFINE x == write_buffer.buf[write_buffer.iget]
    <3>1. /\ v' = x /\ write_buffer' = ringbuf_get(write_buffer)
          /\ Len(txfifo) < FifoDepth /\ pc' = "wstore"
      BY <1>22, <2>2 DEF WriteFill, GetByte, CanFill, Goto
    <3>2. TxType' /\ x \in Byte
      BY <2>1, <2>2, <3>1, TxFetched
    <3>3. Contents(write_buffer) = <<x>> \o Contents(write_buffer')
      BY <2>2, <3>1, TxFetched
    <3>4. Writing = <<>> /\ Writing' = <<x>>
      BY <2>1, <3>1 DEF Writing, Storing
    <3>5. TxExact'
      <4> DEFINE d == Contents(write_buffer')
      <4>1. d \in Seq(Byte)
        BY <2>2, <3>1, TxFetched
      <4> HIDE DEF d, x
      <4> DEFINE p == sent \o txfifo
      <4>2. p \in Seq(Byte) /\ p \o <<>> = p
        BY <1>0, Nothing
      <4> HIDE DEF p
      <4>3. p \o (<<x>> \o d) = (p \o <<x>>) \o d
        BY <4>1, <4>2, <3>2, ByteAfter
      <4>4. (p \o <<x>>) \o d = (p \o <<>>) \o (<<x>> \o d)
        BY <4>2, <4>3
      <4> QED BY Zenon, <4>4, <3>3, <3>4, <2>1, <1>0 DEF TxInv, TxExact, d, p
    <3> QED BY Zenon, <3>1, <3>2, <3>5, <2>1, <1>0 DEF TxInv, TxWindow, TxSeqs, StoreRoom
  <2>3. CASE ~CanFill
    <3>1. UNCHANGED write_buffer /\ ~Storing'
      BY <1>22, <2>3 DEF WriteFill, Goto, Storing
    <3> QED BY <2>1, <3>1, <1>0, TxQuiet
  <2> QED BY <2>2, <2>3
<1>23. CASE WriteStore
  <2>1. /\ UNCHANGED <<written, sent, write_buffer>> /\ Storing /\ ~Storing'
        /\ ~Publishing' /\ txfifo' = Append(txfifo, v)
    BY <1>23 DEF WriteStore, StoreTx, At, Goto, Storing, Publishing
  <2>2. Writing = <<v>> /\ Writing' = <<>>
    BY <2>1 DEF Writing, Storing
  <2>3. TxExact'
    <3> DEFINE c == Contents(write_buffer)
    <3>1. c \in Seq(Byte)
      BY <1>0
    <3>2. sent \o Append(txfifo, v) = (sent \o txfifo) \o <<v>>
      BY <1>0, ByteWithin
    <3>3. (sent \o Append(txfifo, v)) \o <<>> = sent \o Append(txfifo, v)
      <4>1. Append(txfifo, v) \in Seq(Byte)
        BY ONLY <1>0
      <4> QED BY <4>1, <1>0, Nothing
    <3> QED BY Zenon, <2>1, <2>2, <3>2, <3>3, <1>0 DEF TxInv, TxExact
  <2>4. Append(txfifo, v) \in Seq(Nat) /\ Len(Append(txfifo, v)) <= FifoDepth
    BY <1>0, <2>1 DEF TxSeqs, StoreRoom, Byte
  <2> QED BY <2>1, <2>3, <2>4, <1>0 DEF TxInv, TxType, TxWindow, TxSeqs, StoreRoom
<1>24. CASE WriteUnlock
  <2>1. /\ UNCHANGED <<write_buffer, txfifo, sent, written>>
        /\ ~Storing /\ ~Storing' /\ ~Publishing'
    BY <1>24 DEF WriteUnlock, At, Goto, ThreadOnly, Storing, Publishing
  <2> QED BY <2>1, <1>0, TxQuiet
<1>25. CASE WriteWait
  <2>1. /\ UNCHANGED <<written, sent, txfifo>> /\ ~Storing /\ ~Storing'
    BY <1>25 DEF WriteWait, At, Goto, Return, ThreadOnly, Storing
  <2>2. CASE ringbuf_free(write_buffer) > 0 /\ write_buffer' = PutByte(write_buffer, written + 1)
    BY <2>1, <2>2, TxPut
  <2>3. CASE UNCHANGED write_buffer /\ ~Publishing'
    BY <2>1, <2>3, <1>0, TxQuiet
  <2> QED BY <2>2, <2>3, <1>25 DEF WriteWait, Return, Publishing
<1> QED BY <1>1, <1>2, <1>3, <1>4, <1>5, <1>6, <1>7, <1>8, <1>9, <1>10, <1>11, <1>12, <1>13, <1>14,
           <1>15, <1>16, <1>17, <1>18, <1>19, <1>20, <1>21, <1>22, <1>23, <1>24, <1>25
           DEF Next, Handler, Thread

-----------------------------------------------------------------------------
(* A call that is getting or publishing a byte has one left to transfer.   *)
Pending == Getting \/ Publishing => i < arg

(* Every step keeps it so.                                                 *)
LEMMA ProgStep ==
    ASSUME UartInv, [Next]_vars
    PROVE  Pending'
<1> USE DEF Pending, Getting, Publishing
<1>0. Pending
  BY DEF UartInv, Progressing
<1>1. CASE UNCHANGED vars
  BY <1>0, <1>1 DEF vars, callvars
<1>2. CASE LineIn
  BY <1>0, <1>2 DEF LineIn, callvars
<1>3. CASE LineOut
  BY <1>0, <1>3 DEF LineOut, callvars
<1>4. CASE IrqEnter
  BY <1>0, <1>4 DEF IrqEnter, callvars
<1>5. CASE IrqDrain
  BY <1>0, <1>5 DEF IrqDrain, callvars
<1>6. CASE IrqTx
  BY <1>0, <1>6 DEF IrqTx, callvars
<1>7. CASE IrqFill
  BY <1>0, <1>7 DEF IrqFill, callvars
<1>8. CASE Call
  BY <1>0, <1>8 DEF Call, At
<1>9. CASE Poll
  BY <1>0, <1>9 DEF Poll, At, Return
<1>10. CASE ReadDone
  BY <1>0, <1>10 DEF ReadDone, At, Return
<1>11. CASE ReadEmpty
  BY <1>0, <1>11 DEF ReadEmpty, At, Return, Goto
<1>12. CASE ReadAdvance
  BY <1>0, <1>12 DEF ReadAdvance, At, Goto
<1>13. CASE ReadLoad
  BY <1>0, <1>13 DEF ReadLoad, At, Goto
<1>14. CASE ReadWrap
  BY <1>0, <1>14 DEF ReadWrap, At
<1>15. CASE ThreadDrain
  BY <1>0, <1>15 DEF ThreadDrain, Goto
<1>16. CASE ThreadStore
  BY <1>0, <1>16 DEF ThreadStore, Goto
<1>17. CASE ReadUnlock
  BY <1>0, <1>17 DEF ReadUnlock, Goto
<1>18. CASE AnyLock
  BY <1>0, <1>18 DEF AnyLock, At, Goto
<1>19. CASE AnyReturn
  BY <1>0, <1>19 DEF AnyReturn, At, Return
<1>20. CASE WritePut
  BY <1>0, <1>20 DEF WritePut, At, Goto
<1>21. CASE WritePublish
  BY <1>0, <1>21 DEF WritePublish
<1>22. CASE WriteFill
  BY <1>0, <1>22 DEF WriteFill, At, Goto
<1>23. CASE WriteStore
  BY <1>0, <1>23 DEF WriteStore, At, Goto
<1>24. CASE WriteUnlock
  BY <1>0, <1>24 DEF WriteUnlock, At, Goto
<1>25. CASE WriteWait
  BY <1>0, <1>25 DEF WriteWait, At, Goto, Return
<1> QED BY <1>1, <1>2, <1>3, <1>4, <1>5, <1>6, <1>7, <1>8, <1>9, <1>10, <1>11, <1>12, <1>13, <1>14,
           <1>15, <1>16, <1>17, <1>18, <1>19, <1>20, <1>21, <1>22, <1>23, <1>24, <1>25
           DEF Next, Handler, Thread

(* The invariant holds in the initial state.                               *)
LEMMA UartInvInit == Init => UartInv
<1> SUFFICES ASSUME Init PROVE UartInv
  OBVIOUS
<1> USE UartAssumption DEF Init
<1>1. RxType /\ TxType
  BY DEF RxType, TxType, ringbuf_alloc
<1>2. RxSeqs /\ TxSeqs /\ CtrlType
  <2>1. RxSeqs /\ TxSeqs
    BY DEF RxSeqs, TxSeqs
  <2>2. old \in 0..RxSize - 1 /\ arg \in Nat /\ i \in 0..arg
    OBVIOUS
  <2>3. CtrlType
    BY <2>2, Zenon DEF CtrlType
  <2> QED BY <2>1, <2>3
<1>3. TypeOK
  BY <1>1, <1>2, TypeParts
<1>4. Held(read_buffer) = 0 /\ Held(write_buffer) = 0
  BY DEF Held, First, WrapIndex, ringbuf_alloc
<1>5. Contents(read_buffer) = <<>> /\ Contents(write_buffer) = <<>>
  BY <1>4 DEF Contents
<1>6. Reading = <<>> /\ Writing = <<>>
  BY DEF Reading, Writing
<1>7. RxExact
  BY <1>5, <1>6 DEF RxExact
<1>8. TxExact
  BY <1>5, <1>6 DEF TxExact
<1>9. Locks /\ Progressing /\ TxWindow
  BY DEF Locks, Progressing, Getting, Publishing, TxWindow
<1>10. RxWindow
  BY DEF RxWindow, Getting, ringbuf_alloc
<1> QED BY <1>3, <1>7, <1>8, <1>9, <1>10 DEF UartInv

(* Every step keeps the invariant.                                         *)
LEMMA UartInvStep ==
    ASSUME UartInv, [Next]_vars
    PROVE  UartInv'
<1>1. CtrlType' /\ Locks'
  BY CtrlStep
<1>2. RxType' /\ RxWindow' /\ RxExact' /\ RxSeqs'
  BY RxStep DEF RxInv
<1>3. TxType' /\ TxWindow' /\ TxExact' /\ TxSeqs' /\ StoreRoom'
  BY TxStep DEF TxInv
<1>4. Pending'
  BY ProgStep
<1>5. Progressing'
  BY <1>3, <1>4 DEF Progressing, StoreRoom, Storing, Pending
<1>6. TypeOK'
  BY Zenon, <1>1, <1>2, <1>3 DEF TypeOK, RxType, TxType, RxSeqs, TxSeqs, CtrlType
<1> QED BY <1>1, <1>2, <1>3, <1>5, <1>6 DEF UartInv

(* The invariant of machine_uart.c and ringbuf.h: types, locks, and the    *)
(* whereabouts of every byte between the interrupt handler and the thread. *)
THEOREM UartInvariant == Spec => []UartInv
<1>1. UartInv /\ [Next]_vars => UartInv'
  BY UartInvStep
<1> QED BY UartInvInit, <1>1, PTL DEF Spec

(* The variables of the driver keep their types; the indices of the rings  *)
(* stay in range but for the one window inside ringbuf_get.                *)
THEOREM UartTypes == Spec => []TypeOK
  BY UartInvariant, PTL DEF UartInv

(* As long as no byte arrives for a full buffer, UART.read hands over      *)
(* every byte that came, once and in order, for every buffer size, FIFO    *)
(* depth and interleaving of the interrupt handler.                        *)
THEOREM UartReceives == Spec => []RxExact
  BY UartInvariant, PTL DEF UartInv

(* What UART.write accepted is what was sent and is still to be sent, in   *)
(* order, for every buffer size, FIFO depth and interleaving.              *)
THEOREM UartSends == Spec => []TxExact
  BY UartInvariant, PTL DEF UartInv

(* No call returns, and none waits, with a lock held.                      *)
THEOREM UartUnlocked == Spec => []Unlocked
<1>1. UartInv => Unlocked
  BY DEF UartInv, Locks, Unlocked
<1> QED BY <1>1, UartInvariant, PTL

-----------------------------------------------------------------------------
(* The transmit interrupt.  With the lock held the handler clears it and   *)
(* does nothing; at the unlock a byte left in the buffer has to have an    *)
(* interrupt still to come.                                                *)

Waiting == ringbuf_avail(write_buffer) > 0

LastTest == pc = "wunlock" /\ Waiting => Len(txfifo) > TxLevel

ArmedInv == TxArmed /\ LastTest

(* Every step keeps the interrupt due.                                     *)
LEMMA ArmedStep ==
    ASSUME ~Stall, UartInv, ArmedInv, [Next]_vars
    PROVE  ArmedInv'
<1> USE DEF ArmedInv, TxArmed, LastTest, Waiting
<1>0. /\ Locks /\ txfifo \in Seq(Byte) /\ Len(txfifo) \in Nat
      /\ FifoDepth \in Nat /\ TxLevel \in 0..FifoDepth - 1
      /\ ringbuf_avail(write_buffer) \in Nat
  BY TxFacts, UartAssumption DEF UartInv
<1>1. CASE UNCHANGED vars
  BY <1>1 DEF vars, txvars, callvars
<1>2. CASE LineIn
  BY <1>2 DEF LineIn, txvars, callvars
<1>3. CASE LineOut
  <2>1. /\ txfifo /= <<>> /\ txfifo' = Tail(txfifo)
        /\ pc = "wunlock" => Len(txfifo) > TxLevel + 1
        /\ UNCHANGED <<write_buffer, pc, isr>>
    BY <1>3 DEF LineOut, callvars
  <2>0. txint \/ Len(Tail(txfifo)) = TxLevel => txint'
    BY Zenon, <1>3 DEF LineOut
  <2>2. Len(Tail(txfifo)) = Len(txfifo) - 1
    BY <2>1, <1>0, Split
  <2>3. CASE Len(txfifo) > TxLevel + 1
    <3>1. Len(txfifo') > TxLevel
      BY <2>1, <2>2, <2>3, <1>0
    <3> QED BY <3>1
  <2>4. CASE Len(txfifo) = TxLevel + 1
    <3>1. txint' /\ pc' /= "wunlock"
      BY <2>0, <2>1, <2>2, <2>4, <1>0
    <3> QED BY <3>1
  <2>5. CASE Len(txfifo) <= TxLevel
    <3>1. pc' /= "wunlock" /\ (txint => txint')
      BY <2>0, <2>1, <2>5, <1>0
    <3> QED BY <2>1, <2>5, <3>1, <1>0
  <2> QED BY <2>3, <2>4, <2>5, <1>0
<1>4. CASE IrqEnter
  BY <1>4 DEF IrqEnter, txvars, callvars
<1>5. CASE IrqDrain
  BY <1>5 DEF IrqDrain, txvars, callvars
<1>6. CASE IrqTx
  <2>1. /\ isr = "tx" /\ UNCHANGED <<write_buffer, txfifo, pc, write_lock>>
        /\ isr' = IF txint /\ ~write_lock THEN "fill" ELSE "off"
    BY <1>6 DEF IrqTx, txvars, callvars
  <2>2. CASE write_lock
    BY <2>1, <2>2, <1>0 DEF Locks
  <2>3. CASE ~write_lock
    <3>1. pc /= "wunlock"
      BY <2>3, <1>0 DEF Locks
    <3> QED BY <2>1, <2>3, <3>1
  <2> QED BY <2>2, <2>3
<1>7. CASE IrqFill
  <2>1. isr = "fill" /\ pc' = pc /\ pc /= "wunlock"
    BY <1>7, <1>0 DEF IrqFill, callvars, Locks
  <2>2. CASE CanFill
    BY <2>1, <2>2, <1>7 DEF IrqFill
  <2>3. CASE ~CanFill
    <3>1. UNCHANGED <<write_buffer, txfifo>>
      BY <1>7, <2>3 DEF IrqFill
    <3> QED BY <2>1, <2>3, <3>1, <1>0 DEF CanFill
  <2> QED BY <2>2, <2>3
<1>8. CASE Call
  BY <1>8 DEF Call, At, txvars
<1>9. CASE Poll
  BY <1>9 DEF Poll, At, Return, txvars
<1>10. CASE ReadDone
  BY <1>10 DEF ReadDone, At, Return, txvars
<1>11. CASE ReadEmpty
  BY <1>11 DEF ReadEmpty, At, Return, Goto, ThreadOnly
<1>12. CASE ReadAdvance
  BY <1>12 DEF ReadAdvance, At, Goto, ThreadOnly, txvars
<1>13. CASE ReadLoad
  BY <1>13 DEF ReadLoad, At, Goto, ThreadOnly, txvars
<1>14. CASE ReadWrap
  BY <1>14 DEF ReadWrap, At, ThreadOnly, txvars
<1>15. CASE ThreadDrain
  BY <1>15 DEF ThreadDrain, Goto, txvars
<1>16. CASE ThreadStore
  BY <1>16 DEF ThreadStore, Goto, ThreadOnly, txvars
<1>17. CASE ReadUnlock
  BY <1>17 DEF ReadUnlock, Goto, ThreadOnly
<1>18. CASE AnyLock
  BY <1>18 DEF AnyLock, At, Goto, ThreadOnly
<1>19. CASE AnyReturn
  BY <1>19 DEF AnyReturn, At, Return, txvars
<1>20. CASE WritePut
  BY <1>20 DEF WritePut, At, Goto
<1>21. CASE WritePublish
  BY <1>21 DEF WritePublish
<1>22. CASE WriteFill
  <2>1. pc = "wfill" /\ UNCHANGED <<txfifo, txint, isr>>
    BY <1>22 DEF WriteFill, At, ThreadOnly
  <2>2. CASE CanFill
    BY <2>2, <1>22 DEF WriteFill, Goto
  <2>3. CASE ~CanFill
    <3>1. pc' = "wunlock" /\ UNCHANGED write_buffer
      BY <2>3, <1>22 DEF WriteFill, Goto
    <3> QED BY <2>1, <2>3, <3>1, <1>0 DEF CanFill
  <2> QED BY <2>2, <2>3
<1>23. CASE WriteStore
  BY <1>23 DEF WriteStore, Goto
<1>24. CASE WriteUnlock
  BY <1>24 DEF WriteUnlock, At, Goto, ThreadOnly
<1>25. CASE WriteWait
  <2>1. pc = "wwait" /\ UNCHANGED <<txfifo, txint, isr>>
    BY <1>25 DEF WriteWait, At, ThreadOnly
  <2>2. CASE pc' = "wpub1"
    BY <2>2
  <2>3. CASE UNCHANGED write_buffer /\ pc' = "idle"
    BY <2>1, <2>3
  <2> QED BY <2>2, <2>3, <1>25 DEF WriteWait, Goto, Return
<1> QED BY Zenon, <1>1, <1>2, <1>3, <1>4, <1>5, <1>6, <1>7, <1>8, <1>9, <1>10, <1>11, <1>12, <1>13, <1>14,
           <1>15, <1>16, <1>17, <1>18, <1>19, <1>20, <1>21, <1>22, <1>23, <1>24, <1>25
           DEF Next, Handler, Thread

(* If the FIFO does not drain to the trigger level in the instant between  *)
(* the last test of the fill loop and the unlock, a byte in write_buffer   *)
(* always has an interrupt to come that will fetch it.                     *)
THEOREM UartArmed ==
    ASSUME ~Stall
    PROVE  Spec => []TxArmed
<1>1. Init => ArmedInv
  <2> SUFFICES ASSUME Init PROVE ArmedInv
    OBVIOUS
  <2>1. ringbuf_avail(write_buffer) = 0
    <3>1. UartInv
      BY UartInvInit
    <3>2. write_buffer = ringbuf_alloc(TxSize) /\ TxSize \in Nat \ {0, 1}
      BY UartAssumption DEF Init
    <3>3. Held(write_buffer) = 0
      BY <3>2 DEF Held, First, WrapIndex, ringbuf_alloc
    <3> QED BY <3>1, <3>3, TxFacts
  <2> QED BY <2>1 DEF ArmedInv, TxArmed, LastTest, Waiting
<1>2. UartInv /\ ArmedInv /\ [Next]_vars => ArmedInv'
  BY ArmedStep
<1>3. ArmedInv => TxArmed
  BY DEF ArmedInv
<1> QED BY <1>1, <1>2, <1>3, UartInvariant, PTL DEF Spec

=============================================================================
