--------------------------- MODULE RingBufProofs ---------------------------
(***************************************************************************)
(* Lemmas about the ring buffer: what each access of ringbuf_put and       *)
(* ringbuf_get does to the contents, also between the two stores of        *)
(* ringbuf_get, and about the concatenation of sequences.                  *)
(***************************************************************************)
EXTENDS RingBuf, TLAPS

Ring(r) ==
    /\ r.size \in Nat \ {0, 1}
    /\ r \in [buf: [0..r.size - 1 -> Nat], size: {r.size},
              iget: 0..r.size, iput: 0..r.size - 1]

(* Sequences of the same bytes are equal.                                  *)
LEMMA SameBytes ==
    ASSUME NEW S, NEW s \in Seq(S), NEW t \in Seq(S),
           Len(s) = Len(t), \A k \in 1..Len(s) : s[k] = t[k]
    PROVE  s = t
  OBVIOUS

-----------------------------------------------------------------------------
(* Arithmetic of the indices.                                              *)

(* A sum below twice the modulus is reduced by one subtraction.            *)
LEMMA ModOnce ==
    ASSUME NEW n \in Nat \ {0}, NEW a \in 0..2 * n - 1
    PROVE  a % n = IF a >= n THEN a - n ELSE a
  OBVIOUS

(* ringbuf_avail and ringbuf_free count what the buffer holds and what it  *)
(* has room for.                                                           *)
LEMMA Counts ==
    ASSUME NEW r, Ring(r), r.iget < r.size
    PROVE  /\ ringbuf_avail(r) = Held(r)
           /\ ringbuf_free(r) = r.size - 1 - Held(r)
<1> DEFINE n == r.size
           a == n + r.iput - r.iget
           b == n + r.iget - r.iput - 1
<1>1. /\ n \in Nat \ {0}
      /\ a \in 0..2 * n - 1
      /\ b \in 0..2 * n - 1
  BY DEF Ring
<1>2. a % n = IF a >= n THEN a - n ELSE a
  <2> HIDE DEF a, n
  <2> QED BY Zenon, <1>1, ModOnce
<1>3. b % n = IF b >= n THEN b - n ELSE b
  <2> HIDE DEF b, n
  <2> QED BY Zenon, <1>1, ModOnce
<1>4. Held(r) = IF r.iput >= r.iget THEN r.iput - r.iget ELSE n + r.iput - r.iget
  BY DEF Held, First, WrapIndex, Ring
<1>5. /\ n \in Nat /\ r.iput \in Nat /\ r.iget \in Nat
      /\ r.iput < n /\ r.iget < n
  BY DEF Ring
<1>6. /\ (IF a >= n THEN a - n ELSE a) = Held(r)
      /\ (IF b >= n THEN b - n ELSE b) = n - 1 - Held(r)
  BY <1>4, <1>5
<1>7. a % n = Held(r) /\ b % n = n - 1 - Held(r)
  <2> HIDE DEF a, b, n
  <2> QED BY <1>2, <1>3, <1>6
<1> QED
  BY <1>7 DEF ringbuf_avail, ringbuf_free

(* A buffer holds at most size - 1 bytes, in slots of the buffer other     *)
(* than the one iput points to.                                            *)
LEMMA HeldRange ==
    ASSUME NEW r, Ring(r)
    PROVE  /\ Held(r) \in 0..r.size - 1
           /\ \A k \in 0..Held(r) - 1 : /\ Slot(r, k) \in 0..r.size - 1
                                        /\ Slot(r, k) /= r.iput
           /\ Contents(r) \in Seq(Nat)
           /\ Len(Contents(r)) = Held(r)
           /\ \A k \in 1..Held(r) : Contents(r)[k] = r.buf[Slot(r, k - 1)]
<1>1. Held(r) \in 0..r.size - 1
  BY DEF Held, First, WrapIndex, Ring
<1>2. \A k \in 0..Held(r) - 1 : Slot(r, k) \in 0..r.size - 1 /\ Slot(r, k) /= r.iput
  <2> TAKE k \in 0..Held(r) - 1
  <2> DEFINE n == r.size
             p == r.iput
             g == First(r)
  <2>1. n \in Nat \ {0, 1} /\ g \in 0..n - 1 /\ p \in 0..n - 1
    BY DEF First, WrapIndex, Ring
  <2>2. Held(r) = IF p >= g THEN p - g ELSE n + p - g
    BY DEF Held
  <2>3. Slot(r, k) = IF g + k >= n THEN g + k - n ELSE g + k
    BY DEF Slot
  <2>4. k \in Nat /\ k < Held(r)
    BY <1>1
  <2> HIDE DEF n, p, g
  <2>5. Slot(r, k) \in 0..n - 1 /\ Slot(r, k) /= p
    BY <2>1, <2>2, <2>3, <2>4
  <2> QED BY <2>5 DEF n, p
<1>3. \A k \in 1..Held(r) : r.buf[Slot(r, k - 1)] \in Nat
  <2> TAKE k \in 1..Held(r)
  <2>1. k - 1 \in 0..Held(r) - 1
    BY <1>1
  <2>2. Slot(r, k - 1) \in 0..r.size - 1
    BY <2>1, <1>2
  <2> QED BY <2>2 DEF Ring
<1> QED
  BY <1>1, <1>2, <1>3 DEF Contents

-----------------------------------------------------------------------------
(* What the operations do to the contents.                                 *)

(* Storing a byte into the free slot changes nothing that is held.         *)
LEMMA PutByteContents ==
    ASSUME NEW r, Ring(r), NEW x \in Nat
    PROVE  /\ Ring(PutByte(r, x))
           /\ PutByte(r, x).size = r.size
           /\ PutByte(r, x).iget = r.iget
           /\ PutByte(r, x).iput = r.iput
           /\ PutByte(r, x).buf[r.iput] = x
           /\ \A k \in 0..r.size - 1 : k /= r.iput => PutByte(r, x).buf[k] = r.buf[k]
           /\ Held(PutByte(r, x)) = Held(r)
           /\ Contents(PutByte(r, x)) = Contents(r)
<1> DEFINE s == PutByte(r, x)
<1>1. /\ s.size = r.size /\ s.iget = r.iget /\ s.iput = r.iput
      /\ s.buf = [r.buf EXCEPT ![r.iput] = x]
      /\ s \in [buf: [0..r.size - 1 -> Nat], size: {r.size},
                iget: 0..r.size, iput: 0..r.size - 1]
  BY DEF PutByte, Ring
<1>2. /\ s.buf[r.iput] = x
      /\ \A k \in 0..r.size - 1 : k /= r.iput => s.buf[k] = r.buf[k]
  BY <1>1 DEF Ring
<1>3. Ring(s)
  <2> HIDE DEF s
  <2> QED BY <1>1 DEF Ring
<1>4. Held(s) = Held(r) /\ \A k : Slot(s, k) = Slot(r, k)
  <2> HIDE DEF s
  <2> QED BY <1>1 DEF Held, Slot, First, WrapIndex
<1>5. \A k \in 1..Held(r) : s.buf[Slot(r, k - 1)] = r.buf[Slot(r, k - 1)]
  <2> HIDE DEF s
  <2> TAKE k \in 1..Held(r)
  <2>1. k - 1 \in 0..Held(r) - 1
    BY HeldRange
  <2> QED BY <2>1, <1>2, HeldRange
<1>6. Contents(s) = Contents(r)
  <2> HIDE DEF s
  <2> QED BY <1>4, <1>5 DEF Contents
<1> QED BY <1>1, <1>2, <1>3, <1>4, <1>6

(* Publishing the slot at iput appends its byte, if there is room.         *)
LEMMA PutIndexContents ==
    ASSUME NEW r, Ring(r), Held(r) < r.size - 1
    PROVE  /\ HasRoom(r)
           /\ Ring(PutIndex(r))
           /\ PutIndex(r).size = r.size
           /\ PutIndex(r).iget = r.iget
           /\ PutIndex(r).buf = r.buf
           /\ Held(PutIndex(r)) = Held(r) + 1
           /\ Contents(PutIndex(r)) = Append(Contents(r), r.buf[r.iput])
<1> DEFINE s == PutIndex(r)
           n == r.size
           p == r.iput
           g == First(r)
<1>1. /\ s.size = n /\ s.iget = r.iget /\ s.buf = r.buf
      /\ s.iput = (IF p + 1 >= n THEN 0 ELSE p + 1)
      /\ s \in [buf: [0..n - 1 -> Nat], size: {n}, iget: 0..n, iput: 0..n - 1]
  BY DEF PutIndex, NextPut, Ring
<1>2. Ring(s)
  <2> HIDE DEF s
  <2> QED BY <1>1 DEF Ring
<1>3. n \in Nat \ {0, 1} /\ g \in 0..n - 1 /\ p \in 0..n - 1
  BY DEF First, WrapIndex, Ring
<1>4. Held(r) = IF p >= g THEN p - g ELSE n + p - g
  BY DEF Held
<1>5. /\ \A k : Slot(r, k) = IF g + k >= n THEN g + k - n ELSE g + k
      /\ \A k : Slot(s, k) = Slot(r, k)
  <2> HIDE DEF s
  <2> QED BY <1>1 DEF Slot, First, WrapIndex
<1>6. Held(s) = IF s.iput >= g THEN s.iput - g ELSE n + s.iput - g
  <2> HIDE DEF s
  <2> QED BY <1>1 DEF Held, First, WrapIndex
<1>7. Held(s) = Held(r) + 1
  <2>1. Held(r) < n - 1
    OBVIOUS
  <2> HIDE DEF s, n, p, g
  <2>2. CASE p + 1 >= n
    BY <2>1, <2>2, <1>1, <1>3, <1>4, <1>6
  <2>3. CASE p + 1 < n
    BY <2>1, <2>3, <1>1, <1>3, <1>4, <1>6
  <2> QED BY <2>2, <2>3, <1>3
<1>8. Slot(r, Held(r)) = p
  <2> HIDE DEF s, n, p, g
  <2> QED BY <1>3, <1>4, <1>5
<1>9. HasRoom(r)
  BY <1>3, <1>4 DEF HasRoom, NextPut, First, WrapIndex, Ring
<1>10. \A k \in 1..Held(s) : Contents(s)[k] = Append(Contents(r), r.buf[p])[k]
  <2> HIDE DEF s, n, p, g
  <2> SUFFICES ASSUME NEW k \in 1..Held(s)
               PROVE  Contents(s)[k] = Append(Contents(r), r.buf[p])[k]
    BY Zenon
  <2>1. Contents(s)[k] = r.buf[Slot(r, k - 1)]
    BY <1>1, <1>2, <1>5, HeldRange
  <2>2. CASE k <= Held(r)
    <3>1. k \in 1..Held(r)
      BY <2>2, <1>7, HeldRange
    <3> QED BY <2>1, <3>1, HeldRange
  <2>3. CASE k = Held(r) + 1
    <3>1. k - 1 = Held(r) /\ k = Len(Contents(r)) + 1
      BY <2>3, HeldRange
    <3> QED BY <2>1, <3>1, <1>8, HeldRange
  <2> QED BY <2>2, <2>3, <1>7, HeldRange
<1>11. Contents(s) = Append(Contents(r), r.buf[p])
  <2> HIDE DEF s, n, p, g
  <2>1. /\ Contents(s) \in Seq(Nat) /\ Len(Contents(s)) = Held(r) + 1
        /\ Contents(r) \in Seq(Nat) /\ Len(Contents(r)) = Held(r)
    BY <1>2, <1>7, HeldRange
  <2>2. r.buf[p] \in Nat
    BY <1>3 DEF Ring, n
  <2>3. /\ Append(Contents(r), r.buf[p]) \in Seq(Nat)
        /\ Len(Append(Contents(r), r.buf[p])) = Held(r) + 1
    BY <2>1, <2>2
  <2> QED BY <2>1, <2>3, <1>7, <1>10, SameBytes
<1> QED BY <1>1, <1>2, <1>7, <1>9, <1>11

(* ringbuf_put yields a buffer of the same size, and appends the byte if   *)
(* the buffer is not full; it writes only the slot at iput.                *)
LEMMA PutContents ==
    ASSUME NEW r, Ring(r), NEW x \in Nat
    PROVE  LET s == ringbuf_put(r, x)
           IN  /\ Ring(s) /\ s.size = r.size /\ s.iget = r.iget
               /\ \A k \in 0..r.size - 1 : k /= r.iput => s.buf[k] = r.buf[k]
               /\ Held(r) < r.size - 1 =>
                    /\ HasRoom(r)
                    /\ Contents(s) = Append(Contents(r), x)
<1> DEFINE q == PutByte(r, x)
           s == ringbuf_put(r, x)
<1>1. /\ Ring(q) /\ q.size = r.size /\ q.iget = r.iget /\ q.iput = r.iput
      /\ q.buf[r.iput] = x
      /\ \A k \in 0..r.size - 1 : k /= r.iput => q.buf[k] = r.buf[k]
      /\ Held(q) = Held(r) /\ Contents(q) = Contents(r)
  BY PutByteContents
<1>2. HasRoom(q) <=> HasRoom(r)
  <2> HIDE DEF q
  <2> QED BY <1>1 DEF HasRoom, NextPut
<1>3. /\ Ring(PutIndex(q)) /\ PutIndex(q).size = q.size
      /\ PutIndex(q).iget = q.iget /\ PutIndex(q).buf = q.buf
  <2> HIDE DEF q
  <2> DEFINE m == NextPut(q)
  <2>1. m \in 0..q.size - 1
    BY <1>1 DEF NextPut, Ring
  <2>2. PutIndex(q) = [q EXCEPT !.iput = m]
    BY DEF PutIndex
  <2> HIDE DEF m
  <2> QED BY Zenon, <1>1, <2>1, <2>2 DEF Ring
<1>4. s = IF HasRoom(r) THEN PutIndex(q) ELSE r
  BY DEF ringbuf_put
<1>5. ASSUME Held(r) < r.size - 1
      PROVE  HasRoom(r) /\ Contents(s) = Append(Contents(r), x)
  <2> HIDE DEF q, s
  <2>1. HasRoom(q) /\ Contents(PutIndex(q)) = Append(Contents(q), q.buf[q.iput])
    BY <1>1, <1>5, PutIndexContents
  <2> QED BY <2>1, <1>1, <1>2, <1>4
<1>6. /\ Ring(s) /\ s.size = r.size /\ s.iget = r.iget
      /\ \A k \in 0..r.size - 1 : k /= r.iput => s.buf[k] = r.buf[k]
  <2> HIDE DEF q, s
  <2>1. CASE HasRoom(r)
    BY <2>1, <1>1, <1>3, <1>4
  <2>2. CASE ~HasRoom(r)
    BY <2>2, <1>4
  <2> QED BY <2>1, <2>2
<1> QED BY <1>5, <1>6

(* The first access of ringbuf_get removes the oldest byte.                *)
LEMMA AdvanceContents ==
    ASSUME NEW r, Ring(r), r.iget < r.size, Held(r) > 0
    PROVE  /\ Ring(GetAdvance(r))
           /\ GetAdvance(r).size = r.size
           /\ GetAdvance(r).iget = r.iget + 1
           /\ GetAdvance(r).iput = r.iput
           /\ GetAdvance(r).buf = r.buf
           /\ Held(GetAdvance(r)) = Held(r) - 1
           /\ r.buf[r.iget] \in Nat
           /\ Contents(r) = <<r.buf[r.iget]>> \o Contents(GetAdvance(r))
<1> DEFINE s == GetAdvance(r)
           n == r.size
           p == r.iput
           g == r.iget
           h == First(s)
<1>1. /\ s.size = n /\ s.iget = g + 1 /\ s.iput = p /\ s.buf = r.buf
      /\ s \in [buf: [0..n - 1 -> Nat], size: {n}, iget: 0..n, iput: 0..n - 1]
  BY DEF GetAdvance, Ring
<1>2. Ring(s)
  <2> HIDE DEF s
  <2> QED BY <1>1 DEF Ring
<1>3. /\ n \in Nat \ {0, 1} /\ g \in 0..n - 1 /\ p \in 0..n - 1
      /\ First(r) = g /\ r.buf[g] \in Nat
  BY DEF First, WrapIndex, Ring
<1>4. h = IF g + 1 >= n THEN 0 ELSE g + 1
  <2> HIDE DEF s
  <2> QED BY <1>1 DEF First, WrapIndex
<1>5. /\ Held(r) = IF p >= g THEN p - g ELSE n + p - g
      /\ Held(s) = IF p >= h THEN p - h ELSE n + p - h
      /\ \A k : Slot(r, k) = IF g + k >= n THEN g + k - n ELSE g + k
      /\ \A k : Slot(s, k) = IF h + k >= n THEN h + k - n ELSE h + k
  <2> HIDE DEF s
  <2> QED BY <1>1, <1>3 DEF Held, Slot
<1>6. Held(s) = Held(r) - 1
  <2>1. Held(r) > 0
    OBVIOUS
  <2> HIDE DEF s, n, p, g, h
  <2>2. CASE g + 1 >= n
    BY <2>1, <2>2, <1>3, <1>4, <1>5
  <2>3. CASE g + 1 < n
    BY <2>1, <2>3, <1>3, <1>4, <1>5
  <2> QED BY <2>2, <2>3, <1>3
<1>7. ASSUME NEW k \in 0..Held(s) - 1
      PROVE  Slot(s, k) = Slot(r, k + 1)
  <2>1. k \in Nat /\ k < Held(s)
    BY <1>2, HeldRange
  <2> HIDE DEF s, n, p, g, h
  <2>2. CASE g + 1 >= n
    BY <2>1, <2>2, <1>3, <1>4, <1>5, <1>6
  <2>3. CASE g + 1 < n
    BY <2>1, <2>3, <1>3, <1>4, <1>5, <1>6
  <2> QED BY <2>2, <2>3, <1>3
<1>8. Slot(r, 0) = g
  <2> HIDE DEF s, n, p, g, h
  <2> QED BY <1>3, <1>5
<1>9. \A k \in 1..Held(r) :
        Contents(r)[k] = IF k = 1 THEN r.buf[g] ELSE Contents(s)[k - 1]
  <2> HIDE DEF s, n, p, g, h
  <2> TAKE k \in 1..Held(r)
  <2>1. Contents(r)[k] = r.buf[Slot(r, k - 1)]
    BY HeldRange
  <2>2. CASE k = 1
    <3>1. k - 1 = 0
      BY <2>2
    <3> QED BY <3>1, <2>1, <2>2, <1>8
  <2>3. CASE k /= 1
    <3>1. k - 1 \in 1..Held(s) /\ k - 2 \in 0..Held(s) - 1 /\ (k - 2) + 1 = k - 1
          /\ (k - 1) - 1 = k - 2
      BY <2>3, <1>6, HeldRange
    <3>2. Contents(s)[k - 1] = s.buf[Slot(s, k - 2)]
      BY <3>1, <1>2, HeldRange
    <3>3. Slot(s, k - 2) = Slot(r, k - 1)
      BY <3>1, <1>7
    <3> QED BY <3>2, <3>3, <2>1, <2>3, <1>1
  <2> QED BY <2>2, <2>3
<1>10. Contents(r) = <<r.buf[g]>> \o Contents(s)
  <2> HIDE DEF s, n, p, g, h
  <2>1. /\ Contents(r) \in Seq(Nat) /\ Len(Contents(r)) = Held(r)
        /\ Contents(s) \in Seq(Nat) /\ Len(Contents(s)) = Held(r) - 1
        /\ Held(r) \in Nat
    BY <1>2, <1>6, HeldRange
  <2> DEFINE c == <<r.buf[g]>> \o Contents(s)
  <2>2. /\ c \in Seq(Nat) /\ Len(c) = Held(r)
        /\ \A k \in 1..Held(r) : c[k] = IF k = 1 THEN r.buf[g] ELSE Contents(s)[k - 1]
    <3> DEFINE x == r.buf[g]
               d == Contents(s)
    <3>1. x \in Nat /\ d \in Seq(Nat) /\ Len(d) = Held(r) - 1 /\ Held(r) \in Nat
      BY <2>1, <1>3
    <3> HIDE DEF x, d
    <3>2. c = <<x>> \o d
      BY DEF x, d
    <3> HIDE DEF c
    <3>3. c \in Seq(Nat) /\ Len(c) = Held(r)
      BY <3>1, <3>2
    <3>4. \A k \in 1..Held(r) : c[k] = IF k = 1 THEN x ELSE d[k - 1]
      BY <3>1, <3>2
    <3> QED BY <3>3, <3>4 DEF x, d
  <2> HIDE DEF c
  <2>3. Contents(r) = c
    <3> DEFINE d == Contents(r)
    <3>1. \A k \in 1..Held(r) : d[k] = c[k]
      BY <2>2, <1>9
    <3>2. d \in Seq(Nat) /\ Len(d) = Len(c)
      BY <2>1, <2>2
    <3> HIDE DEF d
    <3>3. d = c
      BY Zenon, <3>1, <3>2, <2>2, SameBytes
    <3> QED BY <3>3 DEF d
  <2> QED BY <2>3 DEF c
<1> QED BY <1>1, <1>2, <1>3, <1>6, <1>10

(* The last access of ringbuf_get stores the index in its range.           *)
LEMMA WrapContents ==
    ASSUME NEW r, Ring(r)
    PROVE  /\ Ring(GetWrap(r))
           /\ GetWrap(r).size = r.size
           /\ GetWrap(r).iget \in 0..r.size - 1
           /\ GetWrap(r).iput = r.iput
           /\ GetWrap(r).buf = r.buf
           /\ Held(GetWrap(r)) = Held(r)
           /\ Contents(GetWrap(r)) = Contents(r)
<1> DEFINE s == GetWrap(r)
<1>1. /\ s.size = r.size /\ s.iput = r.iput /\ s.buf = r.buf
      /\ s.iget = First(r) /\ First(r) \in 0..r.size - 1
      /\ s \in [buf: [0..r.size - 1 -> Nat], size: {r.size},
                iget: 0..r.size, iput: 0..r.size - 1]
  BY DEF GetWrap, WrapIndex, First, Ring
<1>2. Ring(s)
  <2> HIDE DEF s
  <2> QED BY <1>1 DEF Ring
<1>3. First(s) = First(r)
  <2>1. First(s) = IF s.iget >= s.size THEN 0 ELSE s.iget
    BY DEF First, WrapIndex
  <2>2. r.size \in Nat
    BY DEF Ring
  <2> HIDE DEF s
  <2> QED BY <2>1, <2>2, <1>1
<1>4. Held(s) = Held(r) /\ \A k : Slot(s, k) = Slot(r, k)
  <2> HIDE DEF s
  <2> QED BY <1>1, <1>3 DEF Held, Slot
<1>5. Contents(s) = Contents(r)
  <2> HIDE DEF s
  <2> QED BY <1>1, <1>4 DEF Contents
<1> QED BY <1>1, <1>2, <1>4, <1>5

(* The whole of ringbuf_get removes the oldest byte.                       *)
LEMMA GetContents ==
    ASSUME NEW r, Ring(r), r.iget < r.size, Held(r) > 0
    PROVE  LET s == ringbuf_get(r)
           IN  /\ Ring(s) /\ s.size = r.size /\ s.iput = r.iput
               /\ s.buf = r.buf /\ s.iget \in 0..r.size - 1
               /\ Held(s) = Held(r) - 1
               /\ r.buf[r.iget] \in Nat
               /\ Contents(r) = <<r.buf[r.iget]>> \o Contents(s)
  BY Zenon, AdvanceContents, WrapContents DEF ringbuf_get

-----------------------------------------------------------------------------
(* Sequences of bytes.                                                     *)

(* Appending is concatenating a sequence of one.                           *)
LEMMA AppendConcat ==
    ASSUME NEW S, NEW s \in Seq(S), NEW x \in S
    PROVE  Append(s, x) = s \o <<x>>
  OBVIOUS

(* Moving a byte between two neighbouring sequences keeps their            *)
(* concatenation.                                                          *)
LEMMA Moves ==
    ASSUME NEW S, NEW s \in Seq(S), NEW t \in Seq(S), NEW u \in Seq(S), NEW x \in S
    PROVE  /\ Append(s, x) \o t = s \o (<<x>> \o t)
           /\ s \o Append(t, x) = Append(s \o t, x)
           /\ (s \o t) \o u = s \o (t \o u)
           /\ s \o <<>> = s
           /\ <<>> \o s = s
           /\ s \o t \in Seq(S)
           /\ <<x>> \in Seq(S)
<1>1. /\ Append(s, x) \o t = s \o (<<x>> \o t)
      /\ s \o Append(t, x) = Append(s \o t, x)
  <2>1. <<x>> \in Seq(S)
    OBVIOUS
  <2>2. Append(s, x) = s \o <<x>> /\ Append(t, x) = t \o <<x>>
    BY AppendConcat
  <2>3. Append(s \o t, x) = (s \o t) \o <<x>>
    BY AppendConcat
  <2> DEFINE e == <<x>>
  <2> HIDE DEF e
  <2>4. e \in Seq(S)
    BY <2>1 DEF e
  <2>5. (s \o e) \o t = s \o (e \o t)
    BY <2>4
  <2>6. (s \o t) \o e = s \o (t \o e)
    BY <2>4
  <2> QED BY <2>2, <2>3, <2>5, <2>6 DEF e
<1>2. (s \o t) \o u = s \o (t \o u)
  OBVIOUS
<1>3. s \o <<>> = s /\ <<>> \o s = s
  OBVIOUS
<1>4. s \o t \in Seq(S) /\ <<x>> \in Seq(S)
  OBVIOUS
<1> QED BY <1>1, <1>2, <1>3, <1>4

(* Concatenation is associative.                                           *)
LEMMA Associative ==
    ASSUME NEW S, NEW a \in Seq(S), NEW b \in Seq(S), NEW c \in Seq(S)
    PROVE  (a \o b) \o c = a \o (b \o c)
  OBVIOUS

(* One byte, and none, is a sequence of bytes.                             *)
LEMMA Singleton ==
    ASSUME NEW S, NEW x \in S
    PROVE  <<x>> \in Seq(S) /\ <<>> \in Seq(S)
  OBVIOUS

(* A sequence is its head and its tail.                                    *)
LEMMA Split ==
    ASSUME NEW S, NEW t \in Seq(S), t /= <<>>
    PROVE  /\ <<Head(t)>> \o Tail(t) = t
           /\ Head(t) \in S /\ Tail(t) \in Seq(S)
           /\ Len(Tail(t)) = Len(t) - 1
  OBVIOUS

(* The concatenation of the parts, whichever way it is read.               *)
LEMMA ByteAfter ==
    ASSUME NEW S, NEW d \in Seq(S), NEW c \in Seq(S), NEW x \in S
    PROVE  d \o (<<x>> \o c) = (d \o <<x>>) \o c
<1> DEFINE e == <<x>>
<1>1. e \in Seq(S)
  BY Singleton
<1> HIDE DEF e
<1>2. d \o (e \o c) = (d \o e) \o c
  BY <1>1
<1> QED BY <1>2 DEF e

(* A byte appended to the second part is a part of its own.                *)
LEMMA ByteWithin ==
    ASSUME NEW S, NEW a \in Seq(S), NEW b \in Seq(S), NEW x \in S
    PROVE  a \o Append(b, x) = (a \o b) \o <<x>>
<1> DEFINE e == <<x>>
<1>1. e \in Seq(S)
  BY Singleton
<1>2. Append(b, x) = b \o e
  BY AppendConcat
<1> HIDE DEF e
<1>3. a \o (b \o e) = (a \o b) \o e
  BY <1>1
<1> QED BY <1>2, <1>3 DEF e

(* An empty part does not show.                                            *)
LEMMA Nothing ==
    ASSUME NEW S, NEW a \in Seq(S), NEW b \in Seq(S)
    PROVE  (a \o b) \o <<>> = a \o b
<1> DEFINE d == a \o b
<1>1. d \in Seq(S)
  OBVIOUS
<1> HIDE DEF d
<1>2. d \o <<>> = d
  BY <1>1
<1> QED BY <1>2 DEF d

(* The first byte of one part becomes the last of the part before it.      *)
LEMMA Passed ==
    ASSUME NEW S, NEW a \in Seq(S), NEW b \in Seq(S), b /= <<>>
    PROVE  Append(a, Head(b)) \o Tail(b) = a \o b
<1>1. Head(b) \in S /\ Tail(b) \in Seq(S) /\ <<Head(b)>> \o Tail(b) = b
  BY Split
<1>2. \A h \in S : \A t \in Seq(S) : Append(a, h) \o t = a \o (<<h>> \o t)
  <2> TAKE h \in S
  <2> TAKE t \in Seq(S)
  <2>1. Append(a, h) = a \o <<h>>
    BY AppendConcat
  <2>2. a \o (<<h>> \o t) = (a \o <<h>>) \o t
    BY ByteAfter
  <2> QED BY <2>1, <2>2
<1> QED BY <1>1, <1>2

=============================================================================
