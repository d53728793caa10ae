------------------------------- MODULE RingBuf -------------------------------
(***************************************************************************)
(* The ring buffer of py/ringbuf.h as operators on a record                *)
(* [buf, size, iget, iput].  One slot is always kept free, so a buffer of  *)
(* `size` slots holds at most size - 1 bytes.                              *)
(*                                                                         *)
(* ringbuf_get is given as its three memory accesses, in the order in      *)
(* which the compiled code performs them: the byte load may alias the      *)
(* index, so the unwrapped index iget + 1 is stored first, then the byte   *)
(* is loaded, then the index is wrapped.  An interrupt may fall between    *)
(* any two of them.                                                        *)
(***************************************************************************)
EXTENDS Integers, Sequences

ringbuf_alloc(sz) ==
    [buf |-> [i \in 0..sz - 1 |-> 0], size |-> sz, iget |-> 0, iput |-> 0]

ringbuf_avail(r) == (r.size + r.iput - r.iget) % r.size

ringbuf_free(r) == (r.size + r.iget - r.iput - 1) % r.size

(* iput_new of ringbuf_put *)
NextPut(r) == IF r.iput + 1 >= r.size THEN 0 ELSE r.iput + 1

HasRoom(r) == NextPut(r) /= r.iget

(* The two stores of ringbuf_put: the byte, then the index that publishes  *)
(* it.                                                                     *)
PutByte(r, v) == [r EXCEPT !.buf[r.iput] = v]

PutIndex(r) == [r EXCEPT !.iput = NextPut(r)]

ringbuf_put(r, v) == IF HasRoom(r) THEN PutIndex(PutByte(r, v)) ELSE r

(* The three accesses of ringbuf_get on a buffer that is not empty.        *)
GetAdvance(r) == [r EXCEPT !.iget = @ + 1]

GetByte(r, i) == r.buf[i]

WrapIndex(r, i) == IF i >= r.size THEN 0 ELSE i

GetWrap(r) == [r EXCEPT !.iget = WrapIndex(r, @)]

(* All of ringbuf_get, where nothing can come in between.                  *)
ringbuf_get(r) == GetWrap(GetAdvance(r))

-----------------------------------------------------------------------------
(* What the buffer holds, oldest byte first.  The read index counts as     *)
(* wrapped, also while ringbuf_get has not yet stored the wrapped value.   *)

First(r) == WrapIndex(r, r.iget)

Slot(r, k) == IF First(r) + k >= r.size THEN First(r) + k - r.size ELSE First(r) + k

Held(r) == IF r.iput >= First(r) THEN r.iput - First(r)
                                 ELSE r.size + r.iput - First(r)

Contents(r) == [k \in 1..Held(r) |-> r.buf[Slot(r, k - 1)]]

=============================================================================
