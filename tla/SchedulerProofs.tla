-------------------------- MODULE SchedulerProofs --------------------------
(***************************************************************************)
(* Proofs about Scheduler when Python runs on one core.  With a second      *)
(* core they do not all hold (run scheduler_two_cores), so each theorem     *)
(* carries the assumption Cores = {core}.                                   *)
(*                                                                          *)
(* The inductive invariant says which activation may stand directly on      *)
(* which (Shape), that sched_state counts the lock holders among them       *)
(* (Locks), that the heap lock counts the finaliser and the hard handler    *)
(* (HeapLocks), that a section owns the pending state, and that an idle     *)
(* scheduler has nothing to do (NoLostWakeup).                              *)
(***************************************************************************)
EXTENDS Scheduler, TLAPS

Has(s, at) == \E i \in 1..Len(s) : s[i].at = at

\* b may be the activation directly above a.
MayFollow(a, b) ==
  \/ a = "run" /\ b \in {"pend", "section", "callback", "tail", "fin",
                         "exc_test", "exc_store", "isr"}
  \/ a = "callback" /\ b \in {"fin", "exc_test", "isr"}
  \/ a = "fin" /\ b \in {"exc_test", "isr"}
  \/ a \in {"pend", "tail", "exc_test", "exc_store"} /\ b = "isr"
  \/ a = "isr" /\ b \in {"hard", "exc_test", "exc_store"}
  \/ a = "hard" /\ b \in {"fin", "exc_test"}

\* Activations that a core has at most once.
Single == {"isr", "fin"}

Shape(s) ==
  /\ s \in Seq(Frames)
  /\ Len(s) > 0
  /\ s[1].at = "run"
  /\ \A i \in 1..(Len(s) - 1) : MayFollow(s[i].at, s[i + 1].at)
  /\ \A i, j \in 1..Len(s) : s[i].at \in Single /\ s[j].at = s[i].at => i = j
  /\ \A i, j \in 1..Len(s) : s[i].at = "exc_store" /\ j < i => s[j].at \notin Lockers

One(b) == IF b THEN 1 ELSE 0

LockCount(s) == One(Has(s, "callback")) + One(Has(s, "tail"))
                + One(Has(s, "fin")) + One(Has(s, "hard"))

Locks(c) ==
  IF LockCount(stack[c]) = 0 THEN sched_state \in {0, 1}
                             ELSE sched_state = -LockCount(stack[c])

HeapLocks(c) ==
  gc_lock_depth[c] = One(Has(stack[c], "fin")) + One(Has(stack[c], "hard"))

\* The inductive invariant behind the theorems: the activations of a core
\* nest as the code allows, sched_state and gc_lock_depth count the lock
\* holders among them, and no wakeup is lost.
IInv ==
  /\ TypeOK
  /\ \A c \in Cores : /\ Shape(stack[c])
                      /\ Locks(c)
                      /\ HeapLocks(c)
                      /\ Top(c) = "section" => sched_state = MP_SCHED_PENDING
  /\ NoLostWakeup

-----------------------------------------------------------------------------
(* Pushing and popping activations.                                          *)

\* The records that the actions push are activations.
LEMMA FramesAreFrames ==
  /\ \A at \in PyCode \cup {"pend", "section", "tail", "isr", "exc_test", "exc_store"} :
       Frame(at) \in Frames /\ Frame(at).at = at
  /\ \A f \in Callbacks \cup {NoItem} :
       CallFrame(f) \in Frames /\ CallFrame(f).at = "callback"
BY DEF Frame, CallFrame, Frames, PyCode

\* What Append does to an activation stack.
LEMMA AppendStack ==
  ASSUME NEW s \in Seq(Frames), NEW fr \in Frames
  PROVE  /\ Append(s, fr) \in Seq(Frames)
         /\ Len(Append(s, fr)) = Len(s) + 1
         /\ Append(s, fr)[Len(s) + 1] = fr
         /\ \A i \in 1..Len(s) : Append(s, fr)[i] = s[i]
         /\ \A a : Has(Append(s, fr), a) <=> Has(s, a) \/ fr.at = a
<1>1. /\ Append(s, fr) \in Seq(Frames)
      /\ Len(Append(s, fr)) = Len(s) + 1
      /\ Append(s, fr)[Len(s) + 1] = fr
      /\ \A i \in 1..Len(s) : Append(s, fr)[i] = s[i]
  OBVIOUS
<1>2. ASSUME NEW a PROVE Has(Append(s, fr), a) <=> Has(s, a) \/ fr.at = a
  BY <1>1 DEF Has
<1> QED BY <1>1, <1>2

\* What removing the innermost activation does.
LEMMA PopStack ==
  ASSUME NEW s \in Seq(Frames), Len(s) > 1
  PROVE  /\ Popped(s) \in Seq(Frames)
         /\ Len(Popped(s)) = Len(s) - 1
         /\ \A i \in 1..(Len(s) - 1) : Popped(s)[i] = s[i]
         /\ \A a : Has(Popped(s), a) => Has(s, a)
         /\ \A a : Has(s, a) /\ s[Len(s)].at # a => Has(Popped(s), a)
<1>1. /\ Popped(s) \in Seq(Frames)
      /\ Len(Popped(s)) = Len(s) - 1
      /\ \A i \in 1..(Len(s) - 1) : Popped(s)[i] = s[i]
  BY DEF Popped
<1>2. ASSUME NEW a, Has(Popped(s), a) PROVE Has(s, a)
  BY <1>1, <1>2 DEF Has
<1>3. ASSUME NEW a, Has(s, a), s[Len(s)].at # a PROVE Has(Popped(s), a)
  BY <1>1, <1>3 DEF Has
<1> QED BY <1>1, <1>2, <1>3

\* A lock holder occurs at most once in a stack that has the shape.
LEMMA LockersUnique ==
  ASSUME NEW s, Shape(s), NEW i \in 1..Len(s), NEW j \in 1..Len(s),
         NEW a \in Lockers, s[i].at = a, s[j].at = a
  PROVE  i = j
<1>0. Len(s) \in Nat /\ \A k \in 2..Len(s) : MayFollow(s[k - 1].at, s[k].at)
  BY DEF Shape
<1>1. \A k \in 1..Len(s) : s[k].at \in {"callback", "tail"} => k = 2
  <2> SUFFICES ASSUME NEW k \in 1..Len(s), s[k].at \in {"callback", "tail"}
               PROVE k = 2
    OBVIOUS
  <2>1. k # 1 BY DEF Shape
  <2>2. MayFollow(s[k - 1].at, s[k].at) BY <2>1, <1>0
  <2>3. s[k - 1].at = "run" BY <2>2 DEF MayFollow
  <2>4. k - 1 = 1 \/ MayFollow(s[k - 2].at, s[k - 1].at) BY <1>0, <2>1
  <2> QED BY <2>3, <2>4, <1>0 DEF MayFollow
<1>3. \A k \in 1..Len(s) : s[k].at = "hard" => k > 1 /\ s[k - 1].at = "isr"
  BY <1>0 DEF MayFollow, Shape
<1>4. CASE a \in {"callback", "tail"} BY <1>1, <1>4
<1>5. CASE a = "fin" BY <1>5 DEF Shape, Single
<1>6. CASE a = "hard"
  <2>1. s[i - 1].at = "isr" /\ s[j - 1].at = "isr" /\ i > 1 /\ j > 1 BY <1>3, <1>6
  <2>2. i - 1 \in 1..Len(s) /\ j - 1 \in 1..Len(s) BY <2>1, <1>0
  <2>3. i - 1 = j - 1 BY Zenon, <2>1, <2>2 DEF Shape, Single
  <2> QED BY <2>3, <1>0
<1> QED BY <1>4, <1>5, <1>6 DEF Lockers

\* Popping keeps the shape, and releases exactly the top's share of the locks.
LEMMA PopShape ==
  ASSUME NEW s, Shape(s), Len(s) > 1
  PROVE  /\ Shape(Popped(s))
         /\ \A a \in Lockers : Has(Popped(s), a) <=> Has(s, a) /\ s[Len(s)].at # a
<1>0. s \in Seq(Frames) /\ Len(s) \in Nat BY DEF Shape
<1>1. /\ Popped(s) \in Seq(Frames)
      /\ Len(Popped(s)) = Len(s) - 1
      /\ \A i \in 1..(Len(s) - 1) : Popped(s)[i] = s[i]
      /\ \A a : Has(Popped(s), a) => Has(s, a)
      /\ \A a : Has(s, a) /\ s[Len(s)].at # a => Has(Popped(s), a)
  BY <1>0, PopStack
<1>2. Shape(Popped(s))
  <2> DEFINE t == Popped(s)
  <2>1. /\ t \in Seq(Frames) /\ Len(t) = Len(s) - 1
        /\ \A i \in 1..(Len(s) - 1) : t[i] = s[i]
    BY <1>1
  <2> HIDE DEF t
  <2>2. Len(t) > 0 /\ t[1].at = "run"
    BY <1>0, <2>1 DEF Shape
  <2>3. \A i \in 1..Len(t) - 1 : MayFollow(t[i].at, t[i + 1].at)
    BY <1>0, <2>1 DEF Shape
  <2>4. \A i, j \in 1..Len(t) : t[i].at \in Single /\ t[j].at = t[i].at => i = j
    BY <1>0, <2>1 DEF Shape
  <2>5. ASSUME NEW i \in 1..Len(t), NEW j \in 1..Len(t), t[i].at = "exc_store", j < i
        PROVE  t[j].at \notin Lockers
    <3>1. i \in 1..Len(s) /\ j \in 1..Len(s) /\ t[i] = s[i] /\ t[j] = s[j]
      BY <1>0, <2>1, <2>5
    <3> QED BY <3>1, <2>5 DEF Shape
  <2>6. Shape(t)
    BY <2>1, <2>2, <2>3, <2>4, <2>5 DEF Shape
  <2> QED BY <2>6 DEF t
<1>3. ASSUME NEW a \in Lockers, Has(Popped(s), a), s[Len(s)].at = a PROVE FALSE
  <2>1. PICK i \in 1..(Len(s) - 1) : s[i].at = a BY <1>1, <1>3 DEF Has
  <2>2. i = Len(s) BY <2>1, <1>3, <1>0, LockersUnique
  <2> QED BY <2>1, <2>2, <1>0
<1> QED BY <1>1, <1>2, <1>3

\* Pushing what may follow the top keeps the shape.
LEMMA AppendShape ==
  ASSUME NEW s, Shape(s), NEW fr \in Frames,
         MayFollow(s[Len(s)].at, fr.at),
         fr.at \in Single => ~Has(s, fr.at),
         fr.at = "exc_store" => \A a \in Lockers : ~Has(s, a)
  PROVE  Shape(Append(s, fr))
<1>0. s \in Seq(Frames) /\ Len(s) \in Nat \ {0} BY DEF Shape
<1> DEFINE t == Append(s, fr)
<1>1. /\ t \in Seq(Frames)
      /\ Len(t) = Len(s) + 1
      /\ t[Len(s) + 1] = fr
      /\ \A i \in 1..Len(s) : t[i] = s[i]
  BY <1>0, AppendStack
<1> HIDE DEF t
<1>2. t[1].at = "run" BY <1>0, <1>1 DEF Shape
<1>3. \A i \in 1..(Len(t) - 1) : MayFollow(t[i].at, t[i + 1].at)
  <2> SUFFICES ASSUME NEW i \in 1..Len(s) PROVE MayFollow(t[i].at, t[i + 1].at)
    BY <1>1, <1>0
  <2>1. CASE i = Len(s) BY <2>1, <1>1, <1>0
  <2>2. CASE i < Len(s)
    <3>1. t[i] = s[i] /\ t[i + 1] = s[i + 1] BY <2>2, <1>1, <1>0
    <3> QED BY <3>1, <2>2, <1>0 DEF Shape
  <2> QED BY <2>1, <2>2, <1>0
<1>4. \A i, j \in 1..Len(t) : t[i].at \in Single /\ t[j].at = t[i].at => i = j
  <2> SUFFICES ASSUME NEW i \in 1..Len(t), NEW j \in 1..Len(t),
                      t[i].at \in Single, t[j].at = t[i].at
               PROVE i = j
    OBVIOUS
  <2>1. CASE fr.at = t[i].at
    <3>1. \A k \in 1..Len(s) : t[k].at # t[i].at BY <2>1, <1>1 DEF Has
    <3> QED BY <3>1, <1>0, <1>1
  <2>2. CASE fr.at # t[i].at
    <3>1. i \in 1..Len(s) /\ j \in 1..Len(s) BY <2>2, <1>1, <1>0
    <3> QED BY <3>1, <1>1 DEF Shape
  <2> QED BY <2>1, <2>2
<1>5. \A i, j \in 1..Len(t) : t[i].at = "exc_store" /\ j < i => t[j].at \notin Lockers
  <2> SUFFICES ASSUME NEW i \in 1..Len(t), NEW j \in 1..Len(t),
                      t[i].at = "exc_store", j < i
               PROVE t[j].at \notin Lockers
    OBVIOUS
  <2>1. j \in 1..Len(s) /\ t[j] = s[j] BY <1>0, <1>1
  <2>2. CASE i = Len(s) + 1 BY <2>1, <2>2, <1>1 DEF Has
  <2>3. CASE i \in 1..Len(s) BY <2>1, <2>3, <1>1 DEF Shape
  <2> QED BY <2>2, <2>3, <1>0, <1>1
<1> QED BY <1>0, <1>1, <1>2, <1>3, <1>4, <1>5 DEF Shape, t

\* Adding or removing one holder changes the count by one, anything else
\* leaves it alone.
LEMMA CountOfSame ==
  ASSUME NEW s, NEW t, \A a \in Lockers : Has(s, a) <=> Has(t, a)
  PROVE  LockCount(s) = LockCount(t)
BY DEF LockCount, Lockers, One

\* One holder more makes the count one larger.
LEMMA CountOfMore ==
  ASSUME NEW s, NEW t, NEW b \in Lockers, ~Has(s, b), Has(t, b),
         \A a \in Lockers \ {b} : Has(s, a) <=> Has(t, a)
  PROVE  LockCount(t) = LockCount(s) + 1
<1>1. CASE b = "callback" BY <1>1 DEF LockCount, Lockers, One
<1>2. CASE b = "tail" BY <1>2 DEF LockCount, Lockers, One
<1>3. CASE b = "fin" BY <1>3 DEF LockCount, Lockers, One
<1>4. CASE b = "hard" BY <1>4 DEF LockCount, Lockers, One
<1> QED BY <1>1, <1>2, <1>3, <1>4 DEF Lockers

\* There are at most four holders; none exactly when the count is zero.
LEMMA CountRange ==
  ASSUME NEW s
  PROVE  /\ LockCount(s) \in 0..4
         /\ LockCount(s) = 0 <=> \A a \in Lockers : ~Has(s, a)
BY DEF LockCount, Lockers, One

-----------------------------------------------------------------------------
(* The three ways a step changes the stack of the only core.                 *)

\* A new activation on top of the stack of the only core.
LEMMA PushStep ==
  ASSUME NEW core, Cores = {core}, stack \in [Cores -> Seq(Frames)],
         Shape(stack[core]), NEW fr \in Frames, Push(core, fr),
         MayFollow(Top(core), fr.at),
         fr.at \in Single => ~Has(stack[core], fr.at),
         fr.at = "exc_store" => \A a \in Lockers : ~Has(stack[core], a)
  PROVE  /\ stack' \in [Cores -> Seq(Frames)]
         /\ Shape(stack'[core])
         /\ Top(core)' = fr.at
         /\ \A a : Has(stack'[core], a) <=> Has(stack[core], a) \/ fr.at = a
<1>1. stack[core] \in Seq(Frames) /\ Len(stack[core]) \in Nat OBVIOUS
<1>2. stack'[core] = Append(stack[core], fr) BY DEF Push
<1>3. stack' \in [Cores -> Seq(Frames)] BY <1>1, AppendStack DEF Push
<1>4. Shape(stack'[core]) BY <1>2, AppendShape DEF Top
<1> QED BY <1>1, <1>2, <1>3, <1>4, AppendStack DEF Top

\* The innermost activation of the only core returns.
LEMMA PopStep ==
  ASSUME NEW core, Cores = {core}, stack \in [Cores -> Seq(Frames)],
         Shape(stack[core]), Pop(core), Top(core) # "run"
  PROVE  /\ stack' \in [Cores -> Seq(Frames)]
         /\ Shape(stack'[core])
         /\ MayFollow(Top(core)', Top(core))
         /\ \A a \in Lockers :
              Has(stack'[core], a) <=> Has(stack[core], a) /\ Top(core) # a
         /\ \A a : Has(stack[core], a) /\ Top(core) # a => Has(stack'[core], a)
         /\ \A a : Has(stack'[core], a) => Has(stack[core], a)
<1>1. /\ stack[core] \in Seq(Frames) /\ Len(stack[core]) \in Nat
      /\ Len(stack[core]) > 1
  BY DEF Shape, Top
<1>2. stack'[core] = Popped(stack[core]) BY DEF Pop
<1>3. stack' \in [Cores -> Seq(Frames)] BY <1>1, PopStack DEF Pop
<1>4. /\ Shape(stack'[core])
      /\ \A a \in Lockers :
           Has(stack'[core], a) <=> Has(stack[core], a) /\ Top(core) # a
  BY <1>1, <1>2, PopShape DEF Top
<1>5. Top(core)' = stack[core][Len(stack[core]) - 1].at
  BY <1>1, <1>2, PopStack DEF Top
<1>6. MayFollow(Top(core)', Top(core)) BY <1>1, <1>5 DEF Shape, Top
<1> QED BY <1>1, <1>2, <1>3, <1>4, <1>6, PopStack DEF Top

\* The innermost activation of the only core goes on as another one.
LEMMA BecomeStep ==
  ASSUME NEW core, Cores = {core}, stack \in [Cores -> Seq(Frames)],
         Shape(stack[core]), NEW fr \in Frames, Become(core, fr),
         Top(core) # "run",
         \A a : MayFollow(a, Top(core)) /\ (a \in Lockers => Has(stack[core], a))
               => MayFollow(a, fr.at),
         fr.at \notin Single,
         fr.at = "exc_store" => \A a \in Lockers : ~Has(stack[core], a)
  PROVE  /\ stack' \in [Cores -> Seq(Frames)]
         /\ Shape(stack'[core])
         /\ Top(core)' = fr.at
         /\ \A a \in Lockers :
              Has(stack'[core], a) <=> (Has(stack[core], a) /\ Top(core) # a) \/ fr.at = a
         /\ \A a : Has(stack[core], a) /\ Top(core) # a => Has(stack'[core], a)
         /\ Has(stack'[core], fr.at)
<1> DEFINE s == stack[core]
           p == Popped(s)
<1>1. s \in Seq(Frames) /\ Len(s) \in Nat /\ Len(s) > 1 BY DEF Shape, Top
<1>2. stack'[core] = Append(p, fr) BY DEF Become
<1>3. /\ p \in Seq(Frames)
      /\ Len(p) = Len(s) - 1
      /\ \A i \in 1..(Len(s) - 1) : p[i] = s[i]
      /\ \A a : Has(p, a) => Has(s, a)
      /\ \A a : Has(s, a) /\ s[Len(s)].at # a => Has(p, a)
  BY <1>1, PopStack
<1>4. /\ Shape(p)
      /\ \A a \in Lockers : Has(p, a) <=> Has(s, a) /\ s[Len(s)].at # a
  BY <1>1, PopShape
<1>5. stack' \in [Cores -> Seq(Frames)] BY <1>3, AppendStack DEF Become
<1>6. MayFollow(p[Len(p)].at, fr.at)
  <2>1. p[Len(p)] = s[Len(s) - 1] BY <1>1, <1>3
  <2>2. MayFollow(p[Len(p)].at, Top(core)) BY <2>1, <1>1 DEF Shape, Top
  <2>3. Has(s, p[Len(p)].at) BY <2>1, <1>1 DEF Has
  <2> QED BY <2>2, <2>3
<1>7. Shape(Append(p, fr)) BY <1>4, <1>6, <1>3, AppendShape
<1>8. /\ Len(Append(p, fr)) = Len(p) + 1
      /\ Append(p, fr)[Len(p) + 1] = fr
      /\ \A a : Has(Append(p, fr), a) <=> Has(p, a) \/ fr.at = a
  BY <1>3, AppendStack
<1>9. Top(core)' = fr.at BY <1>2, <1>8 DEF Top
<1> QED BY <1>2, <1>3, <1>4, <1>5, <1>7, <1>8, <1>9 DEF Top

-----------------------------------------------------------------------------
(* The invariant is inductive on one core.                                   *)

\* The types of the variables whose range no other conjunct gives.
RestOK ==
  /\ sched_idx \in 0..(Depth - 1)
  /\ sched_len \in 0..Depth
  /\ sched_queue \in [0..(Depth - 1) -> Callbacks \cup {NoItem}]
  /\ mp_pending_exception \in BOOLEAN
  /\ handler \in {"none", "soft", "hard"}

\* The invariant for the only core, without the conjuncts that follow.
CoreInv(core) ==
  /\ stack \in [Cores -> Seq(Frames)]
  /\ gc_lock_depth \in [Cores -> Nat]
  /\ Shape(stack[core])
  /\ Locks(core)
  /\ HeapLocks(core)
  /\ Top(core) = "section" => sched_state = MP_SCHED_PENDING
  /\ sched_state = MP_SCHED_IDLE =>
       /\ sched_len = 0
       /\ mp_pending_exception => Has(stack[core], "exc_test") \/ Has(stack[core], "exc_store")

\* With a single core the invariant is RestOK and CoreInv.
LEMMA InvOneCore ==
  ASSUME NEW core, Cores = {core}
  PROVE  IInv <=> RestOK /\ CoreInv(core)
<1>1. ASSUME IInv PROVE RestOK /\ CoreInv(core)
  BY <1>1 DEF IInv, TypeOK, RestOK, CoreInv, NoLostWakeup, Active, Has
<1>2. ASSUME RestOK, CoreInv(core) PROVE IInv
  <2>1. sched_state \in Int /\ sched_state <= MP_SCHED_IDLE
    BY <1>2, CountRange DEF CoreInv, Locks, MP_SCHED_IDLE
  <2>2. TypeOK BY <1>2, <2>1 DEF RestOK, CoreInv, TypeOK, Shape
  <2>3. NoLostWakeup BY <1>2 DEF CoreInv, NoLostWakeup, Active, Has
  <2> QED BY <1>2, <2>2, <2>3 DEF IInv, CoreInv
<1> QED BY <1>1, <1>2

\* The invariant holds after mp_init.
LEMMA InvInit ==
  ASSUME NEW core, Cores = {core}, Init
  PROVE  IInv
<1> DEFINE s == <<Frame("run")>>
<1>1. stack[core] = s /\ stack \in [Cores -> Seq(Frames)]
  BY FramesAreFrames DEF Init, PyCode
<1>2. s \in Seq(Frames) /\ Len(s) = 1 /\ s[1].at = "run"
  BY FramesAreFrames DEF PyCode
<1>3. Shape(s) BY <1>2 DEF Shape
<1>4. \A a : Has(s, a) <=> a = "run" BY <1>2 DEF Has
<1>5. LockCount(s) = 0 BY <1>4, CountRange DEF Lockers
<1>6. ~Has(s, "fin") /\ ~Has(s, "hard") BY <1>4
<1>7. Top(core) = "run" BY <1>1, <1>2 DEF Top
<1>8. CoreInv(core)
  BY <1>1, <1>3, <1>5, <1>6, <1>7
  DEF Init, CoreInv, Locks, HeapLocks, One, MP_SCHED_IDLE, MP_SCHED_PENDING
<1>9. RestOK
  <2>1. Depth \in Nat \ {0} BY DepthAssumption
  <2>2. sched_idx \in 0..(Depth - 1) /\ sched_len \in 0..Depth BY <2>1 DEF Init
  <2>3. sched_queue \in [0..(Depth - 1) -> Callbacks \cup {NoItem}] BY DEF Init
  <2> QED BY Zenon, <2>2, <2>3 DEF Init, RestOK
<1> QED BY <1>8, <1>9, InvOneCore

\* Facts about the state before a step that every case below starts from.
LEMMA CoreFacts ==
  ASSUME NEW core, Cores = {core}, CoreInv(core)
  PROVE  /\ sched_state \in Int /\ sched_state <= 1
         /\ LockCount(stack[core]) \in 0..4
         /\ sched_state >= 0 <=> LockCount(stack[core]) = 0
         /\ sched_state >= 0 <=> \A a \in Lockers : ~Has(stack[core], a)
         /\ sched_state < 0 => sched_state = -LockCount(stack[core])
         /\ Has(stack[core], Top(core))
         /\ stack[core] \in Seq(Frames)
<1>1. stack[core] \in Seq(Frames) /\ Len(stack[core]) \in Nat \ {0}
  BY DEF CoreInv, Shape
<1>2. Has(stack[core], Top(core)) BY <1>1 DEF Has, Top
<1> QED BY <1>1, <1>2, CountRange DEF CoreInv, Locks

\* Steps of the pending check.
LEMMA PendingSteps ==
  ASSUME NEW core, Cores = {core}, RestOK, CoreInv(core)
  PROVE  /\ Poll(core) => (RestOK /\ CoreInv(core))'
         /\ BeginSection(core) => (RestOK /\ CoreInv(core))'
         /\ RaisePending(core) => (RestOK /\ CoreInv(core))'
         /\ PendingTail(core) => (RestOK /\ CoreInv(core))'
<1> USE DEF MP_SCHED_IDLE, MP_SCHED_PENDING, MP_SCHED_LOCKED
<1>0. /\ sched_state \in Int /\ sched_state <= 1
      /\ LockCount(stack[core]) \in 0..4
      /\ sched_state >= 0 <=> LockCount(stack[core]) = 0
      /\ sched_state >= 0 <=> \A a \in Lockers : ~Has(stack[core], a)
      /\ Has(stack[core], Top(core))
  BY CoreFacts
<1>1. ASSUME Poll(core) PROVE (RestOK /\ CoreInv(core))'
  <2>1. Top(core) = "run" BY <1>0, <1>1 DEF Poll, PyCode, Lockers
  <2>2. Frame("pend") \in Frames /\ Frame("pend").at = "pend" BY FramesAreFrames
  <2>3. MayFollow(Top(core), "pend") BY <2>1 DEF MayFollow
  <2>4. /\ stack' \in [Cores -> Seq(Frames)]
        /\ Shape(stack'[core])
        /\ Top(core)' = "pend"
        /\ \A a : Has(stack'[core], a) <=> Has(stack[core], a) \/ "pend" = a
    <3>1. Push(core, Frame("pend")) /\ MayFollow(Top(core), Frame("pend").at)
      BY <1>1, <2>2, <2>3 DEF Poll
    <3>2. stack \in [Cores -> Seq(Frames)] /\ Shape(stack[core]) BY DEF CoreInv
    <3>3. Frame("pend").at \notin Single /\ Frame("pend").at # "exc_store" BY <2>2 DEF Single
    <3> QED BY <2>2, <3>1, <3>2, <3>3, PushStep
  <2>5. LockCount(stack'[core]) = LockCount(stack[core])
    BY <2>4, CountOfSame DEF Lockers
  <2>6. RestOK' BY <1>1 DEF RestOK, Poll, schedVars
  <2>7. Locks(core)' BY <2>5, <1>1 DEF Locks, CoreInv, Poll, schedVars
  <2>8. HeapLocks(core)' BY <2>4, <1>1 DEF HeapLocks, One, CoreInv, Poll
  <2> QED BY <2>4, <2>6, <2>7, <2>8, <1>1 DEF CoreInv, Poll, schedVars
<1>2. ASSUME BeginSection(core) PROVE (RestOK /\ CoreInv(core))'
  <2>0. RestOK' BY <1>2 DEF RestOK, BeginSection, schedVars
  <2>1. CASE sched_state = 0
    <3>1. Frame("section") \in Frames /\ Frame("section").at = "section"
      BY FramesAreFrames
    <3>2. \A a : MayFollow(a, Top(core)) => MayFollow(a, "section")
      BY <1>2 DEF BeginSection, MayFollow
    <3>3. Become(core, Frame("section")) /\ Top(core) = "pend"
      BY <1>2, <2>1 DEF BeginSection
    <3>4. /\ stack' \in [Cores -> Seq(Frames)]
          /\ Shape(stack'[core])
          /\ Top(core)' = "section"
          /\ \A a \in Lockers :
               Has(stack'[core], a) <=> (Has(stack[core], a) /\ Top(core) # a) \/ "section" = a
      BY <3>1, <3>2, <3>3, BecomeStep DEF CoreInv, Single
    <3>5. \A a \in Lockers : Has(stack'[core], a) <=> Has(stack[core], a)
      BY <3>3, <3>4 DEF Lockers
    <3>6. LockCount(stack'[core]) = LockCount(stack[core]) BY <3>5, CountOfSame
    <3>7. Locks(core)' BY <3>6, <1>2 DEF Locks, CoreInv, BeginSection, schedVars
    <3>8. HeapLocks(core)' BY <3>5, <1>2 DEF HeapLocks, One, CoreInv, BeginSection, Lockers
    <3> QED BY <2>0, <2>1, <3>4, <3>7, <3>8, <1>2
            DEF CoreInv, BeginSection, schedVars
  <2>2. CASE sched_state # 0
    <3>1. Pop(core) /\ Top(core) = "pend" BY <1>2, <2>2 DEF BeginSection
    <3>2. /\ stack' \in [Cores -> Seq(Frames)]
          /\ Shape(stack'[core])
          /\ MayFollow(Top(core)', Top(core))
          /\ \A a \in Lockers :
               Has(stack'[core], a) <=> Has(stack[core], a) /\ Top(core) # a
          /\ \A a : Has(stack[core], a) /\ Top(core) # a => Has(stack'[core], a)
      BY <3>1, PopStep DEF CoreInv
    <3>3. \A a \in Lockers : Has(stack'[core], a) <=> Has(stack[core], a)
      BY <3>1, <3>2 DEF Lockers
    <3>4. LockCount(stack'[core]) = LockCount(stack[core]) BY <3>3, CountOfSame
    <3>5. Locks(core)' BY <3>4, <1>2 DEF Locks, CoreInv, BeginSection, schedVars
    <3>6. HeapLocks(core)' BY <3>3, <1>2 DEF HeapLocks, One, CoreInv, BeginSection, Lockers
    <3>7. Top(core)' = "run" BY <3>1, <3>2 DEF MayFollow
    <3> QED BY <2>0, <3>1, <3>2, <3>5, <3>6, <3>7, <1>2
            DEF CoreInv, BeginSection, schedVars
  <2> QED BY <2>1, <2>2
<1>3. ASSUME RaisePending(core) PROVE (RestOK /\ CoreInv(core))'
  <2>0. RestOK' BY Zenon, <1>3 DEF RestOK, RaisePending
  <2>1. Pop(core) /\ Top(core) = "section" /\ sched_state = 0
    BY <1>3 DEF RaisePending, CoreInv
  <2>2. /\ stack' \in [Cores -> Seq(Frames)]
        /\ Shape(stack'[core])
        /\ MayFollow(Top(core)', Top(core))
        /\ \A a \in Lockers :
             Has(stack'[core], a) <=> Has(stack[core], a) /\ Top(core) # a
    BY <2>1, PopStep DEF CoreInv
  <2>3. \A a \in Lockers : Has(stack'[core], a) <=> Has(stack[core], a)
    BY <2>1, <2>2 DEF Lockers
  <2>4. LockCount(stack'[core]) = 0 BY <1>0, <2>1, <2>3, CountOfSame
  <2>5. sched_state' \in {0, 1} /\ (sched_state' = 1 => sched_len' = 0)
    BY <1>3, <2>1 DEF RaisePending
  <2>6. Locks(core)' BY <2>4, <2>5 DEF Locks
  <2>7. HeapLocks(core)' BY <2>3, <1>3 DEF HeapLocks, One, CoreInv, RaisePending, Lockers
  <2>8. Top(core)' = "run" BY <2>1, <2>2 DEF MayFollow
  <2> QED BY <2>0, <2>2, <2>5, <2>6, <2>7, <2>8, <1>3 DEF CoreInv, RaisePending
<1>4. ASSUME PendingTail(core) PROVE (RestOK /\ CoreInv(core))'
  <2>1. Top(core) = "section" /\ sched_state = 0 BY <1>4 DEF PendingTail, CoreInv
  <2>2. \A a \in Lockers : ~Has(stack[core], a) BY <1>0, <2>1
  <2>3. Depth \in Nat \ {0} BY DepthAssumption
  <2>4. \A k : IDX_MASK(k) = k % Depth BY DEF IDX_MASK
  <2>5. sched_idx + 1 \in Nat /\ (sched_idx + 1) % Depth \in 0..(Depth - 1)
    BY <2>3 DEF RestOK
  <2>6. RestOK'
    <3>1. CASE sched_len > 0
      <4>1. sched_idx' = (sched_idx + 1) % Depth /\ sched_len' = sched_len - 1
        BY <3>1, <1>4, <2>4 DEF PendingTail
      <4>2. sched_idx' \in 0..(Depth - 1) /\ sched_len' \in 0..Depth
        BY <2>3, <2>5, <3>1, <4>1 DEF RestOK
      <4> QED BY Zenon, <4>2, <1>4 DEF RestOK, PendingTail
    <3>2. CASE ~(sched_len > 0)
      BY Zenon, <3>2, <1>4 DEF RestOK, PendingTail
    <3> QED BY <3>1, <3>2
  <2>7. PICK fr \in Frames : fr.at \in {"callback", "tail"} /\ Become(core, fr)
    <3>1. CASE sched_len > 0
      <4>1. sched_queue[sched_idx] \in Callbacks \cup {NoItem} BY DEF RestOK
      <4> QED BY <3>1, <4>1, <1>4, FramesAreFrames DEF PendingTail
    <3>2. CASE ~(sched_len > 0)
      BY <3>2, <1>4, FramesAreFrames DEF PendingTail
    <3> QED BY <3>1, <3>2
  <2>8. \A a : MayFollow(a, Top(core)) => MayFollow(a, fr.at)
    BY <2>1, <2>7 DEF MayFollow
  <2>9. /\ stack' \in [Cores -> Seq(Frames)]
        /\ Shape(stack'[core])
        /\ Top(core)' = fr.at
        /\ \A a \in Lockers :
             Has(stack'[core], a) <=> (Has(stack[core], a) /\ Top(core) # a) \/ fr.at = a
    BY <2>1, <2>7, <2>8, BecomeStep DEF CoreInv, Single
  <2>10. LockCount(stack'[core]) = LockCount(stack[core]) + 1
    <3>1. fr.at \in Lockers BY <2>7 DEF Lockers
    <3>2. \A a \in Lockers \ {fr.at} : Has(stack[core], a) <=> Has(stack'[core], a)
      BY <2>2, <2>9
    <3>3. ~Has(stack[core], fr.at) /\ Has(stack'[core], fr.at) BY <2>2, <2>9, <3>1
    <3> QED BY <3>1, <3>2, <3>3, CountOfMore
  <2>11. Locks(core)' BY <1>0, <2>1, <2>10, <1>4 DEF Locks, PendingTail
  <2>12. HeapLocks(core)'
    BY <2>7, <2>9, <2>2, <1>4 DEF HeapLocks, One, CoreInv, PendingTail, Lockers
  <2> QED BY <2>6, <2>7, <2>9, <2>11, <2>12, <1>4 DEF CoreInv, PendingTail
<1> QED BY <1>1, <1>2, <1>3, <1>4

\* A step that changes neither the lock holders nor the scheduler's state
\* keeps the invariant, if the wakeup condition and the section's hold.
LEMMA QuietStep ==
  ASSUME NEW core, Cores = {core}, RestOK, CoreInv(core),
         stack' \in [Cores -> Seq(Frames)], Shape(stack'[core]),
         \A a \in Lockers : Has(stack'[core], a) <=> Has(stack[core], a),
         UNCHANGED <<sched_state, sched_idx, sched_len, sched_queue,
                     gc_lock_depth, handler>>,
         mp_pending_exception' \in BOOLEAN,
         Top(core)' # "section",
         sched_state = MP_SCHED_IDLE /\ mp_pending_exception' =>
           Has(stack'[core], "exc_test") \/ Has(stack'[core], "exc_store")
  PROVE  (RestOK /\ CoreInv(core))'
<1>1. LockCount(stack'[core]) = LockCount(stack[core]) BY CountOfSame
<1>2. RestOK' BY DEF RestOK
<1>3. Locks(core)' BY <1>1 DEF Locks, CoreInv
<1>4. HeapLocks(core)' BY DEF HeapLocks, One, CoreInv, Lockers
<1> QED BY <1>2, <1>3, <1>4 DEF CoreInv

\* A hard handler stands on the interrupt that called it.
LEMMA HardOverIsr ==
  ASSUME NEW s, Shape(s), Has(s, "hard")
  PROVE  Has(s, "isr") /\ s[Len(s)].at # "isr"
<1>0. Len(s) \in Nat \ {0} BY DEF Shape
<1>1. PICK k \in 1..Len(s) : s[k].at = "hard" BY DEF Has
<1>2. k # 1 BY <1>1 DEF Shape
<1>3. k - 1 \in 1..(Len(s) - 1) BY <1>0, <1>2
<1>4. MayFollow(s[k - 1].at, s[(k - 1) + 1].at) BY <1>3 DEF Shape
<1>5. s[k - 1].at = "isr" BY <1>0, <1>1, <1>4 DEF MayFollow
<1>6. k - 1 \in 1..Len(s) /\ k - 1 # Len(s) BY <1>0, <1>3
<1>7. Has(s, "isr") BY <1>5, <1>6 DEF Has
<1>8. s[Len(s)].at # "isr" BY <1>0, <1>5, <1>6 DEF Shape, Single
<1> QED BY <1>7, <1>8

\* Steps of mp_sched_exception, and the entry and exit of an interrupt.
LEMMA ExceptionSteps ==
  ASSUME NEW core, Cores = {core}, RestOK, CoreInv(core)
  PROVE  /\ KeyboardInterrupt(core) => (RestOK /\ CoreInv(core))'
         /\ ExceptionTest(core) => (RestOK /\ CoreInv(core))'
         /\ ExceptionStore(core) => (RestOK /\ CoreInv(core))'
         /\ Interrupt(core) => (RestOK /\ CoreInv(core))'
         /\ IsrReturn(core) => (RestOK /\ CoreInv(core))'
<1>a. stack \in [Cores -> Seq(Frames)] /\ Shape(stack[core]) BY DEF CoreInv
<1>b. /\ sched_state \in Int
      /\ sched_state >= 0 <=> \A a \in Lockers : ~Has(stack[core], a)
      /\ Has(stack[core], Top(core))
  BY CoreFacts
<1>c. mp_pending_exception \in BOOLEAN BY DEF RestOK
<1>1. ASSUME KeyboardInterrupt(core) PROVE (RestOK /\ CoreInv(core))'
  <2> DEFINE fr == Frame("exc_test")
  <2>1. fr \in Frames /\ fr.at = "exc_test" BY FramesAreFrames
  <2>2. Push(core, fr) /\ MayFollow(Top(core), fr.at)
    BY <1>1, <2>1 DEF KeyboardInterrupt, PyCode, MayFollow
  <2>3. fr.at \notin Single /\ fr.at # "exc_store" BY <2>1 DEF Single
  <2> HIDE DEF fr
  <2>4. /\ stack' \in [Cores -> Seq(Frames)]
        /\ Shape(stack'[core])
        /\ Top(core)' = fr.at
        /\ \A a : Has(stack'[core], a) <=> Has(stack[core], a) \/ fr.at = a
    BY Zenon, <1>a, <2>1, <2>2, <2>3, PushStep
  <2>5. \A a \in Lockers : Has(stack'[core], a) <=> Has(stack[core], a)
    BY <2>1, <2>4 DEF Lockers
  <2> QED BY <1>1, <2>1, <2>4, <2>5, QuietStep DEF KeyboardInterrupt, schedVars
<1>2. ASSUME ExceptionTest(core) PROVE (RestOK /\ CoreInv(core))'
  <2>0. Top(core) = "exc_test" BY <1>2 DEF ExceptionTest
  <2>1. CASE sched_state = MP_SCHED_IDLE
    <3> DEFINE fr == Frame("exc_store")
    <3>1. fr \in Frames /\ fr.at = "exc_store" BY FramesAreFrames
    <3>2. \A a \in Lockers : ~Has(stack[core], a) BY <1>b, <2>1 DEF MP_SCHED_IDLE
    <3>3. Become(core, fr) BY <1>2, <2>1 DEF ExceptionTest
    <3>4. \A a : MayFollow(a, Top(core)) /\ (a \in Lockers => Has(stack[core], a))
                 => MayFollow(a, fr.at)
      BY <2>0, <3>1, <3>2 DEF MayFollow, Lockers
    <3>5. Top(core) # "run" /\ fr.at \notin Single BY <2>0, <3>1 DEF Single
    <3> HIDE DEF fr
    <3>6. /\ stack' \in [Cores -> Seq(Frames)]
          /\ Shape(stack'[core])
          /\ Top(core)' = fr.at
          /\ \A a \in Lockers :
               Has(stack'[core], a) <=> (Has(stack[core], a) /\ Top(core) # a) \/ fr.at = a
          /\ Has(stack'[core], fr.at)
      BY <1>a, <3>1, <3>2, <3>3, <3>4, <3>5, BecomeStep
    <3>7. \A a \in Lockers : Has(stack'[core], a) <=> Has(stack[core], a)
      BY <2>0, <3>1, <3>6 DEF Lockers
    <3> QED BY <1>2, <1>c, <3>1, <3>6, <3>7, QuietStep DEF ExceptionTest, schedVars
  <2>2. CASE sched_state # MP_SCHED_IDLE
    <3>1. Pop(core) /\ Top(core) # "run" BY <1>2, <2>0, <2>2 DEF ExceptionTest
    <3>2. /\ stack' \in [Cores -> Seq(Frames)]
          /\ Shape(stack'[core])
          /\ MayFollow(Top(core)', Top(core))
          /\ \A a \in Lockers :
               Has(stack'[core], a) <=> Has(stack[core], a) /\ Top(core) # a
      BY <1>a, <3>1, PopStep
    <3>3. \A a \in Lockers : Has(stack'[core], a) <=> Has(stack[core], a)
      BY <2>0, <3>2 DEF Lockers
    <3>4. Top(core)' # "section" BY <2>0, <3>2 DEF MayFollow
    <3> QED BY <1>2, <1>c, <2>2, <3>2, <3>3, <3>4, QuietStep
            DEF ExceptionTest, schedVars
  <2> QED BY <2>1, <2>2
<1>3. ASSUME ExceptionStore(core) PROVE (RestOK /\ CoreInv(core))'
  <2>1. Pop(core) /\ Top(core) = "exc_store" BY <1>3 DEF ExceptionStore
  <2>2. /\ stack' \in [Cores -> Seq(Frames)]
        /\ Shape(stack'[core])
        /\ MayFollow(Top(core)', Top(core))
        /\ \A a \in Lockers :
             Has(stack'[core], a) <=> Has(stack[core], a) /\ Top(core) # a
    BY <1>a, <2>1, PopStep
  <2>3. \A a \in Lockers : ~Has(stack[core], a)
    <3>1. Len(stack[core]) \in Nat \ {0} BY <1>a DEF Shape
    <3>2. \A j \in 1..Len(stack[core]) : stack[core][j].at \notin Lockers
      BY <1>a, <2>1, <3>1 DEF Shape, Top, Lockers
    <3> QED BY <3>2 DEF Has
  <2>4. LockCount(stack'[core]) = 0 BY <2>2, <2>3, CountRange
  <2>5. Locks(core)' BY <1>3, <2>4 DEF Locks, ExceptionStore, MP_SCHED_PENDING
  <2>6. HeapLocks(core)'
    BY <1>3, <2>2, <2>3 DEF HeapLocks, One, CoreInv, Lockers, ExceptionStore
  <2>7. Top(core)' # "section" BY <2>1, <2>2 DEF MayFollow
  <2>8. RestOK' BY <1>3 DEF RestOK, ExceptionStore
  <2> QED BY <1>3, <2>2, <2>5, <2>6, <2>7, <2>8
          DEF CoreInv, ExceptionStore, MP_SCHED_PENDING, MP_SCHED_IDLE
<1>4. ASSUME Interrupt(core) PROVE (RestOK /\ CoreInv(core))'
  <2> DEFINE fr == Frame("isr")
  <2>1. fr \in Frames /\ fr.at = "isr" BY FramesAreFrames
  <2>2. ~Has(stack[core], "isr") BY <1>4 DEF Interrupt, Active, Has
  <2>3. ~Has(stack[core], "hard") BY <1>a, <2>2, HardOverIsr
  <2>4. MayFollow(Top(core), fr.at)
    <3>1. Top(core) \in PyCode \cup {"pend", "section", "tail", "isr",
                                      "exc_test", "exc_store"}
      <4>1. Len(stack[core]) \in 1..Len(stack[core]) BY <1>a DEF Shape
      <4>2. stack[core][Len(stack[core])] \in Frames BY <4>1, <1>a DEF Shape
      <4> QED BY <4>2 DEF Frames, Top
    <3>2. Top(core) \notin {"isr", "hard", "section"}
      BY <1>b, <1>4, <2>2, <2>3 DEF Interrupt
    <3> QED BY <2>1, <3>1, <3>2 DEF MayFollow, PyCode
  <2>5. Push(core, fr) BY <1>4 DEF Interrupt
  <2> HIDE DEF fr
  <2>6. /\ stack' \in [Cores -> Seq(Frames)]
        /\ Shape(stack'[core])
        /\ Top(core)' = fr.at
        /\ \A a : Has(stack'[core], a) <=> Has(stack[core], a) \/ fr.at = a
    BY Zenon, <1>a, <2>1, <2>2, <2>4, <2>5, PushStep
  <2>7. \A a \in Lockers : Has(stack'[core], a) <=> Has(stack[core], a)
    BY <2>1, <2>6 DEF Lockers
  <2>8. sched_state = MP_SCHED_IDLE /\ mp_pending_exception' =>
          Has(stack'[core], "exc_test") \/ Has(stack'[core], "exc_store")
    BY <1>4, <2>6 DEF Interrupt, CoreInv
  <2> QED BY <1>4, <1>c, <2>1, <2>6, <2>7, <2>8, QuietStep DEF Interrupt, schedVars
<1>5. ASSUME IsrReturn(core) PROVE (RestOK /\ CoreInv(core))'
  <2>1. Pop(core) /\ Top(core) = "isr" BY <1>5 DEF IsrReturn
  <2>2. /\ stack' \in [Cores -> Seq(Frames)]
        /\ Shape(stack'[core])
        /\ MayFollow(Top(core)', Top(core))
        /\ \A a \in Lockers :
             Has(stack'[core], a) <=> Has(stack[core], a) /\ Top(core) # a
        /\ \A a : Has(stack[core], a) /\ Top(core) # a => Has(stack'[core], a)
    BY <1>a, <2>1, PopStep
  <2>3. \A a \in Lockers : Has(stack'[core], a) <=> Has(stack[core], a)
    BY <2>1, <2>2 DEF Lockers
  <2>4. Top(core)' # "section" BY <2>1, <2>2 DEF MayFollow
  <2>5. sched_state = MP_SCHED_IDLE /\ mp_pending_exception' =>
          Has(stack'[core], "exc_test") \/ Has(stack'[core], "exc_store")
    BY <1>5, <2>1, <2>2 DEF IsrReturn, CoreInv
  <2> QED BY <1>5, <1>c, <2>2, <2>3, <2>4, <2>5, QuietStep DEF IsrReturn, schedVars
<1> QED BY <1>1, <1>2, <1>3, <1>4, <1>5

\* Steps that take the scheduler lock and the heap lock together.
LEMMA LockSteps ==
  ASSUME NEW core, Cores = {core}, RestOK, CoreInv(core),
         NEW a \in {"fin", "hard"}, Push(core, Frame(a)), SchedLock,
         gc_lock_depth' = [gc_lock_depth EXCEPT ![core] = @ + 1],
         UNCHANGED <<mp_pending_exception, handler>>,
         MayFollow(Top(core), a), ~Has(stack[core], a)
  PROVE  (RestOK /\ CoreInv(core))'
<1> DEFINE fr == Frame(a)
<1>1. fr \in Frames /\ fr.at = a BY FramesAreFrames DEF PyCode
<1>2. fr.at # "isr" /\ fr.at # "exc_store" /\ fr.at # "section" BY <1>1
<1>3. Push(core, fr) /\ MayFollow(Top(core), fr.at) BY <1>1
<1> HIDE DEF fr
<1>4. stack \in [Cores -> Seq(Frames)] /\ Shape(stack[core]) BY DEF CoreInv
<1>5. /\ stack' \in [Cores -> Seq(Frames)]
      /\ Shape(stack'[core])
      /\ Top(core)' = fr.at
      /\ \A b : Has(stack'[core], b) <=> Has(stack[core], b) \/ fr.at = b
  BY Zenon, <1>1, <1>2, <1>3, <1>4, PushStep
<1>6. LockCount(stack'[core]) = LockCount(stack[core]) + 1
  <2>1. a \in Lockers BY DEF Lockers
  <2>2. Has(stack'[core], a) BY <1>1, <1>5
  <2>3. \A b \in Lockers \ {a} : Has(stack[core], b) <=> Has(stack'[core], b)
    BY <1>1, <1>5
  <2> QED BY <2>1, <2>2, <2>3, CountOfMore
<1>7. /\ sched_state \in Int
      /\ LockCount(stack[core]) \in 0..4
      /\ sched_state >= 0 <=> LockCount(stack[core]) = 0
      /\ sched_state < 0 => sched_state = -LockCount(stack[core])
  BY CoreFacts
<1>8. sched_state' < 0 /\ Locks(core)'
  BY <1>6, <1>7 DEF Locks, SchedLock, MP_SCHED_LOCKED
<1>9. HeapLocks(core)' /\ gc_lock_depth' \in [Cores -> Nat]
  <2>1. gc_lock_depth'[core] = gc_lock_depth[core] + 1 BY DEF CoreInv
  <2>2. CASE a = "fin" BY <2>1, <2>2, <1>1, <1>5 DEF HeapLocks, One, CoreInv
  <2>3. CASE a = "hard" BY <2>1, <2>3, <1>1, <1>5 DEF HeapLocks, One, CoreInv
  <2> QED BY <2>2, <2>3
<1>10. RestOK' BY DEF RestOK, SchedLock
<1> QED BY <1>2, <1>5, <1>8, <1>9, <1>10 DEF CoreInv, MP_SCHED_IDLE

\* Steps that release the scheduler lock.
LEMMA UnlockSteps ==
  ASSUME NEW core, Cores = {core}, RestOK, CoreInv(core),
         Top(core) \in Lockers, Pop(core), SchedUnlock,
         gc_lock_depth' = IF Top(core) \in {"fin", "hard"}
                          THEN [gc_lock_depth EXCEPT ![core] = @ - 1]
                          ELSE gc_lock_depth,
         UNCHANGED mp_pending_exception, handler' \in {"none", "soft", "hard"}
  PROVE  (RestOK /\ CoreInv(core))'
<1>1. stack \in [Cores -> Seq(Frames)] /\ Shape(stack[core]) BY DEF CoreInv
<1>2. /\ stack' \in [Cores -> Seq(Frames)]
      /\ Shape(stack'[core])
      /\ MayFollow(Top(core)', Top(core))
      /\ \A a \in Lockers :
           Has(stack'[core], a) <=> Has(stack[core], a) /\ Top(core) # a
  BY <1>1, PopStep DEF Lockers
<1>3. /\ sched_state \in Int
      /\ LockCount(stack[core]) \in 0..4
      /\ sched_state >= 0 <=> LockCount(stack[core]) = 0
      /\ sched_state < 0 => sched_state = -LockCount(stack[core])
      /\ Has(stack[core], Top(core))
  BY CoreFacts
<1>4. LockCount(stack[core]) = LockCount(stack'[core]) + 1
  BY <1>2, <1>3, CountOfMore
<1>5. LockCount(stack'[core]) \in 0..4 BY CountRange
<1>6. sched_state = -LockCount(stack[core]) BY <1>3, <1>4, <1>5
<1>7. sched_len \in Nat BY DepthAssumption DEF RestOK
<1>8. /\ Locks(core)'
      /\ sched_state' = MP_SCHED_IDLE => sched_len' = 0 /\ ~mp_pending_exception'
  <2>1. CASE sched_state + 1 # 0
    <3>1. sched_state' = -LockCount(stack'[core]) /\ LockCount(stack'[core]) # 0
      BY <1>4, <1>5, <1>6, <2>1 DEF SchedUnlock
    <3> QED BY <1>5, <3>1 DEF Locks, MP_SCHED_IDLE
  <2>2. CASE sched_state + 1 = 0
    <3>1. LockCount(stack'[core]) = 0 BY <1>4, <1>5, <1>6, <2>2
    <3>2. CASE mp_pending_exception \/ sched_len > 0
      BY <2>2, <3>1, <3>2 DEF Locks, SchedUnlock, MP_SCHED_IDLE, MP_SCHED_PENDING
    <3>3. CASE ~(mp_pending_exception \/ sched_len > 0)
      BY <1>7, <2>2, <3>1, <3>3
      DEF Locks, SchedUnlock, MP_SCHED_IDLE, MP_SCHED_PENDING
    <3> QED BY <3>2, <3>3
  <2> QED BY <2>1, <2>2
<1>9. HeapLocks(core)' /\ gc_lock_depth' \in [Cores -> Nat]
  <2>1. CASE Top(core) \in {"fin", "hard"}
    <3>1. gc_lock_depth'[core] = gc_lock_depth[core] - 1 BY <2>1 DEF CoreInv
    <3>2. CASE Top(core) = "fin"
      BY <1>2, <1>3, <2>1, <3>1, <3>2 DEF HeapLocks, One, CoreInv, Lockers
    <3>3. CASE Top(core) = "hard"
      BY <1>2, <1>3, <2>1, <3>1, <3>3 DEF HeapLocks, One, CoreInv, Lockers
    <3> QED BY <2>1, <3>2, <3>3
  <2>2. CASE Top(core) \notin {"fin", "hard"}
    BY <1>2, <2>2 DEF HeapLocks, One, CoreInv, Lockers
  <2> QED BY <2>1, <2>2
<1>10. RestOK' BY DEF RestOK, SchedUnlock
<1>11. Top(core)' # "section" BY <1>2 DEF MayFollow, Lockers
<1> QED BY <1>2, <1>8, <1>9, <1>10, <1>11 DEF CoreInv

\* Steps that call mp_sched_schedule.
LEMMA ScheduleSteps ==
  ASSUME NEW core, Cores = {core}, RestOK, CoreInv(core),
         NEW f \in Callbacks, SchedSchedule(f),
         UNCHANGED <<mp_pending_exception, stack, gc_lock_depth, handler>>
  PROVE  (RestOK /\ CoreInv(core))'
<1>1. Depth \in Nat \ {0} /\ Depth < 256 BY DepthAssumption
<1>2. CASE mp_sched_full
  <2>1. UNCHANGED schedVars BY <1>2 DEF SchedSchedule
  <2>2. RestOK' BY <2>1 DEF RestOK, schedVars
  <2>3. Locks(core)' /\ HeapLocks(core)'
    BY <2>1 DEF Locks, HeapLocks, CoreInv, schedVars
  <2> QED BY <2>1, <2>2, <2>3 DEF CoreInv, schedVars, Top
<1>3. CASE ~mp_sched_full
  <2>1. /\ sched_state' = IF sched_state = MP_SCHED_IDLE THEN MP_SCHED_PENDING
                                                         ELSE sched_state
        /\ sched_queue' = [sched_queue EXCEPT ![IDX_MASK(sched_idx + sched_len)] = f]
        /\ sched_len' = (sched_len + 1) % 256
        /\ UNCHANGED sched_idx
    BY <1>3 DEF SchedSchedule
  <2>2. sched_len \in 0..Depth /\ sched_len # Depth BY <1>3 DEF RestOK, mp_sched_full
  <2>3. sched_len' = sched_len + 1 BY <1>1, <2>1, <2>2
  <2>4. sched_queue' \in [0..(Depth - 1) -> Callbacks \cup {NoItem}]
    BY Zenon, <2>1 DEF RestOK
  <2>5. RestOK' BY <1>1, <2>1, <2>2, <2>3, <2>4 DEF RestOK
  <2>6. sched_state' # MP_SCHED_IDLE BY <2>1 DEF MP_SCHED_IDLE, MP_SCHED_PENDING
  <2>7. LockCount(stack[core]) \in 0..4 BY CountRange
  <2>8. Locks(core)'
    BY <2>1, <2>7 DEF Locks, CoreInv, MP_SCHED_IDLE, MP_SCHED_PENDING
  <2>9. HeapLocks(core)' BY DEF HeapLocks, CoreInv
  <2>10. Top(core)' = "section" => sched_state' = MP_SCHED_PENDING
    BY <2>1 DEF CoreInv, Top
  <2> QED BY <2>5, <2>6, <2>8, <2>9, <2>10 DEF CoreInv
<1> QED BY <1>2, <1>3

\* Every step of the only core keeps the invariant.
LEMMA InvStep ==
  ASSUME NEW core, Cores = {core}, IInv, [Next]_vars
  PROVE  IInv'
<1>1. RestOK /\ CoreInv(core) BY InvOneCore
<1>2. stack \in [Cores -> Seq(Frames)] /\ Shape(stack[core]) BY <1>1 DEF CoreInv
<1>3. Has(stack[core], Top(core)) BY <1>1, CoreFacts
<1>4. SUFFICES (RestOK /\ CoreInv(core))'
  <2>1. (IInv <=> RestOK /\ CoreInv(core))' BY InvOneCore, PTL
  <2> QED BY <2>1
<1>5. CASE UNCHANGED vars
  <2>1. RestOK' BY <1>1, <1>5 DEF RestOK, vars
  <2>2. Locks(core)' /\ HeapLocks(core)'
    BY <1>1, <1>5 DEF Locks, HeapLocks, CoreInv, vars
  <2> QED BY <1>1, <1>5, <2>1, <2>2 DEF CoreInv, vars, Top
<1>6. CASE Step(core)
  <2>1. CASE Poll(core) \/ BeginSection(core) \/ RaisePending(core) \/ PendingTail(core)
    BY <1>1, <2>1, PendingSteps
  <2>2. CASE \/ KeyboardInterrupt(core) \/ ExceptionTest(core) \/ ExceptionStore(core)
             \/ Interrupt(core) \/ IsrReturn(core)
    BY <1>1, <2>2, ExceptionSteps
  <2>3. CASE StartFinaliser(core)
    <3>1. ~Has(stack[core], "fin") BY <2>3 DEF StartFinaliser, Active, Has
    <3>2. MayFollow(Top(core), "fin")
      BY <1>3, <2>3, <3>1 DEF StartFinaliser, PyCode, MayFollow
    <3> QED BY Zenon, <1>1, <2>3, <3>1, <3>2, LockSteps DEF StartFinaliser
  <2>4. CASE HardIrq(core)
    <3>1. ~Has(stack[core], "hard") BY <1>2, <2>4, HardOverIsr DEF HardIrq, Top
    <3>2. MayFollow(Top(core), "hard") BY <2>4 DEF HardIrq, MayFollow
    <3> QED BY Zenon, <1>1, <2>4, <3>1, <3>2, LockSteps DEF HardIrq
  <2>5. CASE FinishTail(core) \/ EndFinaliser(core) \/ EndHardIrq(core)
    <3>1. handler \in {"none", "soft", "hard"} BY <1>1 DEF RestOK
    <3>2. CASE FinishTail(core)
      BY <1>1, <3>1, <3>2, UnlockSteps DEF FinishTail, Lockers
    <3>3. CASE EndFinaliser(core)
      BY Zenon, <1>1, <3>1, <3>3, UnlockSteps DEF EndFinaliser, Lockers
    <3>4. CASE EndHardIrq(core)
      BY Zenon, <1>1, <3>1, <3>4, UnlockSteps DEF EndHardIrq, Lockers
    <3> QED BY <2>5, <3>2, <3>3, <3>4
  <2>6. CASE \E f \in Callbacks : ModSchedule(core, f) \/ TimerAlarm(core, f)
                                  \/ SoftIrq(core, f)
    BY <1>1, <2>6, ScheduleSteps DEF ModSchedule, TimerAlarm, SoftIrq
  <2>7. CASE \E k \in {"none", "soft", "hard"} : PinIrq(core, k)
    <3>1. RestOK' BY <1>1, <2>7 DEF RestOK, PinIrq, schedVars
    <3>2. Locks(core)' /\ HeapLocks(core)'
      BY <1>1, <2>7 DEF Locks, HeapLocks, CoreInv, PinIrq, schedVars
    <3>3. UNCHANGED <<stack, gc_lock_depth, sched_state, sched_len, mp_pending_exception>>
      BY <2>7 DEF PinIrq, schedVars
    <3>4. Top(core)' = Top(core)
      BY <3>3 DEF Top
    <3> QED BY <1>1, <3>1, <3>2, <3>3, <3>4 DEF CoreInv
  <2> QED BY <1>6, <2>1, <2>2, <2>3, <2>4, <2>5, <2>6, <2>7 DEF Step
<1> QED BY <1>5, <1>6 DEF Next

-----------------------------------------------------------------------------
(* Theorems.                                                                 *)

\* Facts about one stack that the theorems read off the invariant.
LEMMA InvImplies ==
  ASSUME NEW core, Cores = {core}, IInv
  PROVE  TypeOK /\ NeverPreempts /\ UnlockAssert /\ NoLostWakeup
<1>1. CoreInv(core) /\ Shape(stack[core]) BY Zenon, InvOneCore DEF CoreInv
<1>2. NeverPreempts
  <2> SUFFICES ASSUME NEW i \in 1..Len(stack[core]), NEW j \in 1..Len(stack[core]),
                      stack[core][i].at = "callback", stack[core][j].at = "callback"
               PROVE  i = j
    BY DEF NeverPreempts
  <2> QED BY <1>1, LockersUnique DEF Lockers
<1>3. UnlockAssert
  <2>1. /\ sched_state \in Int
        /\ sched_state >= 0 <=> \A a \in Lockers : ~Has(stack[core], a)
        /\ Has(stack[core], Top(core))
    BY <1>1, CoreFacts
  <2> QED BY <2>1 DEF UnlockAssert
<1> QED BY <1>2, <1>3 DEF IInv

\* The inductive invariant holds in every reachable state of one core.
THEOREM SchedulerInvariant ==
  ASSUME NEW core, Cores = {core}
  PROVE  Spec => []IInv
<1>1. Init => IInv BY InvInit
<1>2. IInv /\ [Next]_vars => IInv' BY InvStep
<1> QED BY <1>1, <1>2, PTL DEF Spec

\* The state of py/scheduler.c keeps its types on one core: in particular
\* sched_len never exceeds the depth and sched_idx never leaves the queue.
THEOREM SchedulerTypes ==
  ASSUME NEW core, Cores = {core}
  PROVE  Spec => []TypeOK
<1>1. IInv => TypeOK BY InvImplies
<1> QED BY <1>1, SchedulerInvariant, PTL

\* On one core a scheduled function never preempts another one, whatever the
\* depth of the queue and however interrupts, finalisers and exceptions nest.
THEOREM SchedulerNeverPreempts ==
  ASSUME NEW core, Cores = {core}
  PROVE  Spec => []NeverPreempts
<1>1. IInv => NeverPreempts BY InvImplies
<1> QED BY <1>1, SchedulerInvariant, PTL

\* On one core the assertion of mp_sched_unlock never fails.
THEOREM SchedulerUnlockAssert ==
  ASSUME NEW core, Cores = {core}
  PROVE  Spec => []UnlockAssert
<1>1. IInv => UnlockAssert BY InvImplies
<1> QED BY <1>1, SchedulerInvariant, PTL

\* On one core an idle scheduler never has a callback or an exception waiting,
\* although mp_sched_exception runs outside any atomic section.
THEOREM SchedulerNoLostWakeup ==
  ASSUME NEW core, Cores = {core}
  PROVE  Spec => []NoLostWakeup
<1>1. IInv => NoLostWakeup BY InvImplies
<1> QED BY <1>1, SchedulerInvariant, PTL
=============================================================================
