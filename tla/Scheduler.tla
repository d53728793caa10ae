----------------------------- MODULE Scheduler -----------------------------
(***************************************************************************)
(* The MicroPython callback scheduler of py/scheduler.c, the VM's pending   *)
(* check that drives it (py/vm.c), and the code of the rp2 port that calls  *)
(* it: interrupt handlers (lib/utils/mpirq.c, machine_timer.c, uart.c), the *)
(* keyboard interrupt, and finalisers run by gc_sweep (py/gc.c).            *)
(*                                                                          *)
(* Each core has one stack of activations; only the last one takes steps.   *)
(* An interrupt pushes an "isr" activation on the core it arrives at, so    *)
(* the code below it is suspended until the handler returns.  An atomic     *)
(* section is save_and_disable_interrupts() of the own core                 *)
(* (mpconfigport.h), so it keeps that core's interrupts out and nothing     *)
(* else.  The sections of mp_sched_lock, mp_sched_unlock and                *)
(* mp_sched_schedule are single steps; mp_handle_pending, whose section     *)
(* begins with a second test, is two.                                       *)
(***************************************************************************)
EXTENDS Integers, Sequences, FiniteSets

CONSTANTS
  Cores,       \* the cores that run Python threads
  Callbacks,   \* the (function, argument) pairs that may be scheduled
  NoItem,      \* not a callback
  Depth        \* MICROPY_SCHEDULER_DEPTH

\* mp_sched_empty asserts statically that the depth is a power of two, which
\* makes the mask a remainder, and that it fits in 8 bits.
ASSUME DepthAssumption == Depth \in {1, 2, 4, 8, 16, 32, 64, 128}
ASSUME ItemAssumption == NoItem \notin Callbacks

VARIABLES
  sched_state,
  sched_idx,
  sched_len,
  sched_queue,
  mp_pending_exception,  \* whether an exception object is pending
  stack,                 \* activations of each core, innermost last
  gc_lock_depth,         \* of the thread of each core
  handler                \* of the pin interrupt: "none", "soft" or "hard"

vars == <<sched_state, sched_idx, sched_len, sched_queue,
          mp_pending_exception, stack, gc_lock_depth, handler>>

schedVars == <<sched_state, sched_idx, sched_len, sched_queue>>

MP_SCHED_IDLE == 1
MP_SCHED_PENDING == 0
MP_SCHED_LOCKED == -1

IDX_MASK(i) == i % Depth

-----------------------------------------------------------------------------
(* Activations.                                                             *)

\* Code that runs bytecode, and so reaches the pending check, may schedule
\* functions and may poll USB: the main program of the core, a scheduled
\* callback, a finaliser and a hard interrupt handler.
PyCode == {"run", "callback", "fin", "hard"}

\* Activations that hold the scheduler lock.
Lockers == {"callback", "tail", "fin", "hard"}

Frames == [at : PyCode \cup {"pend", "section", "tail", "isr",
                             "exc_test", "exc_store"},
           item : Callbacks \cup {NoItem}]

Frame(at) == [at |-> at, item |-> NoItem]
CallFrame(f) == [at |-> "callback", item |-> f]

Top(c) == stack[c][Len(stack[c])].at
Popped(s) == SubSeq(s, 1, Len(s) - 1)

Push(c, fr) == stack' = [stack EXCEPT ![c] = Append(@, fr)]
Pop(c) == stack' = [stack EXCEPT ![c] = Popped(@)]
Become(c, fr) == stack' = [stack EXCEPT ![c] = Append(Popped(@), fr)]

Active(c, at) == \E i \in 1..Len(stack[c]) : stack[c][i].at = at

-----------------------------------------------------------------------------
(* The operations of py/scheduler.c, each the effect of its atomic section.  *)

mp_sched_full == sched_len = Depth

\* Mutant: the lock does not nest.
SchedLockFlat ==
  /\ sched_state' = MP_SCHED_LOCKED
  /\ UNCHANGED <<sched_idx, sched_len, sched_queue>>

SchedLock ==
  /\ sched_state' = IF sched_state < 0 THEN sched_state - 1
                                       ELSE MP_SCHED_LOCKED
  /\ UNCHANGED <<sched_idx, sched_len, sched_queue>>

\* Mutant: unlocking always leaves the scheduler idle.
SchedUnlockIdle ==
  /\ sched_state' = IF sched_state + 1 = 0 THEN MP_SCHED_IDLE
                                           ELSE sched_state + 1
  /\ UNCHANGED <<sched_idx, sched_len, sched_queue>>

\* Mutant: unlocking looks at the queue only.
SchedUnlockNoExc ==
  /\ sched_state' = IF sched_state + 1 # 0 THEN sched_state + 1
                    ELSE IF sched_len > 0 THEN MP_SCHED_PENDING
                    ELSE MP_SCHED_IDLE
  /\ UNCHANGED <<sched_idx, sched_len, sched_queue>>

SchedUnlock ==
  /\ sched_state' = IF sched_state + 1 # 0 THEN sched_state + 1
                    ELSE IF mp_pending_exception \/ sched_len > 0
                    THEN MP_SCHED_PENDING
                    ELSE MP_SCHED_IDLE
  /\ UNCHANGED <<sched_idx, sched_len, sched_queue>>

\* Mutant: a full queue is not refused.
SchedScheduleUnbounded(f) ==
  /\ sched_state' = IF sched_state = MP_SCHED_IDLE THEN MP_SCHED_PENDING
                                                   ELSE sched_state
  /\ sched_queue' = [sched_queue EXCEPT ![IDX_MASK(sched_idx + sched_len)] = f]
  /\ sched_len' = (sched_len + 1) % 256
  /\ UNCHANGED sched_idx

\* Mutant: whatever the state, the scheduler becomes pending.
SchedScheduleForce(f) ==
  \/ /\ ~mp_sched_full
     /\ sched_state' = MP_SCHED_PENDING
     /\ sched_queue' = [sched_queue EXCEPT ![IDX_MASK(sched_idx + sched_len)] = f]
     /\ sched_len' = (sched_len + 1) % 256
     /\ UNCHANGED sched_idx
  \/ /\ mp_sched_full
     /\ UNCHANGED schedVars

\* Mutant: the new item goes where the oldest one is.
SchedScheduleFront(f) ==
  \/ /\ ~mp_sched_full
     /\ sched_state' = IF sched_state = MP_SCHED_IDLE THEN MP_SCHED_PENDING
                                                      ELSE sched_state
     /\ sched_queue' = [sched_queue EXCEPT ![sched_idx] = f]
     /\ sched_len' = (sched_len + 1) % 256
     /\ UNCHANGED sched_idx
  \/ /\ mp_sched_full
     /\ UNCHANGED schedVars

\* A full queue refuses the callback: mp_sched_schedule returns false.
SchedSchedule(f) ==
  \/ /\ ~mp_sched_full
     /\ sched_state' = IF sched_state = MP_SCHED_IDLE THEN MP_SCHED_PENDING
                                                      ELSE sched_state
     /\ sched_queue' = [sched_queue EXCEPT ![IDX_MASK(sched_idx + sched_len)] = f]
     /\ sched_len' = (sched_len + 1) % 256
     /\ UNCHANGED sched_idx
  \/ /\ mp_sched_full
     /\ UNCHANGED schedVars

-----------------------------------------------------------------------------
(* The pending check: mp_handle_pending and its copy inlined in the VM.      *)

\* The first test, outside the atomic section.
Poll(c) ==
  /\ Top(c) \in PyCode
  /\ sched_state = MP_SCHED_PENDING
  /\ Push(c, Frame("pend"))
  /\ UNCHANGED <<schedVars, mp_pending_exception, gc_lock_depth, handler>>

\* Interrupts of this core are off from here to the end of Section(c).
BeginSection(c) ==
  /\ Top(c) = "pend"
  /\ IF sched_state = MP_SCHED_PENDING THEN Become(c, Frame("section"))
                                       ELSE Pop(c)
  /\ UNCHANGED <<schedVars, mp_pending_exception, gc_lock_depth, handler>>

\* The pending exception is raised in the code that polled; the scheduler
\* goes idle only if no callback is waiting.
RaisePending(c) ==
  /\ Top(c) = "section"
  /\ mp_pending_exception
  /\ mp_pending_exception' = FALSE
  /\ sched_state' = IF sched_len = 0 THEN MP_SCHED_IDLE ELSE sched_state
  /\ Pop(c)
  /\ UNCHANGED <<sched_idx, sched_len, sched_queue, gc_lock_depth, handler>>

\* mp_handle_pending_tail, reached with no exception pending or, when the
\* caller passes raise_exc = false, after dropping the one that was.
PendingTail(c) ==
  /\ Top(c) = "section"
  /\ mp_pending_exception' = FALSE
  /\ sched_state' = MP_SCHED_LOCKED
  /\ IF sched_len > 0
     THEN /\ Become(c, CallFrame(sched_queue[sched_idx]))
          /\ sched_idx' = IDX_MASK(sched_idx + 1)
          /\ sched_len' = sched_len - 1
     ELSE /\ Become(c, Frame("tail"))
          /\ UNCHANGED <<sched_idx, sched_len>>
  /\ UNCHANGED <<sched_queue, gc_lock_depth, handler>>

\* The callback has returned, or raised inside the protected call, or there
\* was none: mp_handle_pending_tail ends with mp_sched_unlock.
FinishTail(c) ==
  /\ Top(c) \in {"callback", "tail"}
  /\ SchedUnlock
  /\ Pop(c)
  /\ UNCHANGED <<mp_pending_exception, gc_lock_depth, handler>>

-----------------------------------------------------------------------------
(* Callers on the thread of a core.                                          *)

\* micropython.schedule(); a refused callback raises RuntimeError.
ModSchedule(c, f) ==
  /\ Top(c) \in PyCode
  /\ SchedSchedule(f)
  /\ UNCHANGED <<mp_pending_exception, stack, gc_lock_depth, handler>>

\* mp_sched_keyboard_interrupt, from the USB callback that the VM hook polls
\* in any Python code and from the UART interrupt.  It runs in no atomic
\* section: the exception is stored, then the state tested, then set.
KeyboardInterrupt(c) ==
  /\ Top(c) \in PyCode \cup {"isr"}
  /\ mp_pending_exception' = TRUE
  /\ Push(c, Frame("exc_test"))
  /\ UNCHANGED <<schedVars, gc_lock_depth, handler>>

\* Mutant: the exception does not make an idle scheduler pending.
ExceptionTestSkipped(c) ==
  /\ Top(c) = "exc_test"
  /\ Pop(c)
  /\ UNCHANGED <<schedVars, mp_pending_exception, gc_lock_depth, handler>>

ExceptionTest(c) ==
  /\ Top(c) = "exc_test"
  /\ IF sched_state = MP_SCHED_IDLE THEN Become(c, Frame("exc_store"))
                                    ELSE Pop(c)
  /\ UNCHANGED <<schedVars, mp_pending_exception, gc_lock_depth, handler>>

ExceptionStore(c) ==
  /\ Top(c) = "exc_store"
  /\ sched_state' = MP_SCHED_PENDING
  /\ Pop(c)
  /\ UNCHANGED <<sched_idx, sched_len, sched_queue,
                 mp_pending_exception, gc_lock_depth, handler>>

\* gc_sweep runs __del__ of an unreachable object with the scheduler locked.
\* A collection waits for the one gc_mutex, which a collection under way
\* holds, and locks the heap of its own thread; it does not ask whether that
\* heap is locked, so a hard handler that calls gc.collect() gets one too.
\* micropython.heap_lock(), which only adds to gc_lock_depth, is left out.
StartFinaliser(c) ==
  /\ Top(c) \in PyCode
  /\ \A d \in Cores : ~Active(d, "fin")
  /\ SchedLock
  /\ gc_lock_depth' = [gc_lock_depth EXCEPT ![c] = @ + 1]
  /\ Push(c, Frame("fin"))
  /\ UNCHANGED <<mp_pending_exception, handler>>

EndFinaliser(c) ==
  /\ Top(c) = "fin"
  /\ SchedUnlock
  /\ gc_lock_depth' = [gc_lock_depth EXCEPT ![c] = @ - 1]
  /\ Pop(c)
  /\ UNCHANGED <<mp_pending_exception, handler>>

\* Pin.irq(): the pin's interrupt is disabled while handler and ishard change.
PinIrq(c, k) ==
  /\ Top(c) \in PyCode
  /\ handler' = k
  /\ UNCHANGED <<schedVars, mp_pending_exception, stack, gc_lock_depth>>

-----------------------------------------------------------------------------
(* Interrupts.  All of them keep the default priority on this port, so a     *)
(* handler is not preempted by another one of the same core.                 *)

Interrupt(c) ==
  /\ Top(c) # "section"
  /\ ~Active(c, "isr")
  /\ Push(c, Frame("isr"))
  /\ UNCHANGED <<schedVars, mp_pending_exception, gc_lock_depth, handler>>

\* alarm_callback of a Timer: the result of mp_sched_schedule is ignored.
TimerAlarm(c, f) ==
  /\ Top(c) = "isr"
  /\ SchedSchedule(f)
  /\ UNCHANGED <<mp_pending_exception, stack, gc_lock_depth, handler>>

\* mp_irq_handler with a soft handler.
SoftIrq(c, f) ==
  /\ Top(c) = "isr"
  /\ handler = "soft"
  /\ SchedSchedule(f)
  /\ UNCHANGED <<mp_pending_exception, stack, gc_lock_depth, handler>>

\* mp_irq_handler with a hard handler: lock the scheduler and the heap, call.
HardIrq(c) ==
  /\ Top(c) = "isr"
  /\ handler = "hard"
  /\ SchedLock
  /\ gc_lock_depth' = [gc_lock_depth EXCEPT ![c] = @ + 1]
  /\ Push(c, Frame("hard"))
  /\ UNCHANGED <<mp_pending_exception, handler>>

\* The handler returns, or raises and is uninstalled.
EndHardIrq(c) ==
  /\ Top(c) = "hard"
  /\ handler' \in {handler, "none"}
  /\ gc_lock_depth' = [gc_lock_depth EXCEPT ![c] = @ - 1]
  /\ SchedUnlock
  /\ Pop(c)
  /\ UNCHANGED mp_pending_exception

IsrReturn(c) ==
  /\ Top(c) = "isr"
  /\ Pop(c)
  /\ UNCHANGED <<schedVars, mp_pending_exception, gc_lock_depth, handler>>

-----------------------------------------------------------------------------

\* mp_init: every core is running its program, nothing is scheduled.
Init ==
  /\ sched_state = MP_SCHED_IDLE
  /\ sched_idx = 0
  /\ sched_len = 0
  /\ sched_queue = [i \in 0..(Depth - 1) |-> NoItem]
  /\ mp_pending_exception = FALSE
  /\ stack = [c \in Cores |-> <<Frame("run")>>]
  /\ gc_lock_depth = [c \in Cores |-> 0]
  /\ handler = "none"

Step(c) ==
  \/ Poll(c) \/ BeginSection(c) \/ RaisePending(c) \/ PendingTail(c)
  \/ FinishTail(c)
  \/ KeyboardInterrupt(c) \/ ExceptionTest(c) \/ ExceptionStore(c)
  \/ StartFinaliser(c) \/ EndFinaliser(c)
  \/ Interrupt(c) \/ HardIrq(c) \/ EndHardIrq(c) \/ IsrReturn(c)
  \/ \E f \in Callbacks : ModSchedule(c, f) \/ TimerAlarm(c, f) \/ SoftIrq(c, f)
  \/ \E k \in {"none", "soft", "hard"} : PinIrq(c, k)

Next == \E c \in Cores : Step(c)

Spec == Init /\ [][Next]_vars

\* Bytecode keeps reaching the pending check, and interrupts leave the code
\* below them time to run: whatever an activation can do infinitely often to
\* make progress, it does.
Fairness ==
  \A c \in Cores :
    /\ SF_vars(Poll(c)) /\ SF_vars(BeginSection(c))
    /\ SF_vars(RaisePending(c) \/ PendingTail(c))
    /\ SF_vars(FinishTail(c)) /\ SF_vars(EndFinaliser(c))
    /\ SF_vars(EndHardIrq(c)) /\ SF_vars(IsrReturn(c))
    /\ SF_vars(ExceptionTest(c) /\ ~Active(c, "isr"))
    /\ SF_vars(ExceptionTest(c) /\ Active(c, "isr"))
    /\ SF_vars(ExceptionStore(c) /\ ~Active(c, "isr"))
    /\ SF_vars(ExceptionStore(c) /\ Active(c, "isr"))

FairSpec == Spec /\ Fairness

-----------------------------------------------------------------------------
(* Properties.                                                               *)

\* Every variable has its C type: sched_len never leaves 0..Depth although it
\* is a uint8_t, the index stays inside the queue, and there is always an
\* activation to continue.
TypeOK ==
  /\ sched_state \in Int /\ sched_state <= MP_SCHED_IDLE
  /\ sched_idx \in 0..(Depth - 1)
  /\ sched_len \in 0..Depth
  /\ sched_queue \in [0..(Depth - 1) -> Callbacks \cup {NoItem}]
  /\ mp_pending_exception \in BOOLEAN
  /\ stack \in [Cores -> Seq(Frames)]
  /\ \A c \in Cores : stack[c] # <<>>
  /\ gc_lock_depth \in [Cores -> Nat]
  /\ handler \in {"none", "soft", "hard"}

\* sched_state counts the activations that hold the scheduler lock, so nested
\* regions (a finaliser in a callback, a hard interrupt over both) are left
\* only when the last of them unlocks.
LockDepth ==
  LET held == UNION {{c} \X {i \in 1..Len(stack[c]) : stack[c][i].at \in Lockers}
                       : c \in Cores}
  IN IF held = {} THEN sched_state >= 0 ELSE sched_state = -Cardinality(held)

\* The assertion of mp_sched_unlock: whoever is about to unlock holds the lock.
UnlockAssert ==
  \A c \in Cores : Top(c) \in Lockers => sched_state < 0

\* "A scheduled function will never preempt another scheduled function":
\* there is at most one callback activation in the whole system.
NeverPreempts ==
  \A c, d \in Cores : \A i \in 1..Len(stack[c]), j \in 1..Len(stack[d]) :
    stack[c][i].at = "callback" /\ stack[d][j].at = "callback"
      => c = d /\ i = j

\* An idle scheduler has nothing to do: no wakeup is lost between the test
\* outside the atomic section, the interrupts and the unlocks.  An exception
\* may be waiting only while the code that stored it has not set the state yet.
NoLostWakeup ==
  sched_state = MP_SCHED_IDLE =>
    /\ sched_len = 0
    /\ mp_pending_exception =>
         \E c \in Cores : Active(c, "exc_test") \/ Active(c, "exc_store")

\* A callback is started only from the pending check of the main program: not
\* from a finaliser, from a hard interrupt handler or from another callback
\* (the documented "critical regions").
CriticalRegions ==
  [][\A c \in Cores :
       Len(stack'[c]) > 0 /\ stack'[c][Len(stack'[c])].at = "callback"
         /\ Top(c) = "section"
       => \A i \in 1..(Len(stack[c]) - 1) : stack[c][i].at = "run"]_vars

Scheduled(f) == \E i \in 1..sched_len :
                  sched_queue[IDX_MASK(sched_idx + i - 1)] = f
Running(f) == \E c \in Cores : \E i \in 1..Len(stack[c]) : stack[c][i] = CallFrame(f)

\* The window of the ring that holds accepted items, oldest first, and the
\* item of the callback activation, as the documented queue sees them.
CQ == INSTANCE CallbackQueue WITH
        queue <- [i \in 1..sched_len |-> sched_queue[IDX_MASK(sched_idx + i - 1)]],
        running <- IF \E f \in Callbacks : Running(f)
                   THEN CHOOSE f \in Callbacks : Running(f)
                   ELSE NoItem

\* Accepted callbacks run exactly once, one at a time and in order: what the
\* scheduler does to its ring of items is what CallbackQueue allows.
ImplementsQueue == CQ!Spec

\* An accepted callback is eventually run, unless keyboard interrupts keep
\* arriving for ever (each pending check raises one before it looks at the
\* queue).
EventuallyRun ==
  <>[]~mp_pending_exception =>
    \A f \in Callbacks : Scheduled(f) ~> Running(f)

\* A stored exception does not stay pending.
EventuallyRaised ==
  []<>(~mp_pending_exception)
=============================================================================
