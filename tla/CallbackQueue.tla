--------------------------- MODULE CallbackQueue ---------------------------
(***************************************************************************)
(* What micropython.schedule() promises to a program (documented in        *)
(* docs/library/micropython.rst): a bounded first-in first-out queue of     *)
(* functions, run one at a time, each accepted function exactly once, no    *)
(* scheduled function preempting another one.  py/scheduler.c is modelled   *)
(* in module Scheduler and shown to implement this specification.           *)
(***************************************************************************)
EXTENDS Naturals, Sequences

CONSTANTS
  Callbacks,   \* the functions a program may schedule
  NoItem,      \* no function is running
  Depth        \* room in the queue

VARIABLES
  queue,       \* accepted functions that have not started, oldest first
  running      \* the function being executed, or NoItem

vars == <<queue, running>>

Init ==
  /\ queue = <<>>
  /\ running = NoItem

Schedule(f) ==
  /\ Len(queue) < Depth
  /\ queue' = Append(queue, f)
  /\ UNCHANGED running

Start ==
  /\ running = NoItem
  /\ queue # <<>>
  /\ running' = Head(queue)
  /\ queue' = Tail(queue)

Finish ==
  /\ running # NoItem
  /\ running' = NoItem
  /\ UNCHANGED queue

Next ==
  \/ \E f \in Callbacks : Schedule(f)
  \/ Start
  \/ Finish

Spec == Init /\ [][Next]_vars
=============================================================================
