# TLA+ models of the rp2 firmware

This directory verifies parts of the MicroPython firmware for the RP2040 with an
ESP8285 WiFi module on SPI (`ports/rp2`, with the interpreter core in `py/`). It
holds TLA+ modules translated from the C source, TLC configurations that
model-check them on small instances, and TLAPS proofs for all sizes.
`PROJECT.json` lists components, runs, mutants, hazards and theorems, and maps
every definition to the lines it models.

    tlc -workers 2 -config Sockets.cfg MCSockets      # one run
    tlapm SocketsProofs.tla                           # one module's proofs

## 1. Inventory

The firmware runs Python on core 0 and, with `_thread`, on core 1. There is no
global interpreter lock, and an atomic section disables the interrupts of its own
core and nothing else (`mpconfigport.h:193-196`). Interrupts, scheduled callbacks,
finalisers of the garbage collector and the Python program are therefore the actors.

| Component | State | Operations | Hard because | Correct if |
|---|---|---|---|---|
| Callback scheduler (`py/scheduler.c`, `mpirq.c`) | `sched_state`, ring of items, pending exception | schedule, lock, unlock, pending check, keyboard interrupt | interrupts between test and section, three kinds of nested lock, an unprotected test-and-store | accepted callbacks run once, in order, one at a time; no wakeup is lost |
| UART (`machine_uart.c`, `ringbuf.h`) | two rings, two lock flags, the FIFOs | read, write, any, poll, handler | the handler runs between any two memory accesses; edge-triggered interrupts | no byte lost, repeated or reordered; accepted bytes are sent |
| AT exchange (`wifi_spi.c`) | receive buffer, the module's mode | one function per command | time-outs, late answers, lost pieces, texts that contain each other | a call returns true exactly if the module did it |
| Network interface (`mod_wifi_spi.c`, `modnetwork.c`) | `mode`, `self->mode`, `modnetwork_nic` | active, config, connect, disconnect, reset | several objects and statics for one module; config changes its mode behind the static; soft reset keeps the statics | the module is in the mode asked for |
| Sockets (`modusocket.c`) | `g_fds`, each socket's fd, interface, peer | socket, connect, send, recv, close, finaliser | one TCP link for all sockets; collection at any time; `int8_t` descriptors | data goes to the peer connected to; descriptors have one owner |
| Received frames (`recvPkg`, `buffer.c`) | static byte counts, byte queue | recv | state kept between calls and sockets, pieces that do not fit | the bytes of `+IPD` frames, in order |
| MQTT (`modumqtt.c`) | subscriptions | connect, publish, subscribe, wait | answers mixed with messages, full callback queue | a success reported is a success |
| Pairing heap (`py/pairheap.c`) | tree with tagged pointers | push, pop, delete | delete in the middle, wrapped times | a stable priority queue |
| uasyncio (`moduasyncio.c`, `uasyncio/*.py`) | task queue, waiting queues, I/O map | run loop, cancel, Event, Lock, wait_for, gather | cancellation in every state of a task | no task lost, no lock orphaned |
| Timer, threads, collector | alarms; `core1_entry`; allocation tables | init/deinit; start/end; collect | reused alarm ids; the other core running during a collection | no stale callback; no live object freed |

Components meet in these ways. Interrupts and MQTT hand work to the VM through the
scheduler. The collector runs finalisers under the scheduler lock, and a socket's
finaliser performs an AT exchange. Sockets call the registered interface, which
calls the AT functions, which share one buffer and one module.

What is left aside is listed in `PROJECT.json` with reasons: the compiler, VM and
object model (sequential, far larger than a model checker's inputs), file systems
and vendored libraries, drivers that only pass values to registers, the UART
variant of the WiFi driver (not built), other ports.

## 2. Modules

| Module | Models | Used by |
|---|---|---|
| `CallbackQueue` | what `micropython.schedule()` promises: a bounded FIFO run one at a time | refined by `Scheduler` |
| `Scheduler` | `py/scheduler.c`, the VM's check, `mpirq.c`, finalisers, alarms, keyboard interrupt | `SchedulerProofs`, `MCScheduler` |
| `RingBuf` | `py/ringbuf.h` as operators, split at the memory accesses | `MachineUart`, `RingBufProofs` |
| `MachineUart` | `machine_uart.c` and the PL011 (external) | `MachineUartRxProofs`, `MachineUartProofs`, `MCMachineUart` |
| `AtCommand` | the contract of a command function (`wifi_spi.h`) | refined by `AtLink` |
| `AtLink` | the exchange of `wifi_spi.c` and the WiFi module (external) | `MCAtLink` |
| `WifiNic` | interfaces and their registration, over `AtCommand`'s contract | `Sockets` |
| `Sockets` | `modusocket.c` composed with `WifiNic`, the collector and soft reset | `SocketsProofs`, `MCSockets` |

**Scheduler.** Each core has a stack of activations and the innermost one takes the
steps. An interrupt pushes an activation, except inside the section of
`mp_handle_pending`. The sections of lock, unlock and schedule are single steps: on
their own core nothing can be seen between their accesses. `mp_handle_pending`, which
tests before and inside its section, is split, and so is the keyboard interrupt
(store the exception, test the state, store the state), which has no section. A
collection, with its finalisers, may start in Python code of any kind, a hard handler
that calls `gc.collect()` included; `micropython.heap_lock()` is left out.

**MachineUart.** A byte is the number of its place in its stream, so loss, repetition
and reordering show. `ringbuf_get` of `read` is three steps in the order in which the
compiled code makes its accesses (store `iget + 1`, load the byte, store the wrapped
index). `ringbuf_put` of `write` is two. The handler's own ring operations are one
step, because the thread it interrupted stands still. `accepted`, `taken`, `overrun`,
`written`, `sent` and `line` record history for the properties; `line` and `written`
also number the bytes.

`read` and `write` end when they are done, by their time-out, or by an exception of the
event poll hook, in which case the bytes `read` had already copied are lost to its caller.

**AtLink.** The driver's steps are one block read by `rx_empty`, the pieces of the command
line, one block read by the inner loop of a `recvString` function, the search for the
texts when the handshake pin is low, the payload and the time-out. The module may act
between any two, so it can keep the driver reading. A piece that `sendCmd` gives up
because the pin is low (`Loss`) is missing from the line, and a missing line end leaves
the line unfinished in the module (`residue`); a payload can be given up in the same way,
or sent in part because it is longer than a block. `whole` records that neither has
happened. Texts are tokens; `SENDOK` contains `OK`, as `data_find` sees it, and `DATA` is
what the peer sends (`PeerSends`), which contains none of the texts. The module is
external and nondeterministic, and joins its stored access point unasked (`Rejoins`).
Lengths in bytes are left out: the size of the receive buffer, and that `readCmd` misses
the last block of an answer whose length is a multiple of 64. `Prompt`, `Loss` and
`AlreadyTail` say which faults an instance has.

**WifiNic and Sockets.** An AT command is atomic here and returns the truth. This is
`AtCommand`'s contract, which `AtLink` implements under the conditions of run
`at_prompt`; where they fail (runs `at_late`, `at_blocks`), what `Sockets` shows does
not carry over. Each interface object has its own mode (`ifMode`, the code's
`self->mode`), which `config` overwrites, with the module's mode, without touching the
static `mode` of `active`. `settled` records that the last call of either was an `active`
that did not raise. The module comes with any stored mode, keeps it through resets, and
may join its stored access point by itself at any time in station mode. `nic_connected`
is not modelled: only `isconnected()` reads it, and it agrees with the module in neither
direction. `AT+CIPCLOSE` may fail, of which `esp8285_socket_close` takes no notice;
`orphan` marks the link it leaves up. `OneAtATime` and `CloseFirst` are the program's good
behaviour. While an access point is active the module numbers its links (`espMux`), which
the single-link commands of sockets do not: connects fail then. Using an interface object
that a soft reset freed is undefined and not followed: `connect` requires the registered
interface to exist.

## 3. Runs

| Run | Instance | Shows |
|---|---|---|
| `scheduler_one_core` | 1 core, 2 callbacks, depth 2 | types, nested locks, no preemption, no lost wakeup, refinement of `CallbackQueue`, critical regions; every accepted callback runs and every exception is raised |
| `scheduler_two_cores` | 2 cores | violation: both cores run a scheduled function at once |
| `uart_receive` | ring of 4, FIFO of 3, 7 bytes | no loss below overrun, order even with overrun, no lock left behind |
| `uart_send` | ring of 3, FIFO of 3, 6 bytes | exact sending, an interrupt always due, every byte sent, without the race of `uart_stall` |
| `uart_any` | ring of 3 | violation: `any()` returns 0 after `ringbuf_put` ran over a full ring |
| `uart_stall` | as `uart_send` | violation: accepted bytes stay unsent |
| `at_prompt` | all seven commands, lost pieces and payloads, data of the peer, answers in time, no line after ALREADY CONNECT | as long as every payload was sent whole: true exactly if performed, command mode between calls, refinement of `AtCommand` |
| `at_faulty` | every fault, late answers | each call returns once the peer stops sending |
| `at_late` | late answers only | violation: the OK of one command taken for another's |
| `at_blocks` | two-block payload | violation: the next command completes the payload |
| `sockets` | 1 interface object used in both modes, 2 sockets, 2 peers, 3 bits of which 2 fit | one owner per descriptor, data to its peer unless a failed close left the link up, link ownership, the module's mode after `active` |
| `socket_collect` | sockets dropped unclosed | violation: data goes to the first socket's peer |

Each property of a passing run has a mutant in `PROJECT.json`, a plausible bug in a
mapped definition under which TLC refutes the property.

**Bounds.** Scheduler: depth 2 makes the ring wrap and fill; two callbacks show
reordering; the stack is bounded by the code itself (one finaliser, one interrupt per
core). UART: rings and FIFOs are small enough to fill and wrap more than once within
`MaxRx` and `MaxTx`; trigger levels are below the depth so that both sides of the
transition occur. AtLink: `MaxInbox` 2 lets a call begin while lines of an earlier one
are not executed (1 in `at_faulty`, where the question is about one call), `MaxOut`
bounds what the peer has sent and nobody read, and two blocks are the shortest payload
that is cut; neither bound stops the driver. Three attempts are `eAT`'s own number.
Sockets: one interface object, made as either interface, changed by `config` and made
anew after a restart, reaches every combination of static, module mode and object mode
that matters to `ModeSettled`; theorem `NicMode` covers any number of objects, which TLC
does not reach in reasonable time; two sockets and two addresses are what
a mix-up takes; `FdBits` 3 with `FdMax` 2 reaches the descriptor that does not fit
(the code has 160 and 128). Symmetry is used for safety only.

**Fairness.** Scheduler: strong fairness of the pending check, of the ends of
callbacks, finalisers and handlers, and of each step of the exception store. Bytecode
keeps reaching the check and interrupts leave the code below them time; callbacks,
finalisers and handlers are assumed to end. UART: the peripheral keeps sending, a
pending interrupt is taken, a call that began goes on because its time-out passes.
AtLink: the driver runs on, and nothing is assumed of the module or the peer; `Returns`
itself is conditional on the peer's falling silent, because a pin that stays high keeps
`rx_empty` (`wifi_spi.c:814`) and the `recvString` functions (`:827`, `:877`) in
loops that do not look at the time.

## 4. Proofs

All theorems hold for every value of the constants within the named assumptions.

- **`SchedulerProofs`** (one core; any depth that is a power of two up to 128, any
  callbacks): `SchedulerInvariant`, `SchedulerTypes`, `SchedulerNeverPreempts`,
  `SchedulerUnlockAssert`, `SchedulerNoLostWakeup`. The properties are not inductive:
  one must know which activations can lie on which. `IInv` adds the shape of the stack
  (what may be above what, at most one interrupt and one finaliser, also a finaliser in a
  hard handler), the equation between
  `sched_state` and the number of lockers, the same for `gc_lock_depth`, and when the
  pending check may be in its section. Stack lemmas (push, pop, replace) carry the
  shape; one step per action carries the rest.
- **`RingBufProofs`**: what each access of put and get does to the contents, by
  arithmetic on indices; no theorem about specifications.
- **`MachineUartRxProofs`, `MachineUartProofs`** (any ring sizes of at least 2, FIFO
  depths and levels): `UartInvariant`, `UartTypes`, `UartReceives`, `UartSends`,
  `UartUnlocked`, `UartArmed`. `UartInv` ties positions to locks, says that `iget` may
  equal `size` only between two accesses of `ringbuf_get`, and accounts for every
  byte. `UartArmed` assumes `~Stall`, exactly what `uart_stall` shows to be needed.
- **`SocketsProofs`** (any numbers of sockets, interfaces, addresses, descriptors):
  `SocketTypes`, `SocketFds`, `NicMode` without further assumption;
  `SocketLink`, `SocketSends` under `Tidy` (one socket at a time, closed before it is
  dropped). `SendsHome` follows from `LinkOwned`, which says whose the link is if it is
  no orphan; `LinkOwned` is inductive.

Only model-checked: liveness (out of the prover's reach), the refinements
`ImplementsQueue` and `ImplementsContract`, `CriticalRegions`, `LockDepth`, `RxOrder`,
and all of `AtLink`.

## 5. Disagreements

Six are findings, each with a violation run: `scheduler_two_cores`, `uart_any`,
`uart_stall`, `at_late`, `at_blocks`, `socket_collect`. These were met as well and
have no run; most are among the hazards:

- `select.poll` never reports received bytes below the trigger level
  (`machine_uart.c:423`).
- A socket closed before `connect` keeps its descriptor (`modusocket.c:449`), and a
  closed socket can connect again (`modusocket.c:337`).
- `active()` answers True after an initialisation that failed (`mod_wifi_spi.c:341`);
  `isconnected()` stays True after the connection is gone and False after the module has
  joined its stored access point by itself (`mod_wifi_spi.c:702`). `leaveAP` in `eINIT`,
  which would prevent the latter, is never reached: `!mode & SOFTAP_MODE` is 0
  (`wifi_spi.c:1353`).
- `config(...)`, a query included, changes which interface its object stands for and
  switches the module to that mode alone (`mod_wifi_spi.c:519`, `mod_wifi_spi.c:618`),
  and setting an access point's parameters switches it to both (`wifi_spi.c:1440`); the
  static of `active` does not know.
- `modnetwork_nic` survives a soft reset that frees its object (`modnetwork.c:57`).
- With an access point active no socket can connect (`wifi_spi.c:1347`).
- Over a link that a failed `CIPCLOSE` left up, a later socket's data goes to the former
  peer (`mod_wifi_spi.c:71`); `SendsHome` excepts it. If the module writes ERROR after
  ALREADY CONNECT, `Truthful` fails (`wifi_spi.c:1101`); once a payload is given up or
  cut, `Truthful` and `Settled` need not hold (`wifi_spi.c:783`, `wifi_spi.c:776`).
- Data of the peer that reads OK or ERROR is taken for the module's answer, and data that
  arrives during a command is lost to `recv` (`wifi_spi.c:815`).
- `rx_empty` reads into a pointer that was never set (`wifi_spi.c:812`), and
  `get_mqttsubrecv` and `recvPkg` hand the SPI object to functions that expect the
  interface (`wifi_spi.c:371`, `wifi_spi.c:573`). The models follow the outcome in which
  the bytes are read and dropped.
- `esp_send` that fails after its first pieces went out reports that nothing was sent
  (`wifi_spi.c:417`), and a refused MQTT subscription is reported as success
  (`mod_wifi_spi.c:271`).

## 6. Plan

1. `PairHeap`: push, pop and delete at the level of the tagged pointers, refining a
   stable priority queue with arrival order as history. Ties and wrapped times. Safety:
   tree shape, each node once.
2. `UAsyncio` over that queue: tasks, cancel, Event, Lock, `wait_for`, the I/O queue.
   No task lost, a lock never owned by nobody, a cancelled `wait_for` raises; liveness
   of waiting tasks.
3. `RecvPkg` with `Buffer`: `+IPD` frames arriving in pieces, also during a command;
   the bytes handed to `recv` are a prefix of the bytes of the frames.
4. `AtLink` with two callers (two cores, a finaliser); then `Mqtt` on it.
5. `Timer` and `Threads`, composed with `Scheduler`'s queue; then `Gc` marking with
   the other core running.
6. Proofs: refinement of `CallbackQueue` by `Scheduler`; `TruthfulIfWhole` for `AtLink` under
   `Prompt`, with its inductive invariant; `RxOrder`; safety of `UAsyncio`'s lock.
