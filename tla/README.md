# Formal model of the SAMRH71 RTEMS drivers

TLA+ modules, TLC configurations and TLAPS proofs for the TASTE drivers of the
SAMRH71: SpaceWire (`src/src/samrh71_rtems_spw`), serial
(`src/src/samrh71_rtems_serial`) and CAN (`src/src/samrh71_can_generic`).  Paths
below are relative to the directory that holds the sources.  `PROJECT.json`
lists runs, mutants, the lines behind every definition, findings, hazards and
theorems.

## The system

Each driver sits between the Broker of the TASTE runtime and a peripheral that
is reached through the N7 Space HAL.  All three have the same skeleton:

| actor | what it does |
|-------|--------------|
| a sending task | calls `..._send`, waits on a semaphore or for the peripheral, returns |
| the poll task, priority 1 | loops: waits for a wake-up, fetches what has come, calls `Broker_receive_packet` |
| the interrupt handler | turns a peripheral's interrupt into a semaphore release or an event |
| the peripheral | transmits, receives and raises interrupts by itself |

They share RTEMS objects (binary semaphores, events), buffers that DMA or an
interrupt reads and writes, and status registers.  Nothing is persisted, nothing
is sent again: there is no recovery after a restart to model.

### Components

| component | state it keeps | operations | what makes it hard | what makes it correct |
|-----------|----------------|------------|--------------------|-----------------------|
| SpaceWire transmit | one send list entry, TX semaphore (free at first), timeout callback | `send`, `set_tx_timeout_callback`, `spw_tx_callback` | several senders, zero-copy DMA, timeout against completion, status lock of the unit | one user of the list, packets leave whole and in order, no needless drop, no lost semaphore |
| SpaceWire receive | one entry and one data buffer, RX semaphore (taken at first) | `poll` (arm, wait, process), `spw_rx_callback` | busy wait at top priority, DMA against reader, packets waiting on the link | memory stable while read, complete packets forwarded once and in order |
| SpaceWire initialisation | dividers, clocks, routes, vectors, link commands, `init_ok`, callbacks, interrupt masks, semaphores | `init`, then the first send and the first buffer | links and units change state by themselves, also before the driver is ready for their interrupts; deadline; eight-bit dividers | exact rates, one link running with clock and routes, no interrupt without its semaphore, the wait ends |
| serial transmit | TX semaphore, TX FIFO laid over a buffer, encoded packet buffer | `Send` in four configurations, `uartTxCallback` | FIFO read by the interrupt after `Send` returned, buffer reuse, timeout of a blocking write | bytes in order and once, semaphore away exactly while the FIFO is in use |
| serial receive | RX FIFO, event, receive buffer | `Poll`, `uartRxCallback` | events are not counted, FIFO overflow, three modes | no unnoticed packet end, order, loss only when notified |
| CAN transfer | two semaphores, TX buffer 0, RX FIFO 0 | `Send`, `SendFrame`, `Poll`, `mcan_int0_Handler` | shared interrupt flags, timeout against completion, draining against arrival | one frame per chunk, no stale completion, no lost wake-up |
| CAN identifiers and framing | address kind, message size | identifier extraction, choice of the Escaper, reassembly | boundaries of sizes and bit fields | the peer gets the message, echoes keep their frame |
| error callbacks (CAN, serial) | function and argument, two globals | register, report from the UART interrupt or from a sending CAN task | two stores, test and two loads, nothing protected | a registered function is called with its own argument, which the drivers do not ensure (finding 3) |
| serial and CAN initialisation | pins, peripheral clocks, FLEXCOM modes, interrupt lines, table of handles, the CAN clock | `..._init` of both, stage by stage | several drivers over the same registers, interrupts pending from before or raised between two stages | handlers find ready drivers, run below the kernel's level, no initialisation undoes another |

## Modules

```
OneSlotLink   what the SpaceWire transmit path promises (abstract), implemented by SpwTx
OrderedPath   what the other two promise (abstract), implemented by SerialTx and CanDriver

SpwTx     <- SpwTx_proofs      SpwRx <- MCSpwRx, SpwRx_proofs    SpwInit <- SpwInit_proofs
SerialTx  <- MCSerialTx, SerialTx_proofs
SerialRx  <- SerialRx_proofs   --- instantiates ErrorCallback
CanDriver <- CanDriver_proofs  --- instantiates ErrorCallback
CanId     <- CanId_proofs                                        Board <- Board_proofs
```

Actions carry the names of the functions they model or of the step in them.  A
task's place in a function is its `pc`; a step is one action where another actor
could see a difference, so a semaphore call, a register access that starts or
reads the peripheral and each read of a shared variable are steps of their own,
while computations on local variables belong to the step before or after.
History variables (`wire`, `accepted`, `bus`, `received`, `lost`, ...) only
record; no guard reads them except for bounds.

**SpwTx.**  `Call`, `Obtain`, `Timeout`, `TestCallback`, `CallCallback`, `Fill`
and `Start` are `samrh71_rtems_spacewire_send`; `TxCallback` is
`spw_tx_callback` under the interrupt handler, with the unlocking of the status
and the release in one step because tasks do not run in between; `HwTransmit` is
the TX unit.  Payloads are not copied by the code, so the send list holds a
sender's name, and what leaves is what that sender's buffer holds *then*.  The
unit raises no interrupt while the previous status is locked (source comment,
lines 45-48).

**SpwRx.**  `Arm`, `SpinEnds`, `WaitForDeactivation`, `ProcessEntry`, `Forward`
are the loop of `samrh71_rtems_spacewire_poll`.  A packet is a length and its
two end markers; its bytes are where the RX unit wrote them, in the only buffer.
The buffer takes one packet (`SPW_PKTRX_BUFFER_LENGTH` 1), then it is
deactivated; one larger than `DataSize` deactivates it without being counted, and
the loop over `receivedPackets` finds nothing (`ReceivedPackets`).  Packets
without a buffer wait on the link (policy Stall).  The unit fills the buffer
whenever it likes, also before the busy wait has read that it is active; the task
then spins for ever (`Missed`).

**SpwInit.**  `samrh71_rtems_spacewire_init` from its first store to the start of
the poll task, one action per call: `ComputeDividers`, `InitHardware`
(`init_pmc`), `InstallHandler` (`init_nvic_irq`), `InitRouter`, `Reset`,
`Configure`, `CheckLink` (one turn of the bounded wait), `RegisterHandlers`,
`EnableTxInterrupt`, `EnableRxInterrupt`, `CreateTxSemaphore`,
`CreateRxSemaphore`, `StartPollTask`.  After that `FirstSend` is the send in
`main.c` and `ArmBuffer`/`WaitForDeactivation` are the poll task; `Interrupt` is
the handler with its callbacks.  The links advance and fail on their own, and a
unit that is active deactivates at any time.  Frequencies and rates are in Hz as
in the code, the result is taken modulo 256.  At the start the links are in
ErrorReset and nothing is masked in, but the units may be active, as a boot
loader would leave them; `Spw_Tx_reset` and `Spw_Rx_reset` are what keeps them
from raising an interrupt for which nothing is prepared.

**SerialTx.**  The four configurations (raw or escaped, blocking or
asynchronous) are initial states of one module.  The TX FIFO is a description
of a buffer (which one, next byte, count), since the code lays it over the
buffer without copying.  `WriteTimesOut` is the error of `Uart_write` and the
assertion on it, which ends in `pc = "fatal"`.  The functions that write take a
length as `uint16_t`, that is modulo `LengthModulus`.  `EncodeDone` is the end of
the loop over the pieces; for an empty message it comes at once.

**SerialRx.**  The three modes are initial states.  The interrupt puts a byte
into the FIFO and fires the handler's length or character callback; the
task takes everything the FIFO holds.  `uartErrorHandler` runs in the UART
interrupt, so it tests and calls without a registration in between; it shares
nothing with reception but the interrupt.

**ErrorCallback.**  The two globals of an error callback.  Registration *n* stores
function *n* (NULL for the registrations in `Unregistering`), then argument *n*,
in two steps.  `ReportAtOnce` is a report by an interrupt; `ReportAfter` one by a
task that has tested the function earlier: which of the values stored since then
it loads is up to the compiler and the scheduler, so all are possible.

**CanDriver.**  Sender, poll task, controller and the one interrupt handler.
Frames are numbers in the order of encoding (TX) or arrival (RX).  A failed
assertion leads to `txPc = "fatal"`, where nothing moves any more.  A timeout
first reports to the user: `Timeout` tests the callback, `ReportError` calls it,
with whatever the two variables have held since then.  `lost` counts the frames
that found the FIFO full.

**CanId.**  What `CanDriver` abstracts from: two drivers with one configuration
bounce messages over a bus on which any frame may be lost (`Lose`; the receiving
FIFO is in blocking mode).  Dynamic mode's 32-bit word is a record of its bit
fields; of a message too short for it only that is kept (`TooShort`), since `Send`
asserts its length (lines 820-821, and 499) before it looks at it.  Asserts are
taken as enabled.  The Escaper is external: it puts the bytes between a start and a stop marker and cuts
them into full frames; its decoder begins anew with every start marker and drops
what no start marker precedes; bytes that would need escaping are left out.  What
the decoder makes of a message that has lost frames may be larger than the bus
allows; the application sends back only what is not (`SendBack`).

**Board.**  Drivers 1, 2, ... of either kind are initialised one after the other;
`stage` says what the function does next, each stage is the call it is named
for.  Serial drivers share the loop over the ten FLEXCOM lines (`count`), which
only the first of them runs, and the table of handles (`handle`); CAN drivers
share the first configuration seen (`firstConfig`).  `Raise` and `Handle` are
the interrupts that come in between.  The pin tables are in the model as they
are in the code, since which drivers collide is their business: `Compatible`
excludes two drivers on one peripheral and the pairs UART6/CAN0 and UART7/CAN1,
whose pins are the same.

**OneSlotLink.**  `Accept` and `Complete` over a slot and the sequence sent.

**OrderedPath.**  `Call`, `Deliver` and `Return` over what the calls have offered
and what has been delivered, oldest first; a `synchronous` path returns only when
the two agree.  `SerialTx` implements it with the bytes sent and the bytes on the
wire, synchronous when it is blocking; `CanDriver` with the frames of the messages
and the frames on the bus, always synchronous.

### External assumptions

* The HAL calls the RX length callback when the FIFO holds at least the target
  length, and the character callback on a match.
* `Mcan_txBufferAdd` is refused while the buffer is pending; interrupt flags are
  read and cleared together.
* Releasing a free binary semaphore and sending a pending event change nothing.
* The Escaper's decoder resynchronises on a start marker.  Its source is not in
  the repository; what `MessageArrives` says after a loss rests on this.
* A packet larger than the data buffer deactivates it and is not counted in
  `receivedPackets`.
* An interrupt handler is not interrupted by a task, and a task's stores are seen
  by the handler in program order.
* A pending interrupt is taken once a handler is subscribed to its line.  Lines
  start at NVIC priority 0, and any line may be pending before the start.
* A peripheral raises interrupts only after its clock is on and the driver has
  switched them on (`Mcan_setConfig`, the first read of a UART).
* The Broker serialises calls of a driver's `Send` (serial and CAN models have
  one caller at a time; SpwTx has several, since that driver protects itself).

## Runs

| run | shows | bounds |
|-----|-------|--------|
| `spwtx` | list exclusivity, order, no needless drop, every send returns and a live link is freed (`Progress`), refinement of `OneSlotLink` | 2 tasks, 3 calls each |
| `spwtx_disable` | finding: the timeout callback can be called as NULL | 2 tasks, 2 calls |
| `spwrx` | stable memory, exact forwarding, every packet dealt with unless the busy wait misses the activation | 3 packets of 0 to 3 bytes, buffer of 2 |
| `spwinit` | exact dividers, one running link with clock and routes, no interrupt without its semaphore, deadline used and kept | 6 clocks, 5 speeds, 3 ticks, every set of units left active |
| `serialtx` | refinement of `OrderedPath` (raw or blocking), semaphore tracks FIFO, everything leaves and sends return, unless a timeout stops the program | 3 messages of 0 to 3 bytes, encoded buffer of 2, lengths modulo 4 |
| `serialtx_escaped` | finding: encoded buffer overwritten in flight | same, one configuration |
| `serialrx` | no lost wake-up, order, loss only when notified, packet ends passed on | FIFO of 4, 6 bytes, 2 registrations (one of NULL) |
| `can` | refinement of `OrderedPath` (one frame per chunk, in order, before Send returns), completions match, no lost wake-up, order and account of the frames received, sends end and frames are passed on (`Progress`) | 3 frames, 2 chunks, 4 arrivals, FIFO of 2, 2 registrations (one of NULL) |
| `can_error` | finding: a timeout is reported to a function with another one's argument | same |
| `canid` | messages arrive whole unless a frame of theirs is lost, length assertions fail only for dynamic messages too short or too long, echoes keep frames | 2 standard and 4 extended ids, frames of 2, word of 2, sizes 1-5, 2 hops |
| `board` | ready drivers behind handlers, priorities, running drivers undisturbed, one CAN clock | 2 drivers, 12 peripherals, 2 clock sources, 2 prescalers |
| `canid_maximal` | finding: largest accepted dynamic message fails an assertion | same |

Why the bounds are enough.  Two senders are needed for a collision and a third
call for one that meets the consequences of an earlier timeout and completion;
a third packet or frame for one that meets leftovers of two others.  FIFOs of 2
and 4 overflow within the bound of arrivals.  Two registrations, the second of
NULL, give a change of function, its removal and every overlap with a report.
Packets of 0 to 3 bytes against a buffer of 2 are empty, only an identifier, the
largest that fits and one too large.
In `canid` the scaled identifiers leave one bit above the standard range and an
unused bit, and message sizes surround both limits (a frame; a frame, the word and
a byte). `ResetTimeout` is 100 in the code; 3 has a first, a middle and a last
tick. In `board` the pin tables, lines and handles are at full size, and two
drivers are enough for one to undo what another did; the theorems cover any
number. Where a theorem below covers a property, the bounds play no role.

`CHECK_DEADLOCK FALSE` everywhere: with bounded inputs a system that has dealt
with all of them stops.

### Fairness

Weak fairness of a task's steps: RTEMS schedules by priority, the poll tasks
have the highest, and a sender is not starved in a system that is schedulable.
In `SpwTx` the end of a wait (semaphore or clock) is fair per task.  The
interrupt handler is fair where the property needs it.  The peripheral is fair
only where stated: UART transmission (no flow control), the RX unit's progress
with a buffer.  Nothing is assumed of the partner: SpaceWire packets, bytes and
frames need not come, the CAN bus and the link may be dead.  `LinkFreedAgain`
names its assumption on the link in the formula.

### Assumptions that a run makes explicit

* `CallerKeepsBuffer` (SpwTx): a caller leaves its buffer alone until the packet
  has left.  The header does not ask for it, and with FALSE `WireFaithful` fails:
  send returns while the DMA still reads the caller's memory.  The same holds for
  raw asynchronous serial messages, whose buffer SerialTx takes as kept.
* `AssertsEnabled` (CanDriver): with FALSE, a timeout is ignored and
  `SendsInOrder` fails: the next chunk finds the buffer pending and is lost.  No
  build file in the repository defines `NDEBUG` (`CommonBuildOptions.cmake`, which
  they include, is not part of it).
* `AssertsEnabled` (SerialTx): with FALSE, a byte whose blocking write times out
  is skipped, and `SendsInOrder` and `EverythingSent` fail.
* `LengthAssumption` (SerialTx): no message of the Broker (`BROKER_BUFFER_SIZE`,
  from the generated configuration) reaches `LengthModulus`, 2^16.

## Findings

1. `spwtx_disable`: `on_tx_timeout` is tested and read again for the call; NULL
   registered in between is called.
2. `serialtx_escaped`: the next piece is encoded into the buffer the interrupt is
   sending, because the wait comes after the encoding.
3. `can_error`: function and argument of the error callback are stored one after
   the other; a sending task that times out in between calls the new function with
   the previous argument, and one that has tested the function before may call a
   NULL registered since.  The serial driver stores its pair in the same way, and
   its interrupt can meet the new function with the previous argument too.
4. `canid_maximal`: initialisation accepts 13-byte dynamic messages, sending
   asserts at most 12.

Noticed without a run of its own: `EveryPacketProcessed` holds only with `Missed`
as an exception, because a packet that waits on the link can fill the buffer before
the busy wait (`samrh71_rtems_spw.c:92-95`) reads the status, at the highest
priority of any task; in custom escape mode the serial RX handler also fires at
half the buffer (`samrh71_rtems_serial.c:769`), so bytes may be passed on before
the specified one, which `samrh71-rtems-serial-driver.asn:30-31` does not mention;
the header of the SpaceWire driver explains `init_ok` by
the link having left ErrorReset, while the code tests for Ready, once, at the
end; the SpaceWire driver leaves the priority of its own line as it finds it.

## Proofs

Checked by TLAPS for all values of the constants (under the named ASSUMEs of the
modules):

* **SpwTx_proofs.**  `IInv` follows the token the semaphore stands for: it lies
  in the semaphore, with the one task that owns the list, with the running unit
  or with the pending interrupt, and never in two places; an unlocked status is
  part of it, because it is what makes the unit raise the interrupt.
  `SendListExclusive` alone is not inductive.  From it: `TypeOK`,
  `SendListExclusive`, `DropOnlyWhenBusy`; with `CallerKeepsBuffer` and the
  invariant that the list and the last accepted packet agree, `WireFaithful` and
  the refinement of `OneSlotLink`.
* **SpwRx_proofs.**  The wake-up is in one place (unit, interrupt, semaphore,
  task), also when the busy wait has missed it; with it what has been delivered is
  an ordered image of what has been processed, which gives `ForwardedExactly`.
* **CanDriver_proofs.**  Wake-ups for `NoLostWakeup`; for the
  transmit side, with asserts enabled, the completion of the current frame is in
  one place: buffer, flag, semaphore, or consumed (`TxToken`), also while a
  timeout is being reported and the frame may still leave.  From it: the frames
  of all earlier chunks are on the bus when the next one is encoded
  (`SendsOneFramePerChunk`), no stale completion, and the refinement of
  `OrderedPath`: a step is a call, the next frame, a return or invisible.
  `Ordered` bounds the stored frames by the last arrival, and
  with the count of the lost ones it makes `ReceivedInOrder` inductive.
* **SerialTx_proofs.**  `Stages` says which steps belong to which configuration
  and how much of the message each has handed over; with it
  `SemaphoreTracksFifo` is inductive, in all four.  For
  `WireFaithfulUnlessRefilled`, `Accounted` counts the bytes that have left, lie
  in the FIFO, wait in the buffer or are still to be encoded, and `FifoFaithful`,
  `BufferFaithful` and `MessageFaithful` say that each of these holds the part of
  `sent` that comes next.  It takes asserts: a byte that times out then stops the
  program instead of being skipped.  `TypeOK` and `SemaphoreTracksFifo` do not need
  them.  The refinement of `OrderedPath` is read off them: the
  byte that leaves is the next of `sent` (`NextByteLeaves`), and when a blocking
  call returns nothing is left to account for (`AllHasLeft`).
* **CanId_proofs.**  The frames of a message are described by arithmetic on chunks
  (`FullFrames`, `ChunksOf`: full but for the last, one behind the other,
  `ChunkMarkers`: the start marker only in the first, the stop marker only at the
  end of the last), and the decoder by two lemmas: a chunk with a start marker
  makes it forget what it holds (`DecodeFirst`), any other is appended
  (`DecodeNext`).  The invariant says where the frames are: some on the other
  side, at most one on the bus, the others pending (`InFlight`); while none has
  been lost the decoder holds exactly the first *k* chunks or, after the last, the
  receiver has the message (`Got`); whatever it holds begins with a start marker
  and has no other marker (`Held`), so what a cut message has left cannot end the
  next one; what may be sent back is a message again (`Returned`).  This gives
  `TypeOK`, `MessageArrives` and `EchoKeepsFrame` for any numbers of identifiers,
  any frame and message sizes and any losses.  `OnlyLargestIsNotSent` is the
  other side of finding 4: the assertions on the length fail for no message but one
  that is too short for its identifier (`Refused`, after which nothing moves) or
  one of the largest size under the largest accepted limit.
* **SerialRx_proofs.**  `NoLostWakeup` with `FifoArrived` is inductive, and
  `LossOnlyWhenNotified` follows from it, because a full FIFO is beyond the
  threshold.  `Ordered` adds that what was stored and what was lost make up what
  arrived (`PassedInOrder`); it is unchanged by the steps of the poll task, which
  only move bytes from one part to the next.
* **SpwInit_proofs.**  `Ticks` bounds the wait and says that giving up means
  having used all of it (`GivesUpAfterTimeout`, the safety half of
  `TimeoutIsUsed`); `Commands` ties link states to the commands given, to clocks
  and to routes.  `UnitsReady` is the argument for the order of the start-up:
  from the reset to the end the units are quiet, masks are opened only after the
  callbacks are registered, and only a finished initialisation arms anything
  (`InterruptFindsSemaphore`).
  `RatesExact` needs `DividersFit`: no rate asks for a divider above eight bits;
  without it the code truncates.
* **Board_proofs.**  `StageFits` ties the stage to the kind of driver and the loop
  counter to the table.  `Lowered` says whose priority is set when a line is
  about to be subscribed.  `HandlerInv` has three parts: a line that can be
  taken belongs to a peripheral that was switched on (`Expected`: anything left
  over is cleared between clearing and subscribing), what is switched on is
  ready (`Ready`), and a handle is that of its own peripheral (`Owned`).
  `PckInv`: every clocked CAN peripheral agrees with the
  first configuration, which is itself clocked.  For `RunningDriverKeepsDevice`,
  `Past` says how far a driver has come and `PastBySteps` that it gets there by
  its own steps; then one invariant per resource.  `PinsDisjoint` goes through
  the pin tables: compatible drivers share no pin.  `UartLines` says that only
  the first serial driver walks through the lines, so each is subscribed once.

Every invariant and every action or refinement property of the passing runs is a
theorem (of `LinkSpec` and `SendsInOrder` the safety part is all they state).
Some have a hypothesis: `CallerKeepsBuffer`, `AssertsEnabled` or `DividersFit`, each
described above.

Only model-checked: liveness (TLAPS has no fairness and ENABLED here), that is
`Progress` of SpwTx and of CanDriver, `EverythingSent`, `TriggersArePassed`,
`EveryPacketProcessed` and the half of `TimeoutIsUsed` that says that the wait
ends.

## Not modelled

* The matrix set-up of the SpaceWire driver (an erratum workaround), parity and
  baud rate, CAN bit timing, the layout of the message RAM: registers written
  once, with nothing that depends on them.
* A second instance of the SpaceWire driver: the board has one module, and
  `g_spw_irq_self` (`samrh71_rtems_spw.c:28`) holds one.
* Callers of the serial driver that overlap (`samrh71_rtems_serial.c:647`): the
  Broker serialises them.
* What `CanId` would do without asserts.
* Configurations that put UART6 or UART7 and a CAN driver on the same pins
  (`samrh71_can_generic.c:116`): excluded by `Compatible`.
* The rest of `main.c` (RTEMS configuration), generated mocks, ASN.1 types, build
  scripts.

## State of the plan

The drivers' transfer paths, framing with losses, error callbacks and
initialisation are modelled; all their safety properties are proved, and the
three transmit paths are shown to implement abstract ones.  What would come next:
the receive paths shown to implement an abstract lossy or filtering queue, and
two nodes over SpaceWire in which `SpwTx` and `SpwRx` together implement an
abstract channel.
