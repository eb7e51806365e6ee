# A formal model of the beamforming receivers and their controller

This directory specifies the software of the beamforming system in TLA+: the
firmware of a receiver node (STM32F0, C, `stm32/app`), and the Python service on the
Raspberry Pi that commands the nodes over CAN (`pi/src/beamcontrol`), with the controls
of its dashboard.  TLC checks the models on small instances, and TLAPS proves every
safety property those runs check for all instances.  Paths below are relative to the
repository.

## 1. The system

A Pi commands up to 30 receiver nodes.  Each node has one digital attenuator (VGA,
F0480) and one phase shifter (PE44820), both written over SPI and never read back.

| Component | State | Operations | Talks to |
|---|---|---|---|
| CAN command runtime, `can/runtime.c` | believed RF state, last words, invalid counter, lockout flag, one-entry replay cache | `can_runtime_start`, `can_runtime_service_next` | receive and transmit path, RF plans, retained record |
| CAN protocol, `can/protocol.c` | none | identifiers, decoding, replies | runtime |
| CAN filter, `can/filter.c` | two filter banks | configured once; passes or drops a frame | receive path |
| RF plans, `rf/plan.c`, `rf/execute.c`, `rf/vga.c`, `rf/phase_shifter.c`, `platform/spi_guard.c` | device lines and registers | plan a command; write its one to three words, each under a timeout | runtime, `main` |
| RF words, `rf/commands.c`, `rf/phase_states_2_4ghz.h` | none | angle to phase state, state and attenuation to the words of the devices | RF plans |
| Receive path, `can/rx_queue.c`, `can/bus.c` | hardware FIFO, 8-slot ring with free-running 8-bit indices, drop counters | interrupt pushes, main loop pops | runtime |
| Transmit path, `can/tx_queue.c`, `can/bus.c` | prioritised queue of 8, three mailboxes, drop counter | `can_bus_send` with interrupts masked, refill by interrupt | runtime |
| Boot, `main.c` | start-up order | mute, steer, start CAN, serve, or fail and reset | everything |
| Retained diagnostics, `platform/*diagnost*`, `platform/faults.c` | a checksummed record in RAM no reset clears | begin, set state, set fault, mark healthy | `main`, runtime, exception handlers |
| Clock, tick, watchdog, `platform/clock.c`, `timebase.c`, `watchdog.c` | hardware | start, wait, reset | `main` |
| Pi client, `client.py` | sequence counter, lock | a transaction: number, send, wait, resend, take a new number | receivers |
| Pi monitor, `monitor.py` | CAN health, nodes, events, revision, client | polling thread, commands from the web | client, web server |
| Web server, daemon, CLI | process, HTTP | start and stop, forward commands, event stream | monitor, client |
| Dashboard, `web/static/dashboard.js`, `receiver_board_list.html` | per receiver: two sliders, a timer, a request under way, a queued one | move, release, safe; redrawn by events | web server |

What makes each correct, and what is hard about it:

* **Runtime and RF plans.**  The phase shifter must only move while the VGA is at
  maximum attenuation, after any series of faults in the middle of plans and of resets
  in the middle of writes.  The firmware cannot read its devices, so what it believes
  may be wrong, and the next plan and the replay cache build on that belief.  Retries
  must not be carried out twice.  A locked-out node must stay muted.
* **Receive path.**  Main loop and handler share a ring without masking.  Frames come
  out whole and in order, losses are counted, and `wfi` must not sleep over a frame.
* **Transmit path.**  Masking stops the handler but not the mailboxes, which become
  free between a test and the branch it decides.  No frame is lost uncounted, stranded
  or overtaken.
* **Boot and diagnostics.**  A reset or an exception can tear the record during any
  update; the lockout must neither trip early nor fail to trip.
* **Identifiers, filter, RF words.**  Two languages pack the same 29 bits, a hardware
  filter and a decoder judge them separately, and the two devices want their bits in
  opposite orders.  Nothing can be read back, so a slip shows only in the antenna.
* **Client.**  Frames are lost and late, processes are replaced or run at the same time,
  sequence numbers wrap.  An ACK must belong to the call it ends.
* **Dashboard.**  Timers, queued requests and late answers of a form, and of forms that
  were redrawn or are in another page, must not undo what the user sees acknowledged.
* **Monitor and web.**  A polling thread, request handlers and an event stream share
  health, revision and one client.

## 2. Modules

```
RfPlan ─┬─ Receiver ─── MCReceiver        Receiver ─── ReceiverProofs
        │     ├─ RfOutput    (refined)
        │     └─ CommandNode (refined) ──── Client (made of it) ─── ClientProofs
        └─ Wire ─── MCWire                Wire ─── WireProofs
CanId, RfWords ─┘
RxQueue ─┬─ BoundedFifo (refined)         Clock ─── Boot ─── BootProofs
         └─ RxQueueProofs
CanTx ── CanTxProofs      Monitor ── MonitorProofs      Dashboard ── DashboardProofs
```

### `RfPlan`: frames, decoding and plans (pure)
`Decode` makes the checks of `can_protocol_decode_command()` in the code's order;
`ResultOfDecode` is `can_protocol_result_from_decode()`; `PlanOf` and `ResultingState`
are `rf_plan_command()`.  Identifiers are records of fields; destinations are this
node, broadcast or another node; a device word is the logical value it encodes: `Wire`
has the bits of both.  `extended` stands
for "extended data frame": remote frames fail the same test.  A DLC above 8 does not
reach the decoder and is left out.

### `Receiver`: one node from reset to reset
One action per path of `can_runtime_service_next()` (`Ignore`, `Reject`, `Replay`,
`SequenceReuse`, `Ping`, `Busy`, `Begin`, then `Complete` or `CommandFault`), and
the steps of `main()` (`Setup`, the start-up plan, `StartRuntime`, `StartWithoutCan`,
`StartFails`).  A device write is `Transfer` (line low, word sent) and `Latch` (transfer
complete, line high): SPI faults (`BootFault`, `CommandFault`) and `Reset` come between
any two of them.  `hw` is what the devices latched.  A line that stays low after a fault
is in `open`; when `Setup` drives it high after a reset, the device latches whatever it
holds, so `hw` becomes arbitrary there.  `state`, `last`, `cache`, `invalid`, `lockout`
are the fields of the same meaning; `diag` is the state in the retained record (from
`BOOTING` straight to `SAFE_OUTPUTS`: `CLOCK_READY` is between them and `Boot` has it).
Which boots are locked out is `Boot`'s subject; here a boot after a healthy one is not,
and any other may be.  `reply` is what is handed to `can_bus_send()`.

Actions that run between two frames are one step, since nothing else reads their state:
the interrupt handlers only touch the queues, which have modules of their own.

### `RfOutput`: what a node promises about its outputs
Muting is the first thing after every set-up, and the phase moves only while muted.
`Receiver` implements it under `hw <- hw, settled <- Settled`.

### `CommandNode`: what a node promises to the controller
State and replay cache only: a command is carried out as a whole or refused, a repeated
one is answered from the cache, a used number is refused, a broadcast or a reset empties
the cache.  `Receiver` implements it (`NodeSpec`: every step, with the reply it hands to
the bus, is a step of `CommandNode` or none), and the receiver that `Client` talks to is
an instance of it, so what `Client` shows rests on what the firmware does.

### `CanId`, `RfWords`, `Wire`: from numbers to bits
`CanId` is the packing of identifiers, once as the firmware does it (`MakeId`, `ParseId`:
`can/protocol.c`) and once as the Pi does (`BuildId`, `ReadId`: `protocol.py`), with shifts
and masks of whole fields as quotients and remainders, and the two banks of `can/filter.c`
as the fields they compare.  In `Wire` the controller packs in the Pi's way and every other
node in the firmware's; the receiver and the filter read in the firmware's.  `RfWords` has `rf/commands.c` with its calibration table, the order
in which SPI shifts a word out, and, external, how the data sheets' devices read it;
`EncodingsAgree` says of every attenuation and phase state that the device reads what was
encoded.
`Wire` takes one frame, or one start-up, through all of them with the decoder and the
plans of `RfPlan`: `Put`, `Filter`, `Decode` or `Boot`, then `Latch` for each word.  It
has no faults and no history; those are `Receiver`'s.  The device side is modelled from
the code that drives it and its comments, so what `DevicesAsAsked` shows is that the
encodings are consistent with one reading of the data sheets for every value.

### `RxQueue` and `BoundedFifo`: the receive path
`Arrive` is the hardware FIFO, `IsrEnter`/`IsrPush`/`IsrExit` the handler,
`Poll`/`CopyLow`/`CopyHigh`/`Publish` the steps of `can_rx_queue_pop()` (the copy in two
halves, so that a torn frame would show), `Sleep`/`SysTick` the `wfi`.  Indices wrap at
`IndexMod`.  The refinement maps the ring, `tail` to `head`, to a sequence.

### `CanTx`: the transmit path
`Enter`, `Push`, `Drain`, `Decide`, `Direct`, `DrainOne`, `Evict` are `can_bus_send()`,
split where the code tests a mailbox and acts later; `IsrEnter`, `IsrDrain` the handler;
`Complete` a mailbox that finished.  Frames carry their call number, which is how order
and conservation are stated.

### `Boot`: the retained record across resets
`Store` starts the copy of a new record over the old one, which is `Torn` (checksum
wrong) until `EndStore`.  `Trap` is an exception at its priority, nested as the core
nests them; `FirmwareFail`, `SystemReset`, `Reset`, `PowerLoss`, `Flash` end a boot.
`clock_setup()` is `Clock`, which `Boot` extends: one action for each wait and each way it
ends, and `CrystalStops` for the clock-security interrupt.
Fields that decide nothing (boot count, reset flags, last words) are left
out.  `incomplete`, `clean`, `lost`, `fault`, `failed` and `ran` are history kept for
the properties.

### `Client`: the Pi side of a command
`Call`, `Send`, `Timeout`, `Receive` are `_transact_locked()` and `_discover_locked()`;
`Restart` is the end of a process in the middle of anything and the start of another.
There is one such client in each of `Processes`: the service, `beamctl`, a second
`beamctl`.  They share the interface and the node number 0; every socket gets every
reply.  The receiver is `CommandNode` with its attenuation for the state.
Requests share one SocketCAN queue and arrive in order; replies are queued by priority
in the node, so `Receive` takes any of them.  `Lose` loses any frame; a slow one stays in
its queue over timeouts and later calls.  `Timely` bounds the age of frames where
numbers start over: with it the bus is empty when a process starts and when numbers
wrap, as it is when restarting takes longer than a frame waits.

### `Monitor`: the polling thread and the event streams
`Check`, `Connect`, `Discover`, `BusFails`, `Leave`, `Finish` are `_run()` and
`poll_once()`; `OpenStream`, `Show`, `Wake` one stream of `/events`; `Stop` and `Command`
what the web server calls.  The revision is only compared, so `behind` says whether it
has grown since the stream read it.  `replies` and `asked` are history: what `discover()` last found of
each node, in whatever cycle, and the nodes asked in the last one.  A call of
`discover()` and the marking of its outcome are one step: in between only other threads
run, and all they see is the state before.  `StopEnds` may come before the thread has ended: `stop()` then disconnects from
under it, and `Open` and `Enter` show what the thread does with a client that is gone.

### `Dashboard`: the controls of a receiver
A form has sliders, a timer, a request under way and a queued one.  `Move`, `Release`,
`ClickSafe` are the three listeners, `Expire` the timer, `Request`, `Finish` and `Follow`
`sendCommand()`; `Serve` is the service, and `Late` a frame that arrives after the call
for it gave up.  `Open` is another page.  `Redraw` replaces the form: the page compares
the markup it holds with the text the server sent, which differ as soon as a browser has
parsed it, so every list event draws the receivers anew.  The old form's timer and
requests go on.

## 3. Runs

| Run | Configuration | Checks | Bounds |
|---|---|---|---|
| `receiver` | `MCReceiver.cfg` | types; `AttenuationKnown`, `PhaseMovesOnlyMuted`, `CacheDescribesState`, `CachedKeyNeverExecuted`, `DivergenceIsRecorded`, `LockoutHoldsSafe`, `FreshAckMeansLatched`; `OutputSpec`, `NodeSpec`; `CommandAnswered`, `ComesUp` | two numbers, bytes 0..3 with maximum attenuation 2 (so byte 3 is out of range), every command with every payload, one frame per failing check |
| `receiver_ack` | `MCReceiverAck.cfg` | `AckMeansLatched`, **violated** | as above |
| `rx_queue` | `MCRxQueue.cfg` | types; `QueueIsFifo`, `FrameKeptOrCounted`, `QueuedFrameServed` | two contents, ring of 2, hardware FIFO of 2, drop counters saturating at 2, indices modulo 6: every fill level meets every wrap |
| `can_tx` | `MCCanTx.cfg` | types; `EveryFrameAccounted`, `PriorityThenFifo`, `NewestLowestIsLost`, `QueueDrains` | three priorities, queue of 2, two mailboxes, seven sends, drop counter saturating at 2: fills everything and evicts several times |
| `boot` | `MCBoot.cfg` | types; `LockoutExact`, `FaultHandedOver`, `ClockAsReported` | two images, the real threshold 3, streak saturating at 4 |
| `boot_clock` | `MCBootClock.cfg` | `ClockFailureRecorded`, **violated** | as `boot` |
| `client` | `MCClient.cfg` | types; `AckIsMine`, `AckedStateStands`, `CarriedOutOnce`, `NumbersSuffice`, `CallEnds` | one process after another, two attenuations, two retries, three frames in flight, numbers modulo 3 |
| `client_pair` | `MCClientPair.cfg` | `AckIsMine`, **violated** | two processes at once |
| `monitor` | `MCMonitor.cfg` | `StreamIsCurrent`, `CycleReported`, `Stops` | scan of two nodes, one stream, any number of cycles |
| `monitor_ready` | `MCMonitorReady.cfg` | `ReadyWhenAllAnswer`, **violated** | one configured node |
| `wire` | `MCWire.cfg` | `FramesReachTheirNode`, `DevicesAsAsked`, `NearestPhase` | every type, destination and attenuation byte, every phase state, real widths; five sources, three numbers; the angles around every boundary between states. `MCWire` also has TLC evaluate `EncodingsAgree` |
| `dashboard` | `MCDashboard.cfg` | `SafeStays`, `ShownIsSet`, `ComesToRest` | two forms (another page, or one redrawn), two settings, four movements, releases and clicks |

The bounds keep every boundary reachable: a counter that saturates does so within the
run, a queue fills and wraps, a retry meets an old answer.  Larger values of a byte or a
number only add values that the code compares for equality or against the maximum.
`can_tx` bounds the number of sends and `dashboard` what the user does, and `wire` is over
when its frame is: these may stop; all other runs check for deadlock.

Some properties need a word on what they say and what they do not:
* `FrameKeptOrCounted`: every frame the ring refuses adds one to its counter, and every
  overrun adds one when the handler clears it, until the counters saturate (at 2 in the run,
  so that a second loss is told from the first).  How many frames the hardware lost in one
  overrun nobody knows, the code included.
* `FreshAckMeansLatched` compares the devices with the command and with the attenuation a
  phase command puts back.
* `CycleReported` includes cycles that were broken off: nodes they did not reach are shown
  as they were last found, and the error is on show.  Whether old answers should count as
  healthy is another question, see below.
* `SafeStays` rests, for frames that arrive late, on `Serve`: a request is acknowledged only
  when no earlier frame is under way (`late' = {}`).  That is what `Client` shows of an ACK
  under `Timely`, `AckedStateStands`; `Dashboard` takes it over.
* `ShownIsSet` is about forms at rest.  It does not say that every movement is sent: one made
  while a safe request is under way is set back by its answer.  A form drawn anew that has
  had no result shows 0 and 23 dB whatever is set, and is excluded.

Where a run also checks liveness, its invariants hold of `Spec` as well: fairness
excludes no finite behaviour.

### Fairness
* `Receiver`: the main loop is one thread and every wait of `spi_guard.c` is bounded
  (`wait_for_status()`), so a step that can be taken is.  Frames need never come, and no
  fault is obliged not to.  `ComesUp` assumes that resets stop.
* `RxQueue`: the core runs the handler when it is pending; a frame lasts far longer on
  the bus than the handler needs, so the FIFO runs empty again and again and the main
  loop gets its turns.  The tick comes every millisecond (`timebase_setup()`).
* `CanTx`: another node acknowledges eventually; the controller retransmits and recovers
  from bus-off by itself (`can_bus_setup()`).  Nobody is obliged to send.
* `Client`: a thread inside a call is scheduled, and time passes.  The receiver and the
  bus owe nothing.
* `Monitor`: the thread is scheduled, and each of its waits has a timeout; so has the wait
  for it in `stop()`.
* `Dashboard`: timers run out, and a request ends with an answer or breaks off.  The user
  owes nothing.

### What disagreed
* **`receiver_ack`.**  `README.md:74`: "`ACK` means that the STM32 completed its write
  sequence."  After a plan that failed half-way (`can/runtime.c:352-356`) the replay
  cache keeps the command acknowledged before.  A late copy of that command is answered
  with ACK while the partial plan has muted the VGA or moved the phase.  Fresh ACKs are
  true (`FreshAckMeansLatched`).
* **`boot_clock`.**  `docs/hardware-validation.md:31`: "Clock-security failure records
  fault and resets."  An NMI inside a record update finds the record torn, writes the
  fault into a new one with build 0, and the next boot discards it.  The same cause
  limits "Three incomplete boots trigger safe lockout" (line 23 there) to boots
  that did not tear the record: the second part of `LockoutExact` has that condition.
* **`client_pair`.**  `docs/can-protocol.md:83`: "`ACK` after validation and planned
  STM32 SPI transfers complete", and line 90: "The client matches source, destination,
  sequence, and command type."  Numbers start at 1 in every process, replies are matched
  by nodes, number and type, and an ACK does not say what was set.  With `beamd` running,
  a `beamctl` whose number meets the service's takes the ACK of the service's command for
  its own (and the other way round).  A process that starts within the lifetime of a
  frame of its predecessor does the same, with `Timely = FALSE` and one process.
  `CarriedOutOnce` fails with two processes as well: the other's command takes the one
  place in the replay cache, and a repeated request is carried out again.
* **`monitor_ready`.**  `docs/operations/pi-provisioning.md:149`: `/readyz` is "CAN/receiver
  readiness".  After an error on an open interface `_connect()` returns early
  (`monitor.py:237`) and no success resets `_can_health`: not ready until a later `ENOBUFS`
  happens to set it back to "online" (`monitor.py:295`).
* Not about a run: `docs/operations/pi-provisioning.md:125` expects `/readyz` to return 503
  "with no receiver attached".  `ENOBUFS` breaks a cycle off with the interface "online" and
  no node marked (`monitor.py:287-302`), so a node that was healthy and comes after the
  point where the queue fills stays healthy, and a scan stays ready.
* Not about a run: a form that is redrawn starts at 0 and 23 dB whatever the receiver is
  set to, so moving one slider sends the other's reset value; a request or timer of
  the form it replaced can undo a safe state set on the new one; and a slider moved while
  a safe request is under way is set back by its answer, then sent (`dashboard.js:52,
  85-106`).  No document promises otherwise: `SafeStays` and `ShownIsSet` say what does hold.
* Not about a run: `web/server.py:287` tells the user after every ERROR that "the requested
  state was not applied"; a plan that fails at its last write has carried out the others
  (`runtime.c:352`).
* Not about a run: `README.md:71` and `docs/overview.md:23` and `:30` call the dashboard
  read-only, while `web/server.py:268` posts commands.

## 4. Proofs

Each module of proofs is about every instance that satisfies the assumption of the module
it extends:

* `ReceiverProofs` (`PlanAssumption`, `ReceiverAssumption`): every set of
  sequences, bytes and frames with the named bytes among the bytes, and any positive
  maximum of the counter;
* `RxQueueProofs` (`RxAssumption`): any contents, hardware FIFO and drop limit, and any
  capacity whose multiple the index range is, at more than twice the capacity: what the
  static assertions of `can/rx_queue.c` and eight-bit indices give;
* `ClientProofs` (`ClientAssumption`): any number of sequence numbers above 2, of retries
  and of frames in flight, any settings.  Its theorems have the hypothesis `Alone(p)`:
  one process after another, and `Timely`.  Without the one or the other `AckIsMine` is
  false: `client_pair`, and what section 3 says about it;
* `WireProofs` (`WireAssumption`): every node number, every set of frames and any angles up
  to a full turn.  `DevicesAlwaysAsAsked` has the hypothesis `EncodingsAgree`, one finite
  fact without variables, which TLC evaluates on the run `wire` for every value;
* `CanTxProofs` (`TxAssumption`): any priorities, capacity, drop limit, number of mailboxes
  and of calls;
* `BootProofs` (`BootAssumption`): any set of images, threshold and saturation at or above
  the threshold;
* `MonitorProofs` (`MonitorAssumption`): any number of nodes, scanning or configured;
* `DashboardProofs` (`DashboardAssumption`): any settings with a safe one among them, any
  forms and number of user actions.

| Theorem | Statement |
|---|---|
| `Invariance` | `Spec => []IInv` |
| `TypeCorrect` | `Spec => []TypeOK` |
| `AttenuationAlwaysKnown` | `Spec => []AttenuationKnown` |
| `PhaseMovesMuted` | `Spec => PhaseMovesOnlyMuted` |
| `OutputImplemented` | `Spec => OutputSpec`, the refinement of `RfOutput` |
| `CacheAlwaysDescribesState` | `Spec => []CacheDescribesState` |
| `LockoutSafe` | `Spec => []LockoutHoldsSafe` |
| `CachedKeyRefused` | `Spec => CachedKeyNeverExecuted` |
| `NodeImplemented` | `Spec => NodeSpec`, the refinement of `CommandNode` |
| `DivergenceAlwaysRecorded` | `Spec => []DivergenceIsRecorded` |
| `FreshAckLatched` | `Spec => FreshAckMeansLatched` |
| `TypeCorrect`, `FramesKeptOrCounted` (`RxQueueProofs`) | `Spec => []TypeOK`, `Spec => FrameKeptOrCounted` |
| `QueueImplemented` (`RxQueueProofs`) | `Spec => QueueIsFifo`, the refinement of `BoundedFifo` |
| `TypeCorrect`, `AcksAreMine`, `AckedStatesStand` (`ClientProofs`) | with `Alone(p)`: `Spec => []TypeOK`, `[]AckIsMine`, `[]AckedStateStands` |
| `MessagesCarriedOutOnce`, `OneNewNumberSuffices` (`ClientProofs`) | with `Alone(p)`: `Spec => []CarriedOutOnce`, `[]NumbersSuffice` |
| `FieldsAlwaysSurvive` (`WireProofs`) | `Spec => []FieldsSurvive` |
| `NothingIsHidden` (`WireProofs`) | `Spec => []NothingHidden` |
| `NothingForeignPasses` (`WireProofs`) | `Spec => []NothingForeign` |
| `FramesAlwaysReachTheirNode` (`WireProofs`) | `Spec => []FramesReachTheirNode`, the three together |
| `AlwaysNearestPhase` (`WireProofs`) | `Spec => []NearestPhase` |
| `DevicesAlwaysAsAsked` (`WireProofs`) | `EncodingsAgree => (Spec => []DevicesAsAsked)` |
| `TxTyped`, `EveryFrameAlwaysAccounted`, `NoFrameEverStranded` (`CanTxProofs`) | `Spec => []TypeOK`, `[]EveryFrameAccounted`, `[]NoFrameStranded` |
| `AlwaysPriorityThenFifo`, `AlwaysNewestLowestIsLost` (`CanTxProofs`) | `Spec => PriorityThenFifo`, `Spec => NewestLowestIsLost` |
| `BootTyped`, `RecordTells` (`BootProofs`) | `Spec => []TypeOK`, `Spec => []RecordInv` |
| `ClockAlwaysAsReported` (`BootProofs`) | `Spec => []ClockAsReported` |
| `LockoutAlwaysExact`, `FaultAlwaysHandedOver` (`BootProofs`) | `Spec => []LockoutExact`, `Spec => FaultHandedOver` |
| `MonitorTyped`, `StreamsAreCurrent`, `CyclesAreReported` (`MonitorProofs`) | `Spec => []TypeOK`, `[]StreamIsCurrent`, `[]CycleReported` |
| `DashboardTyped`, `SafeAlwaysStays`, `ShownIsAlwaysSet` (`DashboardProofs`) | `Spec => []TypeOK`, `[]SafeStays`, `[]ShownIsSet` |

The receiver.  `TypeOK` is not inductive: completing a command in "exec" needs to know
that the frame being executed is a decoded, state-changing command, and that the index is
within its plan.  `Executing` says so.  `PlanShape` reduces every plan to four shapes
(one VGA word; one phase word at maximum attenuation; mute and steer; mute, steer,
restore), which is all the rest uses.  `AttenuationKnown` is inductive with those two:
`IInv` is their conjunction.  Its case for `CommandFault` is the core: wherever a plan
stops, the VGA holds either what the node still believes in or the maximum.
`PhaseMovesMuted` and `OutputImplemented` follow from `LatchEffect`, what one latch does
under `IInv`.  `CacheDescribesState` is inductive relative to `IInv`, by `Idempotent`;
`LockoutHoldsSafe` needs the strengthening that a locked-out node only executes
ENTER_SAFE and believes in the safe setting.

`NodeImplemented` needs three more facts besides `IInv`: only unicast commands are cached,
what is being executed has a key of its own, and nothing is handed to the bus before
service or within a plan (`NodeInv`).  Then each action is one kind of step: a fault or a
refusal changes nothing, `Complete` carries the whole command out, `Replay` answers for
the cache.

`DivergenceAlwaysRecorded` and `FreshAckLatched` are about the devices, so their invariant
`OutputsInv` says what `hw` is.  While the firmware may rely on its record (`Trusted`: in a
boot, or in service with no fault recorded) no line is low but the one being written, the
last words are the outputs, and between plans the outputs are the believed state.  Without
trust one thing is left, and it is enough for an ACK: the phase a plan has written is
latched (`PhaseWritten`).  `PlanEnd` puts the two together: a plan that comes to its end
leaves what the command asks for, whatever failed before it, and the whole believed state
if nothing did.

The receive path.  The ring is a sequence, `Queued`, only through remainders of indices
that wrap, so most of `RxQueueProofs` is lemmas: indices that are less than a capacity
apart have different slots (`RemaindersDiffer`), wrapping takes off a multiple of the
capacity (`MultipleOff`), so that a push appends and a publication removes the head.
`RingInv` bounds the ring, and `Popping` says what the interleaving is about: while the main
loop copies a slot half by half, what it has copied is the head, because the handler only
writes slots outside the ring.

The client.  `Inv(p)` relates three things no single step relates: the client's counter,
what is in flight, and what the receiver keeps.  No frame in flight has a later number, and
the requests end with the client's own message (`Numbering`), until a call meets the numbers
of an earlier process and takes a new one; `Refused` and `Second` say what is still in flight
then, and why the new number is not refused, `Wrapped` when the counter starts over.
`Truthful` is about the replies that may
still come, `Served` that nothing older follows an acknowledged message, and `AtMostOnce`
that a message which was carried out is in the cache or cannot come again.  The proof has
one lemma for each action, with `Quieter` for those that only take frames away and `Renew`
for the start of a message.

From numbers to bits.  `WireProofs` rests on `ParseMake` (what either side
packs, both read back: from three facts about quotients, and `ReadAsParsed`) and `FilterAgrees` (what each bank passes, against the
decoder's address checks); `OnTheBus` says that the frame behind the filter is the one
its sender made.  `Rounded` is the arithmetic of `phase_state_from_millidegrees()`: the
quotient is within half a step of the angle, and 256 is 0 again.  `Leads` says that what is
left of a plan takes the devices, whatever they hold, to the state believed in; `Planned`
gives the shape of every plan the decoder lets through.

The transmit path.  `FlowInv` adds to types and accounting what is true where
`can_bus_send()` stands (`Phases`: a frame is in hand exactly from its arrival to its fate,
a queue found full is still full, a mailbox found free is still free, since the hardware
only frees them) and `NoFrameStranded` one step early (`Awake`).  That is what makes the
two branches that would lose a frame uncounted unreachable; `NobodyLeaves` is the same for
the queue: only a mailbox or an eviction takes a frame out of it.  `OrderInv` says that the queue
is in the order of the calls, younger than what its priorities have sent and older than
the frame in hand, and that what was decided about a full queue is right; the two action
properties follow from it with what the scans of the queue find (`HighestIsFirst`,
`VictimIsLast`).  No run checks `NoFrameStranded`: `QueueDrains` is the liveness it serves.

Boot.  `ClockInv` says what each wait of `clock_setup()` has left behind.  `RecordInv` is
about the latest record, the one being stored or else the one in RAM: a boot has one of its
own image (`AtHand`), and it tells the last fault and how many boots have ended since one
was marked healthy (`Tells`).  Both properties compare that record with the history, and
only that conjunction is inductive: counting needs the image, and the image needs the
record at hand.

The monitor.  `StreamIsCurrent` is inductive by itself given the types, because what
`snapshot()` reads changes only within a cycle and every way out of a cycle is
`_finish_cycle()`; `CycleInv` carries the answers through the loop over the nodes and over the
ways out of it: each node is shown as last found (`Reported`), and those before `at` were asked.

The dashboard.  `Calm` is what a click on the safe button leaves under way: its own request
and frames that were given up on before it; `ShownInv` relates each form's request to its
sliders and the receiver, including the answer that has not come back.

Only model-checked: the liveness properties (`CommandAnswered`, `ComesUp`,
`QueuedFrameServed`, `QueueDrains`, `CallEnds`, `Stops`, `ComesToRest`), for TLAPS has no
rules here for fairness and ENABLED; and `EncodingsAgree`, because the bits of a word are
read with folds, and those need induction over data, which the provers cannot instantiate.
It has no parameters, so TLC decides it.  Operators declared RECURSIVE would exclude SMT,
and no module uses one.

## 5. Not modelled
* The branch for a plan that cannot be made (`can/runtime.c:341-345`): every decoded
  command of a state-changing type has a plan.
* Time: the watchdog period (1000 ms) against the wait for the crystal (`main.c:75`,
  `clock.c:20`: 1,000,000 polls at 8 MHz, of several cycles each), SPI and request timeouts.
  A timeout is something that may happen; a reset may happen at any time.
* The register set-up in `can_bus_setup()`: bit timing and interrupt enables, written once.
* The request handlers of `web/server.py` that only read, wording and layout of the
  dashboard, argument parsing of `cli.py`, deployment, `tools/`, `simulation/` and the
  generated protocol header: no state of the running system.

## 6. Plan
1. Done: receiver, its refinements and proofs; queues; boot record with the clock; client
   processes on an abstract node the firmware implements; monitor; identifiers, filter and
   RF words; dashboard; a theorem for every safety property of the passing runs.
2. Composition: `Boot` giving `Receiver` its lockout; `CanTx` behind its replies.
3. Proofs: an abstract specification of the transmit queue (a priority queue that drops its
   newest lowest) and that `CanTx` implements it; the client's theorems for processes that
   use different numbers, which is the repair `client_pair` suggests.
