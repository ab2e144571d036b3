# TLA+ models of DCCInterfaceMaster

DCCInterfaceMaster is an Arduino library for a DCC command station: calls such
as `setSpeed128(loco, speed)` become packets, the packets wait in queues, a
scheduler chooses the next one, and a waveform generator, driven by interrupts
or DMA, puts it on the rails bit by bit. A decoder on the programming track
answers by a current pulse. This directory holds TLA+ models of that code, TLC
configurations that check them, and TLAPS proofs. Source paths below are
relative to the repository; line numbers are in `PROJECT.json`, per definition.

Contents: [the system](#the-system), [modules](#the-modules),
[runs](#the-runs), [bounds](#bounds), [fairness](#fairness),
[divergences](#where-code-and-documents-disagree), [proofs](#the-proofs),
[what is not modelled](#what-is-not-modelled), [plan](#plan).

## The system

| Component | Source | State it keeps | Operations |
|---|---|---|---|
| Packet | `src/DCCPacket.cpp/.h` | address, kind, 1-3 data bytes, repeat count (6 bits) | setters, `getBitstream()` |
| Packet queues | `src/DCCPacketQueue.cpp/.h` | a ring: `queue`, `read_pos`, `write_pos`, `written`, `size` | `insertPacket`, and `readPacket` in four classes: plain, repeat, temporary repeat, emergency |
| Loco register | `DCCPacketScheduler.cpp` (`LokDataUpdate`, `LokStsgetSlot`, ...) | `SlotMax` slots: address, speed, functions; `slotFullNext` | search, entry, eviction; read and written by getters and setters |
| Scheduler | `DCCPacketScheduler.cpp` | four queues (`e_stop`, `repeat`, `periodic_refresh`, `ops_programming`), `packet_counter`, `railpower`, accessory positions | loco, accessory, POM and power calls; `update()` |
| Service Mode | the same file | `ProgState`, `ProgMode`, CV and value so far, `ack_*`, base current | CV read/verify/write in three modes, current sensing, callbacks |
| Packet engine | `DCCHardware.h` | `canAcceptPacket`, one waiting packet, repeats left | `send`, `enter/leaveServiceMode`, `stopServiceModeRepeats`, `Run/StopOutputSignal`, gap and polarity switches |
| Engines, Z21PG mode | `variants-Z21PG/DCCHardwareCommon.inc` and board files; `DCCHardware_RP.inc` | bit state machine, pin levels, toggling flags; RP2040: packet buffers | the half-bit or DMA interrupt and the methods above |
| Engines, HQ mode | `variants-HQ/*.inc` (RP2040, ESP32, DxCore, STM32) | packet buffers, indices, AUX ownership | DMA / RMT / timer interrupts, a task, and the methods above |
| Throttle without the library | `examples/SimpleDCC_without_Lib` | a message, the interrupt's position in it | `loop()`, the timer interrupt |
| Configuration | `DCCInterfaceMaster.h`, variants, EEPROM bytes | constants | start-up only |

How they interact:

    application --calls--> scheduler --> loco register
         ^                   |  ^
         | callbacks         v  | current
         +------------- queues  | sense
                             |  |
                 update():  send(packet) if canAcceptPacket
                             v
                        packet engine <--interrupt, DMA, task
                             v
                           rails ---> decoders ---> current pulse

`loop()` calls `update()`. `update()` senses the current, runs the Service Mode
state machine, and when the engine accepts a packet it takes one from a queue:
programming first, then, every `ONCE_REFRESH_INTERVAL` packets, the periodic
refresh, then `e_stop_queue`, `repeat_queue`, and the refresh. A loco packet is
repeated in `repeat_queue` and moves to `periodic_refresh_queue`. The engine is
shared by the program and by interrupts without locks; all they share are single
bytes, flags and buffers whose order of assignment carries the correctness.

What is hard here, and which properties make each part correct:

* **Queues.** Wrap-around, overwriting in place, putting back while reading. A
  ring must be the sequence that its users think of; at most one packet per
  address and kind must wait, and cursors and fill count must agree.
* **Register.** Entry and eviction by a search that stops at the first empty
  slot. One slot per loco, none behind an empty slot, eviction only when full.
* **Scheduler.** One loco's packets travel through two queues and a register
  that can evict it. What waits must be what was last ordered; nothing accepted
  may vanish; an emergency stop must hold; every order must be served in the end.
* **Service Mode.** The answer is known only by *when* a pulse is seen. The bit,
  byte or value reported must be the decoder's, and each request must end.
* **Engines.** Two to four contexts break into each other. No packet lost, sent
  torn or sent for ever; the program is asked again and again; "off" is off,
  also when a cutout ends; the rails come back when the power does.
* **Throttle.** The interrupt reads a message byte by byte while `loop()` writes
  it. A loco must never obey an order that was not given, and must follow the knob.

`PROJECT.json` lists each hazard at its line with the properties that cover it.

## The modules

Each model has a parameterised module, an `MC` module with finite values for its
constants, and a `.cfg` per run. Most definitions carry the name of the function
they model. A definition marked "Deliberate error" is a faulty variant of the
one below it, with which a run is repeated to see that a property notices.

| Module | Models | State (code) | Actions (code) |
|---|---|---|---|
| `PacketFifo` | operators on a queue seen as a sequence | - | used by the scheduler |
| `PacketQueueSpec` | abstract specification: a queue of packets | the sequence, the last result | insert, overwrite, read, put back |
| `DCCPacketQueue` | `DCCPacketQueue.cpp` | the ring, cell by cell | `insertPacket`, `readPacket` of each class |
| `LocoSlots` | the search and entry as operators on a slot function | - | used by `LocoRegister` |
| `LocoRegister` | the register, and its properties | slots, `slotFullNext` | lookup and write, with the eviction; used by the scheduler |
| `DCCPacketScheduler` | normal operation | the register, four queues, `railpower`, packet counter, what decoders heard | each order, getters, `setpower`, `eStop`, `update` |
| `ServiceMode` | `update()` and the requests for programming, over `PacketEngineSpec`, with a decoder | `ProgState` etc., base current, acknowledge | requests, `update`, `Sense`, `setpower`, and the decoder's pulse |
| `DCCPacketBytes` | `getBitstream()` and what each call puts into a packet | packet, bytes, decoded order | one per call |
| `PacketEngineSpec` | abstract specification: what `DCCHardware.h` promises | waiting packet, mode, repeats, the packet on the rails | `send`, `Interrupt` (next packet), mode changes |
| `DCCHardwareCommon` | the Z21PG generator, half bit by half bit | the ISR's state, pin levels | `Interrupt`, and every method statement by statement |
| `DCCHardwareRPPico` | the RP2040 generators of both modes | buffers, indices, flags, PIO/program ownership of AUX | methods statement by statement, DMA interrupt, end of cutout |
| `DCCHardwareESP32` | the ESP32 HQ generator | buffers, RMT queue, notification bit, alarms | methods statement by statement, RMT interrupt, task, timer |
| `DCCHardwareSTM32` | the STM32 HQ generator | two DMA buffers, packets, repeats, cutout timer, AUX level | methods step by step, DMA interrupt, timer interrupt |
| `SimpleDCC` | the example `SimpleDCC_without_Lib.ino`, with a decoder | knob, message, position of the interrupt, what the decoder heard | `loop()` in three steps, the two halves of each bit |
| `DCCPacketQueueProofs`, `DCCPacketSchedulerProofs`, `ServiceModeProofs`, `DCCHardwareCommonProofs`, `DCCHardwareRPPicoProofs`, `DCCHardwareESP32Proofs`, `DCCHardwareSTM32Proofs` | proofs about the module of the name | | |
| `DecoderProofs` | proofs about what a decoder understands, of the packets of `DCCPacketBytes` and of the message of `SimpleDCC` | | |

Composition. `DCCPacketScheduler` extends `LocoRegister`, whose variables are part
of its state, and `PacketFifo`, the abstract queue, since `DCCPacketQueue` is
proved to implement it. `ServiceMode` runs over `PacketEngineSpec`, which four
engines are shown to implement. The two levels meet in the abstract
specifications, so that neither has to carry the state of the other.

Abstractions worth knowing when reading the models:

* A packet is a record of address, kind and an abstract payload. Only
  `DCCPacketBytes` has the bytes.
* Order of assignment is kept: in every engine a method is taken apart into the
  writes that another context reads (`doing` holds those it has yet to do), and
  interrupts and the task may come between any two. Writes are one step only
  where the code disables interrupts, or where nobody looks in between: the
  header of each module says which. No method starts before the last has ended.
* `update()` of Service Mode is two steps: `Sense` measures the current, the
  rest chooses the next packet; interrupts may come between. Within `Sense` the
  few readings of the engine are one step.
* On the ESP32 the end of a packet comes after the alarms of its cutout: a
  cutout is shorter than the packet that follows it.
* A bit on the rails of the Z21PG generator is "one" or "zero"; its decoder puts
  a byte together as the sequence of the bits it heard, and a packet is compared as
  the sequence of its bits (`Coded`).
* The broadcast accessory address is an ordinary decoder; loco addresses above
  10239, which no document allows, are not given to `DCCPacketBytes`.

## The runs

Nine passing runs check what holds; three more, described with the
divergences, show a disagreement between the code and its own documents.
`PROJECT.json` has a sentence on each run, and a mutated definition for each
property that the property catches.

A run covers several kinds of program. The program around the library is a
variable, chosen in `Init` and never changed: `app` in the scheduler
(`Applications`) and in the Z21PG generator (`Programs`), `uses` in Service Mode
and in the other generators. Each value names calls which meet in the
same state, so that calls that have nothing to do with each other do not
multiply the states. In the RP2040 generator `board` says which of two files the
state belongs to. A property that holds for some programs only says so itself: by
`app.x`, by `Undisturbed`, or by `Without({...})`, whose argument names the
uses with which the property fails. Each of those was confirmed by leaving it
out of the condition; they are listed under
[divergences](#where-code-and-documents-disagree).

**Queues** (`MCRing`). All four classes, every mix of insertions and readings.
The ring never holds two rivals (`NoRivals`), the cursors agree with the count
(`CursorsAgree`), and the ring implements the sequence (`ImplementsFifo`, the
abstract specification as a property); packets are put back as well as used up.

**Scheduler and register** (`MCSched`). Nine applications: two locos with
emergency stops; orders with stops between them; functions and a binary state;
shorts; turnout outputs switched on and off; turnouts and a signal of one
packet address; emergency stops among turnout orders and a binary state, which
share `e_stop_queue`; programming on the main with signals and stops; more locos
than slots.

| Property | Meaning |
|---|---|
| `OneSlotPerLoco` | no loco has two registers, whose functions would be sent in turn |
| `EvictsOnlyWhenFull` | a loco loses its register only when no slot is empty, and only the one whose turn it is |
| `RefreshIsFresh` | what waits in the refresh queue is the last accepted order of that loco and kind, unless a newer one waits to get there |
| `NothingForgotten` | a loco packet that was accepted stays in the cycle repeat - refresh |
| `AccessoriesAgree` | turnouts and signals that share a queue neither lose nor overtake each other |
| `PomPerformed` | programming on the main is carried out |
| `EStopServed` | a queued emergency stop is broadcast, although speed and turnout orders keep arriving and others wait with it |
| `TurnoutsServed` | turnout orders leave the queue, although loco orders keep arriving |
| `LocosSettle` | once the application is quiet every decoder gets the last order, whatever shorts lost before |

The two `Served` properties suppose that three streams end: programming on the
main (`Programming`), which comes before all other queues; orders that overwrite
a waiting one in its place (`Overwriting`), which start its repeats again; and,
for turnouts, `eStop()`, which does the same. Without each of these TLC finds
the others waiting for ever, so the conditions are as weak as the code allows.

**Service Mode** (`MCProgram`). A decoder with an unknown value, or none; the
program reads in each of the three modes, verifies and writes, plainly, with one
circumstance that disturbs it, or with two that could hide each other's effect
(`SomeUses`: a slow loop and callbacks, replaced and aborted requests): an engine that asks for the next packet while
it repeats one ("earlyEngine"), a `loop()` too slow for the pulse ("slowLoop"),
requests that replace running ones ("overlap"), requests made in the callbacks
("callback"), `setpower(ON)` at any point ("abort").

| Property | Meaning | Fails with |
|---|---|---|
| `AnswerIsTrue` | a value reported is the decoder's | earlyEngine; slowLoop together with overlap or abort |
| `NackIsTrue` | a refusal is reported only if nobody is there to answer, or the value verified is another | earlyEngine, slowLoop, overlap, abort |
| `RequestsAnswered` | each request ends in a callback | callback, overlap |
| `NormalAgain` | whatever cuts a request off, rails and engine come back to normal operation | - |

**Engines** (`MCWave`, `MCPico`, `MCEsp`, `MCStm`). `ImplementsEngine` says that
the engine behaves as `PacketEngineSpec`. The other properties are about the
rails:

| Property | Engines | Meaning |
|---|---|---|
| `DecoderGetsPackets` | Z21PG | a decoder that counts preamble, start and data bits hears the packets that were sent, byte for byte |
| `OffMeansOff` | all | after `StopOutputSignal()` no interrupt, alarm or setter enables the output |
| `SignalReturns` | Z21PG | after the power is switched on the signal is there again and again |
| `StreamRecovers` | Z21PG | after a reconfiguration the stream is whole again |
| `PowerReturns` | ESP32, STM32 | while the output runs, the H-bridge is on again after every cutout |
| `PowerFollows` | RP2040 | the same, and in the end the rails are dead if the output was stopped |
| `SentBufferFree`, `BufferFree` | RP2040, ESP32 | the buffer on the rails is not written |
| `AsksAgain` | RP2040, ESP32, STM32 | the scheduler is always asked for a packet again |

On the Z21PG generator `Undisturbed` programs do not set the generator up again;
`StreamRecovers` is about those that do. The uses of the ESP32 generator are
"lateTask", "invert", "stopRepeats", "leaveEarly", "leaveWhileOff", "level",
"gapWhileOff" and "gapInCutout"; those of the STM32 generator "startOff",
"stopInCutout", "levelWhileOff" (with which `OffMeansOff` fails), "leaveEarly",
"invert" (with which `ImplementsEngine` fails) and "levelAmidCutouts" (with which
`PowerReturns` fails). `MCEsp` and `MCStm` take each by itself.

The uses of the RP2040 generators are "sendEarly" and "leaveEarly" (a call while a
packet waits; `MCPico` has both), "gapWhileOff" and "activeHigh". The first two
are not mistakes of the program. `send()` clears `canAcceptPacket` first and says
last that a packet is ready (`DCCHardware-RP-PICO.inc:600,619`); the DMA
interrupt in between may set the flag again (line 435), and `update()`, which
trusts it, then calls `send()`, or `leaveServiceMode()`, while that packet waits.
So `SentBufferFree` and `ImplementsEngine` say what the generator does as long as
this does not happen, with the interrupt between any two writes, and the
[divergences](#where-code-and-documents-disagree) what it does then. `AsksAgain`
holds with `send()` called early too, `OffMeansOff` and `PowerFollows` with both.

**Throttle** (`MCSimple`). `NeverMisled`: the loco obeys no order but one the
throttle can give, although `loop()` rewrites the message while the interrupt
sends it. `LocoFollows`: once nobody turns the knob the loco has its position.

**Bytes** (`MCBytes`). `OrderUnderstood`: a decoder written from the formats
(not from `getBitstream()`) understands each call's address, CV, value and
position from the bytes.

Every module states its types (`TypeOK`, `ThrottleTypeOK`). The runs check them for the ring and
the scheduler, where proofs rest on them.

`CHECK_DEADLOCK FALSE` is set for `MCEsp` only: after `setDccSignalInverted()`
the task may find no channel, and `ESP_ERROR_CHECK` aborts the program. Every
other model can always take another step, and TLC checks that it can.

## Bounds

All are constants of a `.cfg`, or named definitions of an `MC` module.

| Model | Bound | Why it is enough |
|---|---|---|
| Queue | 3 cells, two addresses, three kinds, repeats counted modulo 3 | both cursors wrap, a packet in the middle can be overwritten, the queue fills, a packet with repeats left is put back; all sizes are proved |
| Scheduler | 2 slots, queues of 2/4/5/2 packets (emergency, repeat, refresh, programming), repeats of 1-2 counted modulo 4, refresh every 4 packets, at most two locos driven, two turnouts, a signal, two functions per application | the emergency and programming queues fill, a loco is evicted while its packets wait, the packet counter wraps. `MCSchedEStopHolds` has the real modulus of 64 and the real repeats |
| Z21PG generator | bytes of 2 bits, byte counters modulo 16, preambles of 7 and 9 (less 4 in the gap), packets of 2 and 3 bytes, 2 repeats | a bit more of preamble or byte makes no new state of the machine, only a longer count in one that exists; counting down past 0 is still seen, as 15; all lengths and packets are proved |
| Service Mode | a CV of 2 bits, 3 resets before and 2 after, 3 repeats, loads 40 and 140 with the code's threshold of 30 | each bit is a loop of the same state; two let an acknowledge be credited to the next bit |
| RP2040, ESP32, STM32 | 2 repeats; RP2040 an ordinary and a CV packet on both boards, ESP32 and STM32 two ordinary ones and a CV packet | the code has two buffers: the second packet finds the first in use |
| Throttle | knob positions 1 and 3, the code's 16 preamble bits, a decoder that needs 12 | position 1 is the one the code skips, since speed 1 means emergency stop; more positions differ in data bits only |
| Bytes | locos, turnouts and CVs at the boundaries of the formats (0, 127/128, 255/256, 8191, 10239; 2043; 1023) | the formats split numbers at those values |

`PERIODIC_REFRESH_QUEUE_SIZE = 5` is more than the packets the applications can
make: `NothingForgotten` and `LocosSettle` need that room (see below).

## Fairness

An application call is never fair: it may come or not. Fair are only

* `update` in `DCCPacketScheduler`, because the manuals ask for a call in every `loop()`;
* `Interrupt` in `DCCHardwareCommon`, the timer, and `Continue`: a method that was
  begun goes on, as in the three engines below;
* `Interrupt`, `PulseEnds`, `Sense` and `update` in `ServiceMode`: the engine
  sends on, a decoder's pulse of 6 ms ends, and `loop()` runs;
* in the RP2040 model the DMA interrupt, `Continue`, and `CutoutEnds` (the PIO
  program passes its cutout), all of them weak;
* in the ESP32 model the RMT interrupt, the task it wakes, the alarms and `Continue`;
* in the STM32 model the DMA interrupt, the timer interrupt and `Continue`;
* in `SimpleDCC` the interrupt and `Loop`, which the Arduino core calls for ever.

`WF_device` is weak fairness with respect to the device's variables alone, the
program's choice being constant. `RequestsAnswered`, `NormalAgain`,
`LocosSettle`, `EStopServed`, `TurnoutsServed`, `SignalReturns`, `PowerReturns`,
`PowerFollows`, `AsksAgain`, `StreamRecovers` and `LocoFollows` rest on these.

## Where code and documents disagree

Three runs show one; `PROJECT.json` quotes the document under `findings`.

* `MCSchedEStopHolds`: what waits in `repeat_queue` is sent after the emergency
  stop, and a loco drives through it.
* `MCProgramEarly`: on engines that accept a packet while they repeat one (Z21PG,
  STM32) the acknowledge of one bit is credited to the next: a wrong value is
  reported.
* `MCStmOff`: `StopOutputSignal()` of the STM32 within a cutout. The end of the
  cutout enables the H-bridge again, and a second `StopOutputSignal()` returns at
  once, because the power counts as off.

The others need a value, an application or a use that the passing runs leave
out, or a property that is in a module and in no run. TLC finds each of these
violated:

| Where | Set | Property | What happens |
|---|---|---|---|
| queue | `MCRing` as it is | `SameKeyIsOverwritten` | a full queue rejects even the packet that would overwrite an older one |
| scheduler | 0 in `queried` | `NoLocoBehindHole` | a getter called with address 0 makes a hole in the register |
| | speeds, `eStop`, `driveInEStop` | `EStopOrderStored`, `RefreshIsFresh` | a speed stored during ESTOP is overwritten by the older packet from `repeat_queue` |
| | `eStop` and two turnouts | `EStopQueued` | with `e_stop_queue` full nothing is broadcast |
| | functions 21 and 29 | `LocosSettle` | groups from F21 on overwrite each other |
| | functions 32 and 33 | `RefreshIsFresh` | functions above F31 are not stored |
| | signals 0 and 1 | `AccessoriesAgree` | two signals of a decoder overwrite each other |
| | `pomOrder` of two | `PomPerformed` | two programming orders for a loco overwrite each other |
| | 2 locos, a refresh queue of 1 | `LocosSettle`, `NothingForgotten` | a full refresh queue keeps old orders and takes no new ones |
| | functions 0 and 1, more locos than slots | `RefreshIsFresh` | an evicted loco comes back with its functions off |
| | `RSTsRepeat` above `RepeatMod` | `StartupResets` | the count loses its upper bits: of 65 resets, one is sent (64 wrap to 0, and 0 counts down to 63) |
| | turnouts and a signal, an emergency queue of 3 | `TurnoutsServed` without the condition on `Overwriting` | a signal ordered again and again starts its repeats again each time |
| | a turnout and `eStop`, the same queue | `TurnoutsServed` without `EStop` | so does `eStop()` |
| | a binary state and `eStop`, the same queue, `FUNCTION_REPEAT = 2` | `EStopServed` without `Overwriting` | the stop waits behind the binary state |
| | `pomOrder` of two locos, with a turnout or `eStop` | `TurnoutsServed`, `EStopServed` without `Programming` | programming on the main in a stream keeps all others from the rails |
| Service Mode | "earlyEngine" | `NackIsTrue` | an acknowledge comes too late |
| | "slowLoop" with "overlap" or "abort" | `VerifiedValueIsTrue` | what was measured for a request that was cut off is taken for the answer to the next |
| | `MaxRepeats = 2` (`setServiceModeMaxRepeats(2)`) | `NackIsTrue` | the answer falls in the last packet, in which the current is not measured |
| | "callback", "overlap" | `RequestsAnswered` | a request from a callback is dropped, one that is replaced is not answered |
| | "overlap" | `NackIsTrue` | the base current is measured during the pulse before |
| Z21PG | `Reconfiguring` | `OffMeansOff`, `BytesInPacket` | the additional output enables the rails; a packet of no bytes underflows the counter |
| | inverted signal | `NeverBothHigh` | both pins are high in the cutout |
| | in Service Mode | `SignalReturns` | a request made with the power off runs without a signal |
| RP2040 | "sendEarly" | `ImplementsEngine`, `SentBufferFree` | the interrupt undoes what `send()` clears first, against the comments at lines 59 and 68-70: a packet is lost, and the buffer on the rails is filled |
| | "leaveEarly" | `ImplementsEngine`, `AsksAgain` | after `leaveServiceMode()` a Service Mode packet is still sent, and none may ever be accepted again |
| | `RailComOnDcc = {TRUE, FALSE}` | `DefaultBufferFree`, `GapOnIdle`, `NoCutoutInService` | default packets are rewritten while they are sent, and with the settings of the other mode |
| | "gapWhileOff", "activeHigh" | `OffMeansOff` | AUX is enabled although the output is off |
| | `MCPico` as it is | `LowAtOnce` | Z21PG: packets filled before `StopOutputSignal()` still drive the rails, which its comment (`DCCHardware_RP.inc:685-687`) has low at once |
| ESP32 | "lateTask" | `BothQueued` | from then on one packet less is queued |
| | "stopRepeats" | `ImplementsEngine` | the packet is repeated from the start |
| | "leaveEarly" | `AsksAgain` | a Service Mode packet is sent for ever |
| | "leaveWhileOff", "gapWhileOff" | `OffMeansOff` | the end of the next cutout enables the H-bridge |
| | "gapInCutout" | `PowerReturns` | the H-bridge stays off |
| | "level" | `OffMeansOff`, `PowerReturns` | `setAuxActiveLevel()` changes the level for later, and leaves the pin as it is |
| | "invert" | `NeverAborts`, `BufferFree`, `OffMeansOff`, `PowerReturns` | the restart races the task and the cutout |
| STM32 | "startOff" | `OffMeansOff` | `setup()` leaves AUX at the level that enables the H-bridge, and `StopOutputSignal()` does nothing before the first `RunOutputSignal()` |
| | "levelWhileOff" | `OffMeansOff` | the setter writes the level of an output that runs |
| | "levelAmidCutouts" | `PowerReturns` | a cutout that ends between the pin (lines 390-397) and `AuxActiveLevel` (398) puts the old level back, and no later cutout may come |
| | "leaveEarly" | `ImplementsEngine` | the packet that waits is sent once, or as one of Service Mode |
| | "invert" | `ImplementsEngine` | the last packet is sent once more |
| throttle | `MCSimple` as it is | `EveryPacketMatches` | a packet of old and new bytes is sent, which the comment at line 249 excludes; the decoder drops it, its check byte being wrong |
| bytes | `MCBytes` as it is | `SignalUnderstood`, `PomBitUnderstood`, `InfoIsOrdered` | memory not initialised; a bit is never written; Intellibox positions are read under another address |
| | without `LegalArguments`, turnouts from 2044 on, which the library accepts | `OrderUnderstood` | Intellibox: sent to decoder 0 |
| | without `LegalArguments`, locos above 10239 | `OrderUnderstood` | sent to a lower address |

## The proofs

Checked by TLAPS, for every value of the constants that meets the named
assumptions of the modules.

**Ring** (`DCCPacketQueueProofs`; `SizeAssumption`: 1..255 cells, as `size` is a
byte; `RepeatAssumption`). `QueueTypeOK`, `QueueCursorsAgree`, `QueueNoRivals`.
The invariant `IInv` types the object and says `Ring`: `write_pos` is the cell
`written` cells after `read_pos`, and no two waiting cells hold packets of one
address and kind, unless that kind is exempt. Neither half is inductive alone:
that no rival is stored follows from the scan seeing exactly the waiting cells
(`ScanIsComplete`), which needs the cursors; and `AtInjective`, arithmetic modulo
the size, says that writing one cell changes one waiting packet. Each operation
is then one of three: store, take out, count down; a lemma for each keeps `Ring`.

`RingImplementsFifo`: the ring implements the sequence. The mapping reads the ring
from `read_pos` on. One lemma per operation shows the sequence after the ring's
step to be what `PacketFifo` defines; `IInv` of the states before and after
supplies that the last cell is where the sequence ends.

**Register** (`DCCPacketSchedulerProofs`): `NoHoles`, `OneRegister`, `EvictionIsFair`,
under `NoLocoZero`: nobody asks for address 0. With 0 in `queried` TLC finds
`NoLocoBehindHole` violated: the assumption is needed. The invariant
`RegisterIInv` is the conjunction of types, no loco behind an empty slot and one
slot per loco. The last two need each other: the search stops at the first empty
slot, so a loco is entered twice unless none is behind it; and an evicted loco
leaves no hole only because a slot is overwritten, not cleared. Every action of
the scheduler leaves the register alone or touches one register
(`TouchesOneRegister`).

**Types of the scheduler** (the same module): `SchedulerTypeOK`, under
`NoLocoZero`. `TypeIInv` adds to the types what kind of packet can be in which
queue, which `TypeOK` leaves open and `update()` relies on. What a queue does to
its packets as a set, and to its length, is proved first: an insertion adds one
packet and drops those of its key, reading drops one, putting back changes one
count.

**Orders** (the same module): `WhatWaitsIsFresh` (`RefreshIsFresh`) and
`NothingDropsOut` (`NothingForgotten`), under `RoomForAll`: there is room for
what each program does. The conditions are:

| Condition | Without it |
|---|---|
| no speed ordered during ESTOP | `RefreshIsFresh` fails: the order goes to the refresh queue, the older packet follows it from `repeat_queue` |
| functions of F0 to F28 only | both fail: the groups above share a kind, and F32 on are not stored |
| fewer keys (loco and kind) than cells in the refresh queue | both fail: a full queue rejects, and what it holds is old |
| not more locos than slots, if functions are used | `RefreshIsFresh` fails: an evicted loco comes back with its functions off |
| fewer keys than cells in `repeat_queue`; repeats that are not 0 modulo `RepeatMod`; `NoLocoZero` | TLC finds nothing lost; the induction needs that an insertion finds room, that what waits has repeats left, and `RegisterIInv` |

`OrdersInv` is `RegisterIInv`, the types of the orders last accepted
(`WantedOK`), one packet per key in each queue and all of known kinds
(`QueuesOK`), agreement of the registers' function bits with the last orders
(`BitsOK`), and the two properties on sets of packets (`Fresh`, `Kept`). They
depend on each other: what a new function packet says is computed from the
register, so `Fresh` needs `BitsOK`, which needs that nobody is evicted
(`NoEviction`, a pigeonhole argument over the slots); `Kept` needs that a packet
taken from one queue finds room in the other (`RoomLeft`), which follows from one
packet per key; and that no older packet overtakes needs that overwriting finds
it.

**Accessories and programming on the main** (the same module):
`AccessoriesGetLastOrder` (`AccessoriesAgree`) and `ProgrammingIsPerformed`
(`PomPerformed`), under `NoLocoZero` and the conditions that
[the divergences](#where-code-and-documents-disagree) show to be needed: of two
signals with one packet address (`AccessoriesApart`), or two programming orders for
one loco (`OnePomOrder`), the second overwrites the first; and the program keeps the
power on, since without it nobody hears a packet that is sent. `AccessoriesAgree`
speaks of empty queues only. What is inductive is `LastWaits`, for every turnout
and signal: the *last* waiting packet about it holds the order accepted last, and
if none waits its decoder has shown it. A packet taken out is the oldest, so it
tells the decoder that order just when it is the last one about it; a signal's
packet that is overwritten in the middle of the queue is the last one about it
because it is the only one (`OneOrderEach`). `PomInv` is the like for programming.

**Service Mode** (`ServiceModeProofs`). Assumed of the constants: packets come at
least once, the pulse is higher than the threshold (`ConfigurationAssumption`),
and what the prover does not know of powers of two (`PowersOfTwo`). The decoder's
CV has any width, any number of resets and repeats is sent, and the program is
any of those the property speaks of, all its uses at once included.

* `ServiceTypeOK`. The value that is put together bit by bit stays a byte because
  with `b` bits read it is less than `2^b` (`ProgressTypes`).
* `ReportedValueIsTrue` (`AnswerIsTrue`). `AnswerIInv` says which packet can be on
  the rails in which state of the programming (`SentInv`), that a pulse answers
  the packet heard last (`PulseInv`), and what a measurement is worth (`Credit`):
  when the acknowledge has been seen, the decoder has the value in question. A
  rise alone is worth less, since `LASTVAmpSence` may have been set to 0 in
  between; but then no fall is seen. A fast loop measures the base in the first
  packet of each test, so nothing is left of what was seen before (`FastInv`); a
  slow one may miss it, and then it takes that no request was cut off
  (`ClearedInv`). Once the answer is given, no packet that writes is on its way
  (`AnswerInv`).
* `RefusalIsTrue` (`NackIsTrue`), if `MaxRepeats >= 3` (the code's default is 10; with
  2 TLC finds it violated). That no acknowledge is *missed* needs the timing of the
  pulse against the repeats: `RailsInv` counts how often the decoder has heard the
  packet (`HeardInv`) and gives the one status the detection can have in each
  packet (`StatusInv`). From that follows what the acknowledge of a test means
  (`AckMeans`), and from that what is known of the CV: the bits read so far are the
  low bits of it (`ValueInv`, with the arithmetic of `NextBit`), a value written is
  in it before it is verified (`AskedInv`).

**Z21PG generator** (`DCCHardwareCommonProofs`). Assumed of the constants: a
preamble longer than the cutout by two bits, counters that can hold what they
count, packets of at least one byte, and a decoder that is content with the
preamble the gap leaves over. `IInv` is the types and, for `Undisturbed` programs,
four parts:

* `OffOK`: without power both pins are low and disabled, and the states of the gap
  keep them so until the power is back (`NoPowerNoSignal`);
* `MethodOK` and `ServiceOK`: what a method has changed at each of its writes, and
  when and how often a Service Mode packet is repeated, also when the interrupt
  comes after `smActive` was written and before the default packet is
  (`BitsImplementEngine`: most interrupts are stutters of `PacketEngineSpec`, the
  one at the end of a preamble is its step. The mode of the engine changes when
  the default packet does, and `LeaveServiceMode` can be split at `smActive`
  because no repeat follows it, whatever the count still says);
* `StreamOK`: the counters belong to the state, none is 0 where it will be counted
  down (`ReadsStayInPacket`), and the decoder's position *is* the position of the
  interrupt: in the preamble it has counted enough ones, within a packet it has
  heard exactly the bytes and bits that are sent (`PacketsHeardInFull`). That
  needs the arithmetic of bytes that wrap (`OneLess`), and that the gap never
  takes more of the preamble than the decoder can miss.

**RP2040** (`DCCHardwareRPPicoProofs`), both boards, with the interrupt between any
two writes. `IInv` is the types, `DoingOK` (how far a method may have got), `AuxOK`
(while the output is off the program owns AUX and keeps it off: `StoppedOutputStaysOff`),
`SendingOK` and `ModeOK` (what a method has written at each of its steps),
`WaitingOK` (a packet is ready only when `send()` is over, and the buffer it fills is
neither on the rails nor the one the interrupt took last: `FilledBufferIsFree`) and
`RepeatsOK` (`PacketBuffersImplementEngine`). In the refinement a packet counts as
sent when `userPacketReady` is written, and the mode as changed when the default
packet is. The last two parts need that no call comes early, which the
properties say, so the theorems need no hypothesis.

**ESP32** (`DCCHardwareESP32Proofs`). `IInv` is the types, `RepeatsHeld`, `QueueOK`
(the queue of the RMT holds what the task has put there and what has not ended;
with the channel present and the program not inverting the signal nothing aborts:
`TransmitNeverAborts`, `TaskQueuesBoth`), `AuxOK` (`StoppedOutputStaysOff`: the alarms
that are pending when the output is stopped find the flags that tell them to
leave it off) and `PacketsOK` (`WrittenBufferIsFree`, `QueuedPacketsImplementEngine`): between
the two writes of a mode change `smActive` and the default packet disagree, in
the way that the step says (`ModeKept`), and the task may queue either default.
The uses are in the properties, so the theorems need no hypothesis.

**STM32** (`DCCHardwareSTM32Proofs`). `IInv` is the types, `MethodOK` (what a method
holds in its locals still agrees with the state when interrupts came between its
steps), `RepeatsOK` and `AuxOK` (the pin and `AuxActiveLevel` are written one after
the other, and while the output is off neither timer nor method is on its way to
switch AUX on). `StoppedOutputStaysOff` and `BuffersImplementEngine`, with interrupts
between any two steps.

**Bytes** (`DecoderProofs`; `LegalArguments`: addresses up to 10239, CV
numbers of ten bits, bytes, and turnouts that stay below 2048 once the addressing
format is added). `OrderIsUnderstood` (`OrderUnderstood`): whatever is ordered, the
decoder meant, and no other, understands that order. The invariant says of the packet what the property
says of its bytes: they tell the order (`Right`). The work is in the lemmas, for
every value of the arguments rather than those at the boundaries:

* a byte is put together of its bits and has them (`BitsOfByte`), so that the
  masks are remainders (`Masks`) and the joins of what does not overlap are sums
  (`Joins`);
* the check byte cancels the others, whatever they are (`ClosedCancels`), so a
  decoder always takes the bytes before it (`HeardInFull`);
* who is meant is told by the first byte or two (`LocoHears`, `ServiceHeard`,
  `TurnoutHears`, `SignalHears`), and what by the rest, one lemma for each kind of
  call.

`SignalIsUnderstood`: if the stack holds 0 where `dccPacket[1]` will be, every aspect
is understood too, so the byte that is not assigned is all that is wrong there.

**Throttle** (the same module; `PreambleAssumption`: at least as many ones are sent as
the decoder waits for, and it waits for more than the one that ends a packet).
`LocoIsNeverMisled` (`NeverMisled`), with any knob and any length of the preamble.
`loop()` may write between the bytes of a message, so what is sent need not be a
message at all, and [its checksum may be wrong](#where-code-and-documents-disagree). What is inductive,
`ThrottleInv`, says that the decoder stands where the interrupt stands: between two
bits it has counted the ones sent of the preamble, or taken the bytes before the
one that is being sent, and of that one the bits above `cbit` (`Sent`); within a
bit it is one bit behind (`OnItsWay`). Of the bytes taken the first is that of the
message whose turn it is, so an idle message never passes for one of the loco,
and the third was an order when it began to be sent (`FitsByte`): `outbyte` is a
copy, so a write comes before a byte or after it, never in its midst. One lemma
for each thing the decoder can hear (`HearOne`, `HearEnd`, `HearFirst`, `HearNext`,
`HearBit`), one for each half of a bit, and one for `loop()`, which leaves all of
that alone.

All inductive invariants were first checked by TLC on the instance of the runs.

**Model-checked only.** Liveness and everything that rests on fairness, which
the prover cannot treat (`LocosSettle`, `EStopServed`, `TurnoutsServed`,
`RequestsAnswered`, `NormalAgain`, `SignalReturns`, `StreamRecovers`, `AsksAgain`,
`PowerReturns`, `PowerFollows`, `LocoFollows`). Every safety property of a passing
run is a theorem.

## What is not modelled

* The engine of DxCore: it calls `transmitNextPacket()`, which its file does not
  define, so this commit does not compile for it.
* The board files of the Z21PG mode: register set-up, no state of their own.
* In the RP2040 generator: the preambles, whose length default packets keep when
  Service Mode is entered until they are rebuilt; `setAuxActiveLevel()` at run
  time, which changes the level and the inversion of the pin together.
* `setSpeed14`: the packet of `setSpeed28`, checked as such; a decoder set to 14
  steps takes the fifth speed bit for its light.
* CV numbers above 1023, which each Service Mode request refuses at once.
* Accessory positions that were stored and, the queue being full, never sent: the
  scheduler's array is read by getters only.
* Functions from F21 on in `MCSched`; the divergences say what their shared kind does.
* Configuration and EEPROM: their values are constants. That `smMaxRepeats` is
  read by `initIsr()` before or after the EEPROM is a matter of one start.
* The RailCom reader: `GLOBALRAILCOMREADER` is never defined.
* `forget()` and `clear()` of the queues, which nothing calls.
* The PIO program, the RMT peripheral, timers and DMA are external: modelled by
  what the code relies on. The second (monitor) RMT channel, the third pin and the
  polarity of the RP2040 in Z21PG mode are left out.
* The bits in the DMA buffers of the STM32: the model has packets in them. With
  six bytes and a preamble of more than 17 bits a packet does not fit.
* The examples other than `SimpleDCC_without_Lib`: they call the library, most of
  them with the header of an older version.

## Plan

In order of weight; all but the seventh are done.

1. Abstract queue, ring, register; their proofs.
2. Scheduler in normal operation over the abstract queue and the register.
3. Abstract engine, Z21PG generator, Service Mode over the abstract engine.
4. RP2040 and ESP32 engines; bytes of the packets.
5. STM32 engine, RP2040 engine of the Z21PG mode, the throttle example; activation
   bit and toggling in the scheduler, which carries the register itself.
6. Proofs of the scheduler: types, register, `RefreshIsFresh`, `NothingForgotten`.
7. Scheduler and Service Mode in one module, for requests made while orders wait.
8. Proofs of `AccessoriesAgree` and `PomPerformed`, of `OffMeansOff` in the
   engines and that they implement `PacketEngineSpec`, of `AnswerIsTrue` and
   `NackIsTrue` in Service Mode, of `OrderUnderstood`, of `NeverMisled`.
