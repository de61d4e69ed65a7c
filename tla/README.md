# avr_joystick: a TLA+ verification development

avr_joystick is the firmware of a USB joystick on an ATmega32U4, built on LUFA
140928, with a small Linux program that talks to it. This directory holds TLA+
models of the code that runs on the device, of that program and of the two together;
TLC configurations that check them on small instances; and TLAPS proofs of their main
invariants and refinements.

Paths below are relative to the repository. `LUFA/` stands for
`lufa-LUFA-140928/LUFA/`.

## The system

One CPU runs two threads of control, and two outside parties act on it.

| actor | code | what it does |
|---|---|---|
| main loop | `src/joystick.c` `main` | calls `HID_Device_USBTask`, then `USB_USBTask`, for ever |
| interrupt handler | `LUFA/Drivers/USB/Core/AVR8/USBInterrupt_AVR8.c` `USB_GEN_vect` | start of frame, VBUS, suspend, wake-up, reset; runs to its end before the main loop goes on |
| USB controller | hardware | flags, endpoint banks, address register, frame counter |
| host | external, `host_app/linux.c` on top of it | enumerates, polls, asks, resets, suspends, goes away |

### Inventory

| component | state | operations that change it | hard behaviours |
|---|---|---|---|
| HID class driver (`HIDClassDevice.c/.h`) | `PrevReportINBuffer`, `State` (protocol, frame number, idle count, idle timer) | `HID_Device_USBTask`, the six class requests, `ConfigureEndpoints`, `MillisecondElapsed` | 16-bit timer shared with the interrupt; comparison buffer shared between the two endpoints |
| application (`joystick.c/.h`) | `saved`, `PORTD` | report callbacks, five events | output report of a broken transfer; acknowledged before it is applied |
| device state machine (`USBInterrupt_AVR8.c`, `USBTask.c`) | `USB_DeviceState`, configuration number, PLL, clock, enabled interrupts, selected endpoint | the four stages of the handler, `USB_DeviceTask` | several interrupts pending at once; state written by both threads |
| standard requests (`DeviceStandardReq.c`) | address, configuration number, state | SetAddress, SetConfiguration, features, GetStatus, GetDescriptor | waits that a reset, suspend or unplugging hits half-way |
| endpoints and streams (`Endpoint_AVR8.c`, `Template_Endpoint_*.c`) | selected endpoint, banks, flags | configure, status stage, streams | endless waits; the selection changed by the handler; a new request in the middle of a stream |
| controller start-up (`USBController_AVR8.c`) | registers | `USB_Init` | once, before interrupts |
| descriptors (`descriptors.c/.h`) | none | `CALLBACK_USB_GetDescriptor` | layout and lengths that must agree with the report |
| board drivers (`Board/*.h`) | ports | init, LEDs, buttons | none |
| host application (`linux.c`) | read/write buffer, counter | one loop | one report per turn from a bounded queue; runs against the device's own pace |

`PROJECT.json` lists the components with their status, the hazards with the line
where each one bites, and the source lines behind every definition.

## Modules

| module | what it is | instances | theorems |
|---|---|---|---|
| `HidDevice` | HID class driver, report callbacks, start-of-frame interrupt, polling host | `MCHidDevice` | `HidDeviceProofs` |
| `ReportPipe` | abstract: what the interrupt IN endpoint promises | implemented by `HidDevice` | |
| `UsbDevice` | device state machine: main loop against `USB_GEN_vect` against bus and host | `MCUsbDevice` | `UsbDeviceProofs`, `UsbAddressProofs` |
| `ControlStream` | control transfers packet by packet, broken off at any point | `MCControlStream` | `ControlStreamProofs` |
| `ControlTransfer` | abstract: what a control transfer promises | implemented by `ControlStream` | |
| `JoystickSystem` | `linux.c`, the kernel's queue, the lamps and the pipe together | `MCJoystickSystem` | `JoystickSystemProofs`, `JoystickEchoProofs` |
| `ReportLayout` | the report's bytes, and a host that parses the report descriptor | `MCReportLayout` | `ReportLayoutProofs` |

The modules meet in this way. `HidDevice` is shown to implement `ReportPipe`, and
`JoystickSystem` is built on `ReportPipe` instead of on the driver: every step it takes at
the endpoint is a step of the pipe. That a write acknowledges the output report before
the callback runs is what `ControlStream` shows of SetReport. `UsbDevice` reduces every
control stream to one packet; `ControlStream` is the missing detail, with the device
state reduced to the three cases the streams tell apart.

### HidDevice

The main loop is cut at every access to something the interrupt, the controller
or the pins may change. `pc` names the position; one action per step:

    state -> frame -> rwal -> create -> idle1 -> idle2 -> compare -> load1 -> load2
          -> write -> saveFrame -> usb -> (request | clear1 -> clear2 -> enable) -> state

* `IdleMSRemaining` is 16 bits wide on an 8-bit CPU. Its two bytes are the variables
  `IdleHi` and `IdleLo`. The main loop loads and stores them in two steps, in either
  order, because the compiler may choose. The interrupt decrements both at once.
* `USB_Device_GetFrameNumber` reads two registers, so it may return a mix of two
  frame numbers.
* A report is a record of the three fields that vary: buttons, mask and output
  byte. The other bytes are always zero.
* `SetReport` calls the application even when its data stage was broken off; the
  byte is then any of `Outs`, since the array was never written.
* `BusReset` disables the endpoint and empties it. The handler then configures the
  control endpoint, which goes over all endpoints and may enable it again.
* `overwritten`, `period` and `due` are history variables; no guard reads them.

`ByteBase` (256 on the device) and `FrameMod` (2048) are constants of the model. The
runs scale them down; the theorems hold for every value.

### UsbDevice

Every action of the main loop requires `Runs`: the handler is not active and no
enabled interrupt is pending. `isr` counts the stages of the handler that have been
passed. The stages are tested in the order of the code (VBUS, suspend, wake-up,
reset), and the bus may raise another flag between two of them.

Requests are grouped by the path they take:

| kind | stands for |
|---|---|
| SetAddress, SetConfiguration, Unconfigure (value 0), BadConfiguration (value above 1) | themselves |
| Feature | ClearFeature, SetFeature and class requests without a data stage |
| GetStatus | GetStatus, GetConfiguration, GetIdle and GetProtocol: one packet, then `Endpoint_ClearStatusStage` |
| GetDescriptor | GetDescriptor and GetReport: a control stream, reduced to one packet (`ControlStream` has them all) |
| Unsupported | whatever no handler takes |

Three parts of the environment deserve a word, because guards rest on them.

* `Settled`: a host leaves a device 10 ms after a reset before the next packet.
  By then the reset interrupt is handled and the request it hit is over, unless that
  request waits.
* `BusIdle` needs 3 ms of silence, so earlier interrupts have been handled.
* `HostReset` is allowed at will (until `calm`) and in addition when the host gets no
  answer: that is how real hosts recover.

### ReportPipe

A report is sampled, then kept back or sent, then delivered or lost. The pipe says when
it may be kept back (the driver remembers having told it) and when it may be sent again
(the host wants repetitions). `HidDevice!ImplementsPipe` maps the driver's buffer to `told`, the report
between sampling and polling to `transit`, and the host's last report to `seen`. Frames, the
idle timer, torn accesses and program counters disappear. `Ask` is what GetReport does:
the driver remembers a report that the pipe has not carried.

### ControlStream

The handler of GetDescriptor and the SetReport case of the HID driver, with the two
streams they call. Each loop of a stream is two steps, its tests and its packet,
because a SETUP packet may arrive between them. Bytes are counted, not named: a
packet is the position of its first byte, its length, and whether it belongs to the
request the host is waiting for. `Sizes` are the descriptors' sizes, 0 for one that
`CALLBACK_USB_GetDescriptor` does not have.

* A SETUP packet empties the bank and lifts a stall; until it is cleared, the endpoint takes no
  other packet. This is the controller's part.
* The request is read and cleared in one step. It takes microseconds, and a host
  that tries again waits longer.
* The bus is suspended only between transfers (it needs 3 ms of silence).
* `wLength` is not 0, as in every request of the kernel to this device. The report ID of a SetReport only
  moves the pointer the callback gets, and is left out.
* The host gives up at will while `CanAbort`, and otherwise only when both sides wait.

### ControlTransfer

Bytes move, never more of them than `Limit`, and a transfer is complete only when all of
them have moved. `ControlStream!Moved` counts, for a read, the bytes the host has; for a write,
those the stream has taken out of the bank.

### JoystickSystem

One turn of the program's loop is a non-blocking `Read` and a `Write`. The written byte is the
second byte of a counter. The callback (`ProcessHIDReport`) is a step of its own after the write, and
the next write comes after it: a control transfer starts in a later frame, when the callback is long
over (`ControlStream` has what happens to a SETUP packet that comes sooner). At start-up the
kernel configures the device and sets an idle rate, and the program issues its two
`HIDIOCGFEATURE` requests, each an `Ask` of the pipe. The kernel's queue drops what arrives when
it is full. The kernel is external.

`Slack` bounds the turns of the loop during one step of the pipe. A turn contains a whole control
transfer, so the device comes round in between. There are no resets and no broken transfers
in this module; those are in `HidDevice` and `ControlStream`. All bytes of the program's buffer are equal, so
it does not matter which of them the kernel takes for the report ID.

### ReportLayout

The parser goes through the items of `JoystickReport` one by one (the host's parser is external
and follows the HID specification). `ReportBytes` is what the compiler lays out for
`USB_JoystickReport_Data_t`. The properties read each field with the parser's offsets out of these bytes.
`Value` looks at one byte only; that every field lies in one is part of `ReportFits`.

## Runs

| run | result | distinct states | shows |
|---|---|---|---|
| `hid_safety` | pass | 3,001,902 | change detection is right, no report overwritten, idle rate 0 is silent, idle timer never early below one byte and off by at most one byte's worth; the driver implements the pipe |
| `hid_live` | pass | 436,448 | a change reaches a polling host, across resets, frame wrap-around and torn frame numbers; with an idle rate, reports repeat for ever |
| `usb_safety` | pass | 1,820,592 | wake-up armed, PLL running, right endpoint selected, under every disturbance |
| `usb_live` | pass | 287,868 | after resets, suspends and unplugging the main loop comes round, the device ends up configured, and the address the host set is the device's |
| `stream` | pass | 63,410 | no packet of one request passes for another's, an acknowledged output report is applied whole, the streams implement the transfer, return, and serve |
| `system` | pass | 401,486 | the program gets its bytes back in order and at most two behind, every one of them time and again, and learns the buttons |
| `layout` | pass | 3,157 | pins and output byte are where the descriptor says, and the three sizes are compatible |

`Freshness` has a condition that comes from the code: at idle rate 0 the host ends up with
the buttons only if the driver's buffer holds a report the endpoint has carried (`Informed`).
GetReport or a reset breaks that, and an idle rate repairs it. `ButtonsHeard` shows why the program
gets away with its two GetReport requests: its own writes change the report.
`EchoHeard` needs idle rate 0, because with repetitions a program that is held up finds a queue full of
them.

The other runs end in a violation of something the repository says of itself. They
are the findings:

| run | what happens | said at |
|---|---|---|
| `hid_idle_torn` | a torn access to a timer above one byte sends an idle report early | `HIDClassDevice.h:116` |
| `hid_getreport` | GetReport hides a change from the interrupt endpoint. `linux.c` issues two such requests (`HIDIOCGFEATURE`) | `HIDClassDevice.h:90` |
| `usb_livelock` | a reset in the status stage of SetAddress leaves `ADDEN` set, and no later SetAddress succeeds | `Events.h:235` |
| `usb_hang` | a reset in the status stage of GetStatus stops the main loop | `USBTask.h:156` |
| `usb_unplug` | a wake-up handled after the unplugging restores Configured | `Device.h:80` |

More disagreements show in the models and have no run of their own:

* A frame interrupt inside the `memset` of `HID_Device_ConfigureEndpoints` leaves the
  timer non-zero, though `State` is said to be "reset to their defaults"
  (`HIDClassDevice.h:118`).
* `PrevReportINBuffer` survives a bus reset: once the kernel has set idle rate 0, the new
  enumeration gets no report until something changes (`Informed`).
* SetConfiguration(0) leaves the device in the Configured state (`DeviceStandardReq.c:203`), against
  `Device.h:94`.
* A SETUP packet that arrives before `DeviceStandardReq.c:118` is cleared and stalled unread.
  The host tries again; `Enumerates` and `Served` show that this does not last.
* The report structure has 32 bytes where the descriptor declares 34, though it is said to
  mirror the layout (`joystick.h:56`), and the endpoint descriptor says 64 where the bank has 32.
  `ReportFits` shows that this does no harm.
* The descriptor gives 32 buttons (`descriptors.c:60`) two usages, so 31 of them share the second.
* The output byte 128 comes back as -128, below the descriptor's logical minimum of -127.
* `LEDs_SetAllLEDs` ignores its mask (`LEDs.h`), so the lamps do not show the device's state.

### Bounds

* `ByteBase` is 3 to 5, with idle counts on both sides of it: every byte boundary of
  the timer is crossed.
* `FrameMod` is 2, 3 or 6. `hid_live` has 6 with `ByteBase` 4, so that frame numbers wrap round and are
  torn, yet not every number looks like its predecessor.
* `LoopFrames` is 1: at most one frame begins in one iteration of the main loop. A
  loop takes far less than a millisecond. The theorems hold for any bound below
  `ByteBase`.
* Two button states or two output values are enough: the driver only compares reports.
* `UsbDevice` needs no bound. Its constants say what the host does.
* `stream`: packets of 2 bytes, lengths 1, 4 and 5, sizes 3, 4 and none. That gives streams of several
  packets, a last packet that is short, full or empty, and both outcomes of the comparison of
  size and `wLength`.
* `system`: 4 bytes of 8 turns each, a queue of 2. The counter wraps, the queue overflows, and the
  program is more than one byte ahead. `EchoCurrent` is tight. `PaceAssumption` says how long a byte must
  last: longer than the queue and two steps of the pipe, and than five steps of the pipe. Of the
  program's 256 turns for a byte, the kernel's 64 places leave room for steps of up to 50 turns;
  the endpoint is polled every 5 ms, and each turn's transfer starts in a new frame of 1 ms. With `Slack` 1 and
  a byte of 5 turns TLC finds `EchoCurrent` violated.
* `layout`: all output bytes, a handful of pin readings. The layout has no other parameter.

`usb_safety` does not check for deadlock: the main loop may really stop in
`Endpoint_ClearStatusStage`, and an idle host then has nothing to do. `usb_hang` is
about that. In `usb_live` the host asks for descriptors only, which wait in streams that look for the
next SETUP packet.

### Fairness

* The main loop never blocks in `HidDevice`: weak fairness. Frames begin every
  millisecond and the host polls at its interval: weak fairness each.
* In `UsbDevice` the main loop has strong fairness. The AVR executes one instruction of
  the interrupted program after every interrupt, so a stream of interrupts slows
  it but does not stop it. The handler has weak fairness.
* The host owes nothing before `calm`. After it, it resumes the bus, enumerates,
  answers, and resets when it gets no answer.
* In `ControlStream` the main loop, the host's transactions, its time-out when both sides wait, its next
  request and its return are weakly fair. What it does at will is not.
* In `JoystickSystem` the program, the kernel, the callback, the driver and the polling are weakly
  fair, the buttons are not.

## Proofs

All theorems are proved for every value of the constants that the named `ASSUME`s
allow.

`HidDeviceProofs`, under `HidAssumption`:

* `TypeCorrect`: the type invariant, the timer's bytes included.
* `BufferCorrect` and `QuietCorrect`: an inductive invariant ties `report`,
  `PrevReport` and the bank together at each label, because the comparison and the
  write are several steps apart (`PipeInv`).
* `BankCorrect`: the action property `BankNotOverrun`, from the conjunct `BankFree`: the bank
  stays empty from the check to the write, since only the main loop fills it.
* `DriftCorrect` and `ShortIdleCorrect` rest on `IdleInv`, arithmetic on the two bytes. It
  follows a store that is half done, for either order of the bytes, and bounds the
  frames since by `sofs`.
* `PipeCorrect`: the driver implements `ReportPipe`, from `PipeInv`. One lemma
  (`PipeRefinement`) maps each action to a step of the pipe or a stutter.

`UsbDeviceProofs`, under `UsbAssumption`:

* `TypeCorrect`: the type invariant.
* `WakeCorrect` and `ClockCorrect` are proved together (`ClockInv` is their conjunction);
  both are inductive as they stand. Lemmas say that the main loop leaves the clocks
  alone, that the environment leaves the device's variables alone, and that the handler
  leaves the main loop where it is.
* `SelectCorrect` rests on `SelectInv`: `EndpointSelected` with the ranges of the two endpoint
  numbers. It is inductive because a reset, the only stage that changes the selection,
  selects the control endpoint and clears the configuration number in one step.

`UsbAddressProofs`, under `UsbAssumption`, for hosts that give a request up only by a reset
(`~CanAbandon`):

* `AddressCorrect`: `AddressTakesEffect`. The danger is an empty packet of some other request that the host
  takes for the acknowledgement of SetAddress. `AddressInv` rules it out along the life of a request:
  the label tells the request (`LabelInv`); a SETUP packet stays unread until its own handler clears it, and a request
  overtaken by a reset meets an empty bank (`SetupInv`); SetConfiguration, the one request after which a SETUP
  packet is not refused at the end, is not under way at address 0 (`ConfigInv`); so the bank holds no
  empty packet when SetAddress is read (`CleanInv`), and the one the host gets comes from
  `USB_Device_SetAddress` (`HandledInv`), which then enables the address (`EffectInv`).

`ControlStreamProofs`, under `StreamAssumption`, for every packet size and all lengths:

* `StreamInv` is the inductive invariant. `OwnInv` says whose request the device works on: an endpoint that
  answers while the host waits was made to answer by the handler of the host's request.
  `ReadInv` and `WriteInv` account for every byte of a live transfer (with the host, in the bank, or still
  to come). `TakeInv` and `AckInv` do so for a packet about to be taken and for an acknowledged
  report. None of the properties is inductive alone: each speaks of one moment of a transfer.
* `TypeCorrect`, `StaleCorrect` and `AckCorrect` follow from it; `TransferCorrect` shows that the streams implement
  `ControlTransfer`.

`JoystickSystemProofs`, under `SystemAssumption`:

* `TypeCorrect`: the byte stays in range as the counter wraps, and the queue within its places.
* `PipeUsed`: `JoystickSystem` implements `ReportPipe`. The program, the kernel and the buttons do nothing to the
  endpoint that the pipe, which the driver is proved to implement, does not allow.

`JoystickEchoProofs`, under `SystemAssumption` and `PaceAssumption`:

* `EchoOrderly` (`EchoInOrder`) and `EchoTimely` (`EchoCurrent`). The byte wraps round, so order can be told only
  while nothing on the way is too old, and that is a matter of time. `EchoInv` bounds the age of each thing by
  the turn of the current byte: the panel's byte by the callback (`PanelInv`); a report in the pipe by the turns its
  steps may take (`TransitInv`); one in the queue by its place, since it moves up every turn (`QueueInv`); the
  time until the driver has sent a new byte by four steps of the pipe (`ToldInv`). The program is two bytes behind only
  until that report arrives or finds the queue full of newer ones (`GotInv`). At the last turn of a byte, therefore, all
  that is under way carries this byte and the program has it or the one before; the next byte adds one to every
  lag, and the order is kept (`OrderInv`).
* The lemmas on the way: division with remainder by a constant of the model (`Divide`), what one turn
  does to byte, turn and lag (`NextTurn`, `LagStep`), and what stands at each place of `Trail`.

`ReportLayoutProofs`, under `LayoutAssumption`, for all 256 readings of the pins and all output bytes (the run has
eleven readings):

* `LayoutInv` says what the parser knows before each of the 31 items: the global items in force, the usages
  collected, the fields found. It follows the parser through the descriptor of the source.
* `FitsCorrect` (`ReportFits`) and `PanelCorrect` (`HostSeesPanel`) compare the fields it ends with and the bytes of
  `ReportBytes`.

Every invariant and action property that a passing run checks is thus proved, and so are the refinements. Model-checked only:
everything about fairness (`Freshness`, `IdleRepeats`, `Enumerates`, `MainLoopReturns`, `StreamsReturn`, `Served`,
`EchoHeard`, `ButtonsHeard`), since the prover has no liveness rules.

## Not modelled

* The content of the device, configuration and string descriptors; their sizes are constants of
  `ControlStream`.
* The bits of GetStatus and of the features. Their waits and error paths are in `UsbDevice`.
* Board drivers: register writes without state. The lamps for the device's state take the same
  value whatever is asked of them.
* A data stage with `wLength` 0, and the report ID that GetReport puts in front of its stream when it is
  asked for a report with a number: one more byte in the first packet.
* Resets in `JoystickSystem`, and a program that is started twice.
* A host that abandons a request between its read and its clearing, in the liveness
  runs. `usb_safety` includes it.
* Host mode, other classes, other architectures, bootloaders, demos and projects of
  LUFA: not compiled into this program. They are most of the lines of the repository, so the
  mapped lines are a small share of it; of the files that are compiled in, what is left out is
  listed above. `Board/Dataflash.h` is an unused template.
