------------------------------ MODULE HidDevice ------------------------------
(***************************************************************************)
(* The HID class driver of the joystick (HIDClassDevice.c), the            *)
(* application callbacks it calls (joystick.c), the start-of-frame         *)
(* interrupt that runs down its idle timer, and the host that polls the    *)
(* interrupt IN endpoint and sends control requests.                       *)
(*                                                                         *)
(* The main loop is cut wherever it reads or writes something the          *)
(* interrupt handler, the USB controller or the pins may change, so that   *)
(* each step makes one such access.  IdleMSRemaining is 16 bits wide on an *)
(* 8-bit CPU: the main loop loads and stores it one byte at a time, in an  *)
(* order the compiler is free to choose, and the interrupt may fall        *)
(* between the two.                                                        *)
(***************************************************************************)
EXTENDS Integers, FiniteSets

CONSTANTS
  Pins,         \* the readings of PINB that occur
  Outs,         \* the bytes that reach ReportData[1] of an output report
  IdleDefault,  \* IdleCount after configuration: 500 in the code
  IdleRates,    \* durations the host sends with SetIdle, in units of 4 ms
  ByteBase,     \* values of one byte: 256 on the device
  FrameMod,     \* values of the frame number: 2048 on the bus
  LoopFrames,   \* bound: frames that begin during one main-loop iteration
  Kinds,        \* the control requests this host makes
  CanReset,     \* whether the host ever resets the bus again
  NoReport      \* an empty endpoint bank, a host that has received nothing

Mask == 255

Reports == [Button : Pins, X : {Mask}, Y : Outs]

ZeroReport == [Button |-> 0, X |-> 0, Y |-> 0]

ASSUME HidAssumption ==
  /\ Pins \subseteq 0..255 /\ Pins # {}
  /\ Outs \subseteq 0..255 /\ 0 \in Outs
  /\ ByteBase \in Nat \ {0, 1}
  /\ IdleDefault \in 1..(ByteBase * ByteBase - 1)
  /\ \A d \in IdleRates : d \in Nat /\ 4 * d < ByteBase * ByteBase
  /\ FrameMod \in Nat \ {0, 1}
  /\ LoopFrames \in Nat \ {0} /\ LoopFrames < FrameMod /\ LoopFrames < ByteBase
  /\ Kinds \subseteq {"GetReport", "SetReport", "SetIdle", "GetIdle",
                      "SetProtocol", "GetProtocol", "SetConfiguration"}
  /\ CanReset \in BOOLEAN
  /\ NoReport \notin Reports \union {ZeroReport}

VARIABLES
  PINB,                 \* the button pins
  saved, PORTD,         \* joystick.c: last output byte, and the lamps it drives
  PrevReport,           \* Config.PrevReportINBuffer
  UsingReportProtocol, PrevFrameNum, IdleCount,   \* the State structure
  IdleHi, IdleLo,       \* the two bytes of State.IdleMSRemaining
  configured,           \* USB_DeviceState = DEVICE_STATE_Configured
  sofEnabled,           \* UDIEN.SOFE
  frame,                \* UDFNUM
  epEnabled, bank,      \* the IN endpoint: enabled, and the bank awaiting the host
  setup,                \* the SETUP packet waiting on the control endpoint
  hostIn,               \* last report the host took from the IN endpoint
  pc, report, half, IdlePeriodElapsed,   \* main-loop position and locals
  sofs,                 \* frames begun in this main-loop iteration
  overwritten,          \* history: GetReport replaced PrevReport since the last send
  period, due           \* history: the idle period last loaded, and how much
                        \* of it is really left, in milliseconds

appVars   == <<PINB, saved, PORTD>>
idleVars  == <<IdleHi, IdleLo, period, due>>
stateVars == <<UsingReportProtocol, PrevFrameNum, IdleCount>>
usbVars   == <<configured, sofEnabled, epEnabled>>
pipeVars  == <<bank, hostIn>>
locals    == <<report, half, IdlePeriodElapsed>>
vars == <<appVars, PrevReport, stateVars, idleVars, usbVars, frame, pipeVars,
          setup, pc, locals, sofs, overwritten>>

SetConfiguration == [bRequest |-> "SetConfiguration", arg |-> 1]
NoRequest == [bRequest |-> "none", arg |-> 0]

Requests ==
  {r \in {SetConfiguration}
         \union [bRequest : {"GetReport", "GetIdle", "GetProtocol"}, arg : {0}]
         \union [bRequest : {"SetReport"}, arg : Outs]
         \union [bRequest : {"SetIdle"}, arg : IdleRates]
         \union [bRequest : {"SetProtocol"}, arg : {0, 1}] :
     r.bRequest \in Kinds}

Halves == {"lo", "hi"}
Other(h) == IF h = "lo" THEN "hi" ELSE "lo"
Labels == {"state", "frame", "rwal", "create", "idle1", "idle2", "compare",
           "load1", "load2", "write", "saveFrame", "usb",
           "clear1", "clear2", "enable"}

IdleMSRemaining == IdleHi * ByteBase + IdleLo

\* joystick.c boots with zeroed .bss; the host has just reset the bus.
Init ==
  /\ PINB \in Pins
  /\ saved = 0 /\ PORTD = 255
  /\ PrevReport = ZeroReport
  /\ UsingReportProtocol = FALSE /\ PrevFrameNum = 0 /\ IdleCount = 0
  /\ IdleHi = 0 /\ IdleLo = 0 /\ period = 0 /\ due = 0
  /\ configured = FALSE /\ sofEnabled = FALSE /\ epEnabled = FALSE
  /\ frame = 0
  /\ bank = NoReport /\ hostIn = NoReport
  /\ setup = NoRequest
  /\ pc = "state" /\ report = ZeroReport /\ half = "lo"
  /\ IdlePeriodElapsed = FALSE
  /\ sofs = 0 /\ overwritten = FALSE

-----------------------------------------------------------------------------
(***************************************************************************)
(* HID_Device_USBTask, step by step.                                       *)
(***************************************************************************)
Goto(from, to) == pc = from /\ pc' = to

CheckState ==
  /\ Goto("state", IF configured THEN "frame" ELSE "usb")
  /\ UNCHANGED <<appVars, PrevReport, stateVars, idleVars, usbVars, frame,
                 pipeVars, setup, locals, sofs, overwritten>>

\* USB_Device_GetFrameNumber reads the two bytes of UDFNUM one after the other:
\* a frame that begins in between may leave one byte of each number.
NextFrame == (frame + 1) % FrameMod
HighByteOf(f) == f \div ByteBase
Mixed(f, g) == (HighByteOf(f) * ByteBase) + (g % ByteBase)
GetFrameNumber ==
  {frame} \union (IF HighByteOf(frame) = HighByteOf(NextFrame) THEN {}
                  ELSE {Mixed(frame, NextFrame), Mixed(NextFrame, frame)})

CheckFrame ==
  /\ \E f \in GetFrameNumber :
       Goto("frame", IF PrevFrameNum = f THEN "usb" ELSE "rwal")
  /\ UNCHANGED <<appVars, PrevReport, stateVars, idleVars, usbVars, frame,
                 pipeVars, setup, locals, sofs, overwritten>>

\* Faulty variant: the bank is not checked.
ReadWriteUnchecked == epEnabled

\* Endpoint_IsReadWriteAllowed: the only bank is free to be filled.
ReadWriteAllowed == epEnabled /\ bank = NoReport

CheckBank ==
  /\ Goto("rwal", IF ReadWriteAllowed THEN "create" ELSE "usb")
  /\ UNCHANGED <<appVars, PrevReport, stateVars, idleVars, usbVars, frame,
                 pipeVars, setup, locals, sofs, overwritten>>

\* CALLBACK_HID_Device_CreateHIDReport; it never forces the send.
CreateHIDReport == [Button |-> PINB, X |-> Mask, Y |-> saved]

\* Faulty variant: the timer is looked at whatever the idle count.
CreateReportIgnoringCount ==
  /\ Goto("create", "idle1")
  /\ report' = CreateHIDReport
  /\ UNCHANGED <<appVars, PrevReport, stateVars, idleVars, usbVars, frame,
                 pipeVars, setup, half, IdlePeriodElapsed, sofs, overwritten>>

\* IdleCount is tested first: a zero count never looks at the timer.
CreateReport ==
  /\ Goto("create", IF IdleCount = 0 THEN "compare" ELSE "idle1")
  /\ report' = CreateHIDReport
  /\ UNCHANGED <<appVars, PrevReport, stateVars, idleVars, usbVars, frame,
                 pipeVars, setup, half, IdlePeriodElapsed, sofs, overwritten>>

ByteIsZero(h) == IF h = "lo" THEN IdleLo = 0 ELSE IdleHi = 0

ReadIdleFirst ==
  /\ Goto("idle1", "idle2")
  /\ \E h \in Halves : half' = h /\ IdlePeriodElapsed' = ByteIsZero(h)
  /\ UNCHANGED <<appVars, PrevReport, stateVars, idleVars, usbVars, frame,
                 pipeVars, setup, report, sofs, overwritten>>

\* Faulty variant: only one byte of the timer is tested.
ReadIdleOneByte ==
  /\ Goto("idle2", "compare")
  /\ IdlePeriodElapsed' = ByteIsZero(Other(half))
  /\ half' = "lo"
  /\ UNCHANGED <<appVars, PrevReport, stateVars, idleVars, usbVars, frame,
                 pipeVars, setup, report, sofs, overwritten>>

ReadIdleSecond ==
  /\ Goto("idle2", "compare")
  /\ IdlePeriodElapsed' = (IdlePeriodElapsed /\ ByteIsZero(Other(half)))
  /\ half' = "lo"
  /\ UNCHANGED <<appVars, PrevReport, stateVars, idleVars, usbVars, frame,
                 pipeVars, setup, report, sofs, overwritten>>

\* Faulty variant: the comparison stops before the output byte.
ButtonsChanged == report.X # PrevReport.X \/ report.Button # PrevReport.Button

StatesChanged == report # PrevReport

\* Faulty variant: an elapsed idle period does not cause a send.
CompareReportsOnly ==
  /\ Goto("compare", IF StatesChanged THEN "load1" ELSE "saveFrame")
  /\ PrevReport' = report
  /\ UNCHANGED <<appVars, stateVars, idleVars, usbVars, frame, pipeVars, setup,
                 locals, sofs, overwritten>>

\* memcmp and memcpy of PrevReportINBuffer, and the decision to send.
CompareReports ==
  /\ Goto("compare",
          IF StatesChanged \/ IdlePeriodElapsed THEN "load1" ELSE "saveFrame")
  /\ PrevReport' = report
  /\ UNCHANGED <<appVars, stateVars, idleVars, usbVars, frame, pipeVars, setup,
                 locals, sofs, overwritten>>

\* One byte of a 16-bit store of n to IdleMSRemaining.
StoreByte(h, n) ==
  /\ IdleHi' = IF h = "hi" THEN n \div ByteBase ELSE IdleHi
  /\ IdleLo' = IF h = "lo" THEN n % ByteBase ELSE IdleLo

LoadIdleFirst ==
  /\ Goto("load1", "load2")
  /\ \E h \in Halves : half' = h /\ StoreByte(h, IdleCount)
  /\ period' = IdleCount /\ due' = IdleCount
  /\ UNCHANGED <<appVars, PrevReport, stateVars, usbVars, frame, pipeVars,
                 setup, report, IdlePeriodElapsed, sofs, overwritten>>

LoadIdleSecond ==
  /\ Goto("load2", "write")
  /\ StoreByte(Other(half), IdleCount)
  /\ half' = "lo"
  /\ UNCHANGED <<appVars, PrevReport, stateVars, period, due, usbVars, frame,
                 pipeVars, setup, report, IdlePeriodElapsed, sofs, overwritten>>

\* Endpoint_Write_Stream_LE and Endpoint_ClearIN.  The stream's error code is
\* ignored: on an endpoint a bus reset has disabled the report is lost.
WriteReport ==
  /\ Goto("write", "saveFrame")
  /\ bank' = IF epEnabled THEN report ELSE bank
  /\ overwritten' = (overwritten /\ ~epEnabled)
  /\ UNCHANGED <<appVars, PrevReport, stateVars, idleVars, usbVars, frame,
                 hostIn, setup, locals, sofs>>

SaveFrame ==
  /\ Goto("saveFrame", "usb")
  /\ PrevFrameNum' \in GetFrameNumber
  /\ report' = ZeroReport /\ IdlePeriodElapsed' = FALSE
  /\ UNCHANGED <<appVars, PrevReport, UsingReportProtocol, IdleCount, idleVars,
                 usbVars, frame, pipeVars, setup, half, sofs, overwritten>>

-----------------------------------------------------------------------------
(***************************************************************************)
(* USB_USBTask: the control request that is waiting, if any.  A request    *)
(* whose data stage the host breaks off leaves the same trace as one that  *)
(* completes, except that the bytes of an output report that never came    *)
(* are whatever the stack held.                                            *)
(***************************************************************************)
Received(kind) == pc = "usb" /\ setup.bRequest = kind
Handled == pc' = "state" /\ setup' = NoRequest /\ sofs' = 0

NoSetup ==
  /\ Received("none") /\ Handled
  /\ UNCHANGED <<appVars, PrevReport, stateVars, idleVars, usbVars, frame,
                 pipeVars, locals, overwritten>>

\* The created report replaces PrevReportINBuffer, whoever gets to see it.
GetReport ==
  /\ Received("GetReport") /\ Handled
  /\ PrevReport' = CreateHIDReport
  /\ overwritten' = TRUE
  /\ UNCHANGED <<appVars, stateVars, idleVars, usbVars, frame, pipeVars, locals>>

\* CALLBACK_HID_Device_ProcessHIDReport runs whatever the stream returned.
SetReport ==
  /\ Received("SetReport") /\ Handled
  /\ \E aborted \in BOOLEAN :
       saved' \in IF aborted THEN Outs ELSE {setup.arg}
  /\ PORTD' = saved'
  /\ UNCHANGED <<PINB, PrevReport, stateVars, idleVars, usbVars, frame,
                 pipeVars, locals, overwritten>>

\* The duration is the high byte of wValue: (wValue & 0xFF00) >> 6.
SetIdle ==
  /\ Received("SetIdle") /\ Handled
  /\ IdleCount' = 4 * setup.arg
  /\ UNCHANGED <<appVars, PrevReport, UsingReportProtocol, PrevFrameNum,
                 idleVars, usbVars, frame, pipeVars, locals, overwritten>>

SetProtocol ==
  /\ Received("SetProtocol") /\ Handled
  /\ UsingReportProtocol' = (setup.arg # 0)
  /\ UNCHANGED <<appVars, PrevReport, PrevFrameNum, IdleCount, idleVars,
                 usbVars, frame, pipeVars, locals, overwritten>>

\* GetIdle and GetProtocol answer from State and change nothing.
GetIdleOrProtocol ==
  /\ Received("GetIdle") \/ Received("GetProtocol")
  /\ Handled
  /\ UNCHANGED <<appVars, PrevReport, stateVars, idleVars, usbVars, frame,
                 pipeVars, locals, overwritten>>

(***************************************************************************)
(* SetConfiguration marks the device configured and calls                  *)
(* EVENT_USB_Device_ConfigurationChanged, hence                            *)
(* HID_Device_ConfigureEndpoints: State is cleared byte by byte, then the  *)
(* endpoint is configured and start-of-frame events are enabled.           *)
(* PrevReportINBuffer is in Config and keeps its contents.                 *)
(***************************************************************************)
Configure ==
  /\ Received("SetConfiguration")
  /\ pc' = "clear1" /\ setup' = NoRequest
  /\ configured' = TRUE
  /\ PrevFrameNum' = 0 /\ UsingReportProtocol' = TRUE
  /\ IdleCount' = IdleDefault
  /\ UNCHANGED <<appVars, PrevReport, idleVars, sofEnabled, epEnabled, frame,
                 pipeVars, locals, sofs, overwritten>>

ClearIdleFirst ==
  /\ Goto("clear1", "clear2")
  /\ \E h \in Halves : half' = h /\ StoreByte(h, 0)
  /\ period' = 0 /\ due' = 0
  /\ UNCHANGED <<appVars, PrevReport, stateVars, usbVars, frame, pipeVars,
                 setup, report, IdlePeriodElapsed, sofs, overwritten>>

ClearIdleSecond ==
  /\ Goto("clear2", "enable")
  /\ StoreByte(Other(half), 0)
  /\ half' = "lo"
  /\ UNCHANGED <<appVars, PrevReport, stateVars, period, due, usbVars, frame,
                 pipeVars, setup, report, IdlePeriodElapsed, sofs, overwritten>>

EnableEndpoint ==
  /\ Goto("enable", "state")
  /\ epEnabled' = TRUE /\ sofEnabled' = TRUE
  /\ bank' = NoReport /\ hostIn' = NoReport
  /\ sofs' = 0
  /\ UNCHANGED <<appVars, PrevReport, stateVars, idleVars, configured, frame,
                 setup, locals, overwritten>>

-----------------------------------------------------------------------------
(***************************************************************************)
(* The interrupt handler, the host and the buttons.                        *)
(***************************************************************************)

\* Faulty variant: the timer runs on below zero.
MillisecondElapsedUnchecked ==
  /\ IdleLo' = IF IdleLo > 0 THEN IdleLo - 1 ELSE ByteBase - 1
  /\ IdleHi' = IF IdleLo = 0 THEN IdleHi - 1 ELSE IdleHi
  /\ due' = IF due > 0 THEN due - 1 ELSE 0
  /\ period' = period

\* Faulty variant: the decrement does not borrow from the high byte.
MillisecondElapsedByte ==
  /\ IdleLo' = IF IdleLo > 0 THEN IdleLo - 1
               ELSE IF IdleHi > 0 THEN ByteBase - 1 ELSE 0
  /\ IdleHi' = IdleHi
  /\ due' = IF due > 0 THEN due - 1 ELSE 0
  /\ period' = period

\* HID_Device_MillisecondElapsed: the 16-bit decrement borrows across bytes.
MillisecondElapsed ==
  /\ IdleLo' = IF IdleLo > 0 THEN IdleLo - 1
               ELSE IF IdleHi > 0 THEN ByteBase - 1 ELSE 0
  /\ IdleHi' = IF IdleLo = 0 /\ IdleHi > 0 THEN IdleHi - 1 ELSE IdleHi
  /\ due' = IF due > 0 THEN due - 1 ELSE 0
  /\ period' = period

\* A frame begins: the controller counts it and, once SOF events are enabled,
\* the handler runs to its end before the main loop goes on.
StartOfFrame ==
  /\ sofs < LoopFrames
  /\ sofs' = sofs + 1
  /\ frame' = NextFrame
  /\ IF sofEnabled THEN MillisecondElapsed ELSE UNCHANGED idleVars
  /\ UNCHANGED <<appVars, PrevReport, stateVars, usbVars, pipeVars, setup, pc,
                 locals, overwritten>>

\* The reset handler leaves the Configured state; the controller disables the
\* endpoint and abandons the transfers in progress.  Configuring the control
\* endpoint goes over all endpoints and may enable this one again, emptied.
BusReset ==
  /\ CanReset
  /\ configured' = FALSE /\ epEnabled' \in {FALSE, epEnabled}
  /\ bank' = NoReport /\ hostIn' = NoReport
  /\ setup' = NoRequest
  /\ UNCHANGED <<appVars, PrevReport, stateVars, idleVars, sofEnabled, frame,
                 pc, locals, sofs, overwritten>>

\* The host configures the device it has reset, then talks to the interface.
HostRequest ==
  /\ setup = NoRequest
  /\ \/ ~configured /\ setup' = SetConfiguration
     \/ configured /\ setup' \in Requests
  /\ UNCHANGED <<appVars, PrevReport, stateVars, idleVars, usbVars, frame,
                 pipeVars, pc, locals, sofs, overwritten>>

\* The interrupt IN transfer: the host takes the report out of the bank.
HostPoll ==
  /\ bank # NoReport
  /\ hostIn' = bank /\ bank' = NoReport
  /\ UNCHANGED <<appVars, PrevReport, stateVars, idleVars, usbVars, frame,
                 setup, pc, locals, sofs, overwritten>>

PressOrRelease ==
  /\ PINB' \in Pins \ {PINB}
  /\ UNCHANGED <<saved, PORTD, PrevReport, stateVars, idleVars, usbVars, frame,
                 pipeVars, setup, pc, locals, sofs, overwritten>>

HIDTask == \/ CheckState \/ CheckFrame \/ CheckBank \/ CreateReport
           \/ ReadIdleFirst \/ ReadIdleSecond \/ CompareReports
           \/ LoadIdleFirst \/ LoadIdleSecond \/ WriteReport \/ SaveFrame

USBTask == \/ NoSetup \/ GetReport \/ SetReport \/ SetIdle \/ SetProtocol
           \/ GetIdleOrProtocol \/ Configure \/ ClearIdleFirst
           \/ ClearIdleSecond \/ EnableEndpoint

Next == \/ HIDTask \/ USBTask
        \/ StartOfFrame \/ BusReset \/ HostRequest \/ HostPoll \/ PressOrRelease

Spec == Init /\ [][Next]_vars

\* The main loop never stops, a frame begins every millisecond and the host
\* polls the endpoint at its interval.
Fairness ==
  /\ WF_vars(HIDTask \/ USBTask)
  /\ WF_vars(StartOfFrame)
  /\ WF_vars(HostPoll)

FairSpec == Spec /\ Fairness

-----------------------------------------------------------------------------
TypeOK ==
  /\ PINB \in Pins /\ saved \in Outs /\ PORTD \in Outs \union {255}
  /\ PrevReport \in Reports \union {ZeroReport}
  /\ report \in Reports \union {ZeroReport}
  /\ UsingReportProtocol \in BOOLEAN /\ PrevFrameNum \in Nat
  /\ IdleCount \in 0..(ByteBase * ByteBase - 1)
  /\ IdleHi \in 0..(ByteBase - 1) /\ IdleLo \in 0..(ByteBase - 1)
  /\ period \in Nat /\ due \in Nat
  /\ configured \in BOOLEAN /\ sofEnabled \in BOOLEAN /\ epEnabled \in BOOLEAN
  /\ frame \in 0..(FrameMod - 1)
  /\ bank \in Reports \union {NoReport} /\ hostIn \in Reports \union {NoReport}
  /\ setup \in Requests \union {SetConfiguration, NoRequest}
  /\ pc \in Labels /\ half \in Halves /\ IdlePeriodElapsed \in BOOLEAN
  /\ sofs \in 0..LoopFrames /\ overwritten \in BOOLEAN

\* What the IN endpoint last gave the host, or is about to.
Handed == IF bank # NoReport THEN bank ELSE hostIn

\* Between the comparison and Endpoint_ClearIN the buffer is ahead of the host.
Sending == pc \in {"load1", "load2", "write"}

(***************************************************************************)
(* PrevReportINBuffer is what the host knows.  Once a report has gone out  *)
(* on the IN endpoint, and unless GetReport has replaced the buffer since, *)
(* the buffer HID_Device_USBTask compares with holds the report the host   *)
(* took last or will take next: a difference is always news to the host.   *)
(***************************************************************************)
BufferMatchesHost ==
  (Handed # NoReport /\ ~overwritten /\ ~Sending) => PrevReport = Handed

(***************************************************************************)
(* A report waiting in the bank is never overwritten before the host has   *)
(* read it: the bank that HID_Device_USBTask found free is still free when *)
(* it writes the report several steps later.                               *)
(***************************************************************************)
BankNotOverrun == [][bank # NoReport => bank' \in {bank, NoReport}]_vars

(***************************************************************************)
(* HID_Device_USBTask, the class requests and the interrupt implement the  *)
(* pipe of ReportPipe: a sampled report is dropped only when it is the one *)
(* in PrevReportINBuffer or the endpoint has been disabled, and sent only  *)
(* when it differs from the buffer or an idle rate is set; what is sent is *)
(* what the host takes.                                                    *)
(***************************************************************************)
Sampled == pc \in {"idle1", "idle2", "compare", "load1", "load2", "write"}
Transit == IF bank # NoReport THEN bank ELSE IF Sampled THEN report ELSE NoReport

Pipe == INSTANCE ReportPipe
          WITH Values <- Reports \union {ZeroReport}, Nothing <- NoReport,
               panel <- CreateHIDReport, told <- PrevReport, transit <- Transit,
               sent <- bank # NoReport \/ Sending, seen <- hostIn,
               up <- epEnabled, rate <- IdleCount
ImplementsPipe == Pipe!Spec

(***************************************************************************)
(* With an idle rate of zero the device keeps quiet until something        *)
(* changes: HID_Device_USBTask does not send the host the report it        *)
(* already has.                                                            *)
(***************************************************************************)
QuietWhenIdleIsInfinite ==
  (pc = "write" /\ report = Handed /\ ~overwritten) => IdleCount # 0

(***************************************************************************)
(* A repeated report never leaves before the idle period has run out, as   *)
(* long as the period fits in one byte of IdleMSRemaining.                 *)
(***************************************************************************)
Early == IdlePeriodElapsed /\ pc = "compare" /\ due > 0
ShortIdleNotEarly == period < ByteBase => ~Early

(***************************************************************************)
(* IdleMSRemaining is "Total number of milliseconds remaining before the   *)
(* idle period elapsed" (HIDClassDevice.h): when the main loop finds it    *)
(* zero the period is over, whatever its length.                           *)
(***************************************************************************)
IdleNotEarly == ~Early

(***************************************************************************)
(* A frame that begins between the two bytes of a store to IdleMSRemaining *)
(* moves the end of the idle period by at most the worth of one borrow:    *)
(* between stores the timer and the time really left differ by no more     *)
(* than ByteBase.                                                          *)
(***************************************************************************)
IdleDriftBounded ==
  pc \notin {"load2", "clear2"} =>
    IdleMSRemaining \in (due - ByteBase)..(due + ByteBase)

(***************************************************************************)
(* No change is lost: if the buttons and the output byte stop changing     *)
(* while the device stays configured, the host ends up with them on the IN *)
(* endpoint.  It needs an idle rate for that only if PrevReportINBuffer    *)
(* holds a report it was not given there: one it fetched with GetReport,   *)
(* or one from before a bus reset.                                         *)
(***************************************************************************)
Settles == <>[]configured /\ <>[][CreateHIDReport' = CreateHIDReport]_vars
Informed == Sending \/ PrevReport \in {ZeroReport, Handed}
Freshness ==
  (Settles /\ (<>[]Informed \/ <>[](IdleCount # 0)))
     => <>[](hostIn = CreateHIDReport)

(***************************************************************************)
(* With an idle rate the host keeps hearing from a configured device even  *)
(* when nothing changes.                                                   *)
(***************************************************************************)
IdleRepeats ==
  (<>[]configured /\ <>[](IdleCount # 0)) => []<>(bank # NoReport)

(***************************************************************************)
(* PrevReportINBuffer serves "to detect report changes that must be sent   *)
(* immediately to the host" (HIDClassDevice.h): whatever else the host     *)
(* asks for, it ends up with the buttons and the output byte on the IN     *)
(* endpoint once they stop changing.                                       *)
(***************************************************************************)
ChangesSent == Settles => <>[](hostIn = CreateHIDReport)
==============================================================================
