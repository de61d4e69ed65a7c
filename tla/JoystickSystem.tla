---------------------------- MODULE JoystickSystem ----------------------------
(***************************************************************************)
(* The joystick and the program of host_app/linux.c, which reads its       *)
(* reports and writes it a byte that goes up by one every 256 turns of its *)
(* loop.  The device lights its lamps with the byte and returns it as the  *)
(* Y axis.                                                                 *)
(*                                                                         *)
(* The interrupt IN endpoint is the one ReportPipe specifies, which the    *)
(* driver of HidDevice implements.  A write of the program is a SetReport  *)
(* transfer: when it returns, the device has the byte and has yet to run   *)
(* its callback, as ControlStream has it.  No bus reset or broken transfer *)
(* occurs here.  The kernel's part is external: it configures the device,  *)
(* sets the idle rate, and keeps reports for the program in a queue that   *)
(* drops what arrives when it is full.                                     *)
(***************************************************************************)
EXTENDS Integers, Sequences

CONSTANTS
  Pins,           \* the readings of PINB that occur
  Bytes,          \* values of the byte written: 256
  LoopsPerByte,   \* turns of the loop for each of them: 256
  QueueMax,       \* reports the kernel keeps for the program: 64
  Rates,          \* the idle rates the kernel may set
  Slack,          \* bound: turns of the loop during one step of the pipe
  Zero,           \* PrevJoystickHIDReportBuffer at start-up
  Nothing         \* no report

Reports == [Button : Pins, Y : 0..(Bytes - 1)]
Values == Reports \union {Zero}

ASSUME SystemAssumption ==
  /\ Pins # {}
  /\ Bytes \in Nat \ {0} /\ LoopsPerByte \in Nat \ {0}
  /\ QueueMax \in Nat \ {0} /\ Slack \in Nat \ {0}
  /\ Rates \subseteq Nat
  /\ Zero \notin Reports /\ Nothing \notin Values

\* A byte lasts longer than the reports of the one before it take to be read,
\* and than the device takes to send one of its own.
ASSUME PaceAssumption ==
  /\ Bytes >= 3
  /\ LoopsPerByte >= QueueMax + 2 * Slack + 1
  /\ LoopsPerByte >= 5 * Slack + 2

VARIABLES
  panel, told, transit, sent, seen, up, rate,   \* the pipe
  PORTD,          \* the lamps
  pending,        \* the byte received, its callback not yet run
  queue,          \* the kernel's queue
  pc, count,      \* the program's position and its counter
  got,            \* the report the program has read last
  lead            \* turns of the loop since the pipe moved

P == INSTANCE ReportPipe

pipeVars == <<panel, told, transit, sent, seen, up, rate>>
vars == <<pipeVars, PORTD, pending, queue, pc, count, got, lead>>

NoByte == -1
Byte(c) == c \div LoopsPerByte

Init ==
  /\ panel \in [Button : Pins, Y : {0}] /\ told = Zero
  /\ transit = Nothing /\ sent = FALSE /\ seen = Nothing
  /\ up = FALSE /\ rate = 0
  /\ PORTD = 255 /\ pending = NoByte
  /\ queue = <<>> /\ pc = "configure" /\ count = 0 /\ got = Nothing /\ lead = 0

-----------------------------------------------------------------------------
(***************************************************************************)
(* The kernel configures the device (HID_Device_ConfigureEndpoints sets an *)
(* idle rate and enables the endpoint) and sets the idle rate it wants.    *)
(***************************************************************************)
SetConfiguration ==
  /\ pc = "configure" /\ pc' = "enable"
  /\ rate' = 500 /\ P!SetRate
  /\ UNCHANGED <<PORTD, pending, queue, count, got, lead>>

EnableEndpoint ==
  /\ pc = "enable" /\ pc' = "setIdle"
  /\ P!Restart /\ up' = TRUE /\ transit' = Nothing
  /\ UNCHANGED <<PORTD, pending, queue, count, got, lead>>

SetIdle ==
  /\ pc = "setIdle" /\ pc' = "feature1"
  /\ rate' \in Rates /\ P!SetRate
  /\ UNCHANGED <<PORTD, pending, queue, count, got, lead>>

\* ioctl(HIDIOCGFEATURE), twice: GetReport on the control endpoint.
GetFeature ==
  /\ \/ pc = "feature1" /\ pc' = "feature2"
     \/ pc = "feature2" /\ pc' = "read"
  /\ P!Ask
  /\ UNCHANGED <<PORTD, pending, queue, count, got, lead>>

-----------------------------------------------------------------------------
(***************************************************************************)
(* The loop of the program, and the callback at the other end.             *)
(***************************************************************************)
\* The descriptor is non-blocking: an empty queue fails the read at once.
Read ==
  /\ pc = "read" /\ pc' = "write"
  /\ IF queue = <<>> THEN UNCHANGED <<queue, got>>
     ELSE got' = Head(queue) /\ queue' = Tail(queue)
  /\ UNCHANGED <<pipeVars, PORTD, pending, count, lead>>

\* The next transfer starts a frame later, when the callback is over.
Send(c, byte) ==
  /\ pc = "write" /\ pc' = "read"
  /\ pending = NoByte /\ lead < Slack
  /\ count' = c /\ pending' = byte
  /\ lead' = lead + 1
  /\ UNCHANGED <<pipeVars, PORTD, queue, got>>

NextCount == (count + 1) % (Bytes * LoopsPerByte)

\* Faulty variant: the counter is not masked.
WriteUnmasked == Send(count + 1, Byte(count + 1))

\* Faulty variant: the low byte of the counter.
WriteLowByte == Send(NextCount, NextCount % Bytes)

\* Faulty variant: the buffer keeps its first contents.
WriteFirstByte == Send(NextCount, 0)

\* count is 32 bits wide; only its two low bytes matter.
Write == Send(NextCount, Byte(NextCount))

ProcessHIDReport ==
  /\ pending # NoByte /\ pending' = NoByte
  /\ panel' = [panel EXCEPT !.Y = pending] /\ PORTD' = pending
  /\ UNCHANGED <<told, transit, sent, seen, up, rate, queue, pc, count, got,
                 lead>>

-----------------------------------------------------------------------------
\* HID_Device_USBTask samples the panel and decides.
Driver ==
  /\ up /\ (P!Sample \/ P!KeepBack \/ P!Send)
  /\ lead' = 0
  /\ UNCHANGED <<PORTD, pending, queue, pc, count, got>>

\* Faulty variant: the newest report is put in front.
PollToFront ==
  /\ P!Deliver
  /\ queue' = IF Len(queue) < QueueMax THEN <<transit>> \o queue ELSE queue
  /\ lead' = 0
  /\ UNCHANGED <<PORTD, pending, pc, count, got>>

\* The host controller polls; hidraw queues the report or drops it.
Poll ==
  /\ P!Deliver
  /\ queue' = IF Len(queue) < QueueMax THEN Append(queue, transit) ELSE queue
  /\ lead' = 0
  /\ UNCHANGED <<PORTD, pending, pc, count, got>>

PressOrRelease ==
  /\ \E b \in Pins \ {panel.Button} : panel' = [panel EXCEPT !.Button = b]
  /\ UNCHANGED <<told, transit, sent, seen, up, rate, PORTD, pending, queue, pc,
                 count, got, lead>>

Start == SetConfiguration \/ EnableEndpoint \/ SetIdle \/ GetFeature
Device == ProcessHIDReport \/ Driver

Next == Start \/ Read \/ Write \/ Device \/ Poll \/ PressOrRelease

Spec == Init /\ [][Next]_vars

\* The kernel and the program run, the device's main loop comes round, and the
\* host controller polls at the endpoint's interval.
Fairness ==
  /\ WF_vars(Start) /\ WF_vars(Read) /\ WF_vars(Write)
  /\ WF_vars(ProcessHIDReport) /\ WF_vars(Driver) /\ WF_vars(Poll)

FairSpec == Spec /\ Fairness

-----------------------------------------------------------------------------
TypeOK ==
  /\ panel \in Reports /\ told \in Values
  /\ transit \in Reports \union {Nothing} /\ sent \in BOOLEAN
  /\ seen \in Reports \union {Nothing} /\ up \in BOOLEAN /\ rate \in Nat
  /\ PORTD \in 0..(Bytes - 1) \union {255}
  /\ pending \in 0..(Bytes - 1) \union {NoByte}
  /\ queue \in Seq(Reports) /\ Len(queue) <= QueueMax
  /\ pc \in {"configure", "enable", "setIdle", "feature1", "feature2", "read",
             "write"}
  /\ count \in 0..(Bytes * LoopsPerByte - 1)
  /\ got \in Reports \union {Nothing} /\ lead \in 0..Slack

\* The reports on their way from the panel to the program, oldest first.
Trail ==
  (IF got = Nothing THEN <<>> ELSE <<got>>) \o queue
     \o (IF transit = Nothing THEN <<>> ELSE <<transit>>) \o <<panel>>

\* How many bytes ago the program began to write y.
Age(y) == (Byte(count) - y) % Bytes

(***************************************************************************)
(* The echo comes back in order: of two reports on their way through the   *)
(* driver, the endpoint and the kernel's queue, the one that entered first *)
(* carries the older byte, although the byte wraps round and full queues   *)
(* drop reports.                                                           *)
(***************************************************************************)
EchoInOrder ==
  \A i \in 1..(Len(Trail) - 1) : Age(Trail[i].Y) >= Age(Trail[i + 1].Y)

(***************************************************************************)
(* The echo the program has is at most two bytes behind the one it writes. *)
(***************************************************************************)
EchoCurrent == got # Nothing => Age(got.Y) <= 2

(***************************************************************************)
(* Every byte comes back to the program time and again, once the buttons   *)
(* rest, if the kernel wants no repetitions: with an idle rate, a program  *)
(* that is held up finds a queue full of them.                             *)
(***************************************************************************)
ButtonsRest == <>[][panel'.Button = panel.Button]_vars
EchoHeard ==
  (ButtonsRest /\ <>[](rate = 0)) =>
    \A b \in 0..(Bytes - 1) : []<>(got # Nothing /\ got.Y = b)

(***************************************************************************)
(* The program learns the buttons at any idle rate, even if GetReport has  *)
(* hidden a change from the IN endpoint or the queue has dropped it: the   *)
(* bytes the program writes change the report, and so have it sent again.  *)
(***************************************************************************)
ButtonsHeard ==
  ButtonsRest => <>[](got # Nothing /\ got.Button = panel.Button)
==============================================================================
