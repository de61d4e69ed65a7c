---------------------------- MODULE ControlStream ----------------------------
(***************************************************************************)
(* Control transfers with a data stage, packet by packet: the streams      *)
(* Endpoint_Write_Control_*Stream_LE and Endpoint_Read_Control_Stream_LE,  *)
(* the handlers that call them (USB_Device_GetDescriptor and the SetReport *)
(* case of HID_Device_ProcessControlRequest), and the stall at the end of  *)
(* USB_Device_ProcessControlRequest.  The host may break a transfer off at *)
(* any point with a new SETUP packet, a reset, or by going away.           *)
(*                                                                         *)
(* Bytes are counted, not named: packet contents are positions in the data *)
(* of a request.  `current' tells whether the request the device works on  *)
(* is still the one the host is waiting for; a packet remembers it.        *)
(***************************************************************************)
EXTENDS Integers

CONSTANTS
  EPSize,       \* USB_Device_ControlEndpointSize: 8 on the device
  Sizes,        \* sizes of the descriptors, 0 for one that does not exist
  Asked,        \* the lengths the host asks for, or has to send
  CanAbort,     \* the host breaks transfers off with a new SETUP packet
  CanReset,     \* the host resets the bus
  CanLeave      \* the bus is suspended, or the cable pulled

ASSUME StreamAssumption ==
  /\ EPSize \in Nat \ {0}
  /\ Sizes \subseteq Nat
  /\ Asked \subseteq Nat \ {0} /\ Asked # {}
  /\ CanAbort \in BOOLEAN /\ CanReset \in BOOLEAN /\ CanLeave \in BOOLEAN

VARIABLES
  pc, Length, LastPacketFull,   \* main loop and the locals of the streams
  request, current,             \* USB_ControlRequest
  USB_DeviceState,              \* "Unattached", "Suspended", or "up" for the rest
  RXSTPI, STALLRQ, inBank, outBank,     \* the control endpoint and its bank
  fifo,                         \* the SETUP packet, and the host's request
  phase, stage, moved,          \* the host: how far its transfer has come
  applied,                      \* history: the last report was applied whole
  calm                          \* the host disturbs the device no more

locals   == <<Length, LastPacketFull>>
epVars   == <<RXSTPI, STALLRQ, inBank, outBank>>
hostVars == <<fifo, phase, stage, moved>>
vars == <<pc, locals, request, current, USB_DeviceState, epVars, hostVars,
          applied, calm>>

Requests == [dir : {"in"}, wLength : Asked, size : Sizes]
            \union [dir : {"out"}, wLength : Asked, size : {0}]

Smaller(a, b) == IF a < b THEN a ELSE b

\* A packet: whether the request is the host's, its first byte, its length.
Packet(from, n) == [current |-> current, from |-> from, n |-> n]
Empty == [current |-> FALSE, from |-> 0, n |-> -1]

Labels == {"idle", "write", "fill", "waitOut", "clearOut",
           "read", "take", "waitIn", "clearIn", "process", "tail"}

Init ==
  /\ pc = "idle" /\ Length = 0 /\ LastPacketFull = FALSE
  /\ request \in Requests /\ current = FALSE
  /\ USB_DeviceState = "up"
  /\ RXSTPI = FALSE /\ STALLRQ = FALSE /\ inBank = Empty /\ outBank = Empty
  /\ fifo = request /\ phase = "idle" /\ stage = "data" /\ moved = 0
  /\ applied = TRUE /\ calm = FALSE

-----------------------------------------------------------------------------
(***************************************************************************)
(* The device.  The request is read and its SETUP packet cleared in one    *)
(* step: it takes microseconds, and a host waits much longer before it     *)
(* tries again.                                                            *)
(***************************************************************************)
Goto(from, to) == pc = from /\ pc' = to

\* Ways out of a stream before its end.
Gone == USB_DeviceState \in {"Unattached", "Suspended"}
HostAborted == Gone \/ RXSTPI

\* Faulty variant: more is sent than the host asked for.
StreamLengthUnclipped(r) == IF r.dir = "in" THEN r.size ELSE r.wLength

\* Bytes of the data stage the device has yet to send or to take.
StreamLength(r) == IF r.dir = "in" THEN Smaller(r.size, r.wLength) ELSE r.wLength

\* USB_Device_GetDescriptor: without a descriptor the SETUP packet stays.
GetDescriptor ==
  /\ RXSTPI /\ fifo.dir = "in"
  /\ Goto("idle", IF fifo.size = 0 THEN "tail" ELSE "write")
  /\ RXSTPI' = (fifo.size = 0)
  /\ request' = fifo /\ current' = TRUE
  /\ Length' = StreamLength(fifo) /\ LastPacketFull' = FALSE
  /\ UNCHANGED <<USB_DeviceState, STALLRQ, inBank, outBank, hostVars, applied, calm>>

SetReport ==
  /\ RXSTPI /\ fifo.dir = "out"
  /\ Goto("idle", "read")
  /\ RXSTPI' = FALSE
  /\ request' = fifo /\ current' = TRUE
  /\ Length' = StreamLength(fifo)
  /\ applied' = FALSE
  /\ UNCHANGED <<LastPacketFull, USB_DeviceState, STALLRQ, inBank, outBank,
                 hostVars, calm>>

MoreToWrite == Length > 0 \/ LastPacketFull

\* Faulty variant: the loop does not look for the next SETUP packet.
WriteTestsUnaware ==
  /\ Goto("write", IF Gone THEN "clearOut"
                   ELSE IF outBank # Empty THEN "waitOut" ELSE "fill")
  /\ UNCHANGED <<locals, request, current, USB_DeviceState, epVars, hostVars,
                 applied, calm>>

\* One round of the loop of Endpoint_Write_Control_Stream_LE: the tests.
WriteTests ==
  /\ Goto("write", IF HostAborted THEN "clearOut"
                   ELSE IF outBank # Empty THEN "waitOut" ELSE "fill")
  /\ UNCHANGED <<locals, request, current, USB_DeviceState, epVars, hostVars,
                 applied, calm>>

\* Faulty variant: a full packet is counted whatever was left.
WritePacketWhole ==
  LET n == Smaller(Length, EPSize)
  IN  /\ pc = "fill"
      /\ IF inBank = Empty
           THEN /\ inBank' = Packet(StreamLength(request) - Length, n)
                /\ Length' = Length - EPSize /\ LastPacketFull' = FALSE
           ELSE UNCHANGED <<inBank, locals>>
      /\ pc' = IF Length' # 0 THEN "write" ELSE "waitOut"
      /\ UNCHANGED <<request, current, USB_DeviceState, RXSTPI, STALLRQ, outBank,
                     hostVars, applied, calm>>

\* Faulty variant: no empty packet follows a full one.
WritePacketNoZLP ==
  LET n == Smaller(Length, EPSize)
  IN  /\ pc = "fill"
      /\ IF inBank = Empty
           THEN /\ inBank' = Packet(StreamLength(request) - Length, n)
                /\ Length' = Length - n /\ LastPacketFull' = FALSE
           ELSE UNCHANGED <<inBank, locals>>
      /\ pc' = IF MoreToWrite' THEN "write" ELSE "waitOut"
      /\ UNCHANGED <<request, current, USB_DeviceState, RXSTPI, STALLRQ, outBank,
                     hostVars, applied, calm>>

\* Then the packet, if the bank is free; a SETUP packet may have freed it.
WritePacket ==
  LET n == Smaller(Length, EPSize)
  IN  /\ pc = "fill"
      /\ IF inBank = Empty
           THEN /\ inBank' = Packet(StreamLength(request) - Length, n)
                /\ Length' = Length - n /\ LastPacketFull' = (n = EPSize)
           ELSE UNCHANGED <<inBank, locals>>
      /\ pc' = IF MoreToWrite' THEN "write" ELSE "waitOut"
      /\ UNCHANGED <<request, current, USB_DeviceState, RXSTPI, STALLRQ, outBank,
                     hostVars, applied, calm>>

WaitForOUT ==
  /\ outBank # Empty \/ HostAborted
  /\ Goto("waitOut", "clearOut")
  /\ UNCHANGED <<locals, request, current, USB_DeviceState, epVars, hostVars,
                 applied, calm>>

\* USB_Device_GetDescriptor, after the stream, whatever it returned.
ClearOUT ==
  /\ Goto("clearOut", "tail")
  /\ outBank' = Empty
  /\ UNCHANGED <<locals, request, current, USB_DeviceState, RXSTPI, STALLRQ,
                 inBank, hostVars, applied, calm>>

\* One round of the loop of Endpoint_Read_Control_Stream_LE: the tests.
ReadTests ==
  /\ Goto("read", IF HostAborted THEN "clearIn" ELSE "take")
  /\ UNCHANGED <<locals, request, current, USB_DeviceState, epVars, hostVars,
                 applied, calm>>

\* Faulty variant: a packet that is not the last one ends the stream.
ReadPacketOnce ==
  /\ pc = "take"
  /\ Length' = IF outBank = Empty THEN Length ELSE Length - Smaller(Length, outBank.n)
  /\ outBank' = Empty
  /\ pc' = IF outBank = Empty THEN "read" ELSE "waitIn"
  /\ UNCHANGED <<LastPacketFull, request, current, USB_DeviceState, RXSTPI,
                 STALLRQ, inBank, hostVars, applied, calm>>

\* Then the packet, if there is one: bytes beyond Length are dropped.
ReadPacket ==
  /\ pc = "take"
  /\ Length' = IF outBank = Empty THEN Length ELSE Length - Smaller(Length, outBank.n)
  /\ outBank' = Empty
  /\ pc' = IF Length' > 0 THEN "read" ELSE "waitIn"
  /\ UNCHANGED <<LastPacketFull, request, current, USB_DeviceState, RXSTPI,
                 STALLRQ, inBank, hostVars, applied, calm>>

WaitForIN ==
  /\ inBank = Empty \/ Gone
  /\ Goto("waitIn", "clearIn")
  /\ UNCHANGED <<locals, request, current, USB_DeviceState, epVars, hostVars,
                 applied, calm>>

\* SetReport, after the stream, whatever it returned: the empty packet of the
\* status stage, then the callback.
ClearIN ==
  /\ Goto("clearIn", "process")
  /\ inBank' = IF inBank = Empty THEN Packet(request.wLength - Length, 0) ELSE inBank
  /\ UNCHANGED <<locals, request, current, USB_DeviceState, RXSTPI, STALLRQ,
                 outBank, hostVars, applied, calm>>

ProcessHIDReport ==
  /\ Goto("process", "tail")
  /\ applied' = (Length = 0)
  /\ UNCHANGED <<locals, request, current, USB_DeviceState, epVars, hostVars,
                 calm>>

\* Faulty variant: the SETUP packet is cleared, but the transfer not stalled.
ClearUnhandled ==
  /\ Goto("tail", "idle")
  /\ RXSTPI' = FALSE
  /\ Length' = 0 /\ LastPacketFull' = FALSE
  /\ UNCHANGED <<request, current, USB_DeviceState, STALLRQ, inBank, outBank,
                 hostVars, applied, calm>>

\* A SETUP packet nobody has cleared is refused, the next one included.
StallUnhandled ==
  /\ Goto("tail", "idle")
  /\ RXSTPI' = FALSE
  /\ STALLRQ' = (STALLRQ \/ RXSTPI)
  /\ Length' = 0 /\ LastPacketFull' = FALSE
  /\ UNCHANGED <<request, current, USB_DeviceState, inBank, outBank, hostVars, applied,
                 calm>>

-----------------------------------------------------------------------------
(***************************************************************************)
(* The host and the controller.                                            *)
(***************************************************************************)

\* The control endpoint takes nothing but SETUP packets while one is unread.
Answers == USB_DeviceState = "up" /\ ~RXSTPI /\ ~STALLRQ

\* A SETUP packet ends what came before it and empties the bank.
SendSetup ==
  /\ USB_DeviceState = "up" /\ phase # "open"
  /\ fifo' \in Requests
  /\ phase' = "open" /\ stage' = "data" /\ moved' = 0
  /\ current' = FALSE
  /\ RXSTPI' = TRUE /\ STALLRQ' = FALSE /\ inBank' = Empty /\ outBank' = Empty
  /\ UNCHANGED <<pc, locals, request, USB_DeviceState, applied, calm>>

\* A read's data stage ends with a short packet or with the last byte asked for.
HostIn ==
  /\ Answers /\ phase = "open" /\ fifo.dir = "in" /\ stage = "data"
  /\ inBank # Empty /\ inBank' = Empty
  /\ moved' = moved + inBank.n
  /\ stage' = IF inBank.n < EPSize \/ moved' >= fifo.wLength THEN "status" ELSE "data"
  /\ UNCHANGED <<pc, locals, request, current, USB_DeviceState, RXSTPI, STALLRQ,
                 outBank, fifo, phase, applied, calm>>

HostStatusOut ==
  /\ Answers /\ phase = "open" /\ fifo.dir = "in" /\ stage = "status"
  /\ outBank = Empty /\ outBank' = Packet(moved, 0)
  /\ phase' = "done"
  /\ UNCHANGED <<pc, locals, request, current, USB_DeviceState, RXSTPI, STALLRQ,
                 inBank, fifo, stage, moved, applied, calm>>

HostOut ==
  /\ Answers /\ phase = "open" /\ fifo.dir = "out" /\ stage = "data"
  /\ outBank = Empty
  /\ outBank' = Packet(moved, Smaller(EPSize, fifo.wLength - moved))
  /\ moved' = moved + outBank'.n
  /\ stage' = IF moved' = fifo.wLength THEN "status" ELSE "data"
  /\ UNCHANGED <<pc, locals, request, current, USB_DeviceState, RXSTPI, STALLRQ,
                 inBank, fifo, phase, applied, calm>>

HostStatusIn ==
  /\ Answers /\ phase = "open" /\ fifo.dir = "out" /\ stage = "status"
  /\ inBank # Empty /\ inBank' = Empty
  /\ phase' = "done"
  /\ UNCHANGED <<pc, locals, request, current, USB_DeviceState, RXSTPI, STALLRQ,
                 outBank, fifo, stage, moved, applied, calm>>

HostTransacts == HostIn \/ HostStatusOut \/ HostOut \/ HostStatusIn

HostStalled ==
  /\ phase = "open" /\ ~RXSTPI /\ STALLRQ /\ USB_DeviceState = "up"
  /\ phase' = "failed"
  /\ UNCHANGED <<pc, locals, request, current, USB_DeviceState, epVars, fifo,
                 stage, moved, applied, calm>>

\* The device waits for the host while the host waits for the device.
Waits ==
  \/ pc = "idle"
  \/ pc \in {"write", "fill"} /\ inBank # Empty /\ outBank = Empty
  \/ pc = "waitOut" /\ outBank = Empty
  \/ pc \in {"read", "take"} /\ outBank = Empty
  \/ pc = "waitIn" /\ inBank # Empty
HostWaits ==
  /\ phase = "open" /\ ~STALLRQ
  /\ \/ fifo.dir = "in" /\ stage = "data" /\ inBank = Empty
     \/ fifo.dir = "in" /\ stage = "status" /\ outBank # Empty
     \/ fifo.dir = "out" /\ stage = "data" /\ outBank # Empty
     \/ fifo.dir = "out" /\ stage = "status" /\ inBank = Empty
TimedOut == Waits /\ HostWaits /\ ~HostAborted

HostGivesUp ==
  /\ phase = "open" /\ (TimedOut \/ (CanAbort /\ ~calm))
  /\ phase' = "failed"
  /\ UNCHANGED <<pc, locals, request, current, USB_DeviceState, epVars, fifo,
                 stage, moved, applied, calm>>

Broken == IF phase = "open" THEN "failed" ELSE phase

HostReset ==
  /\ CanReset /\ ~calm /\ USB_DeviceState = "up"
  /\ phase' = Broken
  /\ RXSTPI' = FALSE /\ STALLRQ' = FALSE /\ inBank' = Empty /\ outBank' = Empty
  /\ UNCHANGED <<pc, locals, request, current, USB_DeviceState, fifo, stage,
                 moved, applied, calm>>

\* The bus is suspended only between transfers; the cable is pulled at will.
Leave ==
  /\ CanLeave /\ ~calm /\ USB_DeviceState = "up"
  /\ \/ phase # "open" /\ USB_DeviceState' = "Suspended"
     \/ USB_DeviceState' = "Unattached"
  /\ phase' = Broken
  /\ UNCHANGED <<pc, locals, request, current, epVars, fifo, stage, moved,
                 applied, calm>>

\* A plugged-in device is reset before the host talks to it.
Return ==
  /\ Gone /\ USB_DeviceState' = "up"
  /\ IF USB_DeviceState = "Unattached"
       THEN RXSTPI' = FALSE /\ STALLRQ' = FALSE /\ inBank' = Empty /\ outBank' = Empty
       ELSE UNCHANGED epVars
  /\ UNCHANGED <<pc, locals, request, current, hostVars, applied, calm>>

CalmDown ==
  /\ ~calm /\ calm' = TRUE
  /\ UNCHANGED <<pc, locals, request, current, USB_DeviceState, epVars, hostVars,
                 applied>>

-----------------------------------------------------------------------------
Device == \/ GetDescriptor \/ SetReport \/ WriteTests \/ WritePacket
          \/ WaitForOUT \/ ClearOUT \/ ReadTests \/ ReadPacket \/ WaitForIN
          \/ ClearIN \/ ProcessHIDReport \/ StallUnhandled

Host == \/ SendSetup \/ HostTransacts \/ HostStalled \/ HostGivesUp
        \/ HostReset \/ Leave \/ Return \/ CalmDown

Next == Device \/ Host

Spec == Init /\ [][Next]_vars

\* The main loop runs, and the host does its part of a transfer.
Fairness ==
  /\ WF_vars(Device) /\ WF_vars(HostTransacts \/ HostStalled)
  /\ WF_vars(TimedOut /\ HostGivesUp)
  /\ WF_vars(SendSetup) /\ WF_vars(Return)

FairSpec == Spec /\ Fairness

-----------------------------------------------------------------------------
Packets == [current : BOOLEAN, from : Nat, n : 0..EPSize] \union {Empty}

TypeOK ==
  /\ pc \in Labels /\ Length \in Nat /\ LastPacketFull \in BOOLEAN
  /\ request \in Requests /\ current \in BOOLEAN
  /\ USB_DeviceState \in {"up", "Suspended", "Unattached"}
  /\ RXSTPI \in BOOLEAN /\ STALLRQ \in BOOLEAN
  /\ inBank \in Packets /\ outBank \in Packets
  /\ fifo \in Requests /\ phase \in {"idle", "open", "done", "failed"}
  /\ stage \in {"data", "status"} /\ moved \in Nat
  /\ applied \in BOOLEAN /\ calm \in BOOLEAN

(***************************************************************************)
(* No packet of one transfer passes for a packet of another: the packet    *)
(* the host would take belongs to the request it is waiting for and        *)
(* continues where the last one ended, and an acknowledgement is an empty  *)
(* packet; likewise for the packet Endpoint_Read_Control_Stream_LE takes.  *)
(* The surplus empty packet that a stream of full packets may leave in the *)
(* bank, and what an aborted stream still writes there, do no harm.        *)
(***************************************************************************)
NoStalePacket ==
  /\ (Answers /\ phase = "open" /\ inBank # Empty) =>
       /\ inBank.current
       /\ fifo.dir = "in" => inBank.from = moved
       /\ fifo.dir = "out" => inBank.n = 0
  /\ (pc = "take" /\ outBank # Empty /\ ~RXSTPI) =>
       outBank.current /\ outBank.from = request.wLength - Length

(***************************************************************************)
(* An output report that the host has had acknowledged is the one the      *)
(* callback CALLBACK_HID_Device_ProcessHIDReport gets, with all its bytes: *)
(* what breaks a transfer off half-way never looks like success.           *)
(***************************************************************************)
AcknowledgedIsApplied ==
  (phase = "done" /\ fifo.dir = "out") => applied \/ (pc = "process" /\ Length = 0)

(***************************************************************************)
(* The streams, packet by packet and broken off at any point, implement    *)
(* the transfers of ControlTransfer: a completed read has brought exactly  *)
(* the bytes there are, up to those asked for, and a completed write has   *)
(* been read to its last byte by Endpoint_Read_Control_Stream_LE.          *)
(***************************************************************************)
Moved ==
  IF phase \notin {"open", "done"} THEN 0
  ELSE IF fifo.dir = "in" THEN moved
  ELSE IF phase = "done" THEN fifo.wLength
  ELSE IF current THEN request.wLength - Length ELSE 0

Transfer == INSTANCE ControlTransfer
              WITH Requests <- Requests, req <- fifo, phase <- phase, moved <- Moved
ImplementsTransfer == Transfer!Spec

(***************************************************************************)
(* Wherever the last disturbance finds it, the main loop gets out of the   *)
(* stream again: every wait has a way out, by the packet it waits for, the *)
(* next SETUP packet, a suspended bus or the unplugged cable.              *)
(***************************************************************************)
StreamsReturn == calm ~> pc = "idle"

(***************************************************************************)
(* Once the host breaks off no more transfers, transfers go on succeeding, *)
(* except those that ask for a descriptor that does not exist: no aborted  *)
(* stream leaves the endpoint in a state that spoils all later transfers,  *)
(* and no length of data makes both sides wait for each other.             *)
(***************************************************************************)
Refused == phase = "failed" /\ fifo.dir = "in" /\ fifo.size = 0
Served == <>calm => []<>(phase = "done" \/ Refused)
==============================================================================
