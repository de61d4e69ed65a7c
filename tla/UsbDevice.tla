------------------------------ MODULE UsbDevice ------------------------------
(***************************************************************************)
(* The device half of the USB stack: USB_DeviceState and everything that   *)
(* changes it.  The main loop (HID_Device_USBTask, then USB_USBTask and    *)
(* the standard requests of DeviceStandardReq.c) runs against the          *)
(* interrupt handler USB_GEN_vect, which handles VBUS, suspend, wake-up    *)
(* and reset in that order, and against a host that enumerates, resets,    *)
(* suspends, abandons transfers and is unplugged.                          *)
(*                                                                         *)
(* The main loop is cut at its accesses to what the handler or the         *)
(* controller may change.  The handler cannot be interrupted by the main   *)
(* loop, so the main loop moves only while no enabled interrupt is pending *)
(* (Runs); the bus may move between two stages of the handler.             *)
(***************************************************************************)
EXTENDS Integers, FiniteSets

CONSTANTS
  Kinds,        \* requests beyond enumeration that this host makes
  CanReset,     \* the host resets the bus at any time
  CanSuspend,   \* the host lets the bus idle
  CanUnplug,    \* the cable is pulled
  CanAbandon    \* the host gives up transfers without a reset

ASSUME UsbAssumption ==
  /\ Kinds \subseteq {"Unconfigure", "Feature", "GetStatus", "GetDescriptor",
                      "BadConfiguration", "Unsupported"}
  /\ CanReset \in BOOLEAN /\ CanSuspend \in BOOLEAN
  /\ CanUnplug \in BOOLEAN /\ CanAbandon \in BOOLEAN

VARIABLES
  vbus,                    \* the cable supplies power
  flags,                   \* pending interrupts
  pll, frozen,             \* PLLCSR, USBCON.FRZCLK
  SUSPE, WAKEUPE,          \* UDIEN
  isr,                     \* stages the interrupt handler has passed, 0 outside
  USB_DeviceState, ConfigurationNumber,
  UADD, ADDEN,             \* UDADDR
  UENUM,                   \* the selected endpoint: 0, or 1 for the IN endpoint
  RXSTPI, RXOUTI,          \* flags of the control endpoint
  tx,                      \* its IN bank: free, or holding a packet
  fifo,                    \* the last SETUP packet since the reset
  ep0,                     \* the control endpoint is configured as one
  pc, request, target, PrevEndpoint,   \* main loop: USB_ControlRequest, locals
  host,                    \* what the host expects next on the control endpoint
  hostAddr, hostCfg,       \* what the host has set the device to
  calm                     \* the host disturbs the device no more

clkVars  == <<pll, frozen, SUSPE, WAKEUPE>>
devVars  == <<USB_DeviceState, ConfigurationNumber>>
addrVars == <<UADD, ADDEN>>
ep0Vars  == <<RXSTPI, tx, RXOUTI, fifo, ep0>>
hostVars == <<host, hostAddr, hostCfg>>
mainVars == <<pc, request, target, PrevEndpoint>>
vars == <<vbus, flags, isr, UENUM, calm, clkVars, devVars, addrVars, ep0Vars,
          hostVars, mainVars>>

States == {"Unattached", "Powered", "Default", "Addressed", "Configured",
           "Suspended"}
Flags == {"VBUSTI", "SUSPI", "WAKEUPI", "EORSTI"}
RequestKinds == {"none", "SetAddress", "SetConfiguration", "Unconfigure",
                 "Feature", "GetStatus", "GetDescriptor", "BadConfiguration",
                 "Unsupported"}
ToHost == {"GetStatus", "GetDescriptor"}
Labels == {"hid", "hidSelect", "hidReselect", "hidWrite", "usb", "setup",
           "dispatch", "addressStatus", "addressWait", "addressState",
           "configStatus", "configTest", "configState", "configEvent",
           "configEndpoint", "featureStatus", "getStatus", "getDescriptor",
           "tail", "restore"}

\* The address of a host that has seen no device: it resets the bus first.
NoAddress == 2

\* USB_Init has run: detached, suspend detection armed, control endpoint ready.
Init ==
  /\ vbus = FALSE /\ flags = {} /\ isr = 0 /\ calm = FALSE
  /\ pll = FALSE /\ frozen = FALSE /\ SUSPE = TRUE /\ WAKEUPE = FALSE
  /\ USB_DeviceState = "Unattached" /\ ConfigurationNumber = 0
  /\ UADD = 0 /\ ADDEN = FALSE /\ UENUM = 0
  /\ RXSTPI = FALSE /\ tx = "free" /\ RXOUTI = FALSE /\ fifo = "none"
  /\ ep0 = TRUE
  /\ pc = "hid" /\ request = "none" /\ target = "Unattached" /\ PrevEndpoint = 0
  /\ host = "idle" /\ hostAddr = NoAddress /\ hostCfg = 0

\* Flag and enable bit that the k-th stage of the interrupt handler tests.
Pending(k) ==
  \/ k = 1 /\ "VBUSTI" \in flags
  \/ k = 2 /\ SUSPE /\ "SUSPI" \in flags
  \/ k = 3 /\ WAKEUPE /\ "WAKEUPI" \in flags
  \/ k = 4 /\ "EORSTI" \in flags

\* The main loop has the CPU.
Runs == isr = 0 /\ \A k \in 1..4 : ~Pending(k)
Goto(from, to) == Runs /\ pc = from /\ pc' = to

-----------------------------------------------------------------------------
(***************************************************************************)
(* HID_Device_USBTask, as far as it selects endpoints: HidDevice has the   *)
(* rest.                                                                   *)
(***************************************************************************)
HidState ==
  /\ \/ Goto("hid", "usb")     \* not configured, or no new frame
     \/ USB_DeviceState = "Configured" /\ Goto("hid", "hidSelect")
  /\ UNCHANGED <<vbus, flags, isr, UENUM, calm, clkVars, devVars, addrVars,
                 ep0Vars, hostVars, request, target, PrevEndpoint>>

HidSelect ==
  /\ Goto("hidSelect", "hidReselect") \/ Goto("hidSelect", "usb")
  /\ UENUM' = 1
  /\ UNCHANGED <<vbus, flags, isr, calm, clkVars, devVars, addrVars, ep0Vars,
                 hostVars, request, target, PrevEndpoint>>

HidReselect ==
  /\ Goto("hidReselect", "hidWrite")
  /\ UENUM' = 1
  /\ UNCHANGED <<vbus, flags, isr, calm, clkVars, devVars, addrVars, ep0Vars,
                 hostVars, request, target, PrevEndpoint>>

\* The report goes to the selected endpoint: the control endpoint, if the
\* handler has selected it meanwhile.
HidWrite ==
  /\ Goto("hidWrite", "usb")
  /\ tx' = IF UENUM = 0 THEN "data" ELSE tx
  /\ UNCHANGED <<vbus, flags, isr, UENUM, calm, clkVars, devVars, addrVars,
                 RXSTPI, RXOUTI, fifo, ep0, hostVars, request, target, PrevEndpoint>>

-----------------------------------------------------------------------------
(***************************************************************************)
(* USB_DeviceTask and USB_Device_ProcessControlRequest.                    *)
(***************************************************************************)
\* Faulty variant: the control endpoint is not selected.
DeviceTaskUnselected ==
  /\ Goto("usb", IF USB_DeviceState = "Unattached" THEN "hid" ELSE "setup")
  /\ PrevEndpoint' = IF USB_DeviceState = "Unattached" THEN PrevEndpoint ELSE UENUM
  /\ UNCHANGED <<vbus, flags, isr, UENUM, calm, clkVars, devVars, addrVars,
                 ep0Vars, hostVars, request, target>>

DeviceTask ==
  /\ Goto("usb", IF USB_DeviceState = "Unattached" THEN "hid" ELSE "setup")
  /\ IF USB_DeviceState = "Unattached"
     THEN UNCHANGED <<UENUM, PrevEndpoint>>
     ELSE PrevEndpoint' = UENUM /\ UENUM' = 0
  /\ UNCHANGED <<vbus, flags, isr, calm, clkVars, devVars, addrVars, ep0Vars,
                 hostVars, request, target>>

\* Endpoint_IsSETUPReceived, on whichever endpoint is selected.
IsSETUPReceived == RXSTPI /\ UENUM = 0

\* Endpoint_IsINReady on the control endpoint.
TXINI == tx = "free"

ReadSetup ==
  /\ Goto("setup", IF IsSETUPReceived THEN "dispatch" ELSE "restore")
  /\ request' = IF IsSETUPReceived THEN fifo ELSE request
  /\ UNCHANGED <<vbus, flags, isr, UENUM, calm, clkVars, devVars, addrVars,
                 ep0Vars, hostVars, target, PrevEndpoint>>

SetAddress ==
  /\ request = "SetAddress" /\ Goto("dispatch", "addressStatus")
  /\ UADD' = 1
  /\ RXSTPI' = FALSE
  /\ UNCHANGED <<vbus, flags, isr, UENUM, calm, clkVars, devVars, ADDEN, tx,
                 RXOUTI, fifo, ep0, hostVars, request, target, PrevEndpoint>>

\* Faulty variant: the number is not compared with FIXED_NUM_CONFIGURATIONS.
SetConfigurationUnchecked ==
  /\ request \in {"SetConfiguration", "Unconfigure", "BadConfiguration"}
  /\ Goto("dispatch", "configStatus")
  /\ ConfigurationNumber' = IF request = "SetConfiguration" THEN 1
                            ELSE IF request = "Unconfigure" THEN 0 ELSE 2
  /\ RXSTPI' = FALSE
  /\ UNCHANGED <<vbus, flags, isr, UENUM, calm, clkVars, USB_DeviceState,
                 addrVars, tx, RXOUTI, fifo, ep0, hostVars, request, target,
                 PrevEndpoint>>

SetConfiguration ==
  /\ request \in {"SetConfiguration", "Unconfigure"}
  /\ Goto("dispatch", "configStatus")
  /\ ConfigurationNumber' = IF request = "SetConfiguration" THEN 1 ELSE 0
  /\ RXSTPI' = FALSE
  /\ UNCHANGED <<vbus, flags, isr, UENUM, calm, clkVars, USB_DeviceState,
                 addrVars, tx, RXOUTI, fifo, ep0, hostVars, request, target,
                 PrevEndpoint>>

\* ClearFeature, SetFeature and the class requests without a data stage.
ClearSetFeature ==
  /\ request = "Feature" /\ Goto("dispatch", "featureStatus")
  /\ RXSTPI' = FALSE
  /\ UNCHANGED <<vbus, flags, isr, UENUM, calm, clkVars, devVars, addrVars,
                 tx, RXOUTI, fifo, ep0, hostVars, request, target, PrevEndpoint>>

\* Faulty variant: GetDescriptor waits for its status stage as GetStatus does.
GetStatusBlocking ==
  /\ request \in ToHost
  /\ Goto("dispatch", "getStatus")
  /\ RXSTPI' = FALSE
  /\ tx' = "data"
  /\ UNCHANGED <<vbus, flags, isr, UENUM, calm, clkVars, devVars, addrVars,
                 RXOUTI, fifo, ep0, hostVars, request, target, PrevEndpoint>>

\* GetStatus, GetConfiguration and the class requests that read one value:
\* one packet, then the status stage.  GetDescriptor: the same with a stream.
GetStatus ==
  /\ request \in ToHost
  /\ Goto("dispatch", IF request = "GetStatus" THEN "getStatus" ELSE "getDescriptor")
  /\ RXSTPI' = FALSE
  /\ tx' = "data"
  /\ UNCHANGED <<vbus, flags, isr, UENUM, calm, clkVars, devVars, addrVars,
                 RXOUTI, fifo, ep0, hostVars, request, target, PrevEndpoint>>

\* A request no handler takes, and SetConfiguration beyond the only one.
Unhandled ==
  /\ request \in {"Unsupported", "BadConfiguration"} /\ Goto("dispatch", "tail")
  /\ UNCHANGED <<vbus, flags, isr, UENUM, calm, clkVars, devVars, addrVars,
                 ep0Vars, hostVars, request, target, PrevEndpoint>>

(***************************************************************************)
(* Endpoint_ClearStatusStage gives up only when the device is unattached.  *)
(***************************************************************************)
ClearStatusStageIN(from, to) ==
  /\ Goto(from, to)
  /\ \/ TXINI /\ tx' = "zlp"
     \/ ~TXINI /\ USB_DeviceState = "Unattached" /\ tx' = tx
  /\ UNCHANGED <<vbus, flags, isr, UENUM, calm, clkVars, devVars, addrVars,
                 RXSTPI, RXOUTI, fifo, ep0, hostVars, request, target, PrevEndpoint>>

StatusStageIN ==
  \/ ClearStatusStageIN("addressStatus", "addressWait")
  \/ ClearStatusStageIN("configStatus", "configTest")
  \/ ClearStatusStageIN("featureStatus", "tail")

\* Endpoint_ClearOUT, whether the packet came or the wait was broken off.
StatusStageOUT ==
  /\ Goto("getStatus", "tail")
  /\ RXOUTI \/ USB_DeviceState = "Unattached"
  /\ RXOUTI' = FALSE
  /\ UNCHANGED <<vbus, flags, isr, UENUM, calm, clkVars, devVars, addrVars,
                 RXSTPI, tx, fifo, ep0, hostVars, request, target, PrevEndpoint>>

\* The control stream also gives up on suspend and on the next SETUP packet.
StreamEnds ==
  /\ Goto("getDescriptor", "tail")
  /\ \/ RXOUTI \/ RXSTPI
     \/ USB_DeviceState \in {"Unattached", "Suspended"}
  /\ RXOUTI' = FALSE
  /\ UNCHANGED <<vbus, flags, isr, UENUM, calm, clkVars, devVars, addrVars,
                 RXSTPI, tx, fifo, ep0, hostVars, request, target, PrevEndpoint>>

\* Faulty variant: the address takes effect before the status stage is over.
EnableAddressEarly ==
  /\ Goto("addressWait", "addressState")
  /\ ADDEN' = TRUE
  /\ UNCHANGED <<vbus, flags, isr, UENUM, calm, clkVars, devVars, UADD, ep0Vars,
                 hostVars, request, target, PrevEndpoint>>

\* Faulty variant: the address is never enabled.
EnableAddressMissing ==
  /\ Goto("addressWait", "addressState") /\ TXINI
  /\ UNCHANGED <<vbus, flags, isr, UENUM, calm, clkVars, devVars, addrVars,
                 ep0Vars, hostVars, request, target, PrevEndpoint>>

\* while (!(Endpoint_IsINReady())), then USB_Device_EnableDeviceAddress.
EnableDeviceAddress ==
  /\ Goto("addressWait", "addressState") /\ TXINI
  /\ ADDEN' = TRUE
  /\ UNCHANGED <<vbus, flags, isr, UENUM, calm, clkVars, devVars, UADD, ep0Vars,
                 hostVars, request, target, PrevEndpoint>>

AddressState ==
  /\ Goto("addressState", "tail")
  /\ USB_DeviceState' = "Addressed"
  /\ UNCHANGED <<vbus, flags, isr, UENUM, calm, clkVars, ConfigurationNumber,
                 addrVars, ep0Vars, hostVars, request, target, PrevEndpoint>>

\* The configuration number is tested in one step and the state set in another.
ConfigTest ==
  /\ Goto("configTest", "configState")
  /\ target' = IF ConfigurationNumber # 0 \/ ADDEN THEN "Configured" ELSE "Powered"
  /\ UNCHANGED <<vbus, flags, isr, UENUM, calm, clkVars, devVars, addrVars,
                 ep0Vars, hostVars, request, PrevEndpoint>>

ConfigState ==
  /\ Goto("configState", "configEvent")
  /\ USB_DeviceState' = target /\ target' = "Unattached"
  /\ UNCHANGED <<vbus, flags, isr, UENUM, calm, clkVars, ConfigurationNumber,
                 addrVars, ep0Vars, hostVars, request, PrevEndpoint>>

\* EVENT_USB_Device_ConfigurationChanged: Endpoint_ConfigureEndpoint_Prv
\* selects the IN endpoint, then configures whichever endpoint is selected.
ConfigureSelect ==
  /\ Goto("configEvent", "configEndpoint")
  /\ UENUM' = 1
  /\ UNCHANGED <<vbus, flags, isr, calm, clkVars, devVars, addrVars, ep0Vars,
                 hostVars, request, target, PrevEndpoint>>

ConfigurationChanged ==
  /\ Goto("configEndpoint", "tail")
  /\ ep0' = (ep0 /\ UENUM = 1) /\ RXSTPI' = (RXSTPI /\ UENUM = 1)
  /\ UENUM' = 1
  /\ UNCHANGED <<vbus, flags, isr, calm, clkVars, USB_DeviceState,
                 ConfigurationNumber, addrVars, tx, RXOUTI, fifo, hostVars,
                 request, target, PrevEndpoint>>

\* A SETUP packet found at the end is cleared and stalled, read or not.
StallUnhandled ==
  /\ Goto("tail", "restore")
  /\ RXSTPI' = (RXSTPI /\ ~IsSETUPReceived)
  /\ host' = IF IsSETUPReceived THEN "idle" ELSE host
  /\ UNCHANGED <<vbus, flags, isr, UENUM, calm, clkVars, devVars, addrVars,
                 tx, RXOUTI, fifo, ep0, hostAddr, hostCfg, request, target,
                 PrevEndpoint>>

RestoreEndpoint ==
  /\ Goto("restore", "hid")
  /\ UENUM' = PrevEndpoint /\ request' = "none"
  /\ UNCHANGED <<vbus, flags, isr, calm, clkVars, devVars, addrVars, ep0Vars,
                 hostVars, target, PrevEndpoint>>

-----------------------------------------------------------------------------
(***************************************************************************)
(* USB_GEN_vect: one action per stage, in the order of the handler.  A     *)
(* stage whose interrupt is not pending and enabled is passed over.        *)
(***************************************************************************)
Stage(k) ==
  /\ isr < k /\ Pending(k) /\ \A j \in isr + 1 .. k - 1 : ~Pending(j)
  /\ isr' = k % 4

ReturnFromInterrupt ==
  /\ isr # 0 /\ \A k \in isr + 1 .. 4 : ~Pending(k)
  /\ isr' = 0
  /\ UNCHANGED <<vbus, flags, UENUM, calm, clkVars, devVars, addrVars, ep0Vars,
                 hostVars, mainVars>>

\* The lamp events set the same port pins whatever mask they are given
\* (LEDs_SetAllLEDs), so they leave nothing to model.
VbusStage ==
  /\ Stage(1)
  /\ flags' = flags \ {"VBUSTI"}
  /\ pll' = vbus
  /\ USB_DeviceState' = IF vbus THEN "Powered" ELSE "Unattached"
  /\ UNCHANGED <<vbus, UENUM, calm, frozen, SUSPE, WAKEUPE,
                 ConfigurationNumber, addrVars, ep0Vars, hostVars, mainVars>>

\* Faulty variant: wake-up detection is not armed before the clock is frozen.
SuspendUnarmed ==
  /\ Stage(2)
  /\ SUSPE' = FALSE /\ WAKEUPE' = FALSE
  /\ frozen' = TRUE /\ pll' = FALSE
  /\ USB_DeviceState' = "Suspended"
  /\ UNCHANGED <<vbus, flags, UENUM, calm, ConfigurationNumber,
                 addrVars, ep0Vars, hostVars, mainVars>>

SuspendStage ==
  /\ Stage(2)
  /\ SUSPE' = FALSE /\ WAKEUPE' = TRUE
  /\ frozen' = TRUE /\ pll' = FALSE
  /\ USB_DeviceState' = "Suspended"
  /\ UNCHANGED <<vbus, flags, UENUM, calm, ConfigurationNumber,
                 addrVars, ep0Vars, hostVars, mainVars>>

\* Faulty variant: the PLL is not started again.
WakeUnclocked ==
  /\ Stage(3)
  /\ flags' = flags \ {"WAKEUPI"}
  /\ SUSPE' = TRUE /\ WAKEUPE' = FALSE
  /\ frozen' = FALSE /\ pll' = pll
  /\ USB_DeviceState' = IF ConfigurationNumber # 0 THEN "Configured"
                        ELSE IF ADDEN THEN "Addressed" ELSE "Powered"
  /\ UNCHANGED <<vbus, UENUM, calm, ConfigurationNumber, addrVars,
                 ep0Vars, hostVars, mainVars>>

WakeStage ==
  /\ Stage(3)
  /\ flags' = flags \ {"WAKEUPI"}
  /\ SUSPE' = TRUE /\ WAKEUPE' = FALSE
  /\ frozen' = FALSE /\ pll' = TRUE
  /\ USB_DeviceState' = IF ConfigurationNumber # 0 THEN "Configured"
                        ELSE IF ADDEN THEN "Addressed" ELSE "Powered"
  /\ UNCHANGED <<vbus, UENUM, calm, ConfigurationNumber, addrVars,
                 ep0Vars, hostVars, mainVars>>

\* The control endpoint is configured anew and stays selected.
ResetStage ==
  /\ Stage(4)
  /\ flags' = flags \ {"EORSTI", "SUSPI"}
  /\ SUSPE' = FALSE /\ WAKEUPE' = TRUE
  /\ USB_DeviceState' = "Default" /\ ConfigurationNumber' = 0
  /\ UENUM' = 0
  /\ RXSTPI' = FALSE /\ tx' = "free" /\ RXOUTI' = FALSE /\ ep0' = TRUE
  /\ UNCHANGED <<vbus, calm, pll, frozen, addrVars, fifo, hostVars,
                 mainVars>>

-----------------------------------------------------------------------------
(***************************************************************************)
(* The bus, as the controller reports it, and the host.  SUSPI and WAKEUPI *)
(* take each other back; a reset clears the address and the endpoints; the *)
(* control endpoint answers nothing but SETUP until RXSTPI is cleared.     *)
(***************************************************************************)
Clocked == pll /\ ~frozen

Alive == vbus /\ Clocked /\ "EORSTI" \notin flags

DeviceAddress == IF ADDEN THEN UADD ELSE 0

Answers == Alive /\ ep0 /\ DeviceAddress = hostAddr

\* The unplugging has been noticed by the time the cable is back.
Plug ==
  /\ ~vbus /\ Runs /\ vbus' = TRUE
  /\ flags' = flags \union {"VBUSTI"}
  /\ UNCHANGED <<isr, UENUM, calm, clkVars, devVars, addrVars, ep0Vars, hostVars,
                 mainVars>>

Unplug ==
  /\ CanUnplug /\ ~calm
  /\ vbus /\ vbus' = FALSE
  /\ flags' = flags \union {"VBUSTI"}
  /\ host' = "idle" /\ hostAddr' = NoAddress /\ hostCfg' = 0
  /\ UNCHANGED <<isr, UENUM, calm, clkVars, devVars, addrVars, ep0Vars, mainVars>>

\* 3 ms without traffic: what was pending before them has been handled.
BusIdle ==
  /\ CanSuspend /\ ~calm /\ Runs
  /\ Clocked /\ host = "idle" /\ "SUSPI" \notin flags
  /\ flags' = (flags \ {"WAKEUPI"}) \union {"SUSPI"}
  /\ UNCHANGED <<vbus, isr, UENUM, calm, clkVars, devVars, addrVars, ep0Vars,
                 hostVars, mainVars>>

BusActive ==
  /\ vbus /\ "WAKEUPI" \notin flags
  /\ flags' = (flags \ {"SUSPI"}) \union {"WAKEUPI"}
  /\ UNCHANGED <<vbus, isr, UENUM, calm, clkVars, devVars, addrVars, ep0Vars,
                 hostVars, mainVars>>

\* The main loop waits for a packet.
Waits ==
  \/ pc \in {"addressStatus", "addressWait", "configStatus", "featureStatus"} /\ ~TXINI
  \/ pc = "getStatus" /\ ~RXOUTI
  \/ pc = "getDescriptor" /\ ~RXOUTI /\ ~RXSTPI

\* The host grants 10 ms after a reset: by then its interrupt, and the request
\* that it cut short, are done with, unless that request waits.
Settled == fifo = "none" => Runs /\ (request = "none" \/ Waits)

ResetBus ==
  /\ Alive /\ Settled
  /\ flags' = flags \union {"EORSTI"}
  /\ UADD' = 0 /\ ADDEN' = FALSE
  /\ RXSTPI' = FALSE /\ RXOUTI' = FALSE /\ fifo' = "none"
  /\ host' = "idle" /\ hostAddr' = 0 /\ hostCfg' = 0
  /\ UNCHANGED <<vbus, isr, UENUM, calm, clkVars, devVars, tx, ep0,
                 mainVars>>

\* The packet the host expects to read is there, or it has one to send.
Serves ==
  /\ Answers /\ ~RXSTPI
  /\ \/ host \in {"data", "status"} /\ ~TXINI
     \/ host = "out" /\ ~RXOUTI

\* The host resets at will, after a plug-in, and when it gets no answer.
HostReset ==
  /\ \/ ~calm /\ CanReset
     \/ hostAddr = NoAddress \/ ~ep0
     \/ hostAddr # DeviceAddress /\ ~(pc = "addressWait" /\ TXINI)
     \/ host # "idle" /\ ~Serves /\ (Waits \/ (pc \in {"hid", "setup"} /\ ~RXSTPI))
  /\ ResetBus

SendSetup(r) ==
  /\ Answers /\ Settled /\ host = "idle"
  /\ fifo' = r /\ RXSTPI' = TRUE /\ tx' = "free"
  /\ host' = IF r \in ToHost THEN "data" ELSE "status"
  /\ UNCHANGED <<vbus, flags, isr, UENUM, calm, clkVars, devVars, addrVars,
                 RXOUTI, ep0, hostAddr, hostCfg, mainVars>>

HostEnumerates ==
  \/ hostAddr = 0 /\ SendSetup("SetAddress")
  \/ hostAddr = 1 /\ hostCfg = 0 /\ SendSetup("SetConfiguration")

HostAsks ==
  /\ ~calm
  /\ \E r \in Kinds : (r = "Unconfigure" => hostCfg = 1) /\ SendSetup(r)

\* An IN packet ends the data stage, or the transfer; a status stage that is
\* not empty is an error.
HostIn ==
  /\ Serves /\ host \in {"data", "status"}
  /\ tx' = "free"
  /\ host' = IF host = "data" THEN "out" ELSE "idle"
  /\ LET done(r) == host = "status" /\ tx = "zlp" /\ fifo = r
     IN  /\ hostAddr' = IF done("SetAddress") THEN 1 ELSE hostAddr
         /\ hostCfg' = IF done("SetConfiguration") THEN 1
                       ELSE IF done("Unconfigure") THEN 0 ELSE hostCfg
  /\ UNCHANGED <<vbus, flags, isr, UENUM, calm, clkVars, devVars, addrVars,
                 RXSTPI, RXOUTI, fifo, ep0, mainVars>>

HostOut ==
  /\ Serves /\ host = "out"
  /\ RXOUTI' = TRUE /\ host' = "idle"
  /\ UNCHANGED <<vbus, flags, isr, UENUM, calm, clkVars, devVars, addrVars,
                 RXSTPI, tx, fifo, ep0, hostAddr, hostCfg, mainVars>>

HostAbandons ==
  /\ CanAbandon /\ ~calm /\ host # "idle"
  /\ host' = "idle"
  /\ UNCHANGED <<vbus, flags, isr, UENUM, calm, clkVars, devVars, addrVars,
                 ep0Vars, hostAddr, hostCfg, mainVars>>

CalmDown ==
  /\ ~calm /\ calm' = TRUE
  /\ UNCHANGED <<vbus, flags, isr, UENUM, clkVars, devVars, addrVars, ep0Vars,
                 hostVars, mainVars>>

-----------------------------------------------------------------------------
MainLoop == \/ HidState \/ HidSelect \/ HidReselect \/ HidWrite
            \/ DeviceTask \/ ReadSetup \/ SetAddress \/ SetConfiguration
            \/ ClearSetFeature \/ GetStatus \/ Unhandled \/ StatusStageIN
            \/ StatusStageOUT \/ StreamEnds \/ EnableDeviceAddress
            \/ AddressState \/ ConfigTest \/ ConfigState \/ ConfigureSelect
            \/ ConfigurationChanged \/ StallUnhandled \/ RestoreEndpoint

Handler == VbusStage \/ SuspendStage \/ WakeStage \/ ResetStage
           \/ ReturnFromInterrupt

Environment == \/ Plug \/ Unplug \/ BusIdle \/ BusActive \/ HostReset
               \/ HostEnumerates \/ HostAsks \/ HostIn \/ HostOut
               \/ HostAbandons \/ CalmDown

Next == MainLoop \/ Handler \/ Environment

Spec == Init /\ [][Next]_vars

\* The CPU runs: after each interrupt at least one instruction of the main loop
\* (hence SF).  A host that no longer disturbs the device does its part.
Fairness ==
  /\ SF_vars(MainLoop) /\ WF_vars(Handler)
  /\ WF_vars(Plug) /\ WF_vars(BusActive)
  /\ WF_vars(calm /\ HostReset) /\ WF_vars(HostEnumerates)
  /\ WF_vars(HostIn \/ HostOut)

FairSpec == Spec /\ Fairness

-----------------------------------------------------------------------------
TypeOK ==
  /\ vbus \in BOOLEAN /\ calm \in BOOLEAN
  /\ flags \subseteq Flags /\ isr \in 0..3
  /\ pll \in BOOLEAN /\ frozen \in BOOLEAN
  /\ SUSPE \in BOOLEAN /\ WAKEUPE \in BOOLEAN
  /\ USB_DeviceState \in States /\ ConfigurationNumber \in {0, 1}
  /\ UADD \in {0, 1} /\ ADDEN \in BOOLEAN
  /\ UENUM \in {0, 1} /\ PrevEndpoint \in {0, 1}
  /\ RXSTPI \in BOOLEAN /\ RXOUTI \in BOOLEAN /\ tx \in {"free", "zlp", "data"}
  /\ ep0 \in BOOLEAN /\ fifo \in RequestKinds /\ request \in RequestKinds
  /\ pc \in Labels /\ target \in States
  /\ host \in {"idle", "data", "status", "out"}
  /\ hostAddr \in {0, 1, NoAddress} /\ hostCfg \in {0, 1}

(***************************************************************************)
(* A sleeping device can be woken: whatever order USB_GEN_vect meets VBUS, *)
(* suspend, wake-up and reset in, exactly one of the suspend and wake-up   *)
(* interrupts is armed, and a frozen clock leaves wake-up armed.           *)
(***************************************************************************)
WakeArmed == SUSPE # WAKEUPE /\ (frozen => WAKEUPE)

(***************************************************************************)
(* A device that is plugged in and not asleep has its PLL running: no      *)
(* sequence of unplugging, suspend and wake-up leaves the controller       *)
(* attached, awake and without its clock.                                  *)
(***************************************************************************)
ClockRuns == (vbus /\ "VBUSTI" \notin flags /\ ~frozen) => pll

(***************************************************************************)
(* A control request is handled with the control endpoint selected, and a  *)
(* report is written to another endpoint than the IN endpoint, or another  *)
(* endpoint configured in its place, only if a reset has taken the         *)
(* configuration away: what the handler leaves selected does no harm in a  *)
(* configuration.                                                          *)
(***************************************************************************)
ControlLabels == {"setup", "dispatch", "addressStatus", "addressWait",
                  "addressState", "configStatus", "configTest", "configState",
                  "configEvent", "featureStatus", "getStatus", "getDescriptor"}
EndpointSelected ==
  /\ pc \in ControlLabels => UENUM = 0
  /\ (pc \in {"hidWrite", "configEndpoint"} /\ UENUM # 1) => ConfigurationNumber = 0

(***************************************************************************)
(* Once the host has completed SetAddress it finds the device at the new   *)
(* address, as soon as the wait for the status stage is over, until the    *)
(* next reset: resets and SETUP packets that hit USB_Device_SetAddress     *)
(* half-way do not leave the two apart.                                    *)
(***************************************************************************)
AddressTakesEffect ==
  (hostAddr = 1 /\ pc # "addressWait") => DeviceAddress = 1

(***************************************************************************)
(* "The USB task must be serviced within 30ms while in device mode"        *)
(* (USBTask.h): once the host leaves the device in peace, the main loop    *)
(* comes round again and again, whatever wait a reset caught it in.        *)
(***************************************************************************)
MainLoopReturns == calm ~> pc = "hid"

(***************************************************************************)
(* Once the host leaves the device in peace, the device ends up configured *)
(* and stays so, whatever resets, suspends and unplugging came before,     *)
(* unless USB_Device_EnableDeviceAddress has enabled address 0: no other   *)
(* order of events keeps the device from being enumerated.                 *)
(***************************************************************************)
Enumerates ==
  (<>[]calm /\ [](ADDEN => UADD # 0))
     => <>[](USB_DeviceState = "Configured" /\ ConfigurationNumber = 1)

(***************************************************************************)
(* "The library internally handles all standard control requests with the  *)
(* exceptions of SYNC FRAME, SET DESCRIPTOR and SET INTERFACE" (Events.h): *)
(* a host that leaves the device in peace completes SetAddress.            *)
(***************************************************************************)
SetAddressHandled == calm ~> hostAddr = 1

(***************************************************************************)
(* "This state indicates that the device is not currently connected to a   *)
(* host" (Device.h): with the cable pulled out of a configured device and  *)
(* the interrupt handled, the device is in the Unattached state.           *)
(***************************************************************************)
UnpluggedIsUnattached ==
  (~vbus /\ Runs /\ ConfigurationNumber # 0) => USB_DeviceState = "Unattached"
==============================================================================
