--------------------------- MODULE UsbAddressProofs ---------------------------
(***************************************************************************)
(* Proof that SetAddress takes effect, for every host that does not leave  *)
(* a request half-way, whatever it asks for and whenever it resets,        *)
(* suspends or unplugs.                                                    *)
(***************************************************************************)
EXTENDS UsbDeviceProofs

Idle == {"hid", "hidSelect", "hidReselect", "hidWrite", "usb", "setup"}
Reconfigures == {"SetConfiguration", "Unconfigure"}

\* Where the main loop is tells which request it works on.
LabelInv ==
  /\ pc \in Idle => request = "none"
  /\ pc \in {"addressStatus", "addressWait", "addressState"} =>
       request = "SetAddress"
  /\ pc \in {"configStatus", "configTest", "configState", "configEvent",
             "configEndpoint"} => request \in Reconfigures
  /\ pc = "featureStatus" => request = "Feature"
  /\ pc \in {"getStatus", "getDescriptor"} => request \in ToHost
  /\ (pc = "tail" /\ UENUM # 0) => request \in Reconfigures

\* A SETUP packet is unread, or its host has gone on; a reset takes it back, and
\* a request the reset overtakes meets an empty bank.
SetupInv ==
  /\ RXSTPI => fifo # "none" /\ (host # "idle" \/ hostAddr = NoAddress)
  /\ pc = "dispatch" =>
       request # "none" /\ (fifo # "none" => RXSTPI /\ fifo = request)
  /\ "EORSTI" \in flags => fifo = "none"
  /\ (fifo = "none" /\ "EORSTI" \notin flags
        /\ pc \in {"dispatch", "addressStatus", "configStatus", "featureStatus"})
       => tx = "free"

\* A device without an address is not configured, or has been before a reset.
ConfigInv ==
  /\ hostCfg = 1 => hostAddr # 0
  /\ fifo \in Reconfigures => hostAddr # 0
  /\ (request \in Reconfigures /\ hostAddr = 0) => fifo = "none"

\* No empty packet of an older request is left when SetAddress is read, ...
CleanInv ==
  (RXSTPI /\ fifo = "SetAddress" /\ hostAddr = 0
     /\ pc \in Idle \union {"restore", "dispatch"}) => tx # "zlp"

\* ... so that the one the host gets is the one USB_Device_SetAddress has sent ...
HandledInv ==
  (host = "status" /\ fifo = "SetAddress" /\ ~RXSTPI /\ ep0 /\ hostAddr = 0) =>
    /\ UADD = 1
    /\ \/ pc = "addressStatus" /\ tx # "zlp"
       \/ pc = "addressWait" /\ tx # "free"

\* ... and the address is then either enabled or about to be.
EffectInv == hostAddr = 1 => UADD = 1 /\ (ADDEN \/ pc = "addressWait")

AddressInv ==
  LabelInv /\ SetupInv /\ ConfigInv /\ CleanInv /\ HandledInv /\ EffectInv

\* TypeOK and EndpointSelected, as far as they are needed.
Bounds ==
  /\ UENUM \in {0, 1} /\ UADD \in {0, 1} /\ hostAddr \in {0, 1, NoAddress}
  /\ fifo \in RequestKinds /\ tx \in {"free", "zlp", "data"}
  /\ EndpointSelected

\* What the host asks for besides enumerating.
LEMMA Constants ==
  \A r \in Kinds : r \in RequestKinds \ {"none", "SetAddress", "SetConfiguration"}
  BY UsbAssumption DEF RequestKinds

\* The conjuncts are preserved together; the host's SETUP packet is the hard case.
LEMMA AddressStep ==
  ~CanAbandon /\ Bounds /\ AddressInv /\ [Next]_vars => AddressInv'
<1>. SUFFICES ASSUME ~CanAbandon, Bounds, AddressInv, [Next]_vars
              PROVE  AddressInv'
  OBVIOUS
<1>. USE DEF Bounds, AddressInv, LabelInv, SetupInv, ConfigInv, CleanInv,
         HandledInv, EffectInv, Idle, Reconfigures, ToHost, NoAddress, Goto, devVars,
         addrVars, ep0Vars, hostVars, mainVars, ControlLabels, EndpointSelected
<1>1. CASE HidState \/ HidSelect \/ HidReselect \/ HidWrite
  BY <1>1 DEF HidState, HidSelect, HidReselect, HidWrite
<1>2. CASE DeviceTask \/ ReadSetup
  BY <1>2 DEF DeviceTask, ReadSetup, IsSETUPReceived
<1>3. CASE SetAddress
  BY <1>3 DEF SetAddress
<1>4. CASE SetConfiguration \/ ClearSetFeature \/ GetStatus \/ Unhandled
  BY <1>4 DEF SetConfiguration, ClearSetFeature, GetStatus, Unhandled
<1>5. CASE StatusStageIN
  BY <1>5 DEF StatusStageIN, ClearStatusStageIN, TXINI
<1>6. CASE StatusStageOUT \/ StreamEnds
  BY <1>6 DEF StatusStageOUT, StreamEnds
<1>7. CASE EnableDeviceAddress \/ AddressState
  BY <1>7 DEF EnableDeviceAddress, AddressState, TXINI
<1>8. CASE ConfigTest \/ ConfigState \/ ConfigureSelect
  BY <1>8 DEF ConfigTest, ConfigState, ConfigureSelect
<1>9. CASE ConfigurationChanged
  BY <1>9 DEF ConfigurationChanged
<1>10. CASE StallUnhandled
  BY <1>10 DEF StallUnhandled, IsSETUPReceived
<1>11. CASE RestoreEndpoint
  BY <1>11 DEF RestoreEndpoint
<1>12. CASE VbusStage \/ SuspendStage \/ WakeStage \/ ReturnFromInterrupt
  BY <1>12 DEF VbusStage, SuspendStage, WakeStage, ReturnFromInterrupt
<1>13. CASE ResetStage
  BY <1>13 DEF ResetStage, Stage, Pending
<1>14. CASE Plug \/ BusIdle \/ BusActive
  BY <1>14 DEF Plug, BusIdle, BusActive
<1>15. CASE Unplug
  BY <1>15 DEF Unplug
<1>16. CASE HostReset
  BY <1>16 DEF HostReset, ResetBus
<1>17. CASE HostEnumerates \/ HostAsks
  <2>1. PICK r \in RequestKinds \ {"none"} :
           SendSetup(r) /\ (r \in Reconfigures => hostAddr # 0)
    BY <1>17, Constants DEF HostEnumerates, HostAsks, RequestKinds
  <2>2. ~RXSTPI
    BY <2>1 DEF SendSetup, Answers, DeviceAddress
  <2>3. fifo = "none" => pc # "dispatch" /\ request \notin Reconfigures
    BY <2>1, 4 \in 1..4 DEF SendSetup, Settled, Runs, Pending, Waits, TXINI
  <2>4. pc # "dispatch" /\ (hostAddr = 0 => request \notin Reconfigures)
    BY <2>2, <2>3
  <2>. QED
    BY <2>1, <2>4 DEF SendSetup, Answers, Alive
<1>18. CASE HostIn
  BY <1>18 DEF HostIn, Serves, Answers, DeviceAddress
<1>19. CASE HostOut
  BY <1>19 DEF HostOut, Serves
<1>20. CASE CalmDown
  BY <1>20 DEF CalmDown
<1>21. CASE UNCHANGED vars
  BY <1>21 DEF vars
<1>. QED
  BY <1>1, <1>2, <1>3, <1>4, <1>5, <1>6, <1>7, <1>8, <1>9, <1>10, <1>11,
     <1>12, <1>13, <1>14, <1>15, <1>16, <1>17, <1>18, <1>19, <1>20,
     <1>21
  DEF Next, MainLoop, Handler, Environment, HostAbandons

LEMMA AddressInit == Init => AddressInv
  BY DEF Init, AddressInv, LabelInv, SetupInv, ConfigInv, CleanInv, HandledInv,
         EffectInv, Idle, Reconfigures, NoAddress

(***************************************************************************)
(* A host that has completed SetAddress finds the device at the address it *)
(* set, for every host that gives up requests only by a reset: no packet   *)
(* of another request is taken for the acknowledgement that                *)
(* USB_Device_SetAddress sends before it enables the address.              *)
(***************************************************************************)
THEOREM AddressCorrect ==
  ASSUME ~CanAbandon
  PROVE  Spec => []AddressTakesEffect
<1>1. TypeOK /\ EndpointSelected => Bounds
  BY DEF TypeOK, Bounds
<1>2. AddressInv => AddressTakesEffect
  BY DEF AddressInv, EffectInv, AddressTakesEffect, DeviceAddress
<1>3. ~CanAbandon
  OBVIOUS
<1>. QED
  BY AddressInit, AddressStep, TypeCorrect, SelectCorrect, <1>1, <1>2, <1>3, PTL
  DEF Spec
===============================================================================
