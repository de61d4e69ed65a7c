--------------------------- MODULE UsbDeviceProofs ---------------------------
(***************************************************************************)
(* Proofs about UsbDevice, for every host: whatever it asks for, and       *)
(* whether or not it resets, suspends, unplugs or abandons.                *)
(***************************************************************************)
EXTENDS UsbDevice, TLAPS

\* What the main loop never touches: the interrupt, clock and cable registers.
LEMMA MainLoopLeavesClocks == MainLoop => UNCHANGED <<vbus, flags, isr, clkVars>>
<1>. USE DEF Goto
<1>1. HidState \/ HidSelect \/ HidReselect \/ HidWrite
        => UNCHANGED <<vbus, flags, isr, clkVars>>
  BY DEF HidState, HidSelect, HidReselect, HidWrite
<1>2. DeviceTask \/ ReadSetup \/ SetAddress \/ SetConfiguration \/ ClearSetFeature
        => UNCHANGED <<vbus, flags, isr, clkVars>>
  BY DEF DeviceTask, ReadSetup, SetAddress, SetConfiguration, ClearSetFeature
<1>3. GetStatus \/ Unhandled \/ StatusStageIN \/ StatusStageOUT \/ StreamEnds
        => UNCHANGED <<vbus, flags, isr, clkVars>>
  BY DEF GetStatus, Unhandled, StatusStageIN, ClearStatusStageIN,
         StatusStageOUT, StreamEnds
<1>4. EnableDeviceAddress \/ AddressState \/ ConfigTest \/ ConfigState
        => UNCHANGED <<vbus, flags, isr, clkVars>>
  BY DEF EnableDeviceAddress, AddressState, ConfigTest, ConfigState
<1>5. ConfigureSelect \/ ConfigurationChanged \/ StallUnhandled \/ RestoreEndpoint
        => UNCHANGED <<vbus, flags, isr, clkVars>>
  BY DEF ConfigureSelect, ConfigurationChanged, StallUnhandled, RestoreEndpoint
<1>. QED
  BY <1>1, <1>2, <1>3, <1>4, <1>5 DEF MainLoop

\* What the host and the bus never touch: what the device's code alone writes.
LEMMA EnvironmentLeavesDevice ==
  Environment => UNCHANGED <<isr, UENUM, clkVars, devVars, mainVars>>
<1>1. Plug \/ Unplug \/ BusIdle \/ BusActive
        => UNCHANGED <<isr, UENUM, clkVars, devVars, mainVars>>
  BY DEF Plug, Unplug, BusIdle, BusActive
<1>2. HostReset \/ HostEnumerates \/ HostAsks
        => UNCHANGED <<isr, UENUM, clkVars, devVars, mainVars>>
  BY DEF HostReset, ResetBus, HostEnumerates, HostAsks, SendSetup
<1>3. HostIn \/ HostOut \/ HostAbandons \/ CalmDown
        => UNCHANGED <<isr, UENUM, clkVars, devVars, mainVars>>
  BY DEF HostIn, HostOut, HostAbandons, CalmDown
<1>. QED
  BY <1>1, <1>2, <1>3 DEF Environment

\* The interrupt handler leaves the main loop where it was.
LEMMA HandlerLeavesMainLoop == Handler => UNCHANGED <<vbus, mainVars, hostVars>>
  BY DEF Handler, VbusStage, SuspendStage, WakeStage, ResetStage,
         ReturnFromInterrupt

-----------------------------------------------------------------------------
(***************************************************************************)
(* WakeArmed and ClockRuns are inductive as they stand.                    *)
(***************************************************************************)
ClockInv == WakeArmed /\ ClockRuns

LEMMA ClockInit == Init => ClockInv
  BY DEF Init, ClockInv, WakeArmed, ClockRuns

LEMMA ClockStep == ClockInv /\ [Next]_vars => ClockInv'
<1>. SUFFICES ASSUME ClockInv, [Next]_vars
              PROVE  ClockInv'
  OBVIOUS
<1>. USE DEF ClockInv, WakeArmed, ClockRuns
<1>1. CASE MainLoop
  BY <1>1, MainLoopLeavesClocks DEF clkVars
<1>2. CASE VbusStage
  BY <1>2 DEF VbusStage, Stage
<1>3. CASE SuspendStage
  BY <1>3 DEF SuspendStage, Stage
<1>4. CASE WakeStage
  BY <1>4 DEF WakeStage, Stage
<1>5. CASE ResetStage
  BY <1>5 DEF ResetStage, Stage
<1>6. CASE ReturnFromInterrupt
  BY <1>6 DEF ReturnFromInterrupt, clkVars
<1>7. CASE Environment
  <2>1. UNCHANGED clkVars
    BY <1>7, EnvironmentLeavesDevice
  <2>2. (vbus' /\ "VBUSTI" \notin flags') => (vbus /\ "VBUSTI" \notin flags)
    BY <1>7 DEF Environment, Plug, Unplug, BusIdle, BusActive, HostReset,
       ResetBus, HostEnumerates, HostAsks, SendSetup, HostIn, HostOut,
       HostAbandons, CalmDown
  <2>. QED
    BY <2>1, <2>2 DEF clkVars
<1>8. CASE UNCHANGED vars
  BY <1>8 DEF vars, clkVars
<1>. QED
  BY <1>1, <1>2, <1>3, <1>4, <1>5, <1>6, <1>7, <1>8 DEF Next, Handler

(***************************************************************************)
(* A sleeping device can be woken, for every host: USB_GEN_vect keeps      *)
(* exactly one of the suspend and wake-up interrupts armed.                *)
(***************************************************************************)
THEOREM WakeCorrect == Spec => []WakeArmed
<1>1. ClockInv => WakeArmed
  BY DEF ClockInv
<1>. QED
  BY ClockInit, ClockStep, <1>1, PTL DEF Spec

(***************************************************************************)
(* A device that is plugged in and not asleep has its clock, for every     *)
(* host: USB_GEN_vect starts the PLL whenever it has to run.               *)
(***************************************************************************)
THEOREM ClockCorrect == Spec => []ClockRuns
<1>1. ClockInv => ClockRuns
  BY DEF ClockInv
<1>. QED
  BY ClockInit, ClockStep, <1>1, PTL DEF Spec

-----------------------------------------------------------------------------
(***************************************************************************)
(* EndpointSelected needs the type of UENUM and no more: every path into a *)
(* control request selects the control endpoint, and the handler leaves    *)
(* the control endpoint selected only together with ConfigurationNumber 0. *)
(***************************************************************************)
SelectInv == UENUM \in {0, 1} /\ PrevEndpoint \in {0, 1} /\ EndpointSelected

LEMMA SelectInit == Init => SelectInv
  BY DEF Init, SelectInv, EndpointSelected, ControlLabels

LEMMA SelectStep == SelectInv /\ [Next]_vars => SelectInv'
<1>. SUFFICES ASSUME SelectInv, [Next]_vars
              PROVE  SelectInv'
  OBVIOUS
<1>. USE DEF SelectInv, EndpointSelected, ControlLabels, Goto, devVars, mainVars
<1>1. CASE HidState \/ HidSelect \/ HidReselect \/ HidWrite
  BY <1>1 DEF HidState, HidSelect, HidReselect, HidWrite
<1>2. CASE DeviceTask \/ ReadSetup
  BY <1>2 DEF DeviceTask, ReadSetup
<1>3. CASE SetAddress \/ SetConfiguration \/ ClearSetFeature \/ GetStatus \/ Unhandled
  BY <1>3 DEF SetAddress, SetConfiguration, ClearSetFeature, GetStatus, Unhandled
<1>4. CASE StatusStageIN \/ StatusStageOUT \/ StreamEnds
  BY <1>4 DEF StatusStageIN, ClearStatusStageIN, StatusStageOUT, StreamEnds
<1>5. CASE EnableDeviceAddress \/ AddressState \/ ConfigTest \/ ConfigState
  BY <1>5 DEF EnableDeviceAddress, AddressState, ConfigTest, ConfigState
<1>6. CASE ConfigureSelect \/ ConfigurationChanged
  BY <1>6 DEF ConfigureSelect, ConfigurationChanged
<1>7. CASE StallUnhandled \/ RestoreEndpoint
  BY <1>7 DEF StallUnhandled, RestoreEndpoint
<1>8. CASE VbusStage \/ SuspendStage \/ WakeStage \/ ReturnFromInterrupt
  BY <1>8 DEF VbusStage, SuspendStage, WakeStage, ReturnFromInterrupt
<1>9. CASE ResetStage
  BY <1>9 DEF ResetStage
<1>10. CASE Environment
  BY <1>10, EnvironmentLeavesDevice
<1>11. CASE UNCHANGED vars
  BY <1>11 DEF vars
<1>. QED
  BY <1>1, <1>2, <1>3, <1>4, <1>5, <1>6, <1>7, <1>8, <1>9, <1>10, <1>11
  DEF Next, MainLoop, Handler

(***************************************************************************)
(* For every host, a control request finds the control endpoint selected,  *)
(* and a report or the configuration of its endpoint goes astray only      *)
(* after a reset has taken the configuration away.                         *)
(***************************************************************************)
THEOREM SelectCorrect == Spec => []EndpointSelected
<1>1. SelectInv => EndpointSelected
  BY DEF SelectInv
<1>. QED
  BY SelectInit, SelectStep, <1>1, PTL DEF Spec

-----------------------------------------------------------------------------
LEMMA TypeInit == Init => TypeOK
<1>. SUFFICES ASSUME Init
              PROVE  TypeOK
  OBVIOUS
<1>1. /\ vbus \in BOOLEAN /\ calm \in BOOLEAN /\ pll \in BOOLEAN
      /\ frozen \in BOOLEAN /\ SUSPE \in BOOLEAN /\ WAKEUPE \in BOOLEAN
      /\ ADDEN \in BOOLEAN /\ RXSTPI \in BOOLEAN /\ RXOUTI \in BOOLEAN
      /\ ep0 \in BOOLEAN
  BY Zenon DEF Init
<1>. QED
  BY <1>1 DEF Init, TypeOK, Flags, States, RequestKinds, Labels, NoAddress

LEMMA TypeStep == TypeOK /\ [Next]_vars => TypeOK'
<1>. SUFFICES ASSUME TypeOK, [Next]_vars
              PROVE  TypeOK'
  OBVIOUS
<1>. USE DEF TypeOK, Flags, States, RequestKinds, Labels, NoAddress,
             clkVars, devVars, addrVars, ep0Vars, hostVars, mainVars, Goto
<1>1. CASE HidState
  BY <1>1 DEF HidState
<1>2. CASE HidSelect
  BY <1>2 DEF HidSelect
<1>3. CASE HidReselect
  BY <1>3 DEF HidReselect
<1>4. CASE HidWrite
  BY <1>4 DEF HidWrite
<1>5. CASE DeviceTask
  BY <1>5 DEF DeviceTask
<1>6. CASE ReadSetup
  BY <1>6 DEF ReadSetup
<1>7. CASE SetAddress
  <2>1. RXSTPI' \in BOOLEAN
    BY <1>7, Zenon DEF SetAddress
  <2>. QED
    BY <1>7, <2>1 DEF SetAddress
<1>8. CASE SetConfiguration
  <2>1. RXSTPI' \in BOOLEAN
    BY <1>8, Zenon DEF SetConfiguration
  <2>. QED
    BY <1>8, <2>1 DEF SetConfiguration
<1>9. CASE ClearSetFeature
  <2>1. RXSTPI' \in BOOLEAN
    BY <1>9, Zenon DEF ClearSetFeature
  <2>. QED
    BY <1>9, <2>1 DEF ClearSetFeature
<1>10. CASE GetStatus
  <2>1. RXSTPI' \in BOOLEAN
    BY <1>10, Zenon DEF GetStatus
  <2>. QED
    BY <1>10, <2>1 DEF GetStatus
<1>11. CASE Unhandled
  BY <1>11 DEF Unhandled
<1>12. CASE StatusStageIN
  <2>1. ASSUME NEW from, NEW to \in Labels, ClearStatusStageIN(from, to)
        PROVE  TypeOK'
    BY <2>1 DEF ClearStatusStageIN
  <2>. QED
    BY <1>12, <2>1 DEF StatusStageIN
<1>13. CASE StatusStageOUT
  <2>1. RXOUTI' \in BOOLEAN
    BY <1>13, Zenon DEF StatusStageOUT
  <2>. QED
    BY <1>13, <2>1 DEF StatusStageOUT
<1>14. CASE StreamEnds
  <2>1. RXOUTI' \in BOOLEAN
    BY <1>14, Zenon DEF StreamEnds
  <2>. QED
    BY <1>14, <2>1 DEF StreamEnds
<1>15. CASE EnableDeviceAddress
  <2>1. ADDEN' \in BOOLEAN
    BY <1>15, Zenon DEF EnableDeviceAddress
  <2>. QED
    BY <1>15, <2>1 DEF EnableDeviceAddress
<1>16. CASE AddressState
  BY <1>16 DEF AddressState
<1>17. CASE ConfigTest
  BY <1>17 DEF ConfigTest
<1>18. CASE ConfigState
  BY <1>18 DEF ConfigState
<1>19. CASE ConfigureSelect
  BY <1>19 DEF ConfigureSelect
<1>20. CASE ConfigurationChanged
  <2>1. ep0' \in BOOLEAN /\ RXSTPI' \in BOOLEAN
    BY <1>20, Zenon DEF ConfigurationChanged
  <2>. QED
    BY <1>20, <2>1 DEF ConfigurationChanged
<1>21. CASE StallUnhandled
  <2>1. RXSTPI' \in BOOLEAN
    BY <1>21, Zenon DEF StallUnhandled
  <2>. QED
    BY <1>21, <2>1 DEF StallUnhandled
<1>22. CASE RestoreEndpoint
  BY <1>22 DEF RestoreEndpoint
<1>23. CASE VbusStage
  <2>1. pll' \in BOOLEAN
    BY <1>23, Zenon DEF VbusStage
  <2>2. isr' \in 0..3
    BY <1>23 DEF VbusStage, Stage
  <2>. QED
    BY <1>23, <2>1, <2>2 DEF VbusStage
<1>24. CASE SuspendStage
  <2>1. SUSPE' \in BOOLEAN /\ WAKEUPE' \in BOOLEAN /\ frozen' \in BOOLEAN /\ pll' \in BOOLEAN
    BY <1>24, Zenon DEF SuspendStage
  <2>2. isr' \in 0..3
    BY <1>24 DEF SuspendStage, Stage
  <2>. QED
    BY <1>24, <2>1, <2>2 DEF SuspendStage
<1>25. CASE WakeStage
  <2>1. SUSPE' \in BOOLEAN /\ WAKEUPE' \in BOOLEAN /\ frozen' \in BOOLEAN /\ pll' \in BOOLEAN
    BY <1>25, Zenon DEF WakeStage
  <2>2. isr' \in 0..3
    BY <1>25 DEF WakeStage, Stage
  <2>. QED
    BY <1>25, <2>1, <2>2 DEF WakeStage
<1>26. CASE ResetStage
  <2>1. SUSPE' \in BOOLEAN /\ WAKEUPE' \in BOOLEAN /\ RXSTPI' \in BOOLEAN /\ RXOUTI' \in BOOLEAN /\ ep0' \in BOOLEAN
    BY <1>26, Zenon DEF ResetStage
  <2>2. isr' \in 0..3
    BY <1>26 DEF ResetStage, Stage
  <2>. QED
    BY <1>26, <2>1, <2>2 DEF ResetStage
<1>27. CASE ReturnFromInterrupt
  BY <1>27 DEF ReturnFromInterrupt
<1>28. CASE Plug
  <2>1. vbus' \in BOOLEAN
    BY <1>28, Zenon DEF Plug
  <2>. QED
    BY <1>28, <2>1 DEF Plug
<1>29. CASE Unplug
  <2>1. vbus' \in BOOLEAN
    BY <1>29, Zenon DEF Unplug
  <2>. QED
    BY <1>29, <2>1 DEF Unplug
<1>30. CASE BusIdle
  BY <1>30 DEF BusIdle
<1>31. CASE BusActive
  BY <1>31 DEF BusActive
<1>32. CASE HostReset
  <2>1. ADDEN' \in BOOLEAN /\ RXSTPI' \in BOOLEAN /\ RXOUTI' \in BOOLEAN
    BY <1>32, Zenon DEF HostReset, ResetBus
  <2>. QED
    BY <1>32, <2>1 DEF HostReset, ResetBus
<1>33. CASE HostEnumerates
  <2>1. PICK r \in {"SetAddress", "SetConfiguration"} : SendSetup(r)
    BY <1>33 DEF HostEnumerates
  <2>2. RXSTPI' \in BOOLEAN
    BY <2>1, Zenon DEF SendSetup
  <2>. QED
    BY <2>1, <2>2 DEF SendSetup
<1>34. CASE HostAsks
  <2>1. PICK r \in Kinds : SendSetup(r)
    BY <1>34 DEF HostAsks
  <2>2. RXSTPI' \in BOOLEAN
    BY <2>1, Zenon DEF SendSetup
  <2>3. r \in RequestKinds
    BY UsbAssumption
  <2>. QED
    BY <2>1, <2>2, <2>3 DEF SendSetup
<1>35. CASE HostIn
  BY <1>35 DEF HostIn
<1>36. CASE HostOut
  <2>1. RXOUTI' \in BOOLEAN
    BY <1>36, Zenon DEF HostOut
  <2>. QED
    BY <1>36, <2>1 DEF HostOut
<1>37. CASE HostAbandons
  BY <1>37 DEF HostAbandons
<1>38. CASE CalmDown
  <2>1. calm' \in BOOLEAN
    BY <1>38, Zenon DEF CalmDown
  <2>. QED
    BY <1>38, <2>1 DEF CalmDown
<1>39. CASE UNCHANGED vars
  BY <1>39 DEF vars
<1>. QED
  BY <1>1, <1>2, <1>3, <1>4, <1>5, <1>6, <1>7, <1>8, <1>9, <1>10, <1>11,
     <1>12, <1>13, <1>14, <1>15, <1>16, <1>17, <1>18, <1>19, <1>20, <1>21,
     <1>22, <1>23, <1>24, <1>25, <1>26, <1>27, <1>28, <1>29, <1>30, <1>31,
     <1>32, <1>33, <1>34, <1>35, <1>36, <1>37, <1>38, <1>39
  DEF Next, MainLoop, Handler, Environment

(***************************************************************************)
(* Type correctness, for every host: in particular no SetConfiguration     *)
(* request sets a configuration number the device does not have.           *)
(***************************************************************************)
THEOREM TypeCorrect == Spec => []TypeOK
  BY TypeInit, TypeStep, PTL DEF Spec
=============================================================================
