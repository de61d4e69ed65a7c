------------------------- MODULE JoystickSystemProofs -------------------------
(***************************************************************************)
(* Proofs about JoystickSystem, for any number of bytes, turns of the loop *)
(* and places in the queue: its types, and that all the system does to the *)
(* IN endpoint is allowed by ReportPipe, so that the driver of HidDevice,  *)
(* which implements ReportPipe, can stand in its place.                    *)
(***************************************************************************)
EXTENDS JoystickSystem, SequenceTheorems, TLAPS

\* What SystemAssumption says of the constants, in the form the proofs use.
LEMMA Constants ==
  /\ Bytes \in Nat /\ Bytes > 0 /\ LoopsPerByte \in Nat /\ LoopsPerByte > 0
  /\ QueueMax \in Nat /\ QueueMax > 0 /\ Slack \in Nat /\ Slack > 0
  /\ Rates \subseteq Nat /\ Zero \notin Reports
  /\ Nothing \notin Reports /\ Nothing # Zero
BY SystemAssumption DEF SystemAssumption, Values

\* The counter wraps at the last byte's last turn, so the byte is in range.
LEMMA ByteRange ==
  ASSUME NEW c \in 0..(Bytes * LoopsPerByte - 1)
  PROVE  /\ (c + 1) % (Bytes * LoopsPerByte) \in 0..(Bytes * LoopsPerByte - 1)
         /\ Byte(c) \in 0..(Bytes - 1)
<1>1. Bytes * LoopsPerByte \in Nat /\ Bytes * LoopsPerByte > 0
  BY Constants, SMT
<1>2. (c + 1) % (Bytes * LoopsPerByte) \in 0..(Bytes * LoopsPerByte - 1)
  <2>. DEFINE M == Bytes * LoopsPerByte
  <2>. HIDE DEF M
  <2>1. M \in Nat /\ M > 0 /\ c \in 0..(M - 1)
    BY <1>1 DEF M
  <2>2. (c + 1) % M \in 0..(M - 1)
    BY <2>1, SMT
  <2>. QED
    BY <2>2 DEF M
<1>3. c \div LoopsPerByte \in Nat
  BY Constants, SMT
<1>4. c = LoopsPerByte * (c \div LoopsPerByte) + (c % LoopsPerByte)
      /\ c % LoopsPerByte \in Nat
  BY Constants, SMT
<1>5. c \div LoopsPerByte < Bytes
  <2>. DEFINE q == c \div LoopsPerByte
  <2>1. q \in Nat /\ LoopsPerByte * q <= c /\ c < LoopsPerByte * Bytes
    BY <1>3, <1>4, Constants, SMT
  <2>. HIDE DEF q
  <2>2. LoopsPerByte * q < LoopsPerByte * Bytes
    BY <2>1, Constants, SMT
  <2>3. q < Bytes
    BY <2>1, <2>2, Constants, SMT
  <2>. QED
    BY <2>3 DEF q
<1>. QED
  BY <1>2, <1>3, <1>5, Constants DEF Byte

-------------------------------------------------------------------------------
\* A report that is sent is there to be delivered, and so has its type.
Inv == TypeOK /\ (sent => transit # Nothing)

LEMMA InvInit == Init => Inv
<1>. SUFFICES ASSUME Init PROVE Inv
  OBVIOUS
<1>1. panel \in Reports /\ Bytes * LoopsPerByte - 1 \in Nat
  <2>1. Bytes * LoopsPerByte \in Nat /\ Bytes * LoopsPerByte > 0
    BY Constants, SMT
  <2>. QED
    BY <2>1, Constants DEF Init, Reports
<1>2. queue \in Seq(Reports) /\ Len(queue) <= QueueMax
  BY Constants DEF Init
<1>3. sent \in BOOLEAN /\ up \in BOOLEAN
  BY Zenon DEF Init
<1>4. sent = FALSE
  BY DEF Init
<1>. QED
  BY <1>1, <1>2, <1>3, <1>4, Constants DEF Init, Inv, TypeOK, Values, NoByte

LEMMA InvStep == Inv /\ [Next]_vars => Inv'
<1>. SUFFICES ASSUME Inv, [Next]_vars PROVE Inv'
  OBVIOUS
<1>. USE Constants DEF Inv, TypeOK, pipeVars
<1>1. CASE SetConfiguration
  BY <1>1 DEF SetConfiguration, P!SetRate
<1>2. CASE EnableEndpoint
  <2>0. transit' = Nothing
    BY <1>2 DEF EnableEndpoint
  <2>1. CASE sent' = FALSE
    BY <1>2, <2>0, <2>1 DEF EnableEndpoint, P!Restart
  <2>2. CASE UNCHANGED <<transit, sent>>
    <3>1. ~sent /\ sent' = sent
      BY <2>0, <2>2
    <3>2. sent' \in BOOLEAN /\ ~sent'
      BY <3>1, Zenon
    <3>. QED
      BY <1>2, <2>0, <3>2 DEF EnableEndpoint, P!Restart
  <2>. QED
    BY <1>2, <2>1, <2>2 DEF EnableEndpoint, P!Restart
<1>3. CASE SetIdle
  BY <1>3 DEF SetIdle, P!SetRate
<1>4. CASE GetFeature
  BY <1>4 DEF GetFeature, P!Ask, Values
<1>5. CASE Read
  <2>1. CASE queue = <<>>
    BY <1>5, <2>1 DEF Read
  <2>2. CASE queue # <<>>
    <3>1. Head(queue) \in Reports /\ Tail(queue) \in Seq(Reports)
          /\ Len(Tail(queue)) = Len(queue) - 1 /\ Len(queue) \in Nat
      BY <2>2, HeadTailProperties, LenProperties
    <3>. QED
      BY <1>5, <2>2, <3>1 DEF Read
  <2>. QED
    BY <2>1, <2>2
<1>6. CASE Write
  <2>1. NextCount \in 0..(Bytes * LoopsPerByte - 1)
    BY ByteRange DEF NextCount
  <2>2. Byte(NextCount) \in 0..(Bytes - 1)
    BY <2>1, ByteRange
  <2>. QED
    BY <1>6, <2>1, <2>2 DEF Write, Send
<1>7. CASE ProcessHIDReport
  <2>1. pending \in 0..(Bytes - 1)
    BY <1>7 DEF ProcessHIDReport
  <2>2. [panel EXCEPT !.Y = pending] \in Reports
    BY <2>1 DEF Reports
  <2>. QED
    BY <1>7, <2>1, <2>2 DEF ProcessHIDReport
<1>8. CASE Driver
  <2>1. CASE P!Sample
    BY <1>8, <2>1 DEF Driver, P!Sample
  <2>2. CASE P!KeepBack
    <3>1. sent' \in BOOLEAN /\ (sent' => transit' # Nothing)
      BY <2>2, Zenon DEF P!KeepBack
    <3>. QED
      BY <1>8, <2>2, <3>1 DEF Driver, P!KeepBack
  <2>3. CASE P!Send
    <3>1. sent' \in BOOLEAN
      BY <2>3, Zenon DEF P!Send
    <3>. QED
      BY <1>8, <2>3, <3>1 DEF Driver, P!Send, Values
  <2>. QED
    BY <1>8, <2>1, <2>2, <2>3 DEF Driver
<1>9. CASE Poll
  <2>0. transit \in Reports
    BY <1>9 DEF Poll, P!Deliver
  <2>a. sent' \in BOOLEAN /\ (sent' => transit' # Nothing)
    BY <1>9, Zenon DEF Poll, P!Deliver
  <2>1. CASE Len(queue) < QueueMax
    <3>1. Append(queue, transit) \in Seq(Reports)
          /\ Len(Append(queue, transit)) = Len(queue) + 1 /\ Len(queue) \in Nat
      BY <2>0, AppendProperties, LenProperties
    <3>. QED
      BY <1>9, <2>0, <2>a, <2>1, <3>1 DEF Poll, P!Deliver
  <2>2. CASE ~(Len(queue) < QueueMax)
    BY <1>9, <2>0, <2>a, <2>2 DEF Poll, P!Deliver
  <2>. QED
    BY <2>1, <2>2
<1>10. CASE PressOrRelease
  <2>1. PICK b \in Pins : panel' = [panel EXCEPT !.Button = b]
    BY <1>10 DEF PressOrRelease
  <2>2. panel' \in Reports
    BY <2>1 DEF Reports
  <2>. QED
    BY <1>10, <2>2 DEF PressOrRelease
<1>11. CASE UNCHANGED vars
  BY <1>11 DEF vars
<1>. QED
  BY <1>1, <1>2, <1>3, <1>4, <1>5, <1>6, <1>7, <1>8, <1>9, <1>10, <1>11
     DEF Next, Start, Device

-------------------------------------------------------------------------------
(***************************************************************************)
(* The system keeps its types: the queue never holds more reports than it  *)
(* has places for, and every byte the program writes fits in one.          *)
(***************************************************************************)
THEOREM TypeCorrect == Spec => []TypeOK
<1>1. Inv => TypeOK
  BY DEF Inv
<1>. QED
  BY <1>1, InvInit, InvStep, PTL DEF Spec

(***************************************************************************)
(* Whatever the program, the kernel and the buttons do, the IN endpoint    *)
(* sees a step of ReportPipe or none.                                      *)
(***************************************************************************)
THEOREM PipeUsed == Spec => P!Spec
<1>1. Init => P!Init
  <2>. SUFFICES ASSUME Init PROVE P!Init
    OBVIOUS
  <2>1. panel \in Values /\ told \in Values
    BY Constants DEF Init, Values, Reports
  <2>. QED
    BY <2>1 DEF Init, P!Init
<1>2. Inv /\ [Next]_vars => [P!Next]_(P!vars)
  <2>. SUFFICES ASSUME Inv, Next \/ UNCHANGED vars
                PROVE  P!Next \/ UNCHANGED P!vars
    OBVIOUS
  <2>1. CASE Start
    BY <2>1 DEF Start, SetConfiguration, EnableEndpoint, SetIdle, GetFeature,
                P!Next
  <2>2. CASE Read \/ Write \/ UNCHANGED vars
    BY <2>2 DEF Read, Write, Send, vars, pipeVars, P!vars
  <2>3. CASE ProcessHIDReport
    <3>1. [panel EXCEPT !.Y = pending] \in Values
      BY <2>3 DEF ProcessHIDReport, Inv, TypeOK, Reports, Values
    <3>. QED
      BY <2>3, <3>1 DEF ProcessHIDReport, P!Next, P!Change
  <2>4. CASE Driver \/ Poll
    BY <2>4 DEF Driver, Poll, P!Next
  <2>5. CASE PressOrRelease
    <3>1. PICK b \in Pins : panel' = [panel EXCEPT !.Button = b]
      BY <2>5 DEF PressOrRelease
    <3>2. panel' \in Values
      BY <3>1 DEF Inv, TypeOK, Reports, Values
    <3>. QED
      BY <2>5, <3>2 DEF PressOrRelease, P!Next, P!Change
  <2>. QED
    BY <2>1, <2>2, <2>3, <2>4, <2>5 DEF Next, Device
<1>. QED
  BY <1>1, <1>2, InvInit, InvStep, PTL DEF Spec, P!Spec
===============================================================================
