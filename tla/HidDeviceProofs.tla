--------------------------- MODULE HidDeviceProofs ---------------------------
(***************************************************************************)
(* Proofs about HidDevice, for every set of pin readings and output bytes, *)
(* every idle rate and every width of bytes and frame numbers.             *)
(***************************************************************************)
EXTENDS HidDevice, TLAPS

\* The constants, with what HidAssumption says of them spelled out.
LEMMA Constants ==
  /\ ByteBase \in Nat /\ ByteBase > 1 /\ 0 \in 0..(ByteBase * ByteBase - 1)
  /\ LoopFrames \in Nat /\ LoopFrames > 0 /\ LoopFrames < ByteBase
  /\ FrameMod \in Nat /\ FrameMod > 1
  /\ CanReset \in BOOLEAN
<1>1. ByteBase \in Nat /\ ByteBase > 1
  BY HidAssumption
<1>2. ByteBase * ByteBase >= 1
  BY <1>1
<1>3. 0 \in 0..(ByteBase * ByteBase - 1)
  BY <1>1, <1>2
<1>. QED
  BY <1>1, <1>3, HidAssumption

\* The high byte of a 16-bit number fits in a byte, and so does the low one.
LEMMA BytesFit ==
  ASSUME NEW n \in 0..(ByteBase * ByteBase - 1)
  PROVE  /\ n \div ByteBase \in 0..(ByteBase - 1)
         /\ n % ByteBase \in 0..(ByteBase - 1)
<1>1. ByteBase \in Nat /\ ByteBase > 0
  BY HidAssumption
<1>. DEFINE q == n \div ByteBase  r == n % ByteBase
<1>2. n \in Nat /\ n < ByteBase * ByteBase
  BY <1>1
<1>3. q \in Int /\ r \in 0..(ByteBase - 1) /\ n = ByteBase * q + r
  BY <1>1, <1>2
<1>. HIDE DEF q, r
<1>4. q >= 0
  BY <1>1, <1>2, <1>3
<1>5. q < ByteBase
  BY <1>1, <1>2, <1>3
<1>. QED
  BY <1>1, <1>3, <1>4, <1>5 DEF q, r

\* A frame number read in two halves is still a number.
LEMMA FrameNumberIsNat ==
  ASSUME frame \in 0..(FrameMod - 1), NEW f \in GetFrameNumber
  PROVE  f \in Nat
  BY HidAssumption DEF GetFrameNumber, Mixed, HighByteOf, NextFrame

\* A SetIdle request carries a rate whose count fits in 16 bits, a SetReport
\* request an output byte.
LEMMA RequestArguments ==
  ASSUME setup \in Requests \union {SetConfiguration, NoRequest}
  PROVE  /\ setup.bRequest = "SetIdle" => setup.arg \in IdleRates
         /\ setup.bRequest = "SetReport" => setup.arg \in Outs
  BY DEF Requests, SetConfiguration, NoRequest

\* The report is created before anything is done with it, so what goes into
\* the bank describes the pins and the output byte.
ReportCreated ==
  pc \in {"idle1", "idle2", "compare", "load1", "load2", "write"}
    => report \in Reports

TypeInv == TypeOK /\ ReportCreated

LEMMA TypeInit == Init => TypeInv
<1>. SUFFICES ASSUME Init
              PROVE  TypeOK /\ ReportCreated
  BY DEF TypeInv
<1>1. /\ UsingReportProtocol \in BOOLEAN /\ configured \in BOOLEAN
      /\ sofEnabled \in BOOLEAN /\ epEnabled \in BOOLEAN
      /\ IdlePeriodElapsed \in BOOLEAN /\ overwritten \in BOOLEAN
  BY DEF Init
<1>. QED
  BY <1>1, HidAssumption, Constants
  DEF Init, TypeOK, ReportCreated, Labels, Halves

LEMMA TypeStep == TypeInv /\ [Next]_vars => TypeInv'
<1> SUFFICES ASSUME TypeOK, ReportCreated, [Next]_vars
             PROVE  TypeOK' /\ ReportCreated'
  BY DEF TypeInv
<1>. USE DEF TypeOK, ReportCreated, appVars, idleVars, stateVars, usbVars,
             pipeVars, locals, vars, Labels, Halves
<1>1. CASE CheckState
  BY <1>1 DEF CheckState, Goto
<1>2. CASE CheckFrame
  BY <1>2 DEF CheckFrame, Goto
<1>3. CASE CheckBank
  BY <1>3 DEF CheckBank, Goto
<1>4. CASE CreateReport
  BY <1>4 DEF CreateReport, Goto, CreateHIDReport, Reports, Mask
<1>5. CASE ReadIdleFirst
  <2>1. PICK h \in Halves : half' = h /\ IdlePeriodElapsed' = ByteIsZero(h)
    BY <1>5 DEF ReadIdleFirst
  <2>2. ByteIsZero(h) \in BOOLEAN
    BY DEF ByteIsZero
  <2>3. IdlePeriodElapsed' \in BOOLEAN
    BY <2>1, <2>2
  <2>. QED
    BY <1>5, <2>1, <2>3 DEF ReadIdleFirst, Goto
<1>6. CASE ReadIdleSecond
  BY <1>6 DEF ReadIdleSecond, Goto, ByteIsZero
<1>7. CASE CompareReports
  BY <1>7 DEF CompareReports, Goto
<1>8. CASE LoadIdleFirst
  BY <1>8, BytesFit DEF LoadIdleFirst, Goto, StoreByte, Other
<1>9. CASE LoadIdleSecond
  BY <1>9, BytesFit DEF LoadIdleSecond, Goto, StoreByte, Other
<1>10. CASE WriteReport
  BY <1>10 DEF WriteReport, Goto
<1>11. CASE SaveFrame
  <2>1. PrevFrameNum' \in Nat
    BY <1>11, FrameNumberIsNat DEF SaveFrame
  <2>2. IdlePeriodElapsed' \in BOOLEAN /\ UsingReportProtocol' \in BOOLEAN
    BY <1>11 DEF SaveFrame
  <2>. QED
    BY <1>11, <2>1, <2>2 DEF SaveFrame, Goto
<1>12. CASE NoSetup
  BY <1>12, Constants DEF NoSetup, Received, Handled
<1>13. CASE GetReport
  BY <1>13, Constants DEF GetReport, Received, Handled, CreateHIDReport, Reports, Mask
<1>14. CASE SetReport
  BY <1>14, Constants, RequestArguments DEF SetReport, Received, Handled
<1>15. CASE SetIdle
  BY <1>15, RequestArguments, HidAssumption DEF SetIdle, Received, Handled
<1>16. CASE SetProtocol
  BY <1>16, Constants DEF SetProtocol, Received, Handled
<1>17. CASE GetIdleOrProtocol
  BY <1>17, Constants DEF GetIdleOrProtocol, Received, Handled
<1>18. CASE Configure
  BY <1>18, HidAssumption DEF Configure, Received
<1>19. CASE ClearIdleFirst
  BY <1>19, BytesFit, HidAssumption DEF ClearIdleFirst, Goto, StoreByte, Other
<1>20. CASE ClearIdleSecond
  BY <1>20, BytesFit, HidAssumption DEF ClearIdleSecond, Goto, StoreByte, Other
<1>21. CASE EnableEndpoint
  BY <1>21, Constants, HidAssumption DEF EnableEndpoint, Goto
<1>22. CASE StartOfFrame
  BY <1>22, HidAssumption DEF StartOfFrame, MillisecondElapsed, NextFrame
<1>23. CASE BusReset
  <2>1. /\ configured' \in BOOLEAN /\ epEnabled' \in BOOLEAN
        /\ sofEnabled' \in BOOLEAN
    BY <1>23 DEF BusReset
  <2>. QED
    BY <1>23, <2>1 DEF BusReset
<1>24. CASE HostRequest
  BY <1>24 DEF HostRequest
<1>25. CASE HostPoll
  BY <1>25 DEF HostPoll
<1>26. CASE PressOrRelease
  BY <1>26 DEF PressOrRelease
<1>27. CASE UNCHANGED vars
  BY <1>27
<1>. QED
  BY <1>1, <1>2, <1>3, <1>4, <1>5, <1>6, <1>7, <1>8, <1>9, <1>10, <1>11, <1>12, <1>13, <1>14, <1>15, <1>16, <1>17, <1>18, <1>19, <1>20, <1>21, <1>22, <1>23, <1>24, <1>25, <1>26, <1>27 DEF Next, HIDTask, USBTask

(***************************************************************************)
(* The state HIDClassDevice.c and joystick.c keep is well typed in every   *)
(* reachable state: in particular both bytes of IdleMSRemaining stay bytes *)
(* whatever the interrupt handler does between the two halves of a store,  *)
(* and the bank only ever holds a report that CreateHIDReport filled in.   *)
(***************************************************************************)
THEOREM TypeCorrect == Spec => []TypeOK
<1>1. TypeInv => TypeOK
  BY DEF TypeInv
<1>. QED
  BY TypeInit, TypeStep, <1>1, PTL DEF Spec

-----------------------------------------------------------------------------
(***************************************************************************)
(* What the properties below rest on.  From the test of RWAL to            *)
(* Endpoint_ClearIN the bank stays empty; once the comparison is made the  *)
(* buffer is the report being sent; a disabled endpoint has given the host *)
(* nothing; and an elapsed idle period is only found under an idle rate.   *)
(***************************************************************************)
BankFree ==
  pc \in {"create", "idle1", "idle2", "compare", "load1", "load2", "write"}
    => bank = NoReport

BufferIsReport == Sending => PrevReport = report

NothingWhenDisabled == ~epEnabled => bank = NoReport /\ hostIn = NoReport

ElapsedUnderRate ==
  /\ pc \in {"idle1", "idle2"} => IdleCount # 0
  /\ IdlePeriodElapsed =>
       /\ IdleCount # 0
       /\ pc \in {"idle2", "compare", "load1", "load2", "write", "saveFrame"}

\* A report on its way that is no news to the host goes out under an idle rate.
NewsOrRate == (Sending /\ report = Handed /\ ~overwritten) => IdleCount # 0

PipeInv ==
  /\ BankFree
  /\ BufferIsReport
  /\ NothingWhenDisabled
  /\ ElapsedUnderRate
  /\ NewsOrRate
  /\ BufferMatchesHost

LEMMA PipeInit == Init => PipeInv
  BY DEF Init, PipeInv, BankFree, BufferIsReport, NothingWhenDisabled,
         ElapsedUnderRate, NewsOrRate, BufferMatchesHost, Sending, Handed

LEMMA PipeStep == TypeInv /\ PipeInv /\ [Next]_vars => PipeInv'
<1> SUFFICES ASSUME TypeInv, PipeInv, [Next]_vars
             PROVE  PipeInv'
  OBVIOUS
<1>. USE DEF PipeInv, BankFree, BufferIsReport, NothingWhenDisabled,
             ElapsedUnderRate, NewsOrRate, BufferMatchesHost, Sending, Handed,
             appVars, idleVars, stateVars, usbVars, pipeVars, locals, vars
<1>0. report # NoReport /\ PrevReport # NoReport
  BY HidAssumption DEF TypeInv, TypeOK
<1>1. CASE CheckState
  BY <1>0, <1>1 DEF CheckState, Goto
<1>2. CASE CheckFrame
  BY <1>0, <1>2 DEF CheckFrame, Goto
<1>3. CASE CheckBank
  BY <1>0, <1>3 DEF CheckBank, Goto, ReadWriteAllowed
<1>4. CASE CreateReport
  BY <1>0, <1>4 DEF CreateReport, Goto
<1>5. CASE ReadIdleFirst
  BY <1>0, <1>5 DEF ReadIdleFirst, Goto
<1>6. CASE ReadIdleSecond
  BY <1>0, <1>6 DEF ReadIdleSecond, Goto
<1>7. CASE CompareReports
  BY <1>0, <1>7 DEF CompareReports, Goto, StatesChanged
<1>8. CASE LoadIdleFirst
  BY <1>0, <1>8 DEF LoadIdleFirst, Goto
<1>9. CASE LoadIdleSecond
  BY <1>0, <1>9 DEF LoadIdleSecond, Goto
<1>10. CASE WriteReport
  BY <1>0, <1>10 DEF WriteReport, Goto
<1>11. CASE SaveFrame
  BY <1>0, <1>11 DEF SaveFrame, Goto
<1>12. CASE NoSetup
  BY <1>0, <1>12 DEF NoSetup, Received, Handled
<1>13. CASE GetReport
  BY <1>0, <1>13 DEF GetReport, Received, Handled
<1>14. CASE SetReport
  BY <1>0, <1>14 DEF SetReport, Received, Handled
<1>15. CASE SetIdle
  BY <1>0, <1>15 DEF SetIdle, Received, Handled
<1>16. CASE SetProtocol
  BY <1>0, <1>16 DEF SetProtocol, Received, Handled
<1>17. CASE GetIdleOrProtocol
  BY <1>0, <1>17 DEF GetIdleOrProtocol, Received, Handled
<1>18. CASE Configure
  BY <1>0, <1>18 DEF Configure, Received
<1>19. CASE ClearIdleFirst
  BY <1>0, <1>19 DEF ClearIdleFirst, Goto
<1>20. CASE ClearIdleSecond
  BY <1>0, <1>20 DEF ClearIdleSecond, Goto
<1>21. CASE EnableEndpoint
  BY <1>0, <1>21 DEF EnableEndpoint, Goto
<1>22. CASE StartOfFrame
  BY <1>0, <1>22 DEF StartOfFrame
<1>23. CASE BusReset
  BY <1>0, <1>23 DEF BusReset
<1>24. CASE HostRequest
  BY <1>0, <1>24 DEF HostRequest
<1>25. CASE HostPoll
  BY <1>0, <1>25 DEF HostPoll
<1>26. CASE PressOrRelease
  BY <1>0, <1>26 DEF PressOrRelease
<1>27. CASE UNCHANGED vars
  BY <1>27
<1>. QED
  BY <1>1, <1>2, <1>3, <1>4, <1>5, <1>6, <1>7, <1>8, <1>9, <1>10, <1>11, <1>12, <1>13, <1>14, <1>15, <1>16, <1>17, <1>18, <1>19, <1>20, <1>21, <1>22, <1>23, <1>24, <1>25, <1>26, <1>27 DEF Next, HIDTask, USBTask

LEMMA PipeInvariant == Spec => [](TypeInv /\ PipeInv)
  BY TypeInit, TypeStep, PipeInit, PipeStep, PTL DEF Spec

(***************************************************************************)
(* Once a report has gone out on the IN endpoint, and unless GetReport has *)
(* replaced it, PrevReportINBuffer is the report the host took last or     *)
(* will take next: HID_Device_USBTask compares with what the host knows.   *)
(***************************************************************************)
THEOREM BufferCorrect == Spec => []BufferMatchesHost
<1>1. PipeInv => BufferMatchesHost
  BY DEF PipeInv
<1>. QED
  BY PipeInvariant, <1>1, PTL

(***************************************************************************)
(* With an idle rate of zero HID_Device_USBTask never sends the host the   *)
(* report it already has.                                                  *)
(***************************************************************************)
THEOREM QuietCorrect == Spec => []QuietWhenIdleIsInfinite
<1>1. PipeInv => QuietWhenIdleIsInfinite
  BY DEF PipeInv, NewsOrRate, QuietWhenIdleIsInfinite, Sending
<1>. QED
  BY PipeInvariant, <1>1, PTL

(***************************************************************************)
(* No step puts a report into a bank the host has not emptied: between     *)
(* Endpoint_IsReadWriteAllowed and Endpoint_ClearIN nothing else fills it. *)
(***************************************************************************)
THEOREM BankCorrect == Spec => BankNotOverrun
<1>1. PipeInv /\ [Next]_vars => [bank # NoReport => bank' \in {bank, NoReport}]_vars
  <2>. SUFFICES ASSUME PipeInv, Next, bank # NoReport
                PROVE  bank' \in {bank, NoReport}
    OBVIOUS
  <2>1. CASE WriteReport
    BY <2>1 DEF WriteReport, Goto, PipeInv, BankFree
  <2>2. CASE HIDTask /\ ~WriteReport
    BY <2>2 DEF HIDTask, CheckState, CheckFrame, CheckBank, CreateReport,
      ReadIdleFirst, ReadIdleSecond, CompareReports, LoadIdleFirst,
      LoadIdleSecond, SaveFrame, pipeVars
  <2>3. CASE USBTask
    BY <2>3 DEF USBTask, NoSetup, GetReport, SetReport, SetIdle, SetProtocol,
      GetIdleOrProtocol, Configure, ClearIdleFirst, ClearIdleSecond,
      EnableEndpoint, pipeVars
  <2>4. CASE StartOfFrame \/ BusReset \/ HostRequest \/ HostPoll \/ PressOrRelease
    BY <2>4 DEF StartOfFrame, BusReset, HostRequest, HostPoll, PressOrRelease,
      pipeVars
  <2>. QED
    BY <2>1, <2>2, <2>3, <2>4 DEF Next
<1>. QED
  BY PipeInvariant, <1>1, PTL DEF Spec, BankNotOverrun

-----------------------------------------------------------------------------
\* Every step of the driver, the interrupt and the host is a step of the pipe,
\* or none: the report is in the bank or with the main loop, never in both.
LEMMA PipeRefinement ==
  TypeInv /\ TypeInv' /\ PipeInv /\ [Next]_vars => [Pipe!Next]_(Pipe!vars)
<1>. SUFFICES ASSUME TypeInv, TypeInv', PipeInv, [Next]_vars
              PROVE  [Pipe!Next]_(Pipe!vars)
  OBVIOUS
<1>. USE DEF PipeInv, BankFree, BufferIsReport, NothingWhenDisabled,
             ElapsedUnderRate, Sending, Sampled, Transit, CreateHIDReport, Goto,
             Received, Handled, appVars, idleVars, stateVars, usbVars, pipeVars,
             locals, Pipe!Next, Pipe!vars
<1>0. report # NoReport /\ PrevReport # NoReport
  BY HidAssumption DEF TypeInv, TypeOK
<1>b. CreateHIDReport' \in Reports \union {ZeroReport} /\ CreateHIDReport # NoReport
  BY HidAssumption DEF TypeInv, TypeOK, Reports
<1>c. IdleCount' \in Nat /\ epEnabled' \in BOOLEAN
  BY Constants DEF TypeInv, TypeOK
<1>1. CASE CheckState
  BY <1>0, <1>b, <1>c, <1>1 DEF CheckState
<1>2. CASE CheckFrame
  BY <1>0, <1>b, <1>c, <1>2 DEF CheckFrame
<1>3. CASE CheckBank
  BY <1>0, <1>b, <1>c, <1>3 DEF CheckBank
<1>4. CASE CreateReport
  BY <1>0, <1>b, <1>c, <1>4 DEF CreateReport, Pipe!Sample
<1>5. CASE ReadIdleFirst
  BY <1>0, <1>b, <1>c, <1>5 DEF ReadIdleFirst
<1>6. CASE ReadIdleSecond
  BY <1>0, <1>b, <1>c, <1>6 DEF ReadIdleSecond
<1>7. CASE CompareReports
  BY <1>0, <1>b, <1>c, <1>7 DEF CompareReports, StatesChanged, Pipe!KeepBack, Pipe!Send
<1>8. CASE LoadIdleFirst
  BY <1>0, <1>b, <1>c, <1>8 DEF LoadIdleFirst
<1>9. CASE LoadIdleSecond
  BY <1>0, <1>b, <1>c, <1>9 DEF LoadIdleSecond
<1>10. CASE WriteReport
  BY <1>0, <1>b, <1>c, <1>10 DEF WriteReport, Pipe!Lose
<1>11. CASE SaveFrame
  BY <1>0, <1>b, <1>c, <1>11 DEF SaveFrame
<1>12. CASE NoSetup
  BY <1>0, <1>b, <1>c, <1>12 DEF NoSetup
<1>13. CASE GetReport
  BY <1>0, <1>b, <1>c, <1>13 DEF GetReport, Pipe!Ask
<1>14. CASE SetReport
  BY <1>0, <1>b, <1>c, <1>14 DEF SetReport, Pipe!Change
<1>15. CASE SetIdle
  BY <1>0, <1>b, <1>c, <1>15 DEF SetIdle, Pipe!SetRate
<1>16. CASE SetProtocol
  BY <1>0, <1>b, <1>c, <1>16 DEF SetProtocol
<1>17. CASE GetIdleOrProtocol
  BY <1>0, <1>b, <1>c, <1>17 DEF GetIdleOrProtocol
<1>18. CASE Configure
  BY <1>0, <1>b, <1>c, <1>18 DEF Configure, Pipe!SetRate
<1>19. CASE ClearIdleFirst
  BY <1>0, <1>b, <1>c, <1>19 DEF ClearIdleFirst
<1>20. CASE ClearIdleSecond
  BY <1>0, <1>b, <1>c, <1>20 DEF ClearIdleSecond
<1>21. CASE EnableEndpoint
  BY <1>0, <1>b, <1>c, <1>21 DEF EnableEndpoint, Pipe!Restart
<1>22. CASE StartOfFrame
  BY <1>0, <1>b, <1>c, <1>22 DEF StartOfFrame
<1>23. CASE BusReset
  BY <1>0, <1>b, <1>c, <1>23 DEF BusReset, Pipe!Restart
<1>24. CASE HostRequest
  BY <1>0, <1>b, <1>c, <1>24 DEF HostRequest
<1>25. CASE HostPoll
  BY <1>0, <1>b, <1>c, <1>25 DEF HostPoll, Pipe!Deliver
<1>26. CASE PressOrRelease
  BY <1>0, <1>b, <1>c, <1>26 DEF PressOrRelease, Pipe!Change
<1>27. CASE UNCHANGED vars
  BY <1>27 DEF vars
<1>. QED
  BY <1>1, <1>2, <1>3, <1>4, <1>5, <1>6, <1>7, <1>8, <1>9, <1>10, <1>11, <1>12, <1>13, <1>14, <1>15, <1>16, <1>17, <1>18, <1>19, <1>20, <1>21, <1>22, <1>23, <1>24, <1>25, <1>26, <1>27 DEF Next, HIDTask, USBTask

(***************************************************************************)
(* The HID driver implements ReportPipe, for all constants: what           *)
(* HID_Device_USBTask keeps from the host is no news, what it sends is     *)
(* news or asked for, and what it sends arrives unless the bus is reset.   *)
(***************************************************************************)
THEOREM PipeCorrect == Spec => ImplementsPipe
<1>1. Init => Pipe!Init
  BY HidAssumption DEF Init, Pipe!Init, Transit, Sampled, Sending,
                       CreateHIDReport, Reports
<1>2. TypeInv /\ TypeInv' /\ PipeInv /\ [Next]_vars => [Pipe!Next]_(Pipe!vars)
  BY PipeRefinement
<1>. QED
  BY <1>1, <1>2, PipeInvariant, PTL DEF Spec, ImplementsPipe, Pipe!Spec

-----------------------------------------------------------------------------
(***************************************************************************)
(* The idle timer.  PHi and PLo are the bytes of the period being stored.  *)
(* While one byte is stored and the other is not (pc = "load2" or          *)
(* "clear2"), StoreInv says how far frames that begin in between have      *)
(* moved the stored byte; no byte can wrap twice, because fewer than       *)
(* ByteBase frames begin.  TimerInv is what holds once both are stored.    *)
(***************************************************************************)
PHi == period \div ByteBase
PLo == period % ByteBase

Storing == pc \in {"load2", "clear2"}

\* The low byte went first: it has run down with the time left, or wrapped
\* once, or stopped at zero because nothing was left in the old high byte.
LowFirst ==
  \/ PHi * ByteBase + IdleLo = due
  \/ /\ IdleLo + sofs >= PLo + ByteBase
     /\ PHi * ByteBase + IdleLo \in due..(due + ByteBase)
  \/ IdleLo = 0 /\ IdleHi = 0 /\ due <= PHi * ByteBase

\* The high byte went first: the old low byte has borrowed from it at most once.
HighFirst ==
  \/ IdleHi = PHi
  \/ IdleHi = PHi - 1 /\ IdleLo + sofs >= ByteBase

StoreInv ==
  Storing =>
    /\ due <= period /\ period <= due + sofs
    /\ half = "lo" => LowFirst
    /\ half = "hi" => HighFirst
    /\ period = IF pc = "load2" THEN IdleCount ELSE 0

TimerInv ==
  ~Storing =>
    /\ IdleMSRemaining \in (due - ByteBase)..(due + ByteBase)
    /\ period < ByteBase => IdleHi = 0 /\ due <= IdleLo

\* A low byte read as zero means that the period is over.
ElapsedInv ==
  period < ByteBase =>
    /\ (pc = "idle2" /\ half = "lo" /\ IdlePeriodElapsed) => due = 0
    /\ (pc = "compare" /\ IdlePeriodElapsed) => due = 0

PeriodFits == period \in 0..(ByteBase * ByteBase - 1) /\ due \in Nat

IdleInv == PeriodFits /\ StoreInv /\ TimerInv /\ ElapsedInv

\* A number is made of its bytes.
LEMMA BytesOf ==
  ASSUME NEW n \in 0..(ByteBase * ByteBase - 1)
  PROVE  /\ n = (n \div ByteBase) * ByteBase + (n % ByteBase)
         /\ n < ByteBase => n \div ByteBase = 0
<1>1. ByteBase \in Nat /\ ByteBase > 1 /\ n \in Nat
  BY Constants
<1>2. /\ n \div ByteBase \in 0..(ByteBase - 1)
      /\ n % ByteBase \in 0..(ByteBase - 1)
  BY BytesFit
<1>3. n = ByteBase * (n \div ByteBase) + (n % ByteBase)
  BY <1>1
<1>. DEFINE q == n \div ByteBase  r == n % ByteBase
<1>4. q \in Nat /\ r \in Nat /\ n = ByteBase * q + r
  BY <1>1, <1>2, <1>3
<1>. HIDE DEF q, r
<1>5. n = q * ByteBase + r
  BY <1>1, <1>4
<1>6. n < ByteBase => q = 0
  BY <1>1, <1>4
<1>. QED
  BY <1>5, <1>6 DEF q, r

LEMMA IdleInit == Init => IdleInv
  BY Constants
  DEF Init, IdleInv, PeriodFits, StoreInv, TimerInv, ElapsedInv, Storing,
      IdleMSRemaining

\* What a start-of-frame interrupt does to the timer and to the time left.
LEMMA IdleTick ==
  ASSUME TypeInv, IdleInv, StartOfFrame
  PROVE  IdleInv'
<1>. DEFINE X == PHi * ByteBase
<1>1. /\ ByteBase \in Nat /\ ByteBase > 1
      /\ IdleHi \in Nat /\ IdleHi < ByteBase
      /\ IdleLo \in Nat /\ IdleLo < ByteBase
      /\ due \in Nat /\ period \in Nat
      /\ sofs \in Nat /\ sofs < LoopFrames /\ LoopFrames < ByteBase
      /\ LoopFrames \in Nat
  BY Constants DEF TypeInv, TypeOK, StartOfFrame, IdleInv, PeriodFits
<1>2. PHi \in Nat /\ PLo \in Nat /\ period = X + PLo /\ X \in Nat
  BY <1>1, BytesOf, BytesFit DEF PHi, PLo, IdleInv, PeriodFits
<1>3. /\ UNCHANGED <<pc, half, period, IdleCount, IdlePeriodElapsed>>
      /\ sofs' = sofs + 1
      /\ PHi' = PHi /\ PLo' = PLo /\ X' = X
  BY DEF StartOfFrame, MillisecondElapsed, idleVars, stateVars, locals, PHi, PLo
<1>4. \/ IdleHi' = IdleHi /\ IdleLo' = IdleLo /\ due' = due
      \/ /\ \/ IdleLo > 0 /\ IdleLo' = IdleLo - 1 /\ IdleHi' = IdleHi
            \/ /\ IdleLo = 0 /\ IdleHi > 0
               /\ IdleLo' = ByteBase - 1 /\ IdleHi' = IdleHi - 1
            \/ IdleLo = 0 /\ IdleHi = 0 /\ IdleLo' = 0 /\ IdleHi' = 0
         /\ \/ due > 0 /\ due' = due - 1
            \/ due = 0 /\ due' = 0
  BY <1>1 DEF StartOfFrame, MillisecondElapsed, idleVars
<1>. HIDE DEF X
<1>5. PeriodFits'
  BY <1>1, <1>3, <1>4 DEF IdleInv, PeriodFits
<1>6. ElapsedInv'
  BY <1>1, <1>3, <1>4 DEF IdleInv, ElapsedInv
<1>7. StoreInv'
  <2>. SUFFICES ASSUME Storing
                PROVE  /\ due' <= period /\ period <= due' + sofs'
                       /\ half = "lo" => LowFirst'
                       /\ half = "hi" => HighFirst'
    BY <1>3 DEF StoreInv, IdleInv, Storing
  <2>1. /\ due <= period /\ period <= due + sofs
        /\ half = "lo" => LowFirst
        /\ half = "hi" => HighFirst
    BY DEF IdleInv, StoreInv
  <2>2. due' <= period /\ period <= due' + sofs'
    BY <1>1, <1>3, <1>4, <2>1
  <2>3. ASSUME half = "lo"
        PROVE  LowFirst'
    BY <1>1, <1>2, <1>3, <1>4, <2>1, <2>3 DEF LowFirst, X
  <2>4. ASSUME half = "hi"
        PROVE  HighFirst'
    BY <1>1, <1>2, <1>3, <1>4, <2>1, <2>4 DEF HighFirst
  <2>. QED
    BY <2>2, <2>3, <2>4
<1>8. TimerInv'
  <2>. SUFFICES ASSUME ~Storing
                PROVE  /\ IdleMSRemaining' \in (due' - ByteBase)..(due' + ByteBase)
                       /\ period < ByteBase => IdleHi' = 0 /\ due' <= IdleLo'
    BY <1>3 DEF TimerInv, Storing
  <2>1. /\ IdleMSRemaining \in (due - ByteBase)..(due + ByteBase)
        /\ period < ByteBase => IdleHi = 0 /\ due <= IdleLo
    BY DEF IdleInv, TimerInv
  <2>2. IdleMSRemaining \in Nat
    BY <1>1 DEF IdleMSRemaining
  <2>3. \/ IdleMSRemaining' = IdleMSRemaining /\ due' = due
        \/ /\ \/ IdleMSRemaining > 0 /\ IdleMSRemaining' = IdleMSRemaining - 1
              \/ IdleMSRemaining = 0 /\ IdleMSRemaining' = 0
           /\ \/ due > 0 /\ due' = due - 1
              \/ due = 0 /\ due' = 0
    <3>1. CASE IdleHi' = IdleHi /\ IdleLo' = IdleLo /\ due' = due
      BY <3>1 DEF IdleMSRemaining
    <3>2. CASE IdleLo > 0 /\ IdleLo' = IdleLo - 1 /\ IdleHi' = IdleHi
      BY <3>2, <1>1, <1>4 DEF IdleMSRemaining
    <3>3. CASE /\ IdleLo = 0 /\ IdleHi > 0
               /\ IdleLo' = ByteBase - 1 /\ IdleHi' = IdleHi - 1
      <4>1. (IdleHi - 1) * ByteBase = IdleHi * ByteBase - ByteBase
        BY <1>1
      <4>2. IdleHi * ByteBase >= ByteBase
        BY <1>1, <3>3
      <4>3. IdleMSRemaining' = IdleMSRemaining - 1 /\ IdleMSRemaining > 0
        BY <1>1, <3>3, <4>1, <4>2 DEF IdleMSRemaining
      <4>. QED
        BY <1>1, <1>4, <3>3, <4>3
    <3>4. CASE IdleLo = 0 /\ IdleHi = 0 /\ IdleLo' = 0 /\ IdleHi' = 0
      BY <3>4, <1>1, <1>4 DEF IdleMSRemaining
    <3>. QED
      BY <1>4, <3>1, <3>2, <3>3, <3>4
  <2>4. IdleMSRemaining' \in (due' - ByteBase)..(due' + ByteBase)
    BY <1>1, <2>1, <2>2, <2>3
  <2>5. ASSUME period < ByteBase
        PROVE  IdleHi' = 0 /\ due' <= IdleLo'
    BY <1>1, <1>4, <2>1, <2>5
  <2>. QED
    BY <2>4, <2>5
<1>. QED
  BY <1>5, <1>6, <1>7, <1>8 DEF IdleInv

\* The first byte of a store: the time left is the whole period.
LEMMA IdleFirstByte ==
  ASSUME TypeInv, NEW h \in Halves, NEW n \in 0..(ByteBase * ByteBase - 1),
         StoreByte(h, n), period' = n, due' = n, half' = h, sofs' = sofs,
         (pc' = "load2" /\ n = IdleCount') \/ (pc' = "clear2" /\ n = 0)
  PROVE  IdleInv'
<1>1. /\ ByteBase \in Nat /\ n \in Nat /\ sofs \in Nat
      /\ n = (n \div ByteBase) * ByteBase + (n % ByteBase)
  BY Constants, BytesOf DEF TypeInv, TypeOK
<1>2. PHi' = n \div ByteBase /\ PLo' = n % ByteBase
  BY DEF PHi, PLo
<1>3. half' = "lo" => LowFirst'
  BY <1>1, <1>2 DEF LowFirst, StoreByte
<1>4. half' = "hi" => HighFirst'
  BY <1>2 DEF HighFirst, StoreByte
<1>5. PeriodFits' /\ TimerInv' /\ ElapsedInv'
  BY <1>1 DEF PeriodFits, TimerInv, ElapsedInv, Storing
<1>6. StoreInv'
  BY <1>1, <1>3, <1>4 DEF StoreInv
<1>. QED
  BY <1>5, <1>6 DEF IdleInv

\* The second byte: the drift is the worth of one borrow, and a period that
\* fits in one byte is never cut short.
LEMMA IdleSecondByte ==
  ASSUME TypeInv, IdleInv, Storing, StoreByte(Other(half), period),
         period' = period, due' = due, pc' \in {"write", "enable"}
  PROVE  IdleInv'
<1>. DEFINE X == PHi * ByteBase
<1>1. /\ ByteBase \in Nat /\ ByteBase > 1
      /\ IdleLo \in Nat /\ IdleLo < ByteBase
      /\ due \in Nat /\ period \in Nat
      /\ sofs \in Nat /\ sofs <= LoopFrames /\ LoopFrames < ByteBase
      /\ LoopFrames \in Nat
  BY Constants DEF TypeInv, TypeOK, IdleInv, PeriodFits
<1>2. /\ PHi \in Nat /\ PLo \in Nat /\ PLo < ByteBase
      /\ period = X + PLo /\ X \in Nat
      /\ period < ByteBase => PHi = 0
  BY <1>1, BytesOf, BytesFit DEF PHi, PLo, IdleInv, PeriodFits
<1>3. due <= period /\ period <= due + sofs
  BY DEF IdleInv, StoreInv
<1>. HIDE DEF X
<1>4. CASE half = "lo"
  <2>1. LowFirst /\ IdleHi' = PHi /\ IdleLo' = IdleLo
    BY <1>4 DEF IdleInv, StoreInv, StoreByte, Other, PHi
  <2>2. IdleMSRemaining' = X + IdleLo
    BY <2>1 DEF IdleMSRemaining, X
  <2>3. IdleMSRemaining' \in (due' - ByteBase)..(due' + ByteBase)
    BY <1>1, <1>2, <1>3, <2>1, <2>2 DEF LowFirst, X
  <2>4. ASSUME period < ByteBase
        PROVE  IdleHi' = 0 /\ due' <= IdleLo'
    <3>1. PHi = 0 /\ X = 0
      BY <1>1, <1>2, <2>4 DEF X
    <3>. QED
      BY <1>1, <2>1, <3>1 DEF LowFirst, X
  <2>. QED
    BY <2>3, <2>4 DEF IdleInv, PeriodFits, StoreInv, TimerInv, ElapsedInv, Storing
<1>5. CASE half = "hi"
  <2>1. HighFirst /\ IdleHi' = IdleHi /\ IdleLo' = PLo
    BY <1>5 DEF IdleInv, StoreInv, StoreByte, Other, PLo
  <2>2. IdleMSRemaining' \in {X + PLo, X + PLo - ByteBase}
    <3>1. CASE IdleHi = PHi
      BY <2>1, <3>1 DEF IdleMSRemaining, X
    <3>2. CASE IdleHi = PHi - 1
      <4>1. (PHi - 1) * ByteBase = PHi * ByteBase - ByteBase
        BY <1>1, <1>2
      <4>. QED
        BY <1>1, <1>2, <2>1, <3>2, <4>1 DEF IdleMSRemaining, X
    <3>. QED
      BY <2>1, <3>1, <3>2 DEF HighFirst
  <2>3. IdleMSRemaining' \in (due' - ByteBase)..(due' + ByteBase)
    BY <1>1, <1>2, <1>3, <2>2
  <2>4. ASSUME period < ByteBase
        PROVE  IdleHi' = 0 /\ due' <= IdleLo'
    <3>1. PHi = 0 /\ X = 0 /\ IdleHi \in Nat
      BY <1>1, <1>2, <2>4 DEF X, TypeInv, TypeOK
    <3>. QED
      BY <1>1, <1>2, <1>3, <2>1, <3>1 DEF HighFirst
  <2>. QED
    BY <2>3, <2>4 DEF IdleInv, PeriodFits, StoreInv, TimerInv, ElapsedInv, Storing
<1>. QED
  BY <1>4, <1>5 DEF TypeInv, TypeOK, Halves

\* Once a period that fits in a byte is stored, a low byte of zero means that
\* no time is left.
LEMMA ZeroLowByte ==
  ASSUME IdleInv, ~Storing, period < ByteBase, ByteIsZero("lo")
  PROVE  due = 0
  BY DEF IdleInv, TimerInv, PeriodFits, ByteIsZero

LEMMA IdleStep == TypeInv /\ PipeInv /\ IdleInv /\ [Next]_vars => IdleInv'
<1>. SUFFICES ASSUME TypeInv, PipeInv, IdleInv, [Next]_vars
              PROVE  IdleInv'
  OBVIOUS
<1>1. CASE LoadIdleFirst
  <2>1. PICK h \in Halves : half' = h /\ StoreByte(h, IdleCount)
    BY <1>1 DEF LoadIdleFirst
  <2>. QED
    BY <1>1, <2>1, IdleFirstByte
    DEF LoadIdleFirst, Goto, stateVars, TypeInv, TypeOK
<1>2. CASE ClearIdleFirst
  <2>1. PICK h \in Halves : half' = h /\ StoreByte(h, 0)
    BY <1>2 DEF ClearIdleFirst
  <2>. QED
    BY <1>2, <2>1, IdleFirstByte, Constants DEF ClearIdleFirst, Goto
<1>3. CASE LoadIdleSecond
  <2>1. Storing /\ period = IdleCount
    BY <1>3 DEF LoadIdleSecond, Goto, Storing, IdleInv, StoreInv
  <2>. QED
    BY <1>3, <2>1, IdleSecondByte DEF LoadIdleSecond, Goto
<1>4. CASE ClearIdleSecond
  <2>1. Storing /\ period = 0
    BY <1>4 DEF ClearIdleSecond, Goto, Storing, IdleInv, StoreInv
  <2>. QED
    BY <1>4, <2>1, IdleSecondByte DEF ClearIdleSecond, Goto
<1>5. CASE StartOfFrame
  BY <1>5, IdleTick
<1>. DEFINE Rest == /\ UNCHANGED <<IdleHi, IdleLo, period, due>>
                    /\ ~Storing /\ ~Storing'
                    /\ pc' \notin {"idle2", "compare"}
<1>6. ASSUME Rest PROVE IdleInv'
  BY <1>6 DEF IdleInv, PeriodFits, StoreInv, TimerInv, ElapsedInv, Storing,
              IdleMSRemaining
<1>7. CASE ReadIdleFirst
  <2>1. PICK h \in Halves : half' = h /\ IdlePeriodElapsed' = ByteIsZero(h)
    BY <1>7 DEF ReadIdleFirst
  <2>2. /\ pc = "idle1" /\ pc' = "idle2"
        /\ UNCHANGED <<IdleHi, IdleLo, period, due>>
    BY <1>7 DEF ReadIdleFirst, Goto, idleVars
  <2>3. ElapsedInv'
    <3>1. (period < ByteBase /\ h = "lo" /\ ByteIsZero(h)) => due = 0
      BY <2>2, ZeroLowByte DEF Storing
    <3>. QED
      BY <2>1, <2>2, <3>1 DEF ElapsedInv
  <2>. QED
    BY <2>2, <2>3 DEF IdleInv, PeriodFits, StoreInv, TimerInv, Storing,
                      IdleMSRemaining
<1>8. CASE ReadIdleSecond
  <2>1. /\ pc = "idle2" /\ pc' = "compare"
        /\ UNCHANGED <<IdleHi, IdleLo, period, due>>
        /\ IdlePeriodElapsed' = (IdlePeriodElapsed /\ ByteIsZero(Other(half)))
    BY <1>8 DEF ReadIdleSecond, Goto, idleVars
  <2>2. ElapsedInv'
    <3>1. CASE half = "lo"
      BY <2>1, <3>1 DEF IdleInv, ElapsedInv
    <3>2. CASE half = "hi"
      <4>1. Other(half) = "lo"
        BY <3>2 DEF Other
      <4>2. (period < ByteBase /\ ByteIsZero(Other(half))) => due = 0
        BY <2>1, <4>1, ZeroLowByte DEF Storing
      <4>. QED
        BY <2>1, <4>2 DEF ElapsedInv
    <3>. QED
      BY <3>1, <3>2 DEF TypeInv, TypeOK, Halves
  <2>. QED
    BY <2>1, <2>2 DEF IdleInv, PeriodFits, StoreInv, TimerInv, Storing,
                      IdleMSRemaining
<1>9. CASE CreateReport
  <2>1. /\ pc = "create" /\ pc' \in {"idle1", "compare"}
        /\ UNCHANGED <<IdleHi, IdleLo, period, due, IdlePeriodElapsed>>
    BY <1>9 DEF CreateReport, Goto, idleVars
  <2>2. IdlePeriodElapsed' = FALSE
    BY <2>1 DEF PipeInv, ElapsedUnderRate, TypeInv, TypeOK
  <2>. QED
    BY <2>1, <2>2 DEF IdleInv, PeriodFits, StoreInv, TimerInv, ElapsedInv,
                      Storing, IdleMSRemaining
<1>10. CASE \/ CheckState \/ CheckFrame \/ CheckBank
              \/ CompareReports \/ WriteReport \/ SaveFrame
  BY <1>6, <1>10 DEF Storing, Goto, idleVars, CheckState, CheckFrame, CheckBank, CompareReports, WriteReport, SaveFrame
<1>11. CASE \/ NoSetup \/ GetReport \/ SetReport \/ SetIdle
              \/ SetProtocol \/ GetIdleOrProtocol \/ Configure \/ EnableEndpoint
  BY <1>6, <1>11
  DEF Storing, Goto, Received, Handled, idleVars, NoSetup, GetReport, SetReport, SetIdle,
      SetProtocol, GetIdleOrProtocol, Configure, EnableEndpoint
<1>12. CASE \/ BusReset \/ HostRequest \/ HostPoll \/ PressOrRelease
              \/ UNCHANGED vars
  <2>1. UNCHANGED <<pc, half, IdlePeriodElapsed, IdleCount, IdleHi, IdleLo,
                    period, due, sofs>>
    BY <1>12 DEF BusReset, HostRequest, HostPoll, PressOrRelease, vars, idleVars,
                 stateVars, locals
  <2>. QED
    BY <2>1 DEF IdleInv, PeriodFits, StoreInv, TimerInv, ElapsedInv, Storing,
                IdleMSRemaining, LowFirst, HighFirst, PHi, PLo
<1>. QED
  BY <1>1, <1>2, <1>3, <1>4, <1>5, <1>7, <1>8, <1>9, <1>10, <1>11, <1>12
  DEF Next, HIDTask, USBTask

LEMMA IdleInvariant == Spec => []IdleInv
  BY TypeInit, TypeStep, PipeInit, PipeStep, IdleInit, IdleStep, PTL DEF Spec

(***************************************************************************)
(* A start-of-frame interrupt between the two bytes of a store to          *)
(* IdleMSRemaining moves the end of the idle period by at most one borrow, *)
(* whatever the period: the timer never drifts further from the time left. *)
(***************************************************************************)
THEOREM DriftCorrect == Spec => []IdleDriftBounded
<1>1. IdleInv => IdleDriftBounded
  BY DEF IdleInv, TimerInv, Storing, IdleDriftBounded
<1>. QED
  BY IdleInvariant, <1>1, PTL

(***************************************************************************)
(* An idle period that fits in one byte of IdleMSRemaining is never found  *)
(* elapsed by HID_Device_USBTask before it is over.                        *)
(***************************************************************************)
THEOREM ShortIdleCorrect == Spec => []ShortIdleNotEarly
<1>1. IdleInv => ShortIdleNotEarly
  BY DEF IdleInv, ElapsedInv, ShortIdleNotEarly, Early
<1>. QED
  BY IdleInvariant, <1>1, PTL

==============================================================================
