------------------------- MODULE ControlStreamProofs -------------------------
(***************************************************************************)
(* Proofs about ControlStream, for every packet size and all lengths.      *)
(***************************************************************************)
EXTENDS ControlStream, TLAPS

\* Which handler the main loop is in tells the direction of its request.
Writing == {"write", "fill", "waitOut", "clearOut"}
Reading == {"read", "take", "waitIn", "clearIn", "process"}

\* The host waits for the very request the device works on.
Live == current /\ phase = "open"

InBytes  == IF inBank = Empty THEN 0 ELSE inBank.n
OutBytes == IF outBank = Empty THEN 0 ELSE outBank.n

(***************************************************************************)
(* Whose request it is: a SETUP packet makes the device's request an old   *)
(* one, and an endpoint that answers while the host waits has been made to *)
(* answer by the handler of the host's request.                            *)
(***************************************************************************)
OwnInv ==
  /\ current => request = fifo
  /\ (phase = "open" /\ ~RXSTPI /\ ~STALLRQ) => current
  /\ (phase = "open" /\ ~current) => moved = 0 /\ stage = "data"
  /\ Gone => phase # "open"
  /\ phase = "done" => ~RXSTPI
  /\ (pc = "idle" /\ RXSTPI) => inBank = Empty /\ outBank = Empty /\ ~current
  /\ outBank # Empty => current /\ outBank.current
  /\ (current /\ request.dir = "in" /\ request.size = 0) =>
       pc \in {"tail", "idle"} /\ (RXSTPI \/ STALLRQ \/ phase # "open")
  /\ (current /\ RXSTPI) => pc = "tail" /\ request.dir = "in" /\ request.size = 0
  /\ pc \in Writing => request.dir = "in" /\ request.size > 0
  /\ pc \in Reading => request.dir = "out"
  /\ Length <= StreamLength(request)
  /\ pc = "idle" => Length = 0

(***************************************************************************)
(* A read in progress: every byte is with the host, in the bank or still   *)
(* to come, and a short packet is the last one.                            *)
(***************************************************************************)
ReadInv ==
  (Live /\ fifo.dir = "in" /\ fifo.size > 0) =>
    /\ pc \in {"write", "fill", "waitOut"}
    /\ outBank = Empty
    /\ moved + InBytes + Length = StreamLength(fifo)
    /\ stage = "status" => moved = StreamLength(fifo)
    /\ inBank # Empty => /\ inBank.current /\ inBank.from = moved
                         /\ inBank.n < EPSize => Length = 0

(***************************************************************************)
(* A write in progress: every byte is with the stream, in the bank or with *)
(* the host, and the acknowledgement is sent when none is left.            *)
(***************************************************************************)
WriteInv ==
  (Live /\ fifo.dir = "out") =>
    /\ pc \in {"read", "take"} \/ (pc \notin Writing /\ Length = 0)
    /\ moved = fifo.wLength - Length + OutBytes
    /\ inBank # Empty =>
         /\ inBank.current /\ inBank.n = 0 /\ Length = 0
         /\ pc = "process" \/ (pc \in {"tail", "idle"} /\ applied)

\* The packet the read stream is about to take, whether the host still cares.
TakeInv ==
  (outBank # Empty /\ pc \in {"read", "take"}) =>
     outBank.from = request.wLength - Length /\ outBank.n <= Length

AckInv ==
  (phase = "done" /\ fifo.dir = "out") =>
     (pc = "process" /\ Length = 0) \/ (pc \in {"tail", "idle"} /\ applied)

StreamInv == OwnInv /\ ReadInv /\ WriteInv /\ TakeInv /\ AckInv

-----------------------------------------------------------------------------
\* The constants, with what StreamAssumption says of them spelled out.
LEMMA Constants ==
  /\ EPSize \in Nat /\ EPSize > 0
  /\ \A n \in Sizes : n \in Nat
  /\ \A n \in Asked : n \in Nat /\ n > 0
<1>1. EPSize \in Nat \ {0} /\ Sizes \subseteq Nat /\ Asked \subseteq Nat \ {0}
  BY StreamAssumption
<1>. QED
  BY <1>1

\* The fields of a request, and what a stream makes of them.
LEMMA RequestFields ==
  ASSUME NEW r \in Requests
  PROVE  /\ r.dir \in {"in", "out"} /\ r.wLength \in Nat /\ r.wLength > 0
         /\ r.size \in Nat
         /\ StreamLength(r) \in Nat /\ StreamLength(r) <= r.wLength
         /\ StreamLength(r) = Transfer!Limit(r)
         /\ r.dir = "out" => StreamLength(r) = r.wLength
<1>1. /\ r.dir \in {"in", "out"} /\ r.wLength \in Nat /\ r.wLength > 0
      /\ r.size \in Nat
  <2>1. CASE r \in [dir : {"in"}, wLength : Asked, size : Sizes]
    <3>1. r.dir = "in" /\ r.wLength \in Asked /\ r.size \in Sizes
      BY <2>1
    <3>. QED
      BY <3>1, Constants
  <2>2. CASE r \in [dir : {"out"}, wLength : Asked, size : {0}]
    <3>1. r.dir = "out" /\ r.wLength \in Asked /\ r.size = 0
      BY <2>2
    <3>. QED
      BY <3>1, Constants
  <2>. QED
    BY <2>1, <2>2 DEF Requests
<1>2. r.dir # "in" <=> r.dir = "out"
  BY <1>1
<1>. QED
  BY <1>1, <1>2 DEF StreamLength, Smaller, Transfer!Limit

\* A packet of at most EPSize bytes is one, and no packet is the empty bank.
LEMMA PacketFields ==
  ASSUME NEW p \in Packets, p # Empty
  PROVE  p.current \in BOOLEAN /\ p.from \in Nat /\ p.n \in 0..EPSize
  BY DEF Packets

LEMMA PacketType ==
  ASSUME current \in BOOLEAN, NEW f \in Nat, NEW n \in 0..EPSize
  PROVE  /\ Packet(f, n) \in Packets /\ Packet(f, n) # Empty
         /\ Packet(f, n).current = current /\ Packet(f, n).from = f
         /\ Packet(f, n).n = n
<1>1. Packet(f, n).n # -1
  BY StreamAssumption DEF Packet
<1>. QED
  BY <1>1 DEF Packet, Packets, Empty

LEMMA EmptyBank == Empty \in Packets
  BY DEF Packets

-----------------------------------------------------------------------------
LEMMA TypeInit == Init => TypeOK /\ StreamInv
<1>. SUFFICES ASSUME Init PROVE TypeOK /\ StreamInv
  OBVIOUS
<1>1. TypeOK
  BY EmptyBank DEF Init, TypeOK, Labels
<1>2. StreamInv
  BY <1>1, RequestFields
     DEF Init, TypeOK, StreamInv, OwnInv, ReadInv, WriteInv, TakeInv, AckInv,
         Live, Gone, Writing, Reading
<1>. QED BY <1>1, <1>2

LEMMA TypeStep == TypeOK /\ StreamInv /\ [Next]_vars => TypeOK'
<1>. SUFFICES ASSUME TypeOK, StreamInv, [Next]_vars PROVE TypeOK'
  OBVIOUS
<1>. USE Constants, RequestFields, EmptyBank
   DEF TypeOK, Labels, Goto, locals, epVars, hostVars
<1>1. CASE GetDescriptor
  BY <1>1 DEF GetDescriptor
<1>2. CASE SetReport
  BY <1>2 DEF SetReport
<1>3. CASE WriteTests
  BY <1>3 DEF WriteTests
<1>4. CASE WritePacket
  <2>. DEFINE n == Smaller(Length, EPSize)
              f == StreamLength(request) - Length
  <2>1. n \in 0..EPSize /\ n <= Length /\ f \in Nat
    BY DEF Smaller, StreamInv, OwnInv
  <2>2. Packet(f, n) \in Packets
    BY <2>1, PacketType
  <2>3. inBank' \in Packets /\ Length' \in Nat
    BY <1>4, <2>1, <2>2 DEF WritePacket
  <2>4. LastPacketFull' \in BOOLEAN
    BY <1>4, Zenon DEF WritePacket
  <2>. QED
    BY <1>4, <2>3, <2>4 DEF WritePacket
<1>5. CASE WaitForOUT
  BY <1>5 DEF WaitForOUT
<1>6. CASE ClearOUT
  BY <1>6 DEF ClearOUT
<1>7. CASE ReadTests
  BY <1>7 DEF ReadTests
<1>8. CASE ReadPacket
  <2>1. Length' \in Nat
    BY <1>8, PacketFields DEF ReadPacket, Smaller
  <2>. QED
    BY <1>8, <2>1 DEF ReadPacket
<1>9. CASE WaitForIN
  BY <1>9 DEF WaitForIN
<1>10. CASE ClearIN
  <2>1. request.wLength - Length \in Nat
    BY DEF StreamInv, OwnInv
  <2>2. Packet(request.wLength - Length, 0) \in Packets
    BY <2>1, PacketType
  <2>. QED
    BY <1>10, <2>2 DEF ClearIN
<1>11. CASE ProcessHIDReport
  BY <1>11 DEF ProcessHIDReport
<1>12. CASE StallUnhandled
  BY <1>12 DEF StallUnhandled
<1>13. CASE SendSetup
  BY <1>13 DEF SendSetup
<1>14. CASE HostIn
  <2>1. moved' \in Nat
    BY <1>14, PacketFields DEF HostIn
  <2>. QED
    BY <1>14, <2>1 DEF HostIn
<1>15. CASE HostStatusOut
  <2>1. Packet(moved, 0) \in Packets
    BY PacketType
  <2>. QED
    BY <1>15, <2>1 DEF HostStatusOut
<1>16. CASE HostOut
  <2>. DEFINE n == Smaller(EPSize, fifo.wLength - moved)
  <2>1. moved <= fifo.wLength
    BY <1>16 DEF HostOut, Answers, StreamInv, OwnInv, WriteInv, Live, OutBytes
  <2>2. n \in 0..EPSize
    BY <2>1 DEF Smaller
  <2>3. Packet(moved, n) \in Packets /\ Packet(moved, n).n = n
    BY <2>2, PacketType
  <2>4. outBank' \in Packets /\ moved' \in Nat
    BY <1>16, <2>2, <2>3 DEF HostOut
  <2>. QED
    BY <1>16, <2>4 DEF HostOut
<1>17. CASE HostStatusIn
  BY <1>17 DEF HostStatusIn
<1>18. CASE HostStalled
  BY <1>18 DEF HostStalled
<1>19. CASE HostGivesUp
  BY <1>19 DEF HostGivesUp
<1>20. CASE HostReset
  BY <1>20 DEF HostReset, Broken
<1>21. CASE Leave
  BY <1>21 DEF Leave, Broken
<1>22. CASE Return
  <2>1. RXSTPI' \in BOOLEAN /\ STALLRQ' \in BOOLEAN
    BY <1>22, Zenon DEF Return
  <2>2. inBank' \in Packets /\ outBank' \in Packets
    BY <1>22 DEF Return
  <2>. QED
    BY <1>22, <2>1, <2>2 DEF Return
<1>23. CASE CalmDown
  BY <1>23 DEF CalmDown
<1>24. CASE UNCHANGED vars
  BY <1>24 DEF vars, locals, epVars, hostVars
<1>. QED
  BY <1>1, <1>2, <1>3, <1>4, <1>5, <1>6, <1>7, <1>8, <1>9, <1>10, <1>11, <1>12,
     <1>13, <1>14, <1>15, <1>16, <1>17, <1>18, <1>19, <1>20, <1>21, <1>22,
     <1>23, <1>24
     DEF Next, Device, Host, HostTransacts

LEMMA OwnStep == TypeOK /\ TypeOK' /\ StreamInv /\ [Next]_vars => OwnInv'
<1>. SUFFICES ASSUME TypeOK, TypeOK', StreamInv, [Next]_vars PROVE OwnInv'
  OBVIOUS
<1>. USE Constants, RequestFields, PacketFields
   DEF TypeOK, Goto, locals, epVars, hostVars, StreamInv, OwnInv, Live, Gone,
       HostAborted, Answers, InBytes, OutBytes, Writing, Reading, Labels
<1>1. CASE GetDescriptor
  <2>1. StreamLength(fifo) \in Nat /\ StreamLength(fifo) <= fifo.wLength
    BY RequestFields
  <2>2. phase = "done" => ~RXSTPI'
    BY <1>1 DEF GetDescriptor
  <2>3. CASE fifo.size = 0
    <3>1. RXSTPI' /\ pc' = "tail"
      BY <1>1, <2>3 DEF GetDescriptor
    <3>. QED
      BY <1>1, <2>1, <2>2, <2>3, <3>1 DEF GetDescriptor
  <2>4. CASE fifo.size # 0
    <3>1. ~RXSTPI' /\ pc' = "write"
      BY <1>1, <2>4 DEF GetDescriptor
    <3>. QED
      BY <1>1, <2>1, <2>2, <2>4, <3>1 DEF GetDescriptor
  <2>. QED
    BY <2>3, <2>4
<1>2. CASE SetReport
  BY <1>2 DEF SetReport
<1>3. CASE WriteTests
  BY <1>3 DEF WriteTests
<1>4. CASE WritePacket
  <2>1. Length' <= Length
    BY <1>4 DEF WritePacket, Smaller
  <2>. QED
    BY <1>4, <2>1 DEF WritePacket
<1>5. CASE WaitForOUT
  BY <1>5 DEF WaitForOUT
<1>6. CASE ClearOUT
  BY <1>6 DEF ClearOUT
<1>7. CASE ReadTests
  BY <1>7 DEF ReadTests
<1>8. CASE ReadPacket
  <2>1. Length' <= Length
    BY <1>8, PacketFields DEF ReadPacket, Smaller
  <2>. QED
    BY <1>8, <2>1 DEF ReadPacket
<1>9. CASE WaitForIN
  BY <1>9 DEF WaitForIN
<1>10. CASE ClearIN
  BY <1>10 DEF ClearIN
<1>11. CASE ProcessHIDReport
  BY <1>11 DEF ProcessHIDReport
<1>12. CASE StallUnhandled
  BY <1>12 DEF StallUnhandled
<1>13. CASE SendSetup
  BY <1>13 DEF SendSetup
<1>14. CASE HostIn
  BY <1>14 DEF HostIn
<1>15. CASE HostStatusOut
  <2>1. current
    BY <1>15 DEF HostStatusOut
  <2>2. Packet(moved, 0).current = current
    BY PacketType
  <2>. QED
    BY <1>15, <2>1, <2>2 DEF HostStatusOut
<1>16. CASE HostOut
  <2>. DEFINE n == Smaller(EPSize, fifo.wLength - moved)
  <2>0. current
    BY <1>16 DEF HostOut
  <2>1. moved <= fifo.wLength
    BY <1>16 DEF HostOut, WriteInv
  <2>2. n \in 0..EPSize /\ n <= fifo.wLength - moved
    BY <2>1 DEF Smaller
  <2>3. /\ Packet(moved, n) # Empty /\ Packet(moved, n).current = current
        /\ Packet(moved, n).from = moved /\ Packet(moved, n).n = n
    BY <2>1, <2>2, PacketType
  <2>4. outBank' = Packet(moved, n) /\ moved' = moved + n
    BY <1>16, <2>3 DEF HostOut
  <2>. QED
    BY <1>16, <2>0, <2>1, <2>2, <2>3, <2>4 DEF HostOut, WriteInv
<1>17. CASE HostStatusIn
  BY <1>17 DEF HostStatusIn
<1>18. CASE HostStalled
  BY <1>18 DEF HostStalled
<1>19. CASE HostGivesUp
  BY <1>19 DEF HostGivesUp
<1>20. CASE HostReset
  BY <1>20 DEF HostReset, Broken
<1>21. CASE Leave
  BY <1>21 DEF Leave, Broken
<1>22. CASE Return
  BY <1>22 DEF Return
<1>23. CASE CalmDown
  BY <1>23 DEF CalmDown
<1>24. CASE UNCHANGED vars
  BY <1>24 DEF vars, locals, epVars, hostVars
<1>. QED
  BY <1>1, <1>2, <1>3, <1>4, <1>5, <1>6, <1>7, <1>8, <1>9, <1>10, <1>11, <1>12,
     <1>13, <1>14, <1>15, <1>16, <1>17, <1>18, <1>19, <1>20, <1>21, <1>22,
     <1>23, <1>24
     DEF Next, Device, Host, HostTransacts

LEMMA ReadStep == TypeOK /\ TypeOK' /\ StreamInv /\ [Next]_vars => ReadInv'
<1>. SUFFICES ASSUME TypeOK, TypeOK', StreamInv, [Next]_vars PROVE ReadInv'
  OBVIOUS
<1>. USE Constants, RequestFields, PacketFields
   DEF TypeOK, Goto, locals, epVars, hostVars, StreamInv, OwnInv, ReadInv, Live,
       Gone, HostAborted, Answers, InBytes, OutBytes, Writing, Reading, Labels
<1>1. CASE GetDescriptor
  <2>1. StreamLength(fifo) \in Nat /\ StreamLength(fifo) <= fifo.wLength
    BY RequestFields
  <2>. QED
    BY <1>1, <2>1 DEF GetDescriptor
<1>2. CASE SetReport
  BY <1>2 DEF SetReport
<1>3. CASE WriteTests
  BY <1>3 DEF WriteTests
<1>4. CASE WritePacket
  <2>. DEFINE n == Smaller(Length, EPSize)
              f == StreamLength(request) - Length
  <2>. SUFFICES ASSUME Live', (fifo.dir = "in" /\ fifo.size > 0)'
                PROVE  ReadInv!2'
    BY DEF ReadInv
  <2>1. n \in 0..EPSize /\ n <= Length /\ (n < EPSize => n = Length) /\ f \in Nat
    BY DEF Smaller
  <2>2. CASE inBank # Empty
    BY <1>4, <2>2 DEF WritePacket, MoreToWrite
  <2>3. CASE inBank = Empty
    <3>1. /\ Packet(f, n) # Empty /\ Packet(f, n).current = current
          /\ Packet(f, n).from = f /\ Packet(f, n).n = n
      BY <2>1, PacketType
    <3>2. inBank' = Packet(f, n) /\ Length' = Length - n
      BY <1>4, <2>3 DEF WritePacket
    <3>. QED
      BY <1>4, <2>1, <2>3, <3>1, <3>2 DEF WritePacket
  <2>. QED
    BY <2>2, <2>3
<1>5. CASE WaitForOUT
  BY <1>5 DEF WaitForOUT
<1>6. CASE ClearOUT
  BY <1>6 DEF ClearOUT
<1>7. CASE ReadTests
  BY <1>7 DEF ReadTests
<1>8. CASE ReadPacket
  BY <1>8 DEF ReadPacket
<1>9. CASE WaitForIN
  BY <1>9 DEF WaitForIN
<1>10. CASE ClearIN
  BY <1>10 DEF ClearIN
<1>11. CASE ProcessHIDReport
  BY <1>11 DEF ProcessHIDReport
<1>12. CASE StallUnhandled
  BY <1>12 DEF StallUnhandled
<1>13. CASE SendSetup
  BY <1>13 DEF SendSetup
<1>14. CASE HostIn
  BY <1>14 DEF HostIn
<1>15. CASE HostStatusOut
  BY <1>15 DEF HostStatusOut
<1>16. CASE HostOut
  BY <1>16 DEF HostOut
<1>17. CASE HostStatusIn
  BY <1>17 DEF HostStatusIn
<1>18. CASE HostStalled
  BY <1>18 DEF HostStalled
<1>19. CASE HostGivesUp
  BY <1>19 DEF HostGivesUp
<1>20. CASE HostReset
  BY <1>20 DEF HostReset, Broken
<1>21. CASE Leave
  BY <1>21 DEF Leave, Broken
<1>22. CASE Return
  BY <1>22 DEF Return
<1>23. CASE CalmDown
  BY <1>23 DEF CalmDown
<1>24. CASE UNCHANGED vars
  BY <1>24 DEF vars, locals, epVars, hostVars
<1>. QED
  BY <1>1, <1>2, <1>3, <1>4, <1>5, <1>6, <1>7, <1>8, <1>9, <1>10, <1>11, <1>12,
     <1>13, <1>14, <1>15, <1>16, <1>17, <1>18, <1>19, <1>20, <1>21, <1>22,
     <1>23, <1>24
     DEF Next, Device, Host, HostTransacts

LEMMA WriteStep == TypeOK /\ TypeOK' /\ StreamInv /\ [Next]_vars => WriteInv'
<1>. SUFFICES ASSUME TypeOK, TypeOK', StreamInv, [Next]_vars PROVE WriteInv'
  OBVIOUS
<1>. USE Constants, RequestFields, PacketFields
   DEF TypeOK, Goto, locals, epVars, hostVars, StreamInv, OwnInv, WriteInv,
       Live, Gone, HostAborted, Answers, InBytes, OutBytes, Writing, Reading,
       Labels
<1>1. CASE GetDescriptor
  BY <1>1 DEF GetDescriptor
<1>2. CASE SetReport
  <2>1. StreamLength(fifo) = fifo.wLength
    BY <1>2, RequestFields DEF SetReport
  <2>2. phase = "open" => moved = 0
    BY <1>2 DEF SetReport
  <2>. QED
    BY <1>2, <2>1, <2>2 DEF SetReport
<1>3. CASE WriteTests
  BY <1>3 DEF WriteTests
<1>4. CASE WritePacket
  BY <1>4 DEF WritePacket
<1>5. CASE WaitForOUT
  BY <1>5 DEF WaitForOUT
<1>6. CASE ClearOUT
  BY <1>6 DEF ClearOUT
<1>7. CASE ReadTests
  BY <1>7 DEF ReadTests
<1>8. CASE ReadPacket
  <2>1. outBank # Empty => outBank.n <= Length /\ Smaller(Length, outBank.n) = outBank.n
    BY <1>8, PacketFields DEF ReadPacket, TakeInv, Smaller
  <2>. QED
    BY <1>8, <2>1 DEF ReadPacket
<1>9. CASE WaitForIN
  BY <1>9 DEF WaitForIN
<1>10. CASE ClearIN
  <2>1. /\ Packet(request.wLength - Length, 0).current = current
        /\ Packet(request.wLength - Length, 0).n = 0
    BY PacketType
  <2>. QED
    BY <1>10, <2>1 DEF ClearIN
<1>11. CASE ProcessHIDReport
  BY <1>11 DEF ProcessHIDReport
<1>12. CASE StallUnhandled
  BY <1>12 DEF StallUnhandled
<1>13. CASE SendSetup
  BY <1>13 DEF SendSetup
<1>14. CASE HostIn
  BY <1>14 DEF HostIn
<1>15. CASE HostStatusOut
  BY <1>15 DEF HostStatusOut
<1>16. CASE HostOut
  <2>. DEFINE n == Smaller(EPSize, fifo.wLength - moved)
  <2>0. current
    BY <1>16 DEF HostOut
  <2>1. moved <= fifo.wLength
    BY <1>16 DEF HostOut, WriteInv
  <2>2. n \in 0..EPSize /\ n <= fifo.wLength - moved
    BY <2>1 DEF Smaller
  <2>3. /\ Packet(moved, n) # Empty /\ Packet(moved, n).current = current
        /\ Packet(moved, n).from = moved /\ Packet(moved, n).n = n
    BY <2>1, <2>2, PacketType
  <2>4. outBank' = Packet(moved, n) /\ moved' = moved + n
    BY <1>16, <2>3 DEF HostOut
  <2>. QED
    BY <1>16, <2>0, <2>1, <2>2, <2>3, <2>4 DEF HostOut, WriteInv
<1>17. CASE HostStatusIn
  BY <1>17 DEF HostStatusIn
<1>18. CASE HostStalled
  BY <1>18 DEF HostStalled
<1>19. CASE HostGivesUp
  BY <1>19 DEF HostGivesUp
<1>20. CASE HostReset
  BY <1>20 DEF HostReset, Broken
<1>21. CASE Leave
  BY <1>21 DEF Leave, Broken
<1>22. CASE Return
  BY <1>22 DEF Return
<1>23. CASE CalmDown
  BY <1>23 DEF CalmDown
<1>24. CASE UNCHANGED vars
  BY <1>24 DEF vars, locals, epVars, hostVars
<1>. QED
  BY <1>1, <1>2, <1>3, <1>4, <1>5, <1>6, <1>7, <1>8, <1>9, <1>10, <1>11, <1>12,
     <1>13, <1>14, <1>15, <1>16, <1>17, <1>18, <1>19, <1>20, <1>21, <1>22,
     <1>23, <1>24
     DEF Next, Device, Host, HostTransacts

LEMMA TakeStep == TypeOK /\ TypeOK' /\ StreamInv /\ [Next]_vars => TakeInv'
<1>. SUFFICES ASSUME TypeOK, TypeOK', StreamInv, [Next]_vars PROVE TakeInv'
  OBVIOUS
<1>. USE Constants, RequestFields, PacketFields
   DEF TypeOK, Goto, locals, epVars, hostVars, StreamInv, OwnInv, TakeInv, Live,
       Gone, HostAborted, Answers, InBytes, OutBytes, Writing, Reading, Labels
<1>1. CASE GetDescriptor
  BY <1>1 DEF GetDescriptor
<1>2. CASE SetReport
  BY <1>2 DEF SetReport
<1>3. CASE WriteTests
  BY <1>3 DEF WriteTests
<1>4. CASE WritePacket
  BY <1>4 DEF WritePacket
<1>5. CASE WaitForOUT
  BY <1>5 DEF WaitForOUT
<1>6. CASE ClearOUT
  BY <1>6 DEF ClearOUT
<1>7. CASE ReadTests
  BY <1>7 DEF ReadTests
<1>8. CASE ReadPacket
  BY <1>8 DEF ReadPacket
<1>9. CASE WaitForIN
  BY <1>9 DEF WaitForIN
<1>10. CASE ClearIN
  BY <1>10 DEF ClearIN
<1>11. CASE ProcessHIDReport
  BY <1>11 DEF ProcessHIDReport
<1>12. CASE StallUnhandled
  BY <1>12 DEF StallUnhandled
<1>13. CASE SendSetup
  BY <1>13 DEF SendSetup
<1>14. CASE HostIn
  BY <1>14 DEF HostIn
<1>15. CASE HostStatusOut
  BY <1>15 DEF HostStatusOut
<1>16. CASE HostOut
  <2>. DEFINE n == Smaller(EPSize, fifo.wLength - moved)
  <2>0. current
    BY <1>16 DEF HostOut
  <2>1. moved <= fifo.wLength
    BY <1>16 DEF HostOut, WriteInv
  <2>2. n \in 0..EPSize /\ n <= fifo.wLength - moved
    BY <2>1 DEF Smaller
  <2>3. /\ Packet(moved, n) # Empty /\ Packet(moved, n).current = current
        /\ Packet(moved, n).from = moved /\ Packet(moved, n).n = n
    BY <2>1, <2>2, PacketType
  <2>4. outBank' = Packet(moved, n) /\ moved' = moved + n
    BY <1>16, <2>3 DEF HostOut
  <2>. QED
    BY <1>16, <2>0, <2>1, <2>2, <2>3, <2>4 DEF HostOut, WriteInv
<1>17. CASE HostStatusIn
  BY <1>17 DEF HostStatusIn
<1>18. CASE HostStalled
  BY <1>18 DEF HostStalled
<1>19. CASE HostGivesUp
  BY <1>19 DEF HostGivesUp
<1>20. CASE HostReset
  BY <1>20 DEF HostReset, Broken
<1>21. CASE Leave
  BY <1>21 DEF Leave, Broken
<1>22. CASE Return
  BY <1>22 DEF Return
<1>23. CASE CalmDown
  BY <1>23 DEF CalmDown
<1>24. CASE UNCHANGED vars
  BY <1>24 DEF vars, locals, epVars, hostVars
<1>. QED
  BY <1>1, <1>2, <1>3, <1>4, <1>5, <1>6, <1>7, <1>8, <1>9, <1>10, <1>11, <1>12,
     <1>13, <1>14, <1>15, <1>16, <1>17, <1>18, <1>19, <1>20, <1>21, <1>22,
     <1>23, <1>24
     DEF Next, Device, Host, HostTransacts

LEMMA AckStep == TypeOK /\ TypeOK' /\ StreamInv /\ [Next]_vars => AckInv'
<1>. SUFFICES ASSUME TypeOK, TypeOK', StreamInv, [Next]_vars PROVE AckInv'
  OBVIOUS
<1>. USE Constants, RequestFields, PacketFields
   DEF TypeOK, Goto, locals, epVars, hostVars, StreamInv, OwnInv, AckInv, Live,
       Gone, HostAborted, Answers, InBytes, OutBytes, Writing, Reading, Labels
<1>1. CASE GetDescriptor
  BY <1>1 DEF GetDescriptor
<1>2. CASE SetReport
  BY <1>2 DEF SetReport
<1>3. CASE WriteTests
  BY <1>3 DEF WriteTests
<1>4. CASE WritePacket
  BY <1>4 DEF WritePacket
<1>5. CASE WaitForOUT
  BY <1>5 DEF WaitForOUT
<1>6. CASE ClearOUT
  BY <1>6 DEF ClearOUT
<1>7. CASE ReadTests
  BY <1>7 DEF ReadTests
<1>8. CASE ReadPacket
  BY <1>8 DEF ReadPacket
<1>9. CASE WaitForIN
  BY <1>9 DEF WaitForIN
<1>10. CASE ClearIN
  BY <1>10 DEF ClearIN
<1>11. CASE ProcessHIDReport
  BY <1>11 DEF ProcessHIDReport
<1>12. CASE StallUnhandled
  BY <1>12 DEF StallUnhandled
<1>13. CASE SendSetup
  BY <1>13 DEF SendSetup
<1>14. CASE HostIn
  BY <1>14 DEF HostIn
<1>15. CASE HostStatusOut
  BY <1>15 DEF HostStatusOut
<1>16. CASE HostOut
  BY <1>16 DEF HostOut
<1>17. CASE HostStatusIn
  BY <1>17 DEF HostStatusIn, WriteInv
<1>18. CASE HostStalled
  BY <1>18 DEF HostStalled
<1>19. CASE HostGivesUp
  BY <1>19 DEF HostGivesUp
<1>20. CASE HostReset
  BY <1>20 DEF HostReset, Broken
<1>21. CASE Leave
  BY <1>21 DEF Leave, Broken
<1>22. CASE Return
  BY <1>22 DEF Return
<1>23. CASE CalmDown
  BY <1>23 DEF CalmDown
<1>24. CASE UNCHANGED vars
  BY <1>24 DEF vars, locals, epVars, hostVars
<1>. QED
  BY <1>1, <1>2, <1>3, <1>4, <1>5, <1>6, <1>7, <1>8, <1>9, <1>10, <1>11, <1>12,
     <1>13, <1>14, <1>15, <1>16, <1>17, <1>18, <1>19, <1>20, <1>21, <1>22,
     <1>23, <1>24
     DEF Next, Device, Host, HostTransacts

-----------------------------------------------------------------------------
LEMMA InductiveInvariant == Spec => [](TypeOK /\ StreamInv)
<1>1. Init => TypeOK /\ StreamInv
  BY TypeInit
<1>2. TypeOK /\ StreamInv /\ [Next]_vars => (TypeOK /\ StreamInv)'
  BY TypeStep, OwnStep, ReadStep, WriteStep, TakeStep, AckStep DEF StreamInv
<1>. QED
  BY <1>1, <1>2, PTL DEF Spec

(***************************************************************************)
(* The streams' state stays in its types: no length runs below zero and no *)
(* packet exceeds the endpoint, for every packet size and all lengths.     *)
(***************************************************************************)
THEOREM TypeCorrect == Spec => []TypeOK
  BY InductiveInvariant, PTL

(***************************************************************************)
(* The host never takes, and Endpoint_Read_Control_Stream_LE never reads,  *)
(* a packet of another transfer or out of order.                           *)
(***************************************************************************)
THEOREM StaleCorrect == Spec => []NoStalePacket
<1>1. TypeOK /\ StreamInv => NoStalePacket
  <2>. SUFFICES ASSUME TypeOK, StreamInv PROVE NoStalePacket
    OBVIOUS
  <2>. USE DEF TypeOK, StreamInv, OwnInv
  <2>1. ASSUME Answers, phase = "open", inBank # Empty
        PROVE  /\ inBank.current
               /\ fifo.dir = "in" => inBank.from = moved
               /\ fifo.dir = "out" => inBank.n = 0
    <3>1. Live /\ request = fifo
      BY <2>1 DEF Answers, Live
    <3>2. fifo.dir \in {"in", "out"} /\ (fifo.dir = "in" => fifo.size > 0)
      BY <2>1, <3>1, RequestFields DEF Answers, Live
    <3>. QED
      BY <2>1, <3>1, <3>2 DEF ReadInv, WriteInv
  <2>2. ASSUME pc = "take", outBank # Empty
        PROVE  outBank.current /\ outBank.from = request.wLength - Length
    BY <2>2 DEF TakeInv
  <2>. QED
    BY <2>1, <2>2 DEF NoStalePacket
<1>. QED
  BY <1>1, InductiveInvariant, PTL

(***************************************************************************)
(* A report whose SetReport the host has had acknowledged reaches          *)
(* CALLBACK_HID_Device_ProcessHIDReport with all its bytes.                *)
(***************************************************************************)
THEOREM AckCorrect == Spec => []AcknowledgedIsApplied
<1>1. StreamInv => AcknowledgedIsApplied
  BY DEF StreamInv, AckInv, AcknowledgedIsApplied
<1>. QED
  BY <1>1, InductiveInvariant, PTL

-----------------------------------------------------------------------------
\* Every step of the streams is a step of the abstract transfer, or none.
LEMMA TransferStep ==
  TypeOK /\ TypeOK' /\ StreamInv /\ [Next]_vars => [Transfer!Next]_(Transfer!vars)
<1>. SUFFICES ASSUME TypeOK, TypeOK', StreamInv, [Next]_vars
              PROVE  [Transfer!Next]_(Transfer!vars)
  OBVIOUS
<1>. USE Constants, RequestFields
     DEF TypeOK, Goto, locals, epVars, hostVars, StreamInv, OwnInv, Live, Gone,
         Answers, Moved, Transfer!Next, Transfer!vars
<1>1. CASE GetDescriptor
  BY <1>1 DEF GetDescriptor
<1>2. CASE SetReport
  BY <1>2 DEF SetReport
<1>3. CASE WriteTests
  BY <1>3 DEF WriteTests
<1>4. CASE WritePacket
  <2>1. current => fifo.dir = "in"
    BY <1>4 DEF WritePacket, Writing
  <2>2. UNCHANGED <<fifo, phase, moved, current>>
    BY <1>4 DEF WritePacket
  <2>. QED
    BY <2>1, <2>2
<1>5. CASE WaitForOUT
  BY <1>5 DEF WaitForOUT
<1>6. CASE ClearOUT
  BY <1>6 DEF ClearOUT
<1>7. CASE ReadTests
  BY <1>7 DEF ReadTests
<1>8. CASE ReadPacket
  <2>1. UNCHANGED <<fifo, phase, moved, current, request>>
    BY <1>8 DEF ReadPacket
  <2>2. Length' \in 0..Length
    BY <1>8, PacketFields DEF ReadPacket, Smaller
  <2>3. CASE Live /\ fifo.dir = "out"
    <3>1. Moved = fifo.wLength - Length /\ Moved' = fifo.wLength - Length'
      BY <2>1, <2>3
    <3>2. Moved' \in Moved..Transfer!Limit(fifo)
      BY <2>2, <2>3, <3>1
    <3>. QED
      BY <2>1, <2>3, <3>2 DEF Transfer!Move
  <2>4. CASE ~(Live /\ fifo.dir = "out")
    BY <2>1, <2>4
  <2>. QED
    BY <2>3, <2>4
<1>9. CASE WaitForIN
  BY <1>9 DEF WaitForIN
<1>10. CASE ClearIN
  BY <1>10 DEF ClearIN
<1>11. CASE ProcessHIDReport
  BY <1>11 DEF ProcessHIDReport
<1>12. CASE StallUnhandled
  BY <1>12 DEF StallUnhandled, WriteInv
<1>13. CASE SendSetup
  BY <1>13 DEF SendSetup, Transfer!Begin
<1>14. CASE HostIn
  <2>1. Live /\ fifo.size > 0
    BY <1>14 DEF HostIn
  <2>2. inBank.n \in Nat /\ moved + inBank.n <= StreamLength(fifo)
    BY <1>14, <2>1, PacketFields DEF HostIn, ReadInv, InBytes
  <2>. QED
    BY <1>14, <2>2 DEF HostIn, Transfer!Move
<1>15. CASE HostStatusOut
  BY <1>15 DEF HostStatusOut, ReadInv, Transfer!Complete
<1>16. CASE HostOut
  BY <1>16 DEF HostOut
<1>17. CASE HostStatusIn
  BY <1>17 DEF HostStatusIn, WriteInv, Transfer!Complete
<1>18. CASE HostStalled
  BY <1>18 DEF HostStalled, Transfer!Fail
<1>19. CASE HostGivesUp
  BY <1>19 DEF HostGivesUp, Transfer!Fail
<1>20. CASE HostReset
  BY <1>20 DEF HostReset, Broken, Transfer!Fail
<1>21. CASE Leave
  BY <1>21 DEF Leave, Broken, Transfer!Fail
<1>22. CASE Return
  BY <1>22 DEF Return
<1>23. CASE CalmDown
  BY <1>23 DEF CalmDown
<1>24. CASE UNCHANGED vars
  BY <1>24 DEF vars
<1>. QED
  BY <1>1, <1>2, <1>3, <1>4, <1>5, <1>6, <1>7, <1>8, <1>9, <1>10, <1>11, <1>12,
     <1>13, <1>14, <1>15, <1>16, <1>17, <1>18, <1>19, <1>20, <1>21, <1>22,
     <1>23, <1>24
     DEF Next, Device, Host, HostTransacts

(***************************************************************************)
(* The control streams implement ControlTransfer: completed reads are      *)
(* exact and completed writes have been read to the last byte, for every   *)
(* packet size, all lengths, and wherever a transfer is broken off.        *)
(***************************************************************************)
THEOREM TransferCorrect == Spec => ImplementsTransfer
<1>1. Init => Transfer!Init
  BY DEF Init, Transfer!Init, Moved
<1>2. TypeOK /\ TypeOK' /\ StreamInv /\ [Next]_vars => [Transfer!Next]_(Transfer!vars)
  BY TransferStep
<1>. QED
  BY <1>1, <1>2, InductiveInvariant, PTL DEF Spec, ImplementsTransfer, Transfer!Spec
==============================================================================
