-------------------------- MODULE JoystickEchoProofs --------------------------
(***************************************************************************)
(* Proofs about the echo in JoystickSystem: the bytes come back in order   *)
(* and at most two behind, for any number of bytes, places in the queue    *)
(* and turns of the loop that PaceAssumption allows.                       *)
(***************************************************************************)
EXTENDS JoystickSystemProofs

\* The turn of the current byte, and how many bytes y is behind, at count c.
Turn(c) == c % LoopsPerByte
Lag(c, y) == (Byte(c) - y) % Bytes

\* y was current at most d turns ago.
Recent(y, d) == Lag(count, y) = 0 \/ (Lag(count, y) = 1 /\ Turn(count) < d)

\* The report r carries the byte the program is writing.
Current(r) == r # Zero /\ Lag(count, r.Y) = 0

Started == pc \in {"read", "write"}

\* The panel shows the byte last written, but for a callback that is pending.
PanelInv ==
  /\ ~Started => count = 0 /\ pending = NoByte /\ got = Nothing
  /\ pending # NoByte => pending = Byte(count)
  /\ Recent(panel.Y, IF pending = NoByte THEN 0 ELSE 1)

\* A report in the pipe has been sampled a few turns ago: one step of the pipe
\* takes at most Slack of them, and sending is such a step.
TransitInv ==
  transit # Nothing =>
    /\ Recent(transit.Y, 1 + lead + (IF sent THEN Slack ELSE 0))
    /\ sent => (Current(told) <=> Current(transit))
    /\ ~Started => Current(transit)

\* A report that entered the queue moves up by one place every turn.
QueueInv ==
  \A i \in 1..Len(queue) :
    Recent(queue[i].Y,
           1 + 2 * Slack + (QueueMax - i) + (IF pc = "write" THEN 0 ELSE 1))

\* A new byte gets through to the driver's buffer in four steps of the pipe.
ToldInv ==
  ~Current(told) =>
    /\ transit = Nothing => Turn(count) < 1 + lead + 2 * Slack
    /\ (transit # Nothing /\ Current(transit)) =>
         Turn(count) < 1 + lead + 3 * Slack

\* The program is two bytes behind only while the device has not yet sent the
\* byte, or has sent it, or has filled the queue with newer ones than the program's.
GotInv ==
  got # Nothing =>
    \/ Lag(count, got.Y) <= 1
    \/ /\ Lag(count, got.Y) = 2
       /\ \/ ~Current(told)
          \/ sent /\ Turn(count) < 1 + lead + 4 * Slack
          \/ /\ queue # <<>>
             /\ Turn(count) < 1 + 5 * Slack + (IF pc = "write" THEN 0 ELSE 1)

\* Whatever is ahead of a report carrying y is no newer than y.
Behind(y) ==
  /\ got # Nothing => Lag(count, got.Y) >= Lag(count, y)
  /\ \A i \in 1..Len(queue) : Lag(count, queue[i].Y) >= Lag(count, y)

OrderInv ==
  /\ \A i \in 1..Len(queue) :
       /\ got # Nothing => Lag(count, got.Y) >= Lag(count, queue[i].Y)
       /\ \A j \in 1..Len(queue) :
            i < j => Lag(count, queue[i].Y) >= Lag(count, queue[j].Y)
  /\ transit # Nothing =>
       Behind(transit.Y) /\ Lag(count, transit.Y) >= Lag(count, panel.Y)
  /\ Behind(panel.Y)

EchoInv == PanelInv /\ TransitInv /\ QueueInv /\ ToldInv /\ GotInv /\ OrderInv

-------------------------------------------------------------------------------
(***************************************************************************)
(* The counter as a byte and a turn.                                       *)
(***************************************************************************)
LEMMA Pace ==
  /\ Bytes >= 3
  /\ LoopsPerByte >= QueueMax + 2 * Slack + 1
  /\ LoopsPerByte >= 5 * Slack + 2
BY PaceAssumption DEF PaceAssumption

LEMMA Divide ==
  ASSUME NEW n \in Nat, n > 0, NEW q \in Nat, NEW r \in 0..(n - 1)
  PROVE  (n * q + r) \div n = q /\ (n * q + r) % n = r
<1>. DEFINE x == n * q + r
            k == x \div n
<1>1. x \in Nat
  BY SMT
<1>2. k \in Int /\ x = n * k + (x % n) /\ x % n \in 0..(n - 1)
  BY <1>1, SMT
<1>3. n * q + r = n * k + (x % n)
  BY <1>2
<1>. HIDE DEF x, k
<1>4. k = q
  <2>1. CASE k > q
    <3>1. n * k >= n * q + n
      <4>1. n * k = n * q + n * (k - q)
        BY <1>2, SMT
      <4>2. n * (k - q) >= n
        BY <1>2, <2>1, SMT
      <4>. QED
        BY <4>1, <4>2, <1>2, SMT
    <3>. QED
      BY <3>1, <1>2, <1>3, SMT
  <2>2. CASE k < q
    <3>1. n * q >= n * k + n
      <4>1. n * q = n * k + n * (q - k)
        BY <1>2, SMT
      <4>2. n * (q - k) >= n
        BY <1>2, <2>2, SMT
      <4>. QED
        BY <4>1, <4>2, <1>2, SMT
    <3>. QED
      BY <3>1, <1>2, <1>3, SMT
  <2>. QED
    BY <2>1, <2>2, <1>2, SMT
<1>5. x % n = r
  BY <1>2, <1>3, <1>4, SMT
<1>. QED
  BY <1>4, <1>5 DEF k, x

Counts == 0..(Bytes * LoopsPerByte - 1)

LEMMA TurnRange ==
  ASSUME NEW c \in Counts
  PROVE  /\ Turn(c) \in 0..(LoopsPerByte - 1) /\ Byte(c) \in 0..(Bytes - 1)
         /\ c = LoopsPerByte * Byte(c) + Turn(c)
<1>1. c \in Nat /\ Byte(c) \in 0..(Bytes - 1)
  BY ByteRange, Constants, SMT DEF Counts
<1>. QED
  BY <1>1, Constants, SMT DEF Turn, Byte

\* One turn on, or the first turn of the next byte.
LEMMA NextTurn ==
  ASSUME NEW c \in Counts, NEW d \in Counts,
         d = (c + 1) % (Bytes * LoopsPerByte)
  PROVE  /\ Turn(c) < LoopsPerByte - 1 =>
              Turn(d) = Turn(c) + 1 /\ Byte(d) = Byte(c)
         /\ Turn(c) = LoopsPerByte - 1 =>
              /\ Turn(d) = 0
              /\ Byte(d) = IF Byte(c) = Bytes - 1 THEN 0 ELSE Byte(c) + 1
<1>. DEFINE M == Bytes * LoopsPerByte
            L == LoopsPerByte
            b == Byte(c)
            o == Turn(c)
<1>1. /\ L \in Nat /\ L > 0 /\ o \in 0..(L - 1) /\ b \in 0..(Bytes - 1)
      /\ c = L * b + o /\ M \in Nat /\ M > 0
  BY TurnRange, Constants, SMT
<1>2. c \in 0..(M - 1) /\ d = (c + 1) % M
  BY DEF Counts
<1>3. M = L * Bytes /\ Bytes \in Nat /\ Bytes > 0
  BY Constants, SMT
<1>4. L * (b + 1) = L * b + L /\ L * b \in Nat
  BY <1>1, Constants, SMT
<1>5. d = IF c = M - 1 THEN 0 ELSE c + 1
  <2>. HIDE DEF M
  <2>1. CASE c = M - 1
    <3>1. c + 1 = M * 1 + 0 /\ 0 \in 0..(M - 1)
      BY <2>1, <1>1, <1>2
    <3>2. (M * 1 + 0) % M = 0
      BY <1>1, <3>1, Divide
    <3>. QED
      BY <2>1, <3>1, <3>2, <1>2
  <2>2. CASE c # M - 1
    <3>1. c + 1 = M * 0 + (c + 1) /\ c + 1 \in 0..(M - 1)
      BY <2>2, <1>1, <1>2
    <3>2. (M * 0 + (c + 1)) % M = c + 1
      BY <1>1, <3>1, Divide
    <3>. QED
      BY <2>2, <3>1, <3>2, <1>2
  <2>. QED
    BY <2>1, <2>2
<1>6. CASE o < L - 1
  <2>1. b < Bytes - 1 => L * (b + 1) <= M
    <3>1. L * Bytes = L * (b + 1) + L * (Bytes - (b + 1))
      BY <1>1, <1>3, SMT
    <3>. QED
      BY <1>1, <1>3, <3>1, SMT
  <2>2. b = Bytes - 1 => L * (b + 1) = M
    BY <1>3, <1>1
  <2>3. c + 1 = L * b + (o + 1) /\ o + 1 \in 0..(L - 1) /\ c + 1 < M
    <3>. HIDE DEF M, L, b, o
    <3>. QED
      BY <1>1, <1>4, <1>6, <2>1, <2>2, <1>3, SMT
  <2>4. d = L * b + (o + 1)
    BY <1>5, <2>3, <1>1
  <2>5. d \div L = b /\ d % L = o + 1
    <3>1. b \in Nat
      BY <1>1, Constants
    <3>. DEFINE r == o + 1
    <3>2. L \in Nat /\ L > 0 /\ r \in 0..(L - 1)
      BY <1>1, <2>3
    <3>. HIDE DEF L, b, r
    <3>3. (L * b + r) \div L = b /\ (L * b + r) % L = r
      BY <3>1, <3>2, Divide
    <3>. QED
      BY <2>4, <3>3 DEF r
  <2>6. Byte(d) = Byte(c) /\ Turn(d) = Turn(c) + 1
    BY <2>5 DEF Byte, Turn
  <2>. QED
    BY <2>6, <1>6, <1>1
<1>7. CASE o = L - 1
  <2>1. c + 1 = L * (b + 1)
    BY <1>1, <1>4, <1>7
  <2>2. CASE b = Bytes - 1
    <3>1. c = M - 1
      BY <2>1, <2>2, <1>1, <1>3
    <3>2. d = L * 0 + 0
      BY <3>1, <1>5, <1>1
    <3>3. d \div L = 0 /\ d % L = 0
      BY <3>2, <1>1, Divide
    <3>. QED
      BY <3>3, <1>7, <2>2, <1>1 DEF Byte, Turn
  <2>3. CASE b # Bytes - 1
    <3>1. L * (b + 1) < M
      <4>1. L * Bytes = L * (b + 1) + L * (Bytes - (b + 1))
        BY <1>1, <1>3, SMT
      <4>2. Bytes - (b + 1) >= 1 /\ Bytes - (b + 1) \in Nat
        BY <1>1, <1>3, <2>3
      <4>3. L * (Bytes - (b + 1)) >= L
        BY <1>1, <4>2, SMT
      <4>. QED
        BY <1>1, <1>3, <4>1, <4>3, SMT
    <3>2. d = L * (b + 1) + 0 /\ b + 1 \in Nat
      BY <3>1, <2>1, <1>5, <1>1
    <3>3. d \div L = b + 1 /\ d % L = 0
      BY <3>2, <1>1, Divide
    <3>. QED
      BY <3>3, <1>7, <2>3, <1>1 DEF Byte, Turn
  <2>. QED
    BY <2>2, <2>3
<1>. QED
  BY <1>6, <1>7, <1>1

\* A lag is counted round the bytes.
LEMMA LagValue ==
  ASSUME NEW c \in Counts, NEW y \in 0..(Bytes - 1)
  PROVE  Lag(c, y) = IF y <= Byte(c) THEN Byte(c) - y ELSE Byte(c) - y + Bytes
<1>. DEFINE b == Byte(c)
<1>1. b \in 0..(Bytes - 1) /\ Bytes \in Nat /\ Bytes > 0
  BY TurnRange, Constants
<1>. HIDE DEF b
<1>2. (b - y) % Bytes = IF y <= b THEN b - y ELSE b - y + Bytes
  BY <1>1, SMT
<1>. QED
  BY <1>2 DEF b, Lag

LEMMA LagFacts ==
  ASSUME NEW c \in Counts, NEW y \in 0..(Bytes - 1)
  PROVE  /\ Lag(c, y) \in 0..(Bytes - 1)
         /\ y = Byte(c) => Lag(c, y) = 0
BY LagValue, TurnRange, Constants

\* As the program goes on to the next byte, what has come so far falls behind.
LEMMA LagStep ==
  ASSUME NEW c \in Counts, NEW d \in Counts,
         d = (c + 1) % (Bytes * LoopsPerByte), NEW y \in 0..(Bytes - 1)
  PROVE  /\ Turn(c) < LoopsPerByte - 1 => Lag(d, y) = Lag(c, y)
         /\ Turn(c) = LoopsPerByte - 1 /\ Lag(c, y) <= 1 =>
              Lag(d, y) = Lag(c, y) + 1
<1>1. CASE Turn(c) < LoopsPerByte - 1
  BY <1>1, NextTurn, TurnRange, Constants DEF Lag
<1>2. CASE Turn(c) = LoopsPerByte - 1
  <2>1. Byte(d) = IF Byte(c) = Bytes - 1 THEN 0 ELSE Byte(c) + 1
    BY <1>2, NextTurn
  <2>2. Lag(c, y) = IF y <= Byte(c) THEN Byte(c) - y ELSE Byte(c) - y + Bytes
    BY LagValue
  <2>3. Lag(d, y) = IF y <= Byte(d) THEN Byte(d) - y ELSE Byte(d) - y + Bytes
    BY LagValue
  <2>4. Byte(c) \in 0..(Bytes - 1) /\ Byte(d) \in 0..(Bytes - 1)
    BY TurnRange
  <2>. QED
    BY <1>2, <2>1, <2>2, <2>3, <2>4, Constants, Pace
<1>. QED
  BY <1>1, <1>2, TurnRange, Constants
-------------------------------------------------------------------------------
\* The reports on their way carry bytes, whose lags are numbers.
Ys == 0..(Bytes - 1)

LEMMA EchoTypes ==
  ASSUME Inv
  PROVE  /\ count \in Counts /\ panel.Y \in Ys /\ lead \in 0..Slack
         /\ transit # Nothing => transit \in Reports /\ transit.Y \in Ys
         /\ told # Zero => told.Y \in Ys
         /\ got # Nothing => got.Y \in Ys
         /\ Len(queue) \in 0..QueueMax
         /\ \A i \in 1..Len(queue) : queue[i] \in Reports /\ queue[i].Y \in Ys
         /\ Turn(count) \in 0..(LoopsPerByte - 1)
         /\ \A y \in Ys : Lag(count, y) \in Nat
<1>1. count \in Counts
  BY DEF Inv, TypeOK, Counts
<1>2. Turn(count) \in 0..(LoopsPerByte - 1)
  BY <1>1, TurnRange
<1>3. \A y \in Ys : Lag(count, y) \in Nat
  BY <1>1, LagFacts, Constants DEF Ys
<1>4. Len(queue) \in 0..QueueMax
  BY LenProperties, Constants DEF Inv, TypeOK
<1>5. \A i \in 1..Len(queue) : queue[i] \in Reports
  BY ElementOfSeq DEF Inv, TypeOK
<1>6. \A r \in Reports : r.Y \in Ys
  BY DEF Reports, Ys
<1>. QED
  BY <1>1, <1>2, <1>3, <1>4, <1>5, <1>6 DEF Inv, TypeOK, Values

LEMMA EchoInit == Init => EchoInv
<1>. SUFFICES ASSUME Init PROVE EchoInv
  OBVIOUS
<1>1. panel.Y = 0 /\ count = 0 /\ count \in Counts
  <2>1. Bytes * LoopsPerByte \in Nat /\ Bytes * LoopsPerByte > 0
    BY Constants, SMT
  <2>. QED
    BY <2>1 DEF Init, Counts
<1>2. Byte(0) = 0 /\ Turn(0) = 0
  <2>1. LoopsPerByte * 0 + 0 = 0 /\ 0 \in 0..(LoopsPerByte - 1)
    BY Constants
  <2>. QED
    BY <2>1, Divide, Constants DEF Byte, Turn
<1>3. Lag(0, 0) = 0
  BY <1>1, <1>2, LagFacts, Constants
<1>4. PanelInv
  BY <1>1, <1>3 DEF Init, PanelInv, Started, Recent
<1>5. TransitInv /\ GotInv
  BY DEF Init, TransitInv, GotInv
<1>6. Len(queue) = 0
  BY DEF Init
<1>7. QueueInv /\ OrderInv
  BY <1>6 DEF Init, QueueInv, OrderInv, Behind
<1>8. ToldInv
  BY <1>1, <1>2, Constants DEF Init, ToldInv
<1>. QED
  BY <1>4, <1>5, <1>7, <1>8 DEF EchoInv

\* Steps that leave the counter alone leave the lags alone.
LEMMA EchoStart == Inv /\ EchoInv /\ Start => EchoInv'
<1>. SUFFICES ASSUME Inv, EchoInv, Start PROVE EchoInv'
  OBVIOUS
<1>. USE DEF EchoInv, Recent, Current, Started
<1>1. ~Started /\ Started' \in BOOLEAN /\ count = 0 /\ pending = NoByte /\ got = Nothing
  BY DEF Start, SetConfiguration, EnableEndpoint, SetIdle, GetFeature, PanelInv
<1>2. UNCHANGED <<panel, queue, count, pending, got, lead>>
  BY DEF Start, SetConfiguration, EnableEndpoint, SetIdle, GetFeature,
         P!SetRate, P!Restart, P!Ask
<1>3. Turn(0) = 0
  <2>1. LoopsPerByte * 0 + 0 = 0 /\ 0 \in 0..(LoopsPerByte - 1)
    BY Constants
  <2>. QED
    BY <2>1, Divide, Constants DEF Turn
<1>4. PanelInv'
  BY <1>1, <1>2 DEF PanelInv
<1>5. Current(panel)
  BY <1>1, EchoTypes, Constants DEF PanelInv, Inv, TypeOK
<1>6. TransitInv'
  <2>1. CASE transit' = Nothing
    BY <2>1 DEF TransitInv
  <2>2. CASE transit' # Nothing
    <3>1. UNCHANGED <<transit, sent>> /\ (told' = told \/ told' = panel)
      BY <2>2 DEF Start, SetConfiguration, EnableEndpoint, SetIdle, GetFeature,
                  P!SetRate, P!Restart, P!Ask
    <3>2. Current(transit) /\ Current(transit)'
      BY <1>1, <1>2, <2>2, <3>1 DEF TransitInv
    <3>3. sent => Current(told)'
      BY <1>2, <1>5, <2>2, <3>1, <3>2 DEF TransitInv
    <3>. QED
      BY <1>2, <2>2, <3>1, <3>2, <3>3 DEF TransitInv
  <2>. QED
    BY <2>1, <2>2
<1>7. transit' = transit \/ transit' = Nothing
  BY DEF Start, SetConfiguration, EnableEndpoint, SetIdle, GetFeature,
         P!SetRate, P!Restart, P!Ask
<1>8. QueueInv' /\ GotInv'
  <2>1. pc # "write" /\ pc' # "write"
    BY DEF Start, SetConfiguration, EnableEndpoint, SetIdle, GetFeature
  <2>. QED
    BY <1>1, <1>2, <2>1 DEF QueueInv, GotInv
<1>9. ToldInv'
  BY <1>1, <1>2, <1>3, EchoTypes, Constants DEF ToldInv
<1>10. OrderInv'
  BY <1>2, <1>7 DEF OrderInv, Behind
<1>. QED
  BY <1>4, <1>6, <1>8, <1>9, <1>10

LEMMA EchoRead == Inv /\ EchoInv /\ Read => EchoInv'
<1>. SUFFICES ASSUME Inv, EchoInv, Read PROVE EchoInv'
  OBVIOUS
<1>. USE DEF EchoInv, Recent, Current, Started, Read, pipeVars
<1>1. /\ PanelInv' /\ TransitInv' /\ ToldInv' /\ pc = "read" /\ pc' = "write"
      /\ UNCHANGED <<panel, told, transit, sent, count, lead>>
  BY DEF PanelInv, TransitInv, ToldInv
<1>2. CASE queue = <<>>
  <2>1. UNCHANGED <<queue, got>>
    BY <1>2
  <2>2. Len(queue) = 0
    BY <1>2
  <2>. QED
    BY <1>1, <1>2, <2>1, <2>2 DEF QueueInv, GotInv, OrderInv, Behind
<1>3. CASE queue # <<>>
  <2>1. /\ got' = queue[1] /\ Len(queue) \in Nat /\ Len(queue) >= 1
        /\ Len(queue') = Len(queue) - 1
        /\ \A i \in 1..Len(queue') : queue'[i] = queue[i + 1]
    <3>1. queue \in Seq(Reports)
      BY DEF Inv, TypeOK
    <3>2. queue' = Tail(queue) /\ got' = Head(queue)
      BY <1>3
    <3>3. Len(queue) \in Nat /\ Len(queue) # 0
      BY <1>3, <3>1, EmptySeq, LenProperties
    <3>. QED
      BY <1>3, <3>1, <3>2, <3>3
  <2>2. \A i \in 1..Len(queue') : i + 1 \in 1..Len(queue)
    BY <2>1
  <2>3. QueueInv'
    <3>. SUFFICES ASSUME NEW i \in 1..Len(queue')
                  PROVE  Recent(queue[i].Y, 1 + 2 * Slack + (QueueMax - i) + 0)'
      BY <1>1 DEF QueueInv
    <3>1. Recent(queue[i + 1].Y, 1 + 2 * Slack + (QueueMax - (i + 1)) + 1)
      BY <1>1, <2>2 DEF QueueInv
    <3>2. 1 + 2 * Slack + (QueueMax - (i + 1)) + 1
            = 1 + 2 * Slack + (QueueMax - i) + 0
      BY Constants
    <3>3. queue'[i] = queue[i + 1] /\ count' = count
      BY <1>1, <2>1
    <3>. QED
      BY <3>1, <3>2, <3>3
  <2>4. Lag(count, queue[1].Y) <= 1
    <3>1. 1 \in 1..Len(queue)
      BY <2>1
    <3>. QED
      BY <3>1 DEF QueueInv
  <2>5. GotInv'
    BY <1>1, <2>1, <2>4 DEF GotInv
  <2>6. OrderInv'
    <3>1. 1 \in 1..Len(queue) /\ \A i \in 1..Len(queue') : 1 < i + 1
      BY <2>1
    <3>2. \A i \in 1..Len(queue') :
            /\ Lag(count, queue[1].Y) >= Lag(count, queue[i + 1].Y)
            /\ \A j \in 1..Len(queue') :
                 i < j => Lag(count, queue[i + 1].Y) >= Lag(count, queue[j + 1].Y)
      BY <2>1, <2>2, <3>1 DEF OrderInv
    <3>3. transit # Nothing =>
            /\ Lag(count, queue[1].Y) >= Lag(count, transit.Y)
            /\ \A i \in 1..Len(queue') :
                 Lag(count, queue[i + 1].Y) >= Lag(count, transit.Y)
      BY <2>2, <3>1 DEF OrderInv, Behind
    <3>4. /\ Lag(count, queue[1].Y) >= Lag(count, panel.Y)
          /\ \A i \in 1..Len(queue') :
               Lag(count, queue[i + 1].Y) >= Lag(count, panel.Y)
      BY <2>2, <3>1 DEF OrderInv, Behind
    <3>5. transit # Nothing => Lag(count, transit.Y) >= Lag(count, panel.Y)
      BY DEF OrderInv
    <3>. HIDE DEF Read, EchoInv
    <3>. QED
      BY <1>1, <2>1, <3>2, <3>3, <3>4, <3>5 DEF OrderInv, Behind
  <2>. QED
    BY <1>1, <2>3, <2>5, <2>6
<1>. QED
  BY <1>2, <1>3

LEMMA EchoProcess == Inv /\ EchoInv /\ ProcessHIDReport => EchoInv'
<1>. SUFFICES ASSUME Inv, EchoInv, ProcessHIDReport PROVE EchoInv'
  OBVIOUS
<1>. USE DEF EchoInv, Recent, Current, Started
<1>1. /\ UNCHANGED <<told, transit, sent, queue, pc, count, got, lead>>
      /\ pending' = NoByte /\ panel'.Y = Byte(count)
  BY DEF ProcessHIDReport, PanelInv, Inv, TypeOK, Reports
<1>2. Lag(count, panel'.Y) = 0
  BY <1>1, EchoTypes, LagFacts, TurnRange
<1>3. PanelInv'
  BY <1>1, <1>2 DEF PanelInv, ProcessHIDReport
<1>4. TransitInv' /\ QueueInv' /\ ToldInv' /\ GotInv'
  BY <1>1 DEF TransitInv, QueueInv, ToldInv, GotInv
<1>5. OrderInv'
  <2>1. /\ transit # Nothing => Lag(count, transit.Y) >= 0
        /\ got # Nothing => Lag(count, got.Y) >= 0
        /\ \A i \in 1..Len(queue) : Lag(count, queue[i].Y) >= 0
    BY EchoTypes
  <2>2. Behind(panel.Y)'
    BY <1>1, <1>2, <2>1 DEF Behind
  <2>. HIDE DEF Recent, Current, Started
  <2>. QED
    BY <1>1, <1>2, <2>1, <2>2 DEF OrderInv, Behind
<1>. QED
  BY <1>3, <1>4, <1>5

LEMMA EchoPress == Inv /\ EchoInv /\ PressOrRelease => EchoInv'
<1>. SUFFICES ASSUME Inv, EchoInv, PressOrRelease PROVE EchoInv'
  OBVIOUS
<1>1. /\ UNCHANGED <<told, transit, sent, queue, pending, pc, count, got, lead>>
      /\ panel'.Y = panel.Y
  BY DEF PressOrRelease, Inv, TypeOK, Reports
<1>. USE DEF EchoInv, Recent, Current, Started
<1>2. PanelInv'
  BY <1>1 DEF PanelInv
<1>3. TransitInv' /\ ToldInv'
  BY <1>1 DEF TransitInv, ToldInv
<1>4. QueueInv' /\ GotInv'
  BY <1>1 DEF QueueInv, GotInv
<1>5. OrderInv'
  BY <1>1 DEF OrderInv, Behind
<1>. QED
  BY <1>2, <1>3, <1>4, <1>5

LEMMA EchoDriver == Inv /\ EchoInv /\ Driver => EchoInv'
<1>. SUFFICES ASSUME Inv, EchoInv, Driver PROVE EchoInv'
  OBVIOUS
<1>. USE Constants DEF EchoInv, Recent, Current, Started
<1>0. /\ UNCHANGED <<pending, queue, pc, count, got>> /\ lead' = 0
      /\ lead \in 0..Slack /\ Turn(count) \in Nat
      /\ transit # Nothing => transit # Zero
      /\ sent => transit # Nothing
  BY EchoTypes DEF Driver, Inv
<1>1. panel # Zero /\ panel # Nothing
  BY DEF Inv, TypeOK
<1>2. CASE P!Sample
  <2>1. /\ transit = Nothing /\ transit' = panel /\ ~sent /\ ~sent'
        /\ UNCHANGED <<panel, told>>
    BY <1>2, <1>0 DEF P!Sample
  <2>2. PanelInv' /\ QueueInv'
    BY <1>0, <2>1 DEF PanelInv, QueueInv
  <2>3. Recent(panel.Y, 1) /\ (~Started => Current(panel))
    BY <1>0, <1>1 DEF PanelInv
  <2>4. TransitInv'
    BY <1>0, <2>1, <2>3 DEF TransitInv
  <2>5. ToldInv'
    <3>1. ~Current(told) => Turn(count) < 1 + 0 + 3 * Slack
      BY <1>0, <2>1 DEF ToldInv
    <3>2. Current(told)' <=> Current(told)
      BY <1>0, <2>1
    <3>. QED
      BY <1>0, <1>1, <2>1, <3>1, <3>2 DEF ToldInv
  <2>6. GotInv'
    BY <1>0, <2>1 DEF GotInv
  <2>7. OrderInv'
    BY <1>0, <2>1, EchoTypes DEF OrderInv, Behind
  <2>. QED
    BY <2>2, <2>4, <2>5, <2>6, <2>7
<1>3. CASE P!KeepBack
  <2>1. transit' = Nothing /\ UNCHANGED <<panel, told, sent>> /\ ~sent
        /\ transit = told
    BY <1>3 DEF P!KeepBack
  <2>2. PanelInv' /\ QueueInv' /\ TransitInv'
    BY <1>0, <2>1 DEF PanelInv, QueueInv, TransitInv
  <2>3. told # Nothing
    BY DEF Inv, TypeOK, Values
  <2>4. ToldInv'
    BY <1>0, <2>1, <2>3 DEF ToldInv, TransitInv
  <2>5. GotInv'
    BY <1>0, <2>1 DEF GotInv
  <2>6. OrderInv'
    BY <1>0, <2>1 DEF OrderInv, Behind
  <2>. QED
    BY <2>2, <2>4, <2>5, <2>6
<1>4. CASE P!Send
  <2>1. /\ transit # Nothing /\ ~sent /\ told' = transit /\ sent'
        /\ UNCHANGED <<panel, transit>>
    BY <1>4 DEF P!Send
  <2>2. PanelInv' /\ QueueInv'
    BY <1>0, <2>1 DEF PanelInv, QueueInv
  <2>3. TransitInv'
    BY <1>0, <2>1 DEF TransitInv
  <2>4. ToldInv'
    BY <1>0, <2>1 DEF ToldInv
  <2>5. GotInv'
    BY <1>0, <2>1 DEF GotInv, ToldInv
  <2>6. OrderInv'
    BY <1>0, <2>1 DEF OrderInv, Behind
  <2>. QED
    BY <2>2, <2>3, <2>4, <2>5, <2>6
<1>. QED
  BY <1>2, <1>3, <1>4 DEF Driver

LEMMA EchoPoll == Inv /\ EchoInv /\ Poll => EchoInv'
<1>. SUFFICES ASSUME Inv, EchoInv, Poll PROVE EchoInv'
  OBVIOUS
<1>. USE Constants DEF EchoInv, Recent, Current, Started
<1>0. /\ UNCHANGED <<panel, told, pending, pc, count, got>> /\ lead' = 0
      /\ sent /\ transit' = Nothing /\ ~sent' /\ transit # Nothing
      /\ transit \in Reports /\ transit.Y \in Ys /\ transit # Zero
      /\ lead \in 0..Slack /\ Turn(count) \in Nat
  BY EchoTypes DEF Poll, P!Deliver, Inv
<1>1. Recent(transit.Y, 1 + 2 * Slack)
  BY <1>0 DEF TransitInv
<1>2. /\ Len(queue) \in 0..QueueMax
      /\ queue' # <<>> /\ Len(queue') \in Nat
      /\ Len(queue') = Len(queue) \/ Len(queue') = Len(queue) + 1
      /\ Len(queue') <= QueueMax
      /\ \A i \in 1..Len(queue) : queue'[i] = queue[i]
      /\ Len(queue') = Len(queue) + 1 => queue'[Len(queue')] = transit
  <2>1. queue \in Seq(Reports) /\ Len(queue) \in 0..QueueMax
    BY EchoTypes DEF Inv, TypeOK
  <2>2. CASE Len(queue) < QueueMax
    <3>1. queue' = Append(queue, transit)
      BY <2>2 DEF Poll
    <3>2. /\ Len(queue') = Len(queue) + 1 /\ queue'[Len(queue) + 1] = transit
          /\ \A i \in 1..Len(queue) : queue'[i] = queue[i]
          /\ queue' # <<>>
      BY <1>0, <2>1, <3>1, AppendProperties
    <3>. QED
      BY <2>1, <2>2, <3>2
  <2>3. CASE ~(Len(queue) < QueueMax)
    <3>1. queue' = queue /\ Len(queue) = QueueMax
      BY <2>1, <2>3 DEF Poll
    <3>. QED
      BY <2>1, <3>1
  <2>. QED
    BY <2>2, <2>3
<1>3. \A i \in 1..Len(queue') :
        \/ i \in 1..Len(queue) /\ queue'[i] = queue[i]
        \/ i = Len(queue') /\ i = Len(queue) + 1 /\ queue'[i] = transit
  BY <1>2
<1>4. PanelInv' /\ TransitInv'
  BY <1>0 DEF PanelInv, TransitInv
<1>5. QueueInv'
  <2>. SUFFICES ASSUME NEW i \in 1..Len(queue')
                PROVE  Recent(queue[i].Y, 1 + 2 * Slack + (QueueMax - i)
                                 + (IF pc = "write" THEN 0 ELSE 1))'
    BY DEF QueueInv
  <2>1. CASE i \in 1..Len(queue) /\ queue'[i] = queue[i]
    BY <1>0, <2>1 DEF QueueInv
  <2>2. CASE queue'[i] = transit
    <3>1. i <= QueueMax
      BY <1>2
    <3>. QED
      BY <1>0, <1>1, <2>2, <3>1
  <2>. QED
    BY <1>3, <2>1, <2>2
<1>6. ToldInv'
  <2>1. ~Current(told) => Turn(count) < 1 + 0 + 2 * Slack
    BY <1>0 DEF TransitInv
  <2>2. Current(told)' <=> Current(told)
    BY <1>0
  <2>. QED
    BY <1>0, <2>1, <2>2 DEF ToldInv
<1>7. GotInv'
  BY <1>0, <1>2 DEF GotInv
<1>8. OrderInv'
  <2>1. Behind(panel.Y)'
    BY <1>0, <1>3 DEF OrderInv, Behind
  <2>2. \A i \in 1..Len(queue') :
          got # Nothing => Lag(count, got.Y) >= Lag(count, queue'[i].Y)
    BY <1>0, <1>3 DEF OrderInv, Behind
  <2>3. \A i, j \in 1..Len(queue') :
          i < j => Lag(count, queue'[i].Y) >= Lag(count, queue'[j].Y)
    <3>. SUFFICES ASSUME NEW i \in 1..Len(queue'), NEW j \in 1..Len(queue'), i < j
                  PROVE  Lag(count, queue'[i].Y) >= Lag(count, queue'[j].Y)
      OBVIOUS
    <3>1. i \in 1..Len(queue) /\ queue'[i] = queue[i]
      BY <1>2, <1>3
    <3>. QED
      BY <1>0, <1>3, <3>1 DEF OrderInv, Behind
  <2>. QED
    BY <1>0, <2>1, <2>2, <2>3 DEF OrderInv
<1>. QED
  BY <1>4, <1>5, <1>6, <1>7, <1>8

\* A turn within a byte changes no lag; at the end of a byte all the reports on
\* their way carry it, and the program has at least the one before.
LEMMA EchoWrite == Inv /\ EchoInv /\ Write => EchoInv'
<1>. SUFFICES ASSUME Inv, EchoInv, Write PROVE EchoInv'
  OBVIOUS
<1>. USE Constants DEF EchoInv, Recent, Current, Started
<1>0. /\ UNCHANGED <<panel, told, transit, sent, queue, got>>
      /\ pc = "write" /\ pc' = "read" /\ pending = NoByte /\ lead < Slack
      /\ lead' = lead + 1 /\ count' = NextCount /\ pending' = Byte(count')
      /\ count \in Counts
      /\ lead \in 0..Slack /\ Turn(count) \in 0..(LoopsPerByte - 1)
      /\ panel.Y \in Ys /\ (transit # Nothing => transit.Y \in Ys)
      /\ (told # Zero => told.Y \in Ys) /\ (got # Nothing => got.Y \in Ys)
      /\ \A i \in 1..Len(queue) : queue[i].Y \in Ys
      /\ Len(queue) \in 0..QueueMax
      /\ \A y \in Ys : Lag(count, y) \in Nat
  BY EchoTypes DEF Write, Send, pipeVars
<1>1. count' \in Counts /\ count' = (count + 1) % (Bytes * LoopsPerByte)
  BY <1>0, ByteRange DEF NextCount, Counts
<1>2. Lag(count, panel.Y) = 0
  BY <1>0 DEF PanelInv
<1>3. CASE Turn(count) < LoopsPerByte - 1
  <2>1. Turn(count') = Turn(count) + 1 /\ Byte(count') = Byte(count)
    BY <1>0, <1>1, <1>3, NextTurn
  <2>2. \A y \in Ys : Lag(count', y) = Lag(count, y)
    BY <1>0, <1>1, <1>3, LagStep DEF Ys
  <2>3. PanelInv'
    BY <1>0, <1>2, <2>2 DEF PanelInv
  <2>4. TransitInv'
    BY <1>0, <2>1, <2>2, SMTT(30) DEF TransitInv
  <2>5. QueueInv'
    BY <1>0, <2>1, <2>2 DEF QueueInv
  <2>6. ToldInv'
    BY <1>0, <2>1, <2>2 DEF ToldInv
  <2>7. GotInv'
    BY <1>0, <2>1, <2>2 DEF GotInv
  <2>8. OrderInv'
    BY <1>0, <2>2 DEF OrderInv, Behind
  <2>. QED
    BY <2>3, <2>4, <2>5, <2>6, <2>7, <2>8
<1>4. CASE Turn(count) = LoopsPerByte - 1
  <2>1. Turn(count') = 0
    BY <1>0, <1>1, <1>4, NextTurn
  <2>2. \A y \in Ys : Lag(count, y) <= 1 => Lag(count', y) = Lag(count, y) + 1
    BY <1>0, <1>1, <1>4, LagStep DEF Ys
  <2>3. transit # Nothing => Lag(count, transit.Y) = 0
    BY <1>0, <1>4, Pace, SMTT(30) DEF TransitInv
  <2>4. \A i \in 1..Len(queue) : Lag(count, queue[i].Y) = 0
    BY <1>0, <1>4, Pace, SMTT(30) DEF QueueInv
  <2>5. Current(told)
    <3>1. transit # Nothing => transit # Zero
      BY EchoTypes
    <3>. QED
      BY <1>0, <1>4, <2>3, <3>1, Pace DEF ToldInv
  <2>6. got # Nothing => Lag(count, got.Y) <= 1
    BY <1>0, <1>4, <2>5, Pace DEF GotInv
  <2>7. /\ Lag(count', panel.Y) = 1
        /\ transit # Nothing => Lag(count', transit.Y) = 1
        /\ \A i \in 1..Len(queue) : Lag(count', queue[i].Y) = 1
        /\ told # Zero /\ Lag(count', told.Y) = 1
        /\ got # Nothing => Lag(count', got.Y) \in 1..2
    BY <1>0, <1>2, <2>2, <2>3, <2>4, <2>5, <2>6, SMTT(30)
  <2>8. /\ UNCHANGED <<panel, told, transit, sent, queue, got>>
        /\ lead \in Nat /\ lead' = lead + 1 /\ pc' = "read"
    BY <1>0
  <2>9. PanelInv'
    <3>1. pending' # NoByte /\ pending' = Byte(count')
      BY <1>0, <1>1, TurnRange, SMTT(30) DEF NoByte
    <3>. QED
      BY <2>1, <2>7, <2>8, <3>1 DEF PanelInv
  <2>10. ~Current(told)' /\ (transit # Nothing => ~Current(transit)')
    BY <2>7, <2>8
  <2>11. TransitInv'
    BY <2>1, <2>7, <2>8, <2>10 DEF TransitInv
  <2>12. ToldInv'
    BY <2>1, <2>8 DEF ToldInv
  <2>13. GotInv'
    <3>1. got' # Nothing => Lag(count', got'.Y) <= 1 \/ Lag(count', got'.Y) = 2
      BY <2>7, <2>8
    <3>. HIDE DEF Current
    <3>. QED
      BY <2>10, <3>1 DEF GotInv
  <2>14. QueueInv'
    BY <1>0, <2>1, <2>7, SMTT(30) DEF QueueInv
  <2>15. OrderInv'
    <3>1. /\ queue' = queue /\ got' = got /\ transit' = transit /\ panel' = panel
          /\ got # Nothing => Lag(count', got.Y) >= 1
      BY <2>7, <2>8
    <3>2. \A i \in 1..Len(queue) : Lag(count', queue[i].Y) = 1
      BY <2>7
    <3>3. Behind(panel.Y)'
      BY <2>7, <3>1, <3>2 DEF Behind
    <3>4. transit # Nothing => Behind(transit.Y)'
      BY <2>7, <3>1, <3>2 DEF Behind
    <3>5. transit # Nothing => Lag(count', transit.Y) >= Lag(count', panel.Y)
      BY <2>7
    <3>6. \A i \in 1..Len(queue') :
            /\ got' # Nothing => Lag(count', got'.Y) >= Lag(count', queue'[i].Y)
            /\ \A j \in 1..Len(queue') :
                 i < j => Lag(count', queue'[i].Y) >= Lag(count', queue'[j].Y)
      BY <3>1, <3>2
    <3>. QED
      BY <3>1, <3>3, <3>4, <3>5, <3>6 DEF OrderInv
  <2>. QED
    BY <2>9, <2>11, <2>12, <2>13, <2>14, <2>15
<1>. QED
  BY <1>0, <1>3, <1>4

LEMMA EchoStep == Inv /\ EchoInv /\ [Next]_vars => EchoInv'
<1>1. Inv /\ EchoInv /\ UNCHANGED vars => EchoInv'
  <2>. SUFFICES ASSUME EchoInv, UNCHANGED vars PROVE EchoInv'
    OBVIOUS
  <2>. USE DEF EchoInv, Recent, Current, Started, vars, pipeVars
  <2>1. PanelInv' /\ TransitInv' /\ QueueInv'
    BY DEF PanelInv, TransitInv, QueueInv
  <2>2. ToldInv' /\ GotInv'
    BY DEF ToldInv, GotInv
  <2>3. OrderInv'
    BY DEF OrderInv, Behind
  <2>. QED
    BY <2>1, <2>2, <2>3
<1>. QED
  BY <1>1, EchoStart, EchoRead, EchoWrite, EchoProcess, EchoDriver, EchoPoll,
     EchoPress DEF Next, Device

-------------------------------------------------------------------------------
\* What stands at each place of the trail.
LEMMA TrailPlaces ==
  ASSUME Inv
  PROVE  LET a == IF got = Nothing THEN 0 ELSE 1
             t == IF transit = Nothing THEN 0 ELSE 1
             n == Len(queue)
         IN  /\ Len(Trail) = a + n + t + 1
             /\ got # Nothing => Trail[1] = got
             /\ \A i \in 1..n : Trail[a + i] = queue[i]
             /\ transit # Nothing => Trail[a + n + 1] = transit
             /\ Trail[a + n + t + 1] = panel
<1>. DEFINE A == IF got = Nothing THEN <<>> ELSE <<got>>
            B == IF transit = Nothing THEN <<>> ELSE <<transit>>
            C == A \o queue
            D == C \o B
<1>1. A \in Seq(Reports) /\ B \in Seq(Reports) /\ queue \in Seq(Reports)
      /\ <<panel>> \in Seq(Reports)
  BY DEF Inv, TypeOK
<1>2. /\ Len(A) = IF got = Nothing THEN 0 ELSE 1
      /\ got # Nothing => A[1] = got
      /\ Len(B) = IF transit = Nothing THEN 0 ELSE 1
      /\ transit # Nothing => B[1] = transit
      /\ Len(queue) \in Nat /\ Len(A) \in Nat /\ Len(B) \in Nat
      /\ Len(<<panel>>) = 1 /\ <<panel>>[1] = panel
  BY <1>1, LenProperties
<1>. HIDE DEF A, B
<1>3. /\ C \in Seq(Reports) /\ Len(C) = Len(A) + Len(queue)
      /\ \A i \in 1..(Len(A) + Len(queue)) :
           C[i] = IF i <= Len(A) THEN A[i] ELSE queue[i - Len(A)]
  BY <1>1, ConcatProperties
<1>. HIDE DEF C
<1>4. /\ D \in Seq(Reports) /\ Len(D) = Len(C) + Len(B)
      /\ \A i \in 1..(Len(C) + Len(B)) :
           D[i] = IF i <= Len(C) THEN C[i] ELSE B[i - Len(C)]
  <2>1. C \in Seq(Reports)
    BY <1>3
  <2>. QED
    BY <1>1, <2>1, ConcatProperties
<1>. HIDE DEF D
<1>5. /\ Len(D \o <<panel>>) = Len(D) + 1
      /\ \A i \in 1..(Len(D) + 1) :
           (D \o <<panel>>)[i] = IF i <= Len(D) THEN D[i] ELSE panel
  BY <1>1, <1>2, <1>4, ConcatProperties
<1>6. Trail = D \o <<panel>>
  BY DEF Trail, A, B, C, D
<1>. DEFINE a == IF got = Nothing THEN 0 ELSE 1
            t == IF transit = Nothing THEN 0 ELSE 1
            n == Len(queue)
<1>7. /\ Len(A) = a /\ Len(B) = t /\ Len(C) = a + n /\ Len(D) = a + n + t
      /\ a \in 0..1 /\ t \in 0..1 /\ n \in Nat
      /\ (got # Nothing => a = 1) /\ (transit # Nothing => t = 1)
  BY <1>2, <1>3, <1>4
<1>. HIDE DEF a, t, n
<1>8. \A i \in 1..(a + n + t) : Trail[i] = D[i]
  BY <1>5, <1>6, <1>7
<1>9. \A i \in 1..(a + n) : Trail[i] = C[i]
  BY <1>4, <1>7, <1>8
<1>10. got # Nothing => Trail[1] = got
  BY <1>2, <1>3, <1>7, <1>9 DEF n
<1>11. \A i \in 1..n : Trail[a + i] = queue[i]
  BY <1>3, <1>7, <1>9 DEF n
<1>12. transit # Nothing => Trail[a + n + 1] = transit
  BY <1>2, <1>4, <1>7, <1>8
<1>13. Trail[a + n + t + 1] = panel /\ Len(Trail) = a + n + t + 1
  BY <1>5, <1>6, <1>7
<1>. QED
  BY <1>10, <1>11, <1>12, <1>13 DEF a, t, n

LEMMA OrderOfTrail == Inv /\ EchoInv => EchoInOrder
<1>. SUFFICES ASSUME Inv, EchoInv PROVE EchoInOrder
  OBVIOUS
<1>. DEFINE a == IF got = Nothing THEN 0 ELSE 1
            t == IF transit = Nothing THEN 0 ELSE 1
            n == Len(queue)
<1>1. /\ Len(Trail) = a + n + t + 1
      /\ got # Nothing => Trail[1] = got
      /\ \A i \in 1..n : Trail[a + i] = queue[i]
      /\ transit # Nothing => Trail[a + n + 1] = transit
      /\ Trail[a + n + t + 1] = panel
  BY TrailPlaces
<1>2. /\ n \in Nat /\ a \in 0..1 /\ t \in 0..1
      /\ (got # Nothing <=> a = 1) /\ (transit # Nothing <=> t = 1)
  BY EchoTypes
<1>3. /\ \A i \in 1..n : got # Nothing => Lag(count, got.Y) >= Lag(count, queue[i].Y)
      /\ \A i, j \in 1..n : i < j => Lag(count, queue[i].Y) >= Lag(count, queue[j].Y)
  BY DEF EchoInv, OrderInv
<1>4. /\ transit # Nothing => Lag(count, transit.Y) >= Lag(count, panel.Y)
      /\ transit # Nothing => Behind(transit.Y)
      /\ Behind(panel.Y)
  BY DEF EchoInv, OrderInv
<1>5. /\ \A i \in 1..n : Lag(count, queue[i].Y) >= Lag(count, panel.Y)
      /\ \A i \in 1..n :
           transit # Nothing => Lag(count, queue[i].Y) >= Lag(count, transit.Y)
      /\ got # Nothing => Lag(count, got.Y) >= Lag(count, panel.Y)
      /\ got # Nothing /\ transit # Nothing =>
           Lag(count, got.Y) >= Lag(count, transit.Y)
  BY <1>4 DEF Behind
<1>. HIDE DEF a, t, n
<1>. SUFFICES ASSUME NEW i \in 1..(Len(Trail) - 1)
              PROVE  Lag(count, Trail[i].Y) >= Lag(count, Trail[i + 1].Y)
  BY DEF EchoInOrder, Age, Lag
<1>6. CASE got # Nothing /\ i = 1
  <2>1. Trail[i] = got
    BY <1>1, <1>6
  <2>2. CASE n > 0
    <3>1. Trail[i + 1] = queue[1] /\ 1 \in 1..n
      BY <1>1, <1>2, <1>6, <2>2
    <3>. QED
      BY <1>3, <1>6, <2>1, <3>1
  <2>3. CASE n = 0
    <3>1. \/ transit # Nothing /\ Trail[i + 1] = transit
          \/ Trail[i + 1] = panel
      BY <1>1, <1>2, <1>6, <2>3
    <3>. QED
      BY <1>5, <1>6, <2>1, <3>1
  <2>. QED
    BY <1>2, <2>2, <2>3
<1>7. CASE i > a /\ i <= a + n
  <2>. DEFINE k == i - a
  <2>1. k \in 1..n /\ i = a + k
    BY <1>1, <1>2, <1>7
  <2>. HIDE DEF k
  <2>2. Trail[i] = queue[k]
    BY <1>1, <2>1
  <2>3. CASE k < n
    <3>1. k + 1 \in 1..n /\ i + 1 = a + (k + 1) /\ k < k + 1
      BY <1>2, <2>1, <2>3
    <3>2. Trail[i + 1] = queue[k + 1]
      BY <1>1, <3>1
    <3>. QED
      BY <1>3, <2>1, <2>2, <3>1, <3>2
  <2>4. CASE k = n
    <3>1. \/ transit # Nothing /\ Trail[i + 1] = transit
          \/ Trail[i + 1] = panel
      BY <1>1, <1>2, <2>1, <2>4
    <3>. QED
      BY <1>5, <2>1, <2>2, <3>1
  <2>. QED
    BY <1>2, <2>1, <2>3, <2>4
<1>8. CASE i > a + n
  <2>1. transit # Nothing /\ i = a + n + 1 /\ i + 1 = a + n + t + 1
    BY <1>1, <1>2, <1>8
  <2>. QED
    BY <1>1, <1>4, <2>1
<1>9. (got # Nothing /\ i = 1) \/ (i > a /\ i <= a + n) \/ i > a + n
  BY <1>1, <1>2
<1>. QED
  BY <1>6, <1>7, <1>8, <1>9

-------------------------------------------------------------------------------
(***************************************************************************)
(* The echo comes back in order, however many bytes the program counts     *)
(* through, however deep the kernel's queue and whatever the idle rate,    *)
(* if a byte lasts long enough for the pipe and the queue: the driver, its *)
(* bank and the queue never swap two reports, and none stays so long that  *)
(* the byte it carries comes round again.                                  *)
(***************************************************************************)
THEOREM EchoOrderly == Spec => []EchoInOrder
<1>1. Inv /\ EchoInv => EchoInOrder
  BY OrderOfTrail
<1>. QED
  BY <1>1, InvInit, InvStep, EchoInit, EchoStep, PTL DEF Spec

(***************************************************************************)
(* The report the program holds is never more than two bytes behind, for   *)
(* any queue that may be full when the one report of a byte arrives and so *)
(* lose it.                                                                *)
(***************************************************************************)
THEOREM EchoTimely == Spec => []EchoCurrent
<1>1. Inv /\ EchoInv => EchoCurrent
  <2>. SUFFICES ASSUME Inv, EchoInv, got # Nothing PROVE Age(got.Y) <= 2
    BY DEF EchoCurrent
  <2>1. Lag(count, got.Y) \in Nat /\ Lag(count, got.Y) <= 2
    BY EchoTypes DEF EchoInv, GotInv
  <2>. QED
    BY <2>1 DEF Age, Lag
<1>. QED
  BY <1>1, InvInit, InvStep, EchoInit, EchoStep, PTL DEF Spec
===============================================================================
