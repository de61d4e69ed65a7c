------------------------------ MODULE ReportPipe ------------------------------
(***************************************************************************)
(* What the interrupt IN endpoint promises the host about the panel of the *)
(* joystick, without frames, timers, bank flags and program counters.      *)
(* Reports travel one at a time.  A report that has been sampled is kept   *)
(* back only if the driver has told it before, and sent only if it is news *)
(* or the host has asked for repetitions; once sent it arrives, unless the *)
(* endpoint goes down.                                                     *)
(***************************************************************************)
EXTENDS Naturals

CONSTANTS Values, Nothing

VARIABLES
  panel,      \* what the panel shows now
  told,       \* the report the driver remembers
  transit,    \* the report on its way, if any
  sent,       \* whether it has been decided that it goes to the host
  seen,       \* the report the host has taken last
  up,         \* the endpoint works
  rate        \* the host wants repetitions, unless it is zero

vars == <<panel, told, transit, sent, seen, up, rate>>

Init ==
  /\ panel \in Values /\ told \in Values
  /\ transit = Nothing /\ sent = FALSE /\ seen = Nothing
  /\ up = FALSE /\ rate = 0

Change ==
  /\ panel' \in Values
  /\ UNCHANGED <<told, transit, sent, seen, up, rate>>

Sample ==
  /\ transit = Nothing /\ transit' = panel
  /\ UNCHANGED <<panel, told, sent, seen, up, rate>>

KeepBack ==
  /\ transit = told /\ ~sent
  /\ transit' = Nothing
  /\ UNCHANGED <<panel, told, sent, seen, up, rate>>

Send ==
  /\ transit # Nothing /\ ~sent
  /\ transit # told \/ rate # 0
  /\ told' = transit /\ sent' = TRUE
  /\ UNCHANGED <<panel, transit, seen, up, rate>>

Deliver ==
  /\ sent /\ up
  /\ seen' = transit /\ transit' = Nothing /\ sent' = FALSE
  /\ UNCHANGED <<panel, told, up, rate>>

Lose ==
  /\ sent /\ ~up
  /\ transit' = Nothing /\ sent' = FALSE
  /\ UNCHANGED <<panel, told, seen, up, rate>>

\* The host reads the panel another way, and the driver remembers that.
Ask ==
  /\ told' = panel
  /\ UNCHANGED <<panel, transit, sent, seen, up, rate>>

SetRate ==
  /\ rate' \in Nat
  /\ UNCHANGED <<panel, told, transit, sent, seen, up>>

\* The endpoint is disabled, or set up anew.
Restart ==
  /\ seen' = Nothing /\ up' \in BOOLEAN
  /\ \/ transit' = Nothing /\ sent' = FALSE
     \/ UNCHANGED <<transit, sent>>
  /\ UNCHANGED <<panel, told, rate>>

Next == \/ Change \/ Sample \/ KeepBack \/ Send \/ Deliver \/ Lose \/ Ask
        \/ SetRate \/ Restart

Spec == Init /\ [][Next]_vars
==============================================================================
