--------------------------- MODULE ControlTransfer ---------------------------
(***************************************************************************)
(* What a control transfer with a data stage promises the host, without    *)
(* packets, banks and flags: the bytes move in order, never more of them   *)
(* than the shorter of what was asked for and what there is, and the       *)
(* transfer is acknowledged only when all of them have moved.  A transfer  *)
(* may fail at any time, and then counts for nothing.                      *)
(***************************************************************************)
EXTENDS Naturals

CONSTANT Requests   \* records with the fields dir, wLength and size

VARIABLES req, phase, moved

vars == <<req, phase, moved>>

\* The bytes of the data stage: a device that has less than it is asked for
\* sends what it has.
Limit(r) == IF r.dir = "in" /\ r.size < r.wLength THEN r.size ELSE r.wLength

Init == req \in Requests /\ phase = "idle" /\ moved = 0

Begin ==
  /\ phase # "open" /\ phase' = "open"
  /\ req' \in Requests /\ moved' = 0

Move ==
  /\ phase = "open"
  /\ moved' \in moved..Limit(req)
  /\ UNCHANGED <<req, phase>>

Complete ==
  /\ phase = "open" /\ moved = Limit(req)
  /\ phase' = "done"
  /\ UNCHANGED <<req, moved>>

Fail ==
  /\ phase = "open" /\ phase' = "failed"
  /\ moved' = 0
  /\ UNCHANGED req

Next == Begin \/ Move \/ Complete \/ Fail

Spec == Init /\ [][Next]_vars
==============================================================================
