----------------------------- MODULE ReportLayout -----------------------------
(***************************************************************************)
(* The input report as bytes: how CALLBACK_HID_Device_CreateHIDReport lays *)
(* the buttons and the output byte out in USB_JoystickReport_Data_t, and   *)
(* how a host that has read the report descriptor JoystickReport takes     *)
(* them out again.  The host's parser is external; it goes through the     *)
(* items one by one, as the HID specification has it: global items stay in *)
(* force, local items end with the next main item, and fields beyond the   *)
(* last usage share it.                                                    *)
(***************************************************************************)
EXTENDS Integers, Sequences

CONSTANTS
  Pins,    \* the readings of PINB that occur
  Outs     \* the output bytes that occur

ASSUME LayoutAssumption == Pins \subseteq 0..255 /\ Outs \subseteq 0..255

Item(tag, data) == [tag |-> tag, data |-> data]

Buttons == 32
GenericDesktop == 1
ButtonPage == 9
Axis == [X |-> 48, Y |-> 49, Z |-> 50, RX |-> 51, RY |-> 52, RZ |-> 53]

\* JoystickReport.  Physical limits, logical maxima and the kinds of
\* collections have no part in the layout.
Items ==
  << Item("page", GenericDesktop), Item("usage", 4), Item("collection", 1),
       Item("usage", 1),
       Item("collection", 0),
         Item("usage", Axis.X), Item("usage", Axis.Y), Item("usage", Axis.Z),
         Item("usage", Axis.RX), Item("usage", Axis.RY), Item("usage", Axis.RZ),
         Item("logicalMin", -127),
         Item("count", 6), Item("size", 8), Item("input", "data"),
       Item("end", 0),
       Item("page", ButtonPage), Item("usageMin", 1), Item("usageMax", 2),
       Item("logicalMin", 0),
       Item("size", 1), Item("count", Buttons), Item("input", "data"),
       Item("size", 8), Item("count", 24), Item("input", "constant"),
       Item("usage", 1), Item("size", 8), Item("count", 64),
       Item("output", "data"),
     Item("end", 0) >>

VARIABLES
  next,          \* the item the parser looks at
  global,        \* its global items
  usageMin, usages,   \* its local items
  fields,        \* the fields of the input report found so far
  bits,          \* and their bits, padding included
  PINB, saved    \* what the report is made of

parser == <<next, global, usageMin, usages, fields, bits>>
vars == <<parser, PINB, saved>>

Init ==
  /\ next = 1
  /\ global = [page |-> 0, logicalMin |-> 0, size |-> 0, count |-> 0]
  /\ usageMin = 0 /\ usages = <<>>
  /\ fields = <<>> /\ bits = 0
  /\ PINB \in Pins /\ saved = 0

-----------------------------------------------------------------------------
Parsed == next > Len(Items)
At(tags) == ~Parsed /\ Items[next].tag \in tags /\ next' = next + 1
Data == Items[next].data

GlobalItem ==
  /\ At(DOMAIN global)
  /\ global' = [global EXCEPT ![Items[next].tag] = Data]
  /\ UNCHANGED <<usageMin, usages, fields, bits, PINB, saved>>

Usage ==
  /\ At({"usage"})
  /\ usages' = Append(usages, <<global.page, Data>>)
  /\ UNCHANGED <<global, usageMin, fields, bits, PINB, saved>>

UsageMinimum ==
  /\ At({"usageMin"})
  /\ usageMin' = Data
  /\ UNCHANGED <<global, usages, fields, bits, PINB, saved>>

UsageMaximum ==
  /\ At({"usageMax"})
  /\ usages' = usages \o [k \in 1..(Data - usageMin + 1) |->
                            <<global.page, usageMin + k - 1>>]
  /\ UNCHANGED <<global, usageMin, fields, bits, PINB, saved>>

\* The fields one main item declares, from the current bit on.
Declared ==
  [k \in 1..global.count |->
     [usage |-> usages[IF k <= Len(usages) THEN k ELSE Len(usages)],
      bit   |-> bits + (k - 1) * global.size,
      width |-> global.size,
      min   |-> global.logicalMin]]

Input ==
  /\ At({"input"})
  /\ fields' = IF Data = "data" THEN fields \o Declared ELSE fields
  /\ bits' = bits + global.size * global.count
  /\ usageMin' = 0 /\ usages' = <<>>
  /\ UNCHANGED <<global, PINB, saved>>

\* An output report has a layout of its own.
OutputOrCollection ==
  /\ At({"output", "collection", "end"})
  /\ usageMin' = 0 /\ usages' = <<>>
  /\ UNCHANGED <<global, fields, bits, PINB, saved>>

\* Buttons move and output reports come; the next report is made of them.
PressOrRelease == Parsed /\ PINB' \in Pins /\ UNCHANGED <<parser, saved>>

ProcessHIDReport == Parsed /\ saved' \in Outs /\ UNCHANGED <<parser, PINB>>

Next == \/ GlobalItem \/ Usage \/ UsageMinimum \/ UsageMaximum \/ Input
        \/ OutputOrCollection \/ PressOrRelease \/ ProcessHIDReport

Spec == Init /\ [][Next]_vars

-----------------------------------------------------------------------------
(***************************************************************************)
(* The bytes of the report.                                                *)
(***************************************************************************)
Mask == 255

\* Faulty variant: the padding makes up the descriptor's bytes on its own.
PaddingOfDescriptor == 26

\* The last member of USB_JoystickReport_Data_t.
Padding == 22

\* Faulty variant: the button word has its high byte first.
ReportBytesBigEndian ==
  <<Mask, saved, 0, 0, 0, 0>> \o <<0, 0, 0, PINB>> \o [k \in 1..Padding |-> 0]

\* The axes, then the button word, low byte first.
ReportBytes ==
  <<Mask, saved, 0, 0, 0, 0>> \o <<PINB, 0, 0, 0>> \o [k \in 1..Padding |-> 0]

\* Size of the endpoint's bank, and the packet size its descriptor tells.
JOYSTICK_IN_EPSIZE == 32
EndpointSize == 64

\* The host takes bytes that did not come for zero.
ReceivedByte(i) == IF i <= Len(ReportBytes) THEN ReportBytes[i] ELSE 0
Pow2(n) == <<1, 2, 4, 8, 16, 32, 64, 128, 256>>[n + 1]

Signed(n, width) == IF n >= Pow2(width - 1) THEN n - Pow2(width) ELSE n

\* What the host takes out of a field, which lies in one byte; the field is
\* signed if its logical minimum is.
Value(f) ==
  LET raw == (ReceivedByte(f.bit \div 8 + 1) \div Pow2(f.bit % 8)) % Pow2(f.width)
  IN  IF f.min < 0 THEN Signed(raw, f.width) ELSE raw

-----------------------------------------------------------------------------
(***************************************************************************)
(* The host sees the panel: by the descriptor, the report's k-th button is *)
(* pin k - 1 of PINB and the rest are off, the Y axis is the output byte   *)
(* read as a signed number, X is -1 and the other axes are 0.              *)
(***************************************************************************)
HostSeesPanel ==
  Parsed =>
    /\ \E n \in 0..Len(fields) :
         /\ \A k \in DOMAIN fields :
              fields[k].usage[1] = ButtonPage <=> k \in (n + 1)..(n + Buttons)
         /\ \A k \in 1..Buttons :
              Value(fields[n + k]) =
                IF k <= 8 THEN (PINB \div Pow2(k - 1)) % 2 ELSE 0
    /\ \A a \in DOMAIN Axis : \E k \in DOMAIN fields :
         /\ fields[k].usage = <<GenericDesktop, Axis[a]>>
         /\ Value(fields[k]) = CASE a = "X" -> -1
                                 [] a = "Y" -> Signed(saved, 8)
                                 [] OTHER -> 0

(***************************************************************************)
(* The sizes are compatible, although structure, descriptor and endpoint   *)
(* each have their own: the report fits in the bank and in one packet, it  *)
(* is no longer than the descriptor leads the host to expect, and every    *)
(* field the host looks at is among the bytes sent, within one of them.    *)
(***************************************************************************)
ReportFits ==
  Parsed =>
    /\ Len(ReportBytes) <= JOYSTICK_IN_EPSIZE
    /\ JOYSTICK_IN_EPSIZE <= EndpointSize
    /\ 8 * Len(ReportBytes) <= bits
    /\ \A k \in DOMAIN fields :
         /\ fields[k].bit + fields[k].width <= 8 * Len(ReportBytes)
         /\ (fields[k].bit % 8) + fields[k].width <= 8
===============================================================================
