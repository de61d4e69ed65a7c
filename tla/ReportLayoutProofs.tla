-------------------------- MODULE ReportLayoutProofs --------------------------
(***************************************************************************)
(* Proofs about ReportLayout, for every reading of the pins and every      *)
(* output byte.  The parser is followed item by item: LayoutInv says what  *)
(* it knows at each of them, and what it has found at the end is compared  *)
(* with the bytes the firmware lays out.                                   *)
(***************************************************************************)
EXTENDS ReportLayout, SequenceTheorems, TLAPS

\* The descriptor's items by number.
Is(n, tag, data) == Items[n].tag = tag /\ Items[n].data = data

LEMMA ItemTable ==
  /\ Len(Items) = 31
  /\ Is(1, "page", 1) /\ Is(2, "usage", 4)
  /\ Is(3, "collection", 1) /\ Is(4, "usage", 1)
  /\ Is(5, "collection", 0)
  /\ Is(6, "usage", 48) /\ Is(7, "usage", 49)
  /\ Is(8, "usage", 50) /\ Is(9, "usage", 51)
  /\ Is(10, "usage", 52) /\ Is(11, "usage", 53)
  /\ Is(12, "logicalMin", -127)
  /\ Is(13, "count", 6) /\ Is(14, "size", 8)
  /\ Is(15, "input", "data") /\ Is(16, "end", 0)
  /\ Is(17, "page", 9) /\ Is(18, "usageMin", 1)
  /\ Is(19, "usageMax", 2) /\ Is(20, "logicalMin", 0)
  /\ Is(21, "size", 1) /\ Is(22, "count", 32)
  /\ Is(23, "input", "data")
  /\ Is(24, "size", 8) /\ Is(25, "count", 24)
  /\ Is(26, "input", "constant")
  /\ Is(27, "usage", 1) /\ Is(28, "size", 8)
  /\ Is(29, "count", 64) /\ Is(30, "output", "data")
  /\ Is(31, "end", 0)
BY DEF Is, Items, Item, GenericDesktop, ButtonPage, Axis, Buttons

\* What the parser knows before each item: the global items in force ...
GlobalSet == [page : Int, logicalMin : Int, size : Nat, count : Nat]

GlobalInv ==
  /\ global \in GlobalSet
  /\ global.page = IF next < 2 THEN 0 ELSE IF next < 18 THEN 1 ELSE 9
  /\ global.logicalMin = IF next \in 13..20 THEN -127 ELSE 0
  /\ global.size = IF next < 15 THEN 0 ELSE IF next \in 22..24 THEN 1 ELSE 8
  /\ global.count = IF next < 14 THEN 0 ELSE IF next < 23 THEN 6
                    ELSE IF next < 26 THEN 32 ELSE IF next < 30 THEN 24 ELSE 64

\* The k-th axis, and the k-th button but for the number of its usage.
AxisField(k) == [usage |-> <<1, 47 + k>>, bit |-> 8 * (k - 1), width |-> 8, min |-> -127]

Pairs == Int \X Int
FieldSet == [usage : Pairs, bit : Nat, width : Nat, min : Int]

ButtonField(f, k) ==
  f.usage[1] = 9 /\ f.bit = 48 + (k - 1) /\ f.width = 1 /\ f.min = 0

UsageInv ==
  /\ usages \in Seq(Pairs)
  /\ next \in 6..15 =>
       /\ Len(usages) = IF next < 12 THEN next - 6 ELSE 6
       /\ \A k \in 1..Len(usages) : usages[k] = <<1, 47 + k>>
  /\ next \in 16..19 => usages = <<>>
  /\ next = 19 => usageMin = 1
  /\ next \in 20..23 =>
       Len(usages) = 2 /\ \A k \in 1..2 : usages[k] \in Pairs /\ usages[k][1] = 9

FieldInv ==
  /\ fields \in Seq(FieldSet)
  /\ Len(fields) = IF next < 16 THEN 0 ELSE IF next < 24 THEN 6 ELSE 38
  /\ bits = IF next < 16 THEN 0 ELSE IF next < 24 THEN 48
            ELSE IF next < 27 THEN 80 ELSE 272
  /\ next >= 16 => \A k \in 1..6 : fields[k] = AxisField(k)
  /\ next >= 24 => \A k \in 1..32 : ButtonField(fields[6 + k], k)

LayoutInv ==
  /\ next \in 1..32 /\ GlobalInv
  /\ UsageInv /\ FieldInv
  /\ PINB \in 0..255 /\ saved \in 0..255

-------------------------------------------------------------------------------
\* Which items each action of the parser takes.
LEMMA Tags ==
  ASSUME next \in 1..32, global \in GlobalSet
  PROVE  /\ DOMAIN global = {"page", "logicalMin", "size", "count"}
         /\ ~Parsed => next \in 1..31
         /\ GlobalItem => next \in {1, 12, 13, 14, 17, 20, 21, 22, 24, 25, 28, 29}
         /\ Usage => next \in {2, 4, 6, 7, 8, 9, 10, 11, 27}
         /\ UsageMinimum => next = 18
         /\ UsageMaximum => next = 19
         /\ Input => next \in {15, 23, 26}
         /\ OutputOrCollection => next \in {3, 5, 16, 30, 31}
<1>1. DOMAIN global = {"page", "logicalMin", "size", "count"}
  BY DEF GlobalSet
<1>2. ~Parsed => next \in 1..31
  BY ItemTable DEF Parsed
<1>3. \A n \in 1..31 :
        /\ Items[n].tag \in {"page", "logicalMin", "size", "count"} =>
             n \in {1, 12, 13, 14, 17, 20, 21, 22, 24, 25, 28, 29}
        /\ Items[n].tag = "usage" => n \in {2, 4, 6, 7, 8, 9, 10, 11, 27}
        /\ Items[n].tag = "usageMin" => n = 18
        /\ Items[n].tag = "usageMax" => n = 19
        /\ Items[n].tag = "input" => n \in {15, 23, 26}
        /\ Items[n].tag \in {"output", "collection", "end"} =>
             n \in {3, 5, 16, 30, 31}
  BY ItemTable DEF Is
<1>. QED
  BY <1>1, <1>2, <1>3 DEF GlobalItem, Usage, UsageMinimum, UsageMaximum, Input,
                          OutputOrCollection, At

LEMMA LayoutInit == Init => LayoutInv
<1>. SUFFICES ASSUME Init PROVE LayoutInv
  OBVIOUS
<1>1. GlobalInv /\ next = 1
  BY DEF Init, GlobalInv, GlobalSet
<1>2. UsageInv
  BY DEF Init, UsageInv
<1>3. FieldInv
  BY DEF Init, FieldInv
<1>. QED
  BY <1>1, <1>2, <1>3, LayoutAssumption DEF Init, LayoutInv, LayoutAssumption

\* Only Input items declare fields.
LEMMA FieldKept ==
  ASSUME next \in 1..32, FieldInv, next' = next + 1, next \notin {15, 23, 26},
         UNCHANGED <<fields, bits>>
  PROVE  FieldInv'
<1>1. /\ (next' < 16 <=> next < 16) /\ (next' < 24 <=> next < 24)
      /\ (next' >= 16 <=> next >= 16) /\ (next' >= 24 <=> next >= 24)
      /\ (next' < 27 <=> next < 27)
  OBVIOUS
<1>. QED
  BY <1>1 DEF FieldInv

LEMMA LayoutGlobal == LayoutInv /\ GlobalItem => LayoutInv'
<1>. SUFFICES ASSUME LayoutInv, GlobalItem PROVE LayoutInv'
  OBVIOUS
<1>1. /\ next \in {1, 12, 13, 14, 17, 20, 21, 22, 24, 25, 28, 29}
      /\ next' = next + 1
      /\ UNCHANGED <<usageMin, usages, fields, bits, PINB, saved>>
  BY Tags DEF LayoutInv, GlobalInv, GlobalItem, At
<1>2. global' = [global EXCEPT ![Items[next].tag] = Items[next].data]
  BY DEF GlobalItem, Data
<1>3. GlobalInv'
  <2>1. CASE next = 1
    <3>1. Items[1].tag = "page" /\ Items[1].data = 1
      BY ItemTable DEF Is
    <3>2. global' = [global EXCEPT !.page = 1]
      BY <1>2, <2>1, <3>1
    <3>. QED
      BY <1>1, <2>1, <3>2 DEF LayoutInv, GlobalInv, GlobalSet
  <2>2. CASE next = 12
    <3>1. Items[12].tag = "logicalMin" /\ Items[12].data = -127
      BY ItemTable DEF Is
    <3>2. global' = [global EXCEPT !.logicalMin = -127]
      BY <1>2, <2>2, <3>1
    <3>. QED
      BY <1>1, <2>2, <3>2 DEF LayoutInv, GlobalInv, GlobalSet
  <2>3. CASE next = 13
    <3>1. Items[13].tag = "count" /\ Items[13].data = 6
      BY ItemTable DEF Is
    <3>2. global' = [global EXCEPT !.count = 6]
      BY <1>2, <2>3, <3>1
    <3>. QED
      BY <1>1, <2>3, <3>2 DEF LayoutInv, GlobalInv, GlobalSet
  <2>4. CASE next = 14
    <3>1. Items[14].tag = "size" /\ Items[14].data = 8
      BY ItemTable DEF Is
    <3>2. global' = [global EXCEPT !.size = 8]
      BY <1>2, <2>4, <3>1
    <3>. QED
      BY <1>1, <2>4, <3>2 DEF LayoutInv, GlobalInv, GlobalSet
  <2>5. CASE next = 17
    <3>1. Items[17].tag = "page" /\ Items[17].data = 9
      BY ItemTable DEF Is
    <3>2. global' = [global EXCEPT !.page = 9]
      BY <1>2, <2>5, <3>1
    <3>. QED
      BY <1>1, <2>5, <3>2 DEF LayoutInv, GlobalInv, GlobalSet
  <2>6. CASE next = 20
    <3>1. Items[20].tag = "logicalMin" /\ Items[20].data = 0
      BY ItemTable DEF Is
    <3>2. global' = [global EXCEPT !.logicalMin = 0]
      BY <1>2, <2>6, <3>1
    <3>. QED
      BY <1>1, <2>6, <3>2 DEF LayoutInv, GlobalInv, GlobalSet
  <2>7. CASE next = 21
    <3>1. Items[21].tag = "size" /\ Items[21].data = 1
      BY ItemTable DEF Is
    <3>2. global' = [global EXCEPT !.size = 1]
      BY <1>2, <2>7, <3>1
    <3>. QED
      BY <1>1, <2>7, <3>2 DEF LayoutInv, GlobalInv, GlobalSet
  <2>8. CASE next = 22
    <3>1. Items[22].tag = "count" /\ Items[22].data = 32
      BY ItemTable DEF Is
    <3>2. global' = [global EXCEPT !.count = 32]
      BY <1>2, <2>8, <3>1
    <3>. QED
      BY <1>1, <2>8, <3>2 DEF LayoutInv, GlobalInv, GlobalSet
  <2>9. CASE next = 24
    <3>1. Items[24].tag = "size" /\ Items[24].data = 8
      BY ItemTable DEF Is
    <3>2. global' = [global EXCEPT !.size = 8]
      BY <1>2, <2>9, <3>1
    <3>. QED
      BY <1>1, <2>9, <3>2 DEF LayoutInv, GlobalInv, GlobalSet
  <2>10. CASE next = 25
    <3>1. Items[25].tag = "count" /\ Items[25].data = 24
      BY ItemTable DEF Is
    <3>2. global' = [global EXCEPT !.count = 24]
      BY <1>2, <2>10, <3>1
    <3>. QED
      BY <1>1, <2>10, <3>2 DEF LayoutInv, GlobalInv, GlobalSet
  <2>11. CASE next = 28
    <3>1. Items[28].tag = "size" /\ Items[28].data = 8
      BY ItemTable DEF Is
    <3>2. global' = [global EXCEPT !.size = 8]
      BY <1>2, <2>11, <3>1
    <3>. QED
      BY <1>1, <2>11, <3>2 DEF LayoutInv, GlobalInv, GlobalSet
  <2>12. CASE next = 29
    <3>1. Items[29].tag = "count" /\ Items[29].data = 64
      BY ItemTable DEF Is
    <3>2. global' = [global EXCEPT !.count = 64]
      BY <1>2, <2>12, <3>1
    <3>. QED
      BY <1>1, <2>12, <3>2 DEF LayoutInv, GlobalInv, GlobalSet
  <2>. QED
    BY <1>1, <2>1, <2>2, <2>3, <2>4, <2>5, <2>6, <2>7, <2>8, <2>9, <2>10, <2>11,
       <2>12
<1>4. UsageInv'
  BY <1>1 DEF LayoutInv, UsageInv
<1>5. FieldInv'
  BY <1>1, FieldKept DEF LayoutInv
<1>. QED
  BY <1>1, <1>3, <1>4, <1>5 DEF LayoutInv

LEMMA LayoutUsage == LayoutInv /\ Usage => LayoutInv'
<1>. SUFFICES ASSUME LayoutInv, Usage PROVE LayoutInv'
  OBVIOUS
<1>1. /\ next \in {2, 4, 6, 7, 8, 9, 10, 11, 27} /\ next' = next + 1
      /\ usages' = Append(usages, <<global.page, Items[next].data>>)
      /\ UNCHANGED <<global, usageMin, fields, bits, PINB, saved>>
  BY Tags DEF LayoutInv, GlobalInv, Usage, At, Data
<1>2. GlobalInv' /\ global.page = (IF next < 18 THEN 1 ELSE 9)
  BY <1>1 DEF LayoutInv, GlobalInv
<1>3. /\ Items[next].data \in Int
      /\ next \in 6..11 => Items[next].data = 42 + next
  <2>1. CASE next \in {2, 4, 27}
    BY <2>1, ItemTable DEF Is
  <2>2. CASE next \in {6, 7, 8}
    <3>1. Items[6].data = 48 /\ Items[7].data = 49 /\ Items[8].data = 50
      BY ItemTable DEF Is
    <3>. QED
      BY <2>2, <3>1
  <2>3. CASE next \in {9, 10, 11}
    <3>1. Items[9].data = 51 /\ Items[10].data = 52 /\ Items[11].data = 53
      BY ItemTable DEF Is
    <3>. QED
      BY <2>3, <3>1
  <2>. QED
    BY <1>1, <2>1, <2>2, <2>3
<1>4. UsageInv'
  <2>. DEFINE u == <<global.page, Items[next].data>>
  <2>1. u \in Pairs /\ usages \in Seq(Pairs)
    BY <1>2, <1>3 DEF Pairs, LayoutInv, UsageInv
  <2>2. /\ usages' \in Seq(Pairs) /\ Len(usages') = Len(usages) + 1
        /\ Len(usages) \in Nat
        /\ \A k \in 1..Len(usages) : usages'[k] = usages[k]
        /\ usages'[Len(usages) + 1] = u
    BY <1>1, <2>1, AppendProperties, LenProperties
  <2>3. CASE next \in 6..11
    <3>1. Len(usages) = next - 6 /\ u = <<1, 47 + (Len(usages) + 1)>>
          /\ \A k \in 1..Len(usages) : usages[k] = <<1, 47 + k>>
      BY <1>2, <1>3, <2>3 DEF LayoutInv, UsageInv
    <3>2. Len(usages') = next' - 6 /\ next' \in 7..12
      BY <1>1, <2>2, <2>3, <3>1
    <3>3. \A k \in 1..Len(usages') : usages'[k] = <<1, 47 + k>>
      <4>. SUFFICES ASSUME NEW k \in 1..Len(usages') PROVE usages'[k] = <<1, 47 + k>>
        OBVIOUS
      <4>1. k \in 1..Len(usages) \/ k = Len(usages) + 1
        BY <2>2
      <4>. QED
        BY <2>2, <3>1, <4>1, Zenon
    <3>. QED
      BY <2>2, <3>2, <3>3 DEF UsageInv
  <2>4. CASE next \in {2, 4, 27}
    BY <1>1, <2>2, <2>4 DEF UsageInv
  <2>. QED
    BY <1>1, <2>3, <2>4
<1>5. FieldInv'
  BY <1>1, FieldKept DEF LayoutInv
<1>. QED
  BY <1>1, <1>2, <1>4, <1>5 DEF LayoutInv

LEMMA LayoutUsageMinimum == LayoutInv /\ UsageMinimum => LayoutInv'
<1>. SUFFICES ASSUME LayoutInv, UsageMinimum PROVE LayoutInv'
  OBVIOUS
<1>1. /\ next = 18 /\ next' = 19 /\ usageMin' = Items[next].data
      /\ UNCHANGED <<global, usages, fields, bits, PINB, saved>>
  BY Tags DEF LayoutInv, GlobalInv, UsageMinimum, At, Data
<1>2. usageMin' = 1
  BY <1>1, ItemTable DEF Is
<1>3. GlobalInv'
  BY <1>1 DEF LayoutInv, GlobalInv
<1>4. UsageInv'
  BY <1>1, <1>2 DEF LayoutInv, UsageInv
<1>5. FieldInv'
  BY <1>1, FieldKept DEF LayoutInv
<1>. QED
  BY <1>1, <1>3, <1>4, <1>5 DEF LayoutInv

LEMMA LayoutUsageMaximum == LayoutInv /\ UsageMaximum => LayoutInv'
<1>. SUFFICES ASSUME LayoutInv, UsageMaximum PROVE LayoutInv'
  OBVIOUS
<1>1. /\ next = 19 /\ next' = 20
      /\ usages' = usages \o [k \in 1..(Items[next].data - usageMin + 1) |->
                                <<global.page, usageMin + k - 1>>]
      /\ UNCHANGED <<global, usageMin, fields, bits, PINB, saved>>
  BY Tags DEF LayoutInv, GlobalInv, UsageMaximum, At, Data
<1>2. Items[next].data = 2 /\ usageMin = 1 /\ global.page = 9 /\ usages = <<>>
  <2>1. Items[19].data = 2
    BY ItemTable DEF Is
  <2>2. global.page = 9
    BY <1>1 DEF LayoutInv, GlobalInv
  <2>3. usageMin = 1 /\ usages = <<>>
    BY <1>1 DEF LayoutInv, UsageInv
  <2>. QED
    BY <1>1, <2>1, <2>2, <2>3
<1>3. usages' = << >> \o [k \in 1..2 |-> <<9, k>>]
  BY <1>1, <1>2
<1>4. [k \in 1..2 |-> <<9, k>>] \in Seq(Pairs) /\ Len([k \in 1..2 |-> <<9, k>>]) = 2
  BY DEF Pairs
<1>5. usages' = [k \in 1..2 |-> <<9, k>>]
  BY <1>3, <1>4, ConcatEmptySeq
<1>6. GlobalInv'
  BY <1>1 DEF LayoutInv, GlobalInv
<1>7. UsageInv'
  <2>1. \A k \in 1..2 : usages'[k] = <<9, k>> /\ <<9, k>> \in Pairs /\ <<9, k>>[1] = 9
    BY <1>5 DEF Pairs
  <2>2. usages' \in Seq(Pairs) /\ Len(usages') = 2
    BY <1>4, <1>5
  <2>3. \A k \in 1..2 : usages'[k] \in Pairs /\ usages'[k][1] = 9
    BY <2>1
  <2>4. next' = 20
    BY <1>1
  <2>. QED
    BY <2>2, <2>3, <2>4 DEF UsageInv
<1>8. FieldInv'
  BY <1>1, FieldKept DEF LayoutInv
<1>. QED
  BY <1>1, <1>6, <1>7, <1>8 DEF LayoutInv

LEMMA LayoutOther == LayoutInv /\ OutputOrCollection => LayoutInv'
<1>. SUFFICES ASSUME LayoutInv, OutputOrCollection PROVE LayoutInv'
  OBVIOUS
<1>1. /\ next \in {3, 5, 16, 30, 31} /\ next' = next + 1
      /\ usageMin' = 0 /\ usages' = <<>>
      /\ UNCHANGED <<global, fields, bits, PINB, saved>>
  BY Tags DEF LayoutInv, GlobalInv, OutputOrCollection, At
<1>2. GlobalInv'
  BY <1>1 DEF LayoutInv, GlobalInv
<1>3. UsageInv'
  BY <1>1 DEF UsageInv
<1>4. FieldInv'
  BY <1>1, FieldKept DEF LayoutInv
<1>. QED
  BY <1>1, <1>2, <1>3, <1>4 DEF LayoutInv

\* What the two Input items with data declare.
LEMMA DeclaredAxes ==
  ASSUME LayoutInv, next = 15
  PROVE  /\ Declared \in Seq(FieldSet) /\ Len(Declared) = 6
         /\ \A k \in 1..6 : Declared[k] = AxisField(k)
<1>1. /\ global.count = 6 /\ global.size = 8 /\ global.logicalMin = -127
      /\ bits = 0 /\ Len(usages) = 6
      /\ \A k \in 1..6 : usages[k] = <<1, 47 + k>>
  <2>1. global.count = 6 /\ global.size = 8 /\ global.logicalMin = -127
    BY DEF LayoutInv, GlobalInv
  <2>2. Len(usages) = 6 /\ \A k \in 1..6 : usages[k] = <<1, 47 + k>>
    <3>1. UsageInv /\ next \in 6..15
      BY DEF LayoutInv
    <3>2. Len(usages) = 6
      BY <3>1 DEF UsageInv
    <3>. QED
      BY <3>1, <3>2 DEF UsageInv
  <2>3. bits = 0
    BY DEF LayoutInv, FieldInv
  <2>. QED
    BY <2>1, <2>2, <2>3
<1>2. Declared = [k \in 1..6 |-> AxisField(k)]
  BY <1>1 DEF Declared, AxisField
<1>3. \A k \in 1..6 : AxisField(k) \in FieldSet
  BY DEF AxisField, FieldSet, Pairs
<1>. QED
  BY <1>2, <1>3

LEMMA DeclaredButtons ==
  ASSUME LayoutInv, next = 23
  PROVE  /\ Declared \in Seq(FieldSet) /\ Len(Declared) = 32
         /\ \A k \in 1..32 : ButtonField(Declared[k], k)
<1>1. /\ global.count = 32 /\ global.size = 1 /\ global.logicalMin = 0
      /\ bits = 48 /\ Len(usages) = 2
      /\ \A k \in 1..2 : usages[k] \in Pairs /\ usages[k][1] = 9
  BY DEF LayoutInv, GlobalInv, UsageInv, FieldInv
<1>. DEFINE U(k) == usages[IF k <= 2 THEN k ELSE 2]
            F(k) == [usage |-> U(k), bit |-> 48 + (k - 1), width |-> 1, min |-> 0]
<1>2. \A k \in 1..32 : U(k) \in Pairs /\ U(k)[1] = 9
  BY <1>1
<1>3. Declared = [k \in 1..32 |-> F(k)]
  BY <1>1 DEF Declared
<1>. HIDE DEF U
<1>4. \A k \in 1..32 : F(k) \in FieldSet /\ ButtonField(F(k), k)
  BY <1>2 DEF FieldSet, ButtonField
<1>. QED
  BY <1>3, <1>4

\* The places of a concatenation, from either side.
LEMMA Join ==
  ASSUME NEW S, NEW s \in Seq(S), NEW t \in Seq(S)
  PROVE  /\ s \o t \in Seq(S) /\ Len(s \o t) = Len(s) + Len(t)
         /\ \A k \in 1..Len(s) : (s \o t)[k] = s[k]
         /\ \A k \in 1..Len(t) : (s \o t)[Len(s) + k] = t[k]
<1>. DEFINE u == s \o t
            m == Len(s)
            n == Len(t)
<1>1. /\ u \in Seq(S) /\ Len(u) = m + n
      /\ \A i \in 1..(m + n) : u[i] = IF i <= m THEN s[i] ELSE t[i - m]
  BY ConcatProperties
<1>2. m \in Nat /\ n \in Nat
  BY LenProperties
<1>. HIDE DEF u, m, n
<1>3. \A k \in 1..m : k \in 1..(m + n) /\ k <= m
  BY <1>2
<1>4. \A k \in 1..n : m + k \in 1..(m + n) /\ ~(m + k <= m) /\ (m + k) - m = k
  BY <1>2
<1>5. \A k \in 1..m : u[k] = s[k]
  BY <1>1, <1>3
<1>6. \A k \in 1..n : u[m + k] = t[k]
  BY <1>1, <1>4
<1>. QED
  BY <1>1, <1>5, <1>6 DEF u, m, n

LEMMA LayoutInput == LayoutInv /\ Input => LayoutInv'
<1>. SUFFICES ASSUME LayoutInv, Input PROVE LayoutInv'
  OBVIOUS
<1>1. /\ next \in {15, 23, 26} /\ next' = next + 1
      /\ fields' = IF Items[next].data = "data" THEN fields \o Declared ELSE fields
      /\ bits' = bits + global.size * global.count
      /\ usages' = <<>>
      /\ UNCHANGED <<global, PINB, saved>>
  BY Tags DEF LayoutInv, GlobalInv, Input, At, Data
<1>2. GlobalInv'
  BY <1>1 DEF LayoutInv, GlobalInv
<1>3. UsageInv'
  BY <1>1 DEF UsageInv
<1>4. fields \in Seq(FieldSet)
  BY DEF LayoutInv, FieldInv
<1>5. FieldInv'
  <2>1. CASE next = 15
    <3>1. Items[15].data = "data"
      BY ItemTable DEF Is
    <3>2. fields = <<>> /\ bits = 0 /\ global.size = 8 /\ global.count = 6
      BY <2>1, <1>4, EmptySeq DEF LayoutInv, FieldInv, GlobalInv
    <3>3. fields' = Declared /\ bits' = 48
      BY <1>1, <2>1, <3>1, <3>2, DeclaredAxes, ConcatEmptySeq
    <3>4. /\ fields' \in Seq(FieldSet) /\ Len(fields') = 6
          /\ \A k \in 1..6 : fields'[k] = AxisField(k)
      BY <2>1, <3>3, DeclaredAxes
    <3>. QED
      BY <1>1, <2>1, <3>3, <3>4 DEF FieldInv
  <2>2. CASE next = 23
    <3>1. Items[23].data = "data"
      BY ItemTable DEF Is
    <3>2. bits = 48 /\ global.size = 1 /\ global.count = 32
      BY <2>2 DEF LayoutInv, FieldInv, GlobalInv
    <3>3. Len(fields) = 6 /\ \A k \in 1..6 : fields[k] = AxisField(k)
      BY <2>2 DEF LayoutInv, FieldInv
    <3>4. fields' = fields \o Declared /\ bits' = 80
      BY <1>1, <2>2, <3>1, <3>2
    <3>5. /\ Declared \in Seq(FieldSet) /\ Len(Declared) = 32
          /\ \A k \in 1..32 : ButtonField(Declared[k], k)
      BY <2>2, DeclaredButtons
    <3>6. /\ fields' \in Seq(FieldSet) /\ Len(fields') = 38
          /\ \A k \in 1..6 : fields'[k] = fields[k]
          /\ \A k \in 1..32 : fields'[6 + k] = Declared[k]
      <4>. DEFINE D == Declared
      <4>1. fields \in Seq(FieldSet) /\ D \in Seq(FieldSet)
        BY <1>4, <3>5
      <4>2. Len(fields) = 6 /\ Len(D) = 32 /\ fields' = fields \o D
        BY <3>3, <3>4, <3>5
      <4>. HIDE DEF D
      <4>3. /\ fields \o D \in Seq(FieldSet) /\ Len(fields \o D) = 6 + 32
            /\ \A k \in 1..6 : (fields \o D)[k] = fields[k]
            /\ \A k \in 1..32 : (fields \o D)[6 + k] = D[k]
        <5>1. /\ fields \o D \in Seq(FieldSet)
              /\ Len(fields \o D) = Len(fields) + Len(D)
              /\ \A k \in 1..Len(fields) : (fields \o D)[k] = fields[k]
              /\ \A k \in 1..Len(D) : (fields \o D)[Len(fields) + k] = D[k]
          BY <4>1, Join
        <5>. QED
          BY <4>2, <5>1, Zenon
      <4>4. fields' \in Seq(FieldSet) /\ Len(fields') = 6 + 32
        BY <4>2, <4>3
      <4>5. /\ \A k \in 1..6 : fields'[k] = fields[k]
            /\ \A k \in 1..32 : fields'[6 + k] = D[k]
        BY <4>2, <4>3, Zenon
      <4>. QED
        BY <4>4, <4>5 DEF D
    <3>7. /\ \A k \in 1..6 : fields'[k] = AxisField(k)
          /\ \A k \in 1..32 : ButtonField(fields'[6 + k], k)
      BY <3>3, <3>5, <3>6
    <3>8. next' = 24
      BY <1>1, <2>2
    <3>9. bits' = 80
      BY <3>4
    <3>. QED
      BY <3>6, <3>7, <3>8, <3>9, SMTT(30) DEF FieldInv
  <2>3. CASE next = 26
    <3>1. Items[26].data = "constant"
      BY ItemTable DEF Is
    <3>2. bits = 80 /\ global.size = 8 /\ global.count = 24
      BY <2>3 DEF LayoutInv, FieldInv, GlobalInv
    <3>3. fields' = fields /\ bits' = 272
      BY <1>1, <2>3, <3>1, <3>2
    <3>4. FieldInv /\ next' = 27
      BY <1>1, <2>3 DEF LayoutInv
    <3>. QED
      BY <2>3, <3>3, <3>4, SMTT(30) DEF FieldInv
  <2>. QED
    BY <1>1, <2>1, <2>2, <2>3
<1>. QED
  BY <1>1, <1>2, <1>3, <1>5 DEF LayoutInv

LEMMA LayoutStep == LayoutInv /\ [Next]_vars => LayoutInv'
<1>1. LayoutInv /\ (PressOrRelease \/ ProcessHIDReport \/ UNCHANGED vars) => LayoutInv'
  <2>. SUFFICES ASSUME LayoutInv, PressOrRelease \/ ProcessHIDReport \/ UNCHANGED vars
                PROVE  LayoutInv'
    OBVIOUS
  <2>1. UNCHANGED parser
    BY DEF PressOrRelease, ProcessHIDReport, vars
  <2>2. PINB' \in 0..255 /\ saved' \in 0..255
    <3>1. PINB' \in Pins \union {PINB} /\ saved' \in Outs \union {saved}
      BY DEF PressOrRelease, ProcessHIDReport, vars
    <3>. QED
      BY <3>1, LayoutAssumption DEF LayoutAssumption, LayoutInv
  <2>3. GlobalInv'
    BY <2>1 DEF LayoutInv, parser, GlobalInv
  <2>4. UsageInv'
    BY <2>1 DEF LayoutInv, parser, UsageInv
  <2>5. FieldInv'
    BY <2>1 DEF LayoutInv, parser, FieldInv
  <2>. QED
    BY <2>1, <2>2, <2>3, <2>4, <2>5 DEF LayoutInv, parser
<1>. QED
  BY <1>1, LayoutGlobal, LayoutUsage, LayoutUsageMinimum, LayoutUsageMaximum,
     LayoutInput, LayoutOther DEF Next

-------------------------------------------------------------------------------
(***************************************************************************)
(* The bytes the firmware sends, and what the host takes out of them.      *)
(***************************************************************************)
LEMMA Bytes ==
  ASSUME PINB \in 0..255, saved \in 0..255
  PROVE  /\ Len(ReportBytes) = 32
         /\ ReportBytes[1] = 255 /\ ReportBytes[2] = saved
         /\ \A k \in 3..6 : ReportBytes[k] = 0
         /\ ReportBytes[7] = PINB
         /\ \A k \in 8..10 : ReportBytes[k] = 0
<1>. DEFINE A == <<255, saved, 0, 0, 0, 0>>
            B == <<PINB, 0, 0, 0>>
            Z == [k \in 1..22 |-> 0]
            C == A \o B
<1>1. A \in Seq(Int) /\ B \in Seq(Int) /\ Z \in Seq(Int)
  OBVIOUS
<1>2. Len(A) = 6 /\ Len(B) = 4 /\ Len(Z) = 22
  OBVIOUS
<1>3. /\ A[1] = 255 /\ A[2] = saved /\ A[3] = 0 /\ A[4] = 0 /\ A[5] = 0 /\ A[6] = 0
      /\ B[1] = PINB /\ B[2] = 0 /\ B[3] = 0 /\ B[4] = 0
  OBVIOUS
<1>4. ReportBytes = C \o Z
  BY DEF ReportBytes, Mask, Padding
<1>. HIDE DEF A, B, Z
<1>5. /\ C \in Seq(Int) /\ Len(C) = Len(A) + Len(B)
      /\ \A k \in 1..Len(A) : C[k] = A[k]
      /\ \A k \in 1..Len(B) : C[Len(A) + k] = B[k]
  BY <1>1, Join
<1>. HIDE DEF C
<1>6. /\ Len(ReportBytes) = Len(C) + Len(Z)
      /\ \A k \in 1..Len(C) : ReportBytes[k] = C[k]
  <2>1. C \in Seq(Int) /\ Z \in Seq(Int)
    BY <1>1, <1>5
  <2>2. /\ Len(C \o Z) = Len(C) + Len(Z)
        /\ \A k \in 1..Len(C) : (C \o Z)[k] = C[k]
    BY <2>1, Join
  <2>. QED
    BY <1>4, <2>2, Zenon
<1>7. /\ Len(C) = 10 /\ Len(ReportBytes) = 32
      /\ \A k \in 1..10 : ReportBytes[k] = C[k]
      /\ \A k \in 1..6 : C[k] = A[k]
      /\ \A k \in 1..4 : C[6 + k] = B[k]
  BY <1>2, <1>5, <1>6
<1>8. C[6 + 1] = PINB /\ C[6 + 2] = 0 /\ C[6 + 3] = 0 /\ C[6 + 4] = 0
  BY <1>3, <1>7
<1>9. C[7] = PINB /\ C[8] = 0 /\ C[9] = 0 /\ C[10] = 0
  BY <1>8
<1>10. C[1] = 255 /\ C[2] = saved /\ C[3] = 0 /\ C[4] = 0 /\ C[5] = 0 /\ C[6] = 0
  BY <1>3, <1>7
<1>. QED
  BY <1>7, <1>9, <1>10

LEMMA Powers ==
  /\ Pow2(0) = 1 /\ Pow2(1) = 2 /\ Pow2(2) = 4 /\ Pow2(3) = 8 /\ Pow2(4) = 16
  /\ Pow2(5) = 32 /\ Pow2(6) = 64 /\ Pow2(7) = 128 /\ Pow2(8) = 256
BY DEF Pow2

LEMMA AxisValue ==
  ASSUME NEW k \in 1..6, ReceivedByte(k) \in 0..255
  PROVE  Value(AxisField(k)) = Signed(ReceivedByte(k), 8)
<1>1. /\ AxisField(k).bit = 8 * (k - 1) /\ AxisField(k).width = 8
      /\ AxisField(k).min = -127
  BY DEF AxisField
<1>2. (8 * (k - 1)) \div 8 + 1 = k /\ (8 * (k - 1)) % 8 = 0
  OBVIOUS
<1>3. (ReceivedByte(k) \div Pow2(0)) % Pow2(8) = ReceivedByte(k)
  BY Powers
<1>. QED
  BY <1>1, <1>2, <1>3 DEF Value

LEMMA ButtonValue ==
  ASSUME PINB \in 0..255, saved \in 0..255,
         NEW k \in 1..32, NEW f, ButtonField(f, k)
  PROVE  Value(f) = IF k <= 8 THEN (PINB \div Pow2(k - 1)) % 2 ELSE 0
<1>1. f.bit = 48 + (k - 1) /\ f.width = 1 /\ ~(f.min < 0)
  <2>1. f.bit = 48 + (k - 1) /\ f.width = 1 /\ f.min = 0
    BY Zenon DEF ButtonField
  <2>. QED
    BY <2>1
<1>. DEFINE n == (48 + (k - 1)) \div 8 + 1
            j == (48 + (k - 1)) % 8
<1>2. Value(f) = (ReceivedByte(n) \div Pow2(j)) % 2
  BY <1>1, Powers DEF Value
<1>3. CASE k <= 8
  <2>1. n = 7 /\ j = k - 1
    BY <1>3
  <2>2. ReceivedByte(7) = PINB
    BY Bytes DEF ReceivedByte
  <2>. QED
    BY <1>2, <1>3, <2>1, <2>2
<1>4. CASE k > 8
  <2>1. n \in 8..10 /\ j \in 0..7
    BY <1>4
  <2>. HIDE DEF n, j
  <2>2. ReceivedByte(n) = 0
    BY <2>1, Bytes DEF ReceivedByte
  <2>3. Pow2(j) \in Nat /\ Pow2(j) > 0
    BY <2>1, Powers
  <2>4. 0 \div Pow2(j) = 0
    BY <2>3
  <2>. QED
    BY <1>2, <1>4, <2>2, <2>4
<1>. QED
  BY <1>3, <1>4

-------------------------------------------------------------------------------
\* What the parser has found when it is through.
LEMMA ParsedFields ==
  ASSUME LayoutInv, Parsed
  PROVE  /\ bits = 272 /\ Len(fields) = 38 /\ DOMAIN fields = 1..38
         /\ \A k \in 1..6 : fields[k] = AxisField(k)
         /\ \A k \in 1..32 : ButtonField(fields[6 + k], k)
<1>1. next = 32
  BY ItemTable DEF LayoutInv, Parsed
<1>2. FieldInv
  BY DEF LayoutInv
<1>3. bits = 272 /\ Len(fields) = 38 /\ fields \in Seq(FieldSet)
  BY <1>1, <1>2 DEF FieldInv
<1>4. DOMAIN fields = 1..38
  BY <1>3
<1>5. next >= 16 /\ next >= 24
  BY <1>1
<1>6. /\ \A k \in 1..6 : fields[k] = AxisField(k)
      /\ \A k \in 1..32 : ButtonField(fields[6 + k], k)
  BY <1>2, <1>5, Zenon DEF FieldInv
<1>. QED
  BY <1>3, <1>4, <1>6, Zenon

(***************************************************************************)
(* The 32 bytes of the report structure, the 34 of the descriptor and the  *)
(* endpoint's sizes agree on every field, for all pins and output bytes.   *)
(***************************************************************************)
THEOREM FitsCorrect == Spec => []ReportFits
<1>1. LayoutInv => ReportFits
  <2>. SUFFICES ASSUME LayoutInv, Parsed
                PROVE  /\ Len(ReportBytes) <= JOYSTICK_IN_EPSIZE
                       /\ JOYSTICK_IN_EPSIZE <= EndpointSize
                       /\ 8 * Len(ReportBytes) <= bits
                       /\ \A k \in DOMAIN fields :
                            /\ fields[k].bit + fields[k].width <= 8 * Len(ReportBytes)
                            /\ (fields[k].bit % 8) + fields[k].width <= 8
    BY DEF ReportFits
  <2>1. Len(ReportBytes) = 32 /\ bits = 272 /\ DOMAIN fields = 1..38
    BY Bytes, ParsedFields DEF LayoutInv
  <2>2. \A k \in 1..6 : /\ fields[k].bit + fields[k].width <= 256
                        /\ (fields[k].bit % 8) + fields[k].width <= 8
    <3>1. \A k \in 1..6 : fields[k].bit = 8 * (k - 1) /\ fields[k].width = 8
      BY ParsedFields DEF AxisField
    <3>. QED
      BY <3>1
  <2>3. \A k \in 1..32 : /\ fields[6 + k].bit + fields[6 + k].width <= 256
                         /\ (fields[6 + k].bit % 8) + fields[6 + k].width <= 8
    <3>1. \A k \in 1..32 : fields[6 + k].bit = 48 + (k - 1) /\ fields[6 + k].width = 1
      BY ParsedFields DEF ButtonField
    <3>. QED
      BY <3>1
  <2>4. \A k \in 1..38 : k \in 1..6 \/ \E j \in 1..32 : k = 6 + j
    <3>. SUFFICES ASSUME NEW k \in 1..38, k \notin 1..6
                  PROVE  \E j \in 1..32 : k = 6 + j
      OBVIOUS
    <3>. WITNESS k - 6 \in 1..32
    <3>. QED
      OBVIOUS
  <2>5. \A k \in 1..38 : /\ fields[k].bit + fields[k].width <= 256
                         /\ (fields[k].bit % 8) + fields[k].width <= 8
    <3>. SUFFICES ASSUME NEW k \in 1..38
                  PROVE  /\ fields[k].bit + fields[k].width <= 256
                         /\ (fields[k].bit % 8) + fields[k].width <= 8
      OBVIOUS
    <3>1. CASE k \in 1..6
      BY <2>2, <3>1, Zenon
    <3>2. CASE k \notin 1..6
      <4>1. PICK j \in 1..32 : k = 6 + j
        BY <2>4, <3>2
      <4>. QED
        BY <2>3, <4>1, Zenon
    <3>. QED
      BY <3>1, <3>2
  <2>6. 8 * Len(ReportBytes) = 256
    BY <2>1
  <2>7. \A k \in DOMAIN fields :
          /\ fields[k].bit + fields[k].width <= 8 * Len(ReportBytes)
          /\ (fields[k].bit % 8) + fields[k].width <= 8
    <3>. SUFFICES ASSUME NEW k \in DOMAIN fields
                  PROVE  /\ fields[k].bit + fields[k].width <= 8 * Len(ReportBytes)
                         /\ (fields[k].bit % 8) + fields[k].width <= 8
      OBVIOUS
    <3>1. k \in 1..38
      BY <2>1
    <3>2. /\ fields[k].bit + fields[k].width <= 256
          /\ (fields[k].bit % 8) + fields[k].width <= 8
      BY <2>5, <3>1, Zenon
    <3>. QED
      BY <2>6, <3>2
  <2>8. /\ Len(ReportBytes) <= JOYSTICK_IN_EPSIZE
        /\ JOYSTICK_IN_EPSIZE <= EndpointSize
        /\ 8 * Len(ReportBytes) <= bits
    BY <2>1 DEF JOYSTICK_IN_EPSIZE, EndpointSize
  <2>. QED
    BY <2>7, <2>8, Zenon
<1>. QED
  BY <1>1, LayoutInit, LayoutStep, PTL DEF Spec

(***************************************************************************)
(* A host that follows the descriptor sees the buttons, the output byte as *)
(* the Y axis and the constant axes, as they are laid out by               *)
(* CALLBACK_HID_Device_CreateHIDReport, for all pins and output bytes.     *)
(***************************************************************************)
THEOREM PanelCorrect == Spec => []HostSeesPanel
<1>1. LayoutInv => HostSeesPanel
  <2>. SUFFICES ASSUME LayoutInv, Parsed
                PROVE  /\ \E n \in 0..Len(fields) :
                            /\ \A k \in DOMAIN fields :
                                 fields[k].usage[1] = ButtonPage
                                   <=> k \in (n + 1)..(n + Buttons)
                            /\ \A k \in 1..Buttons :
                                 Value(fields[n + k]) =
                                   IF k <= 8 THEN (PINB \div Pow2(k - 1)) % 2 ELSE 0
                       /\ \A a \in DOMAIN Axis : \E k \in DOMAIN fields :
                            /\ fields[k].usage = <<GenericDesktop, Axis[a]>>
                            /\ Value(fields[k]) = CASE a = "X" -> -1
                                                    [] a = "Y" -> Signed(saved, 8)
                                                    [] OTHER -> 0
    BY DEF HostSeesPanel
  <2>0. PINB \in 0..255 /\ saved \in 0..255
    BY DEF LayoutInv
  <2>1. Len(fields) = 38 /\ DOMAIN fields = 1..38
    BY ParsedFields
  <2>2. \A k \in 1..6 : fields[k] = AxisField(k)
    BY ParsedFields
  <2>3. \A k \in 1..32 : ButtonField(fields[6 + k], k)
    BY ParsedFields
  <2>4. \A k \in 1..38 : fields[k].usage[1] = 9 <=> k \in 7..38
    <3>. SUFFICES ASSUME NEW k \in 1..38
                  PROVE  fields[k].usage[1] = 9 <=> k \in 7..38
      OBVIOUS
    <3>1. CASE k \in 1..6
      <4>1. fields[k].usage[1] = 1
        BY <2>2, <3>1 DEF AxisField
      <4>. QED
        BY <3>1, <4>1
    <3>2. CASE k \in 7..38
      <4>1. k - 6 \in 1..32 /\ 6 + (k - 6) = k
        BY <3>2
      <4>2. ButtonField(fields[k], k - 6)
        BY <2>3, <4>1
      <4>. QED
        BY <3>2, <4>2 DEF ButtonField
    <3>. QED
      BY <3>1, <3>2
  <2>5. \A k \in 1..32 : Value(fields[6 + k]) =
          IF k <= 8 THEN (PINB \div Pow2(k - 1)) % 2 ELSE 0
    BY <2>0, <2>3, ButtonValue
  <2>6. \E n \in 0..Len(fields) :
          /\ \A k \in DOMAIN fields :
               fields[k].usage[1] = ButtonPage <=> k \in (n + 1)..(n + Buttons)
          /\ \A k \in 1..Buttons :
               Value(fields[n + k]) =
                 IF k <= 8 THEN (PINB \div Pow2(k - 1)) % 2 ELSE 0
    <3>1. 6 \in 0..Len(fields) /\ 6 + 1 = 7 /\ 6 + 32 = 38
      BY <2>1
    <3>2. /\ \A k \in DOMAIN fields :
               fields[k].usage[1] = ButtonPage <=> k \in (6 + 1)..(6 + Buttons)
          /\ \A k \in 1..Buttons :
               Value(fields[6 + k]) =
                 IF k <= 8 THEN (PINB \div Pow2(k - 1)) % 2 ELSE 0
      BY <2>1, <2>4, <2>5, <3>1 DEF ButtonPage, Buttons
    <3>. QED
      BY <3>1, <3>2, Zenon
  <2>7. /\ ReceivedByte(1) = 255 /\ ReceivedByte(2) = saved
        /\ ReceivedByte(3) = 0 /\ ReceivedByte(4) = 0
        /\ ReceivedByte(5) = 0 /\ ReceivedByte(6) = 0
    BY <2>0, Bytes DEF ReceivedByte
  <2>8. \A k \in 1..6 : /\ fields[k].usage = <<1, 47 + k>>
                        /\ Value(fields[k]) = Signed(ReceivedByte(k), 8)
    <3>1. \A k \in 1..6 : ReceivedByte(k) \in 0..255
      BY <2>0, <2>7
    <3>2. \A k \in 1..6 : AxisField(k).usage = <<1, 47 + k>>
      BY DEF AxisField
    <3>3. \A k \in 1..6 : Value(AxisField(k)) = Signed(ReceivedByte(k), 8)
      BY <3>1, AxisValue
    <3>. QED
      BY <2>2, <3>2, <3>3, Zenon
  <2>9. Signed(255, 8) = -1 /\ Signed(0, 8) = 0
    BY Powers DEF Signed
  <2>10. \A a \in DOMAIN Axis : \E k \in DOMAIN fields :
           /\ fields[k].usage = <<GenericDesktop, Axis[a]>>
           /\ Value(fields[k]) = CASE a = "X" -> -1
                                   [] a = "Y" -> Signed(saved, 8)
                                   [] OTHER -> 0
    <3>. SUFFICES ASSUME NEW a \in DOMAIN Axis
                  PROVE  \E k \in 1..6 :
                           /\ fields[k].usage = <<GenericDesktop, Axis[a]>>
                           /\ Value(fields[k]) = CASE a = "X" -> -1
                                                   [] a = "Y" -> Signed(saved, 8)
                                                   [] OTHER -> 0
      BY <2>1
    <3>1. a \in {"X", "Y", "Z", "RX", "RY", "RZ"}
      BY DEF Axis
    <3>2. CASE a = "X"
      <4>1. fields[1].usage = <<1, 48>> /\ Value(fields[1]) = -1
        BY <2>7, <2>8, <2>9
      <4>. QED
        BY <3>2, <4>1 DEF Axis, GenericDesktop
    <3>3. CASE a = "Y"
      <4>1. fields[2].usage = <<1, 49>> /\ Value(fields[2]) = Signed(saved, 8)
        BY <2>7, <2>8, <2>9
      <4>. QED
        BY <3>3, <4>1 DEF Axis, GenericDesktop
    <3>4. CASE a = "Z"
      <4>1. fields[3].usage = <<1, 50>> /\ Value(fields[3]) = 0
        BY <2>7, <2>8, <2>9
      <4>. QED
        BY <3>4, <4>1 DEF Axis, GenericDesktop
    <3>5. CASE a = "RX"
      <4>1. fields[4].usage = <<1, 51>> /\ Value(fields[4]) = 0
        BY <2>7, <2>8, <2>9
      <4>. QED
        BY <3>5, <4>1 DEF Axis, GenericDesktop
    <3>6. CASE a = "RY"
      <4>1. fields[5].usage = <<1, 52>> /\ Value(fields[5]) = 0
        BY <2>7, <2>8, <2>9
      <4>. QED
        BY <3>6, <4>1 DEF Axis, GenericDesktop
    <3>7. CASE a = "RZ"
      <4>1. fields[6].usage = <<1, 53>> /\ Value(fields[6]) = 0
        BY <2>7, <2>8, <2>9
      <4>. QED
        BY <3>7, <4>1 DEF Axis, GenericDesktop
    <3>. QED
      BY <3>1, <3>2, <3>3, <3>4, <3>5, <3>6, <3>7
  <2>. QED
    BY <2>6, <2>10
<1>. QED
  BY <1>1, LayoutInit, LayoutStep, PTL DEF Spec
===============================================================================
