----------------------------- MODULE WindowsProofs ----------------------------
(***************************************************************************)
(* What combine_linear_slots keeps, for every sorted collection of slots:  *)
(* the properties of module Windows, by one inductive invariant.           *)
(***************************************************************************)
EXTENDS Windows, EngineProofs

Inv == TypeOK /\ LastSlot /\ WindowsAreFree /\ WindowsAreApart /\ NoSlotIsDropped

LEMMA Element ==
    ASSUME NEW S, NEW s \in Seq(S), NEW j \in 1..Len(s)
    PROVE  s[j] \in S
  OBVIOUS

(* A slot read is a slot, and later ones do not begin before it.            *)
LEMMA SlotsRead ==
    ASSUME TypeOK
    PROVE  \A k \in 1..Len(slots) :
               /\ slots[k].start \in Int /\ slots[k].end \in Int
               /\ slots[k].entry \in Entries
               /\ slots[k].start <= slots[k].end
               /\ \A j \in 1..k : slots[j].start <= slots[k].start
  <1>1. TAKE k \in 1..Len(slots)
  <1>2. slots[k] \in SlotType
    BY DEF TypeOK
  <1>3. \A j \in 1..k : slots[j].start <= slots[k].start
    BY DEF TypeOK, ByStart
  <1>. QED
    BY <1>2, <1>3 DEF SlotType

(* Appending a window leaves the others where they were.                    *)
LEMMA Appended ==
    ASSUME TypeOK, NEW w \in [start : Int, end : Int, entry : Entries],
           aggregate' = Append(aggregate, w)
    PROVE  /\ aggregate' \in Seq([start : Int, end : Int, entry : Entries])
           /\ Len(aggregate') = Len(aggregate) + 1
           /\ \A k \in 1..Len(aggregate) : aggregate'[k] = aggregate[k]
           /\ aggregate'[Len(aggregate) + 1] = w
  BY DEF TypeOK

LEMMA InitInv == Init => Inv
  <1>. SUFFICES ASSUME Init PROVE Inv
    OBVIOUS
  <1>1. slots \in Seq(SlotType) /\ ByStart(slots)
    BY InputsAssumption DEF Init
  <1>2. 0 \in 0..Len(slots)
    BY <1>1
  <1>3. <<>> \in Seq([start : Int, end : Int, entry : Entries])
    OBVIOUS
  <1>4. i \in 0..Len(slots) /\ start_time \in Int /\ end_time \in Int
    BY <1>2 DEF Init
  <1>5. aggregate \in Seq([start : Int, end : Int, entry : Entries])
    BY <1>3 DEF Init
  <1>6. returned \in BOOLEAN
    BY DEF Init
  <1>7. TypeOK
    BY <1>1, <1>4, <1>5, <1>6 DEF TypeOK
  <1>. QED
    BY <1>7 DEF Init, Inv, LastSlot, WindowsAreFree, WindowsAreApart,
                NoSlotIsDropped, Building

(* Time that was in the slots read stays in the slots read.                 *)
LEMMA Reading ==
    ASSUME TypeOK, slots' = slots, i' \in Nat, i <= i',
           NEW a, NEW b, InSlots(a, b)
    PROVE  InSlots(a, b)'
  BY DEF InSlots, TypeOK

(* A slot a window holds, it holds after more are read.                     *)
LEMMA HeldOn ==
    ASSUME TypeOK, slots' = slots, i' \in Nat, i <= i', NEW a, NEW b, NEW k \in 1..i
    PROVE  (CutShort(k) => CutShort(k)') /\ (Holds(a, b, k) => Holds(a, b, k)')
  BY DEF CutShort, Holds, TypeOK

LEMMA NeighborInv == Inv /\ Neighbor => Inv'
  <1>. SUFFICES ASSUME Inv, Neighbor PROVE Inv'
    OBVIOUS
  <1>. DEFINE slot == slots[i + 1]
  <1>0. TypeOK /\ i \in Nat /\ i + 1 \in 1..Len(slots) /\ Len(slots) \in Nat
    BY DEF Inv, Neighbor, TypeOK
  <1>1. /\ slot.start \in Int /\ slot.end \in Int /\ slot.start <= slot.end
        /\ \A j \in 1..i + 1 : slots[j].start \in Int /\ slots[j].start <= slot.start
    BY <1>0, SlotsRead
  <1>2. /\ slots' = slots /\ aggregate' = aggregate /\ returned' = returned
        /\ i' = i + 1 /\ end_time' = slot.end /\ start_time' = Opened
    BY DEF Neighbor
  <1>3. Opened \in Int /\ Ending \in Int /\ slot.start <= Ending /\ Opened <= slot.start
    <2>1. CASE i = 0
      BY <2>1, <1>1 DEF Opened, Ending
    <2>2. CASE i > 0
      <3>1. slots[i].start <= slot.start
        BY <2>2, <1>0, <1>1
      <3>2. start_time <= slots[i].start /\ slots[i].start \in Int
        BY <2>2, <1>0, <1>1 DEF Inv, LastSlot
      <3>. QED
        BY <2>2, <3>1, <3>2, <1>0, <1>1 DEF Opened, Ending, Neighbor, TypeOK
    <2>. QED
      BY <2>1, <2>2, <1>0
  <1>4. TypeOK'
    BY <1>0, <1>1, <1>2, <1>3 DEF TypeOK
  <1>5. LastSlot'
    BY <1>0, <1>1, <1>2, <1>3 DEF Inv, LastSlot
  <1>6. WindowsAreFree'
    <2>1. \A k \in 1..Len(aggregate) : InSlots(aggregate[k].start, aggregate[k].end)'
      BY <1>0, <1>2, Reading DEF Inv, WindowsAreFree
    <2>2. ASSUME Building'
          PROVE  InSlots(start_time, end_time)'
      <3>1. SUFFICES ASSUME NEW t \in start_time'..end_time' - 1
                     PROVE  \E k \in 1..i + 1 : slots[k].start <= t /\ t < slots[k].end
        BY <1>2 DEF InSlots
      <3>2. t \in Int /\ Opened <= t /\ t < slot.end
        BY <1>1, <1>2, <1>3
      <3>3. CASE slot.start <= t
        BY <3>2, <3>3, <1>0
      <3>4. CASE t < slot.start
        <4>1. i > 0
          BY <3>2, <3>4, <1>0, <1>1 DEF Opened
        <4>2. InSlots(start_time, end_time)
          BY <4>1, <2>2, <1>2 DEF Inv, WindowsAreFree, Building
        <4>3. t \in start_time..end_time - 1
          BY <4>1, <3>2, <3>4, <1>1, <1>3, <1>0 DEF Opened, Ending, TypeOK
        <4>. QED
          BY <4>2, <4>3, <1>0 DEF InSlots
      <3>. QED
        BY <3>3, <3>4, <3>2, <1>1
    <2>. QED
      BY <2>1, <2>2, <1>2 DEF WindowsAreFree
  <1>7. WindowsAreApart'
    <2>1. \A j, k \in 1..Len(aggregate) : j < k => aggregate[j].end < aggregate[k].start
      BY DEF Inv, WindowsAreApart
    <2>2. ASSUME Building', NEW j \in 1..Len(aggregate)
          PROVE  aggregate[j].end < start_time'
      <3>1. i > 0
        BY <1>0 DEF Inv, LastSlot
      <3>. QED
        BY <3>1, <2>2, <1>2 DEF Inv, WindowsAreApart, Building, Opened
    <2>. QED
      BY <2>1, <2>2, <1>2 DEF WindowsAreApart
  <1>8. NoSlotIsDropped'
    <2>. SUFFICES ASSUME NEW k \in 1..i + 1,
                         ~ \E j \in 1..Len(aggregate) :
                               Holds(aggregate[j].start, aggregate[j].end, k)'
                  PROVE  Building' /\ Holds(start_time, end_time, k)'
      BY <1>2 DEF NoSlotIsDropped
    <2>1. Building'
      BY <1>0, <1>2 DEF Building, Inv, LastSlot, TypeOK, Neighbor
    <2>2. slots[k].start <= slot.end
      BY <1>0, <1>1
    <2>3. CASE k = i + 1
      <3>1. Opened <= slots[k].start /\ slots[k].end <= slot.end
        BY <2>3, <1>1, <1>3
      <3>. QED
        BY <1>2, <2>1, <2>2, <3>1 DEF Holds
    <2>4. CASE k \in 1..i
      <3>1. i > 0 /\ Building /\ Holds(start_time, end_time, k)
        <4>1. ~ \E j \in 1..Len(aggregate) : Holds(aggregate[j].start, aggregate[j].end, k)
          BY <1>0, <1>2, <2>4, HeldOn
        <4>. QED
          BY <1>0, <2>4, <4>1 DEF Inv, NoSlotIsDropped, Building
      <3>2. Opened <= slots[k].start
        BY <3>1 DEF Holds, Opened
      <3>3. slots[k].end <= slot.end \/ slot.end < slots[k].end
        BY <1>0, <1>1, <2>4, SlotsRead
      <3>4. slots[k].end <= slot.end \/ CutShort(k)'
        <4>1. i + 1 \in k + 1..i + 1
          BY <1>0, <2>4
        <4>. QED
          BY <1>2, <3>3, <4>1 DEF CutShort
      <3>. QED
        BY <1>2, <2>1, <2>2, <3>2, <3>4 DEF Holds
    <2>. QED
      BY <2>3, <2>4, <1>0
  <1>. QED
    BY <1>4, <1>5, <1>6, <1>7, <1>8 DEF Inv

LEMMA GapInv == Inv /\ Gap => Inv'
  <1>. SUFFICES ASSUME Inv, Gap PROVE Inv'
    OBVIOUS
  <1>. DEFINE slot == slots[i + 1]
              w == Slot(start_time, end_time, slot.entry)
  <1>0. /\ TypeOK /\ i \in Nat \ {0} /\ i \in 1..Len(slots) /\ Len(slots) \in Nat
        /\ i + 1 \in 1..Len(slots) /\ start_time \in Int /\ end_time \in Int
    BY DEF Inv, Gap, TypeOK
  <1>1. /\ slot.start \in Int /\ slot.end \in Int /\ slot.start <= slot.end
        /\ slot.entry \in Entries
        /\ \A j \in 1..i + 1 : slots[j].start \in Int /\ slots[j].start <= slot.start
    BY <1>0, SlotsRead
  <1>2. /\ slots' = slots /\ returned' = returned /\ i' = i + 1
        /\ start_time' = slot.start /\ end_time' = slot.end
        /\ aggregate' = Append(aggregate, w) /\ end_time < slot.start
    BY <1>0 DEF Gap, Ending
  <1>3. /\ aggregate' \in Seq([start : Int, end : Int, entry : Entries])
        /\ Len(aggregate') = Len(aggregate) + 1 /\ Len(aggregate) \in Nat
        /\ \A k \in 1..Len(aggregate) : aggregate'[k] = aggregate[k]
        /\ aggregate'[Len(aggregate) + 1] = w
        /\ w.start = start_time /\ w.end = end_time
    <2>1. w \in [start : Int, end : Int, entry : Entries]
      BY <1>0, <1>1 DEF Slot
    <2>. QED
      BY <2>1, <1>0, <1>2, Appended DEF Slot, TypeOK
  <1>4. start_time <= end_time /\ ~returned
    BY <1>0, SlotsRead DEF Inv, LastSlot, Gap
  <1>5. TypeOK'
    BY <1>0, <1>1, <1>2, <1>3 DEF TypeOK
  <1>6. LastSlot'
    BY <1>0, <1>1, <1>2 DEF Inv, LastSlot, Gap
  <1>7. WindowsAreFree'
    <2>. DEFINE Free(a, b) == \A t \in a..b - 1 : \E k \in 1..i + 1 :
                                  slots[k].start <= t /\ t < slots[k].end
    <2>1. \A a, b : InSlots(a, b) => Free(a, b)
      BY <1>0 DEF InSlots
    <2>2. Free(start_time, end_time)
      <3>. HIDE DEF Free
      <3>1. InSlots(start_time, end_time)
        BY <1>0, <1>4 DEF Inv, WindowsAreFree, Building
      <3>. QED
        BY <3>1, <2>1
    <2>3. \A k \in 1..Len(aggregate) : Free(aggregate[k].start, aggregate[k].end)
      <3>. HIDE DEF Free
      <3>. QED
        BY <2>1 DEF Inv, WindowsAreFree
    <2>5. \A k \in 1..Len(aggregate') : Free(aggregate'[k].start, aggregate'[k].end)
      <3>. HIDE DEF Free
      <3>. SUFFICES ASSUME NEW k \in 1..Len(aggregate')
                    PROVE  Free(aggregate'[k].start, aggregate'[k].end)
        OBVIOUS
      <3>1. CASE k \in 1..Len(aggregate)
        BY <3>1, <2>3, <1>3
      <3>2. CASE k = Len(aggregate) + 1
        BY <3>2, <2>2, <1>3
      <3>. QED
        BY <3>1, <3>2, <1>3
    <2>4. InSlots(start_time, end_time)'
      <3>. SUFFICES ASSUME NEW t \in slot.start..slot.end - 1
                    PROVE  \E k \in 1..i + 1 : slots[k].start <= t /\ t < slots[k].end
        BY <1>2 DEF InSlots
      <3>. QED
        BY <1>0, <1>1
    <2>6. \A k \in 1..Len(aggregate') : InSlots(aggregate[k].start, aggregate[k].end)'
      BY <2>5, <1>2 DEF InSlots
    <2>. QED
      BY <2>4, <2>6 DEF WindowsAreFree
  <1>8. WindowsAreApart'
    <2>1. \A j \in 1..Len(aggregate) : aggregate[j].end < start_time
      BY <1>0, <1>4 DEF Inv, WindowsAreApart, Building
    <2>2. \A j \in 1..Len(aggregate) : aggregate[j].end \in Int
      <3>. TAKE j \in 1..Len(aggregate)
      <3>0. aggregate \in Seq([start : Int, end : Int, entry : Entries])
        BY <1>0 DEF TypeOK
      <3>1. aggregate[j] \in [start : Int, end : Int, entry : Entries]
        BY <3>0, Element
      <3>. QED
        BY <3>1
    <2>3. \A j \in 1..Len(aggregate') : aggregate'[j].end < slot.start
      <3>. SUFFICES ASSUME NEW j \in 1..Len(aggregate')
                    PROVE  aggregate'[j].end < slot.start
        OBVIOUS
      <3>1. CASE j \in 1..Len(aggregate)
        <4>1. aggregate[j].end < start_time /\ aggregate[j].end \in Int
          BY <3>1, <2>1, <2>2
        <4>2. aggregate'[j] = aggregate[j]
          BY <3>1, <1>3
        <4>. QED
          BY <4>1, <4>2, <1>0, <1>1, <1>2, <1>4
      <3>2. CASE j = Len(aggregate) + 1
        BY <3>2, <1>2, <1>3
      <3>. QED
        BY <3>1, <3>2, <1>3
    <2>4. \A j, k \in 1..Len(aggregate') :
              j < k => aggregate'[j].end < aggregate'[k].start
      <3>. SUFFICES ASSUME NEW j \in 1..Len(aggregate'), NEW k \in 1..Len(aggregate'),
                           j < k
                    PROVE  aggregate'[j].end < aggregate'[k].start
        OBVIOUS
      <3>1. j \in 1..Len(aggregate) /\ aggregate'[j] = aggregate[j]
        BY <1>3
      <3>2. CASE k \in 1..Len(aggregate)
        BY <3>1, <3>2, <1>3 DEF Inv, WindowsAreApart
      <3>3. CASE k = Len(aggregate) + 1
        BY <3>1, <3>3, <2>1, <1>3
      <3>. QED
        BY <3>2, <3>3, <1>3
    <2>. QED
      BY <2>3, <2>4, <1>2 DEF WindowsAreApart
  <1>9. NoSlotIsDropped'
    <2>. SUFFICES ASSUME NEW k \in 1..i + 1
                  PROVE  \/ Building' /\ Holds(start_time, end_time, k)'
                         \/ \E j \in 1..Len(aggregate') :
                               Holds(aggregate[j].start, aggregate[j].end, k)'
      BY <1>2 DEF NoSlotIsDropped
    <2>1. CASE k = i + 1
      BY <2>1, <1>0, <1>1, <1>2, <1>4 DEF Building, Holds
    <2>2. CASE k \in 1..i
      <3>1. \/ Holds(start_time, end_time, k)
            \/ \E j \in 1..Len(aggregate) : Holds(aggregate[j].start, aggregate[j].end, k)
        BY <2>2 DEF Inv, NoSlotIsDropped
      <3>2. Len(aggregate) + 1 \in 1..Len(aggregate')
        BY <1>3
      <3>2a. CutShort(k) => CutShort(k)'
        BY <1>0, <1>2 DEF CutShort
      <3>3. CASE Holds(start_time, end_time, k)
        <4>1. LET v == aggregate'[Len(aggregate) + 1]
              IN  /\ v.start <= slots'[k].start /\ slots'[k].start <= v.end
                  /\ slots'[k].end <= v.end \/ CutShort(k)'
          <5>. HIDE DEF w
          <5>. QED
            BY <1>2, <1>3, <3>2a, <3>3 DEF Holds
        <4>. QED
          BY <3>2, <4>1 DEF Holds
      <3>4. ASSUME NEW j \in 1..Len(aggregate), Holds(aggregate[j].start, aggregate[j].end, k)
            PROVE  \E j2 \in 1..Len(aggregate') :
                       Holds(aggregate[j2].start, aggregate[j2].end, k)'
        <4>1. j \in 1..Len(aggregate') /\ aggregate'[j] = aggregate[j]
          BY <1>3
        <4>2. Holds(aggregate[j].start, aggregate[j].end, k)'
          BY <1>2, <3>2a, <3>4, <4>1 DEF Holds
        <4>. QED
          BY <4>1, <4>2
      <3>. QED
        BY <3>1, <3>3, <3>4
    <2>. QED
      BY <2>1, <2>2, <1>0
  <1>. QED
    BY <1>5, <1>6, <1>7, <1>8, <1>9 DEF Inv

LEMMA ReturnInv == Inv /\ Return => Inv'
  <1>. SUFFICES ASSUME Inv, Return PROVE Inv'
    OBVIOUS
  <1>0. /\ TypeOK /\ i \in Nat /\ i = Len(slots) /\ ~returned /\ ~Building'
        /\ start_time \in Int /\ end_time \in Int
        /\ slots' = slots /\ i' = i /\ returned' = TRUE
        /\ start_time' = start_time /\ end_time' = end_time
    BY DEF Inv, Return, TypeOK, Building
  <1>1. CASE i = 0
    <2>1. aggregate' = aggregate
      BY <1>1 DEF Return
    <2>2. TypeOK' /\ LastSlot'
      BY <2>1, <1>0, <1>1 DEF TypeOK, LastSlot, Inv
    <2>. QED
      BY <2>1, <2>2, <1>0, <1>1
      DEF Inv, LastSlot, WindowsAreFree, WindowsAreApart, NoSlotIsDropped
  <1>2. CASE i > 0
    <2>. DEFINE w == Slot(start_time, end_time, slots[i].entry)
    <2>1. aggregate' = Append(aggregate, w) /\ i \in 1..Len(slots)
      BY <1>0, <1>2 DEF Return
    <2>2. /\ aggregate' \in Seq([start : Int, end : Int, entry : Entries])
          /\ Len(aggregate') = Len(aggregate) + 1 /\ Len(aggregate) \in Nat
          /\ \A k \in 1..Len(aggregate) : aggregate'[k] = aggregate[k]
          /\ aggregate'[Len(aggregate) + 1] = w
          /\ w.start = start_time /\ w.end = end_time
      <3>1. w \in [start : Int, end : Int, entry : Entries]
        BY <1>0, <2>1, SlotsRead DEF Slot
      <3>. QED
        BY <3>1, <1>0, <2>1, Appended DEF Slot, TypeOK
    <2>3. TypeOK'
      BY <2>2, <1>0 DEF TypeOK
    <2>4. LastSlot'
      BY <1>0, <1>2 DEF Inv, LastSlot
    <2>5. WindowsAreFree'
      <3>1. \A a, b : InSlots(a, b) => InSlots(a, b)'
        BY <1>0 DEF InSlots
      <3>2. InSlots(start_time, end_time)
        BY <1>0, <1>2 DEF Inv, WindowsAreFree, Building
      <3>3. \A k \in 1..Len(aggregate) : InSlots(aggregate[k].start, aggregate[k].end)
        BY DEF Inv, WindowsAreFree
      <3>4. \A k \in 1..Len(aggregate') :
                InSlots(aggregate'[k].start, aggregate'[k].end)
        BY <3>2, <3>3, <2>2
      <3>5. \A k \in 1..Len(aggregate') :
                InSlots(aggregate[k].start, aggregate[k].end)'
        BY <3>4, <1>0 DEF InSlots
      <3>. QED
        BY <3>5, <1>0 DEF WindowsAreFree
    <2>6. WindowsAreApart'
      <3>1. \A j \in 1..Len(aggregate) : aggregate[j].end < start_time
        BY <1>0, <1>2 DEF Inv, WindowsAreApart, Building
      <3>2. \A j, k \in 1..Len(aggregate') :
                j < k => aggregate'[j].end < aggregate'[k].start
        <4>. SUFFICES ASSUME NEW j \in 1..Len(aggregate'), NEW k \in 1..Len(aggregate'),
                             j < k
                      PROVE  aggregate'[j].end < aggregate'[k].start
          OBVIOUS
        <4>1. j \in 1..Len(aggregate) /\ aggregate'[j] = aggregate[j]
          BY <2>2
        <4>2. CASE k \in 1..Len(aggregate)
          BY <4>1, <4>2, <2>2 DEF Inv, WindowsAreApart
        <4>3. CASE k = Len(aggregate) + 1
          BY <4>1, <4>3, <3>1, <2>2
        <4>. QED
          BY <4>2, <4>3, <2>2
      <3>. QED
        BY <3>2, <1>0 DEF WindowsAreApart
    <2>7. NoSlotIsDropped'
      <3>. SUFFICES ASSUME NEW k \in 1..i
                    PROVE  \E j \in 1..Len(aggregate') :
                               Holds(aggregate[j].start, aggregate[j].end, k)'
        BY <1>0 DEF NoSlotIsDropped
      <3>0. \A a, b : Holds(a, b, k) => Holds(a, b, k)'
        BY <1>0 DEF Holds, CutShort
      <3>1. \/ Holds(start_time, end_time, k)
            \/ \E j \in 1..Len(aggregate) : Holds(aggregate[j].start, aggregate[j].end, k)
        BY DEF Inv, NoSlotIsDropped
      <3>2. Len(aggregate) + 1 \in 1..Len(aggregate')
        BY <2>2
      <3>3. CASE Holds(start_time, end_time, k)
        <4>1. Holds(w.start, w.end, k)
          BY <2>2, <3>3
        <4>. QED
          BY <3>2, <4>1, <2>2, <1>0 DEF Holds, CutShort
      <3>4. ASSUME NEW j \in 1..Len(aggregate), Holds(aggregate[j].start, aggregate[j].end, k)
            PROVE  \E j2 \in 1..Len(aggregate') :
                       Holds(aggregate[j2].start, aggregate[j2].end, k)'
        <4>1. j \in 1..Len(aggregate') /\ aggregate'[j] = aggregate[j]
          BY <2>2
        <4>. QED
          BY <4>1, <3>4, <1>0 DEF Holds, CutShort
      <3>. QED
        BY <3>1, <3>3, <3>4
    <2>. QED
      BY <2>3, <2>4, <2>5, <2>6, <2>7 DEF Inv
  <1>. QED
    BY <1>0, <1>1, <1>2

(* The loop of combine_linear_slots, given any sorted slots, keeps Inv: the *)
(* windows cover free slots only, lie apart, and drop no slot.              *)
THEOREM LoopInvariant == Spec => []Inv
  <1>1. Inv /\ UNCHANGED vars => Inv'
    BY DEF Inv, TypeOK, LastSlot, WindowsAreFree, WindowsAreApart,
           NoSlotIsDropped, Holds, CutShort, Building, InSlots, vars
  <1>2. Inv /\ [Next]_vars => Inv'
    BY <1>1, NeighborInv, GapInv, ReturnInv DEF Next
  <1>. QED
    BY InitInv, <1>2, PTL DEF Spec

(* Blocks are cut from time that is free: no window of combine_linear_slots *)
(* holds an instant that is in no slot.                                     *)
THEOREM WindowsFree == Spec => []WindowsAreFree
  <1>1. Inv => WindowsAreFree
    BY DEF Inv
  <1>. QED
    BY <1>1, LoopInvariant, PTL

(* Windows never meet, so two blocks of a list cannot overlap.              *)
THEOREM WindowsApart == Spec => []WindowsAreApart
  <1>1. Inv => WindowsAreApart
    BY DEF Inv
  <1>. QED
    BY <1>1, LoopInvariant, PTL

(* Whatever ties and overlaps sorting leaves, time of a slot is lost only   *)
(* to a later slot that ends before it.                                     *)
THEOREM SlotsKept == Spec => []NoSlotIsDropped
  <1>1. Inv => NoSlotIsDropped
    BY DEF Inv
  <1>. QED
    BY <1>1, LoopInvariant, PTL
(* Windows stay records of two instants and an entry, in a list.            *)
THEOREM TypeCorrect == Spec => []TypeOK
  <1>1. Inv => TypeOK
    BY DEF Inv
  <1>. QED
    BY <1>1, LoopInvariant, PTL

===============================================================================
