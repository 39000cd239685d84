-------------------------------- MODULE Windows --------------------------------
(***************************************************************************)
(* The loop of QueryEngine#combine_linear_slots, one turn a step: free     *)
(* slots, sorted by their start, become the windows from which blocks are  *)
(* cut.  QueryEngine folds the same turns into one value; here they are    *)
(* steps, so that what every turn keeps can be proved of any slots.        *)
(***************************************************************************)
EXTENDS QueryEngine

CONSTANTS
    Entries,   \* the time entries slots come from
    Inputs     \* the sorted collections of slots the loop may be given

SlotType == {s \in [start : Int, end : Int, entry : Entries] : s.start <= s.end}
ByStart(s) == \A j, k \in 1..Len(s) : j <= k => s[j].start <= s[k].start

ASSUME InputsAssumption ==
    \A s \in Inputs : s \in Seq(SlotType) /\ ByStart(s)

VARIABLES
    slots,        \* what is iterated over
    i,            \* turns done: last_slot is slots[i], or false if i = 0
    start_time,   \* the window being built
    end_time,
    aggregate,    \* the windows that are closed
    returned

vars == <<slots, i, start_time, end_time, aggregate, returned>>

TypeOK ==
    /\ slots \in Seq(SlotType) /\ ByStart(slots)
    /\ i \in 0..Len(slots)
    /\ start_time \in Int /\ end_time \in Int
    /\ aggregate \in Seq([start : Int, end : Int, entry : Entries])
    /\ returned \in BOOLEAN

Init ==
    /\ slots \in Inputs
    /\ i = 0 /\ start_time = 0 /\ end_time = 0
    /\ aggregate = <<>> /\ returned = FALSE

(* The two assignments "unless last_slot".                                  *)
Opened == IF i = 0 THEN slots[1].start ELSE start_time
Ending == IF i = 0 THEN slots[1].end ELSE end_time

Neighbor_longest ==
    /\ i < Len(slots) /\ slots[i + 1].start <= Ending + Hour
    /\ start_time' = Opened /\ end_time' = slots[i + 1].end
    /\ i' = i + 1
    /\ UNCHANGED <<slots, aggregate, returned>>
Neighbor ==
    /\ i < Len(slots) /\ slots[i + 1].start <= Ending
    /\ start_time' = Opened /\ end_time' = slots[i + 1].end
    /\ i' = i + 1
    /\ UNCHANGED <<slots, aggregate, returned>>

(* The window that ends is given the entry of the slot after the gap.       *)
Gap_unopened ==
    /\ 0 < i /\ i < Len(slots) /\ slots[i + 1].start > Ending
    /\ aggregate' = Append(aggregate, Slot(start_time, end_time, slots[i + 1].entry))
    /\ end_time' = slots[i + 1].end
    /\ i' = i + 1
    /\ UNCHANGED <<slots, start_time, returned>>
Gap_skipping ==
    /\ 0 < i /\ i < Len(slots) /\ slots[i + 1].start > Ending
    /\ aggregate' = Append(aggregate, Slot(start_time, end_time, slots[i + 1].entry))
    /\ start_time' = slots[i + 1].start /\ end_time' = slots[i + 1].end
    /\ i' = i + 2
    /\ UNCHANGED <<slots, returned>>
Gap ==
    /\ 0 < i /\ i < Len(slots) /\ slots[i + 1].start > Ending
    /\ aggregate' = Append(aggregate, Slot(start_time, end_time, slots[i + 1].entry))
    /\ start_time' = slots[i + 1].start /\ end_time' = slots[i + 1].end
    /\ i' = i + 1
    /\ UNCHANGED <<slots, returned>>

Return_unflushed ==
    /\ i = Len(slots) /\ ~returned /\ returned' = TRUE
    /\ UNCHANGED <<slots, i, start_time, end_time, aggregate>>
Return ==
    /\ i = Len(slots) /\ ~returned
    /\ aggregate' = IF i = 0 THEN aggregate
                    ELSE Append(aggregate, Slot(start_time, end_time, slots[i].entry))
    /\ returned' = TRUE
    /\ UNCHANGED <<slots, i, start_time, end_time>>

Next == Neighbor \/ Gap \/ Return

Spec == Init /\ [][Next]_vars

-------------------------------------------------------------------------------
(* Properties.                                                              *)

Building == i > 0 /\ ~returned

(* What a turn relies on: the open window ends with the last slot read.    *)
LastSlot ==
    /\ i = 0 => aggregate = <<>>
    /\ i > 0 => end_time = slots[i].end /\ start_time <= slots[i].start
    /\ returned => i = Len(slots)
InSlots(a, b) ==
    \A t \in a..b - 1 : \E k \in 1..i : slots[k].start <= t /\ t < slots[k].end

(* No window has time in it that was not a free slot's: blocks cut from    *)
(* windows meet no collision the slots did not meet.                       *)
WindowsAreFree ==
    /\ \A k \in 1..Len(aggregate) : InSlots(aggregate[k].start, aggregate[k].end)
    /\ Building => InSlots(start_time, end_time)

(* Windows lie apart and in order, so that no two blocks overlap.          *)
WindowsAreApart ==
    /\ \A j, k \in 1..Len(aggregate) : j < k => aggregate[j].end < aggregate[k].start
    /\ Building => \A j \in 1..Len(aggregate) : aggregate[j].end < start_time

(* Time of a slot is lost only to a later slot that ends before it: every  *)
(* slot begins in a window, and the window holds it to its end unless such *)
(* a slot was read after it (the window's end is the end of the last slot, *)
(* not of the longest).                                                    *)
CutShort(k) == \E m \in k + 1..i : slots[m].end < slots[k].end
Holds(a, b, k) ==
    /\ a <= slots[k].start /\ slots[k].start <= b
    /\ slots[k].end <= b \/ CutShort(k)
NoSlotIsDropped ==
    \A k \in 1..i :
        \/ Building /\ Holds(start_time, end_time, k)
        \/ \E j \in 1..Len(aggregate) : Holds(aggregate[j].start, aggregate[j].end, k)
===============================================================================
