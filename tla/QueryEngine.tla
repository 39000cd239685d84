----------------------------- MODULE QueryEngine ------------------------------
(***************************************************************************)
(* Skej::Appointments::QueryEngine: from the time entries, break shifts    *)
(* and appointments of a business to the time blocks it offers a customer. *)
(* Pure operators; the calendar they read is kept by module Calendar.      *)
(*                                                                         *)
(* An instant is a number of ticks since the midnight before day 0.  A     *)
(* range is a record with a start and an end.  Rows of another business    *)
(* are taken to be absent, as every query leaves them out; so are time     *)
(* entries that are disabled or out of their validity, which               *)
(* build_query_params leaves out.  Breaks that are disabled or out of      *)
(* theirs are here: the detector does not ask.  There is one time zone.    *)
(***************************************************************************)
EXTENDS Integers, FiniteSets, Sequences, SequencesExt

CONSTANTS
    Hour,           \* ticks in an hour
    Providers,
    Offices,
    FirstProvider,  \* business.available_providers.first
    NULL,           \* the provider or office of a row that is for all of them
    Deferred,       \* the choice of a customer to whom any provider is welcome
    Pairwise        \* how range_operators, a library, intersects an array of
                    \* other than two ranges: what any two of them have in
                    \* common, or (FALSE) what all of them have

ASSUME HourAssumption == Hour \in Nat \ {0}
ASSUME ProviderAssumption == FirstProvider \in Providers
ASSUME NullAssumption == NULL \notin Providers \cup Offices
ASSUME DeferredAssumption == Deferred \notin Providers
ASSUME PairwiseAssumption == Pairwise \in BOOLEAN

Day == 24 * Hour
At(day, time) == day * Day + time
Midnight(day) == At(day, 0)
HourOf(x) == (x % Day) \div Hour
MinuteOf(x) == x % Hour
Weekday(x) == (x \div Day) % 7

Span(a, b) == [start |-> a, end |-> b]
Later(a, b) == IF a >= b THEN a ELSE b
Earlier(a, b) == IF a <= b THEN a ELSE b
Within(x, range) == range.start <= x /\ x <= range.end
Overlap(r1, r2) == r1.start < r2.end /\ r2.start < r1.end
Covers(r1, r2) == r1.start < r2.start /\ r2.end < r1.end

(* The ranges two ranges have in common, none or one (ends included).       *)
Intersections(r1, r2) ==
    LET r == Span(Later(r1.start, r2.start), Earlier(r1.end, r2.end))
    IN  {x \in {r} : x.start <= x.end}

(* What all of some ranges have in common, none or one.                     *)
Common(ranges) ==
    {x \in {Span(r1.start, r2.end) : r1 \in ranges, r2 \in ranges} :
        /\ x.start <= x.end
        /\ \A r \in ranges : r.start <= x.start /\ x.end <= r.end}

Times == 0..Day
TimeEntry == [provider : Providers \cup {NULL}, office : Offices \cup {NULL},
              days : SUBSET (0..6), start : Times, end : Times]
(* enabled: is_enabled, and valid now.                                      *)
BreakShift == [provider : Providers \cup {NULL}, office : Offices \cup {NULL},
               days : SUBSET (0..6), enabled : BOOLEAN,
               start : Times, end : Times, float : Nat]

(* What the conversation has settled before it asks for a date.            *)
Choice == [provider : Providers \cup {Deferred}, office : Offices,
           duration : Nat \ {0}]

-------------------------------------------------------------------------------
(* Which rows concern a customer.                                           *)

Concerns(row, choice) ==
    /\ row.office \in {choice.office, NULL}
    /\ choice.provider # Deferred => row.provider \in {choice.provider, NULL}

(* Appointments always have an office and a provider.                       *)
Blocks(apt, choice) ==
    /\ apt.office = choice.office
    /\ choice.provider # Deferred => apt.provider = choice.provider

time_entries_for(entries, choice, day) ==
    {e \in entries : Concerns(e, choice) /\ day % 7 \in e.days}

(* Entries and breaks are rows of hours: start_time and end_time put them   *)
(* on the day that is today, whatever day was asked for.                    *)
Placed(row, today) == Span(At(today, row.start), At(today, row.end))

-------------------------------------------------------------------------------
(* Collisions.                                                              *)

AppointmentDetector_starts(entry, choice, appointments, today) ==
    {a \in appointments : Blocks(a, choice) /\ Within(a.start, Placed(entry, today))}
AppointmentDetector(entry, choice, appointments, today) ==
    LET params == {a \in appointments : Blocks(a, choice)}
        all    == {a \in params : Within(a.start, Span(Midnight(today - 1),
                                                        Midnight(today + 1)))}
        inter  == UNION {Intersections(a, Placed(entry, today)) : a \in all}
    IN  {a \in params : \E i \in inter : Within(a.start, i) \/ Within(a.end, i)}

(* A floating break gives way if its provider has no appointment that      *)
(* begins or ends within the break's float on one side of it.              *)
can_float_starts(break, appointments, today) ==
    LET at == Placed(break, today)
        Near(side) == {a \in appointments : a.provider = break.provider
                                                /\ Within(a.start, side)}
    IN  /\ break.float > 0
        /\ \/ Near(Span(at.start - break.float, at.start)) = {}
           \/ Near(Span(at.end, at.end + break.float)) = {}
can_float(break, appointments, today) ==
    LET at     == Placed(break, today)
        base   == {a \in appointments : a.provider = break.provider}
        Near(side) == {a \in base : Within(a.start, side) \/ Within(a.end, side)}
    IN  /\ break.float > 0
        /\ \/ Near(Span(at.start - break.float, at.start)) = {}
           \/ Near(Span(at.end, at.end + break.float)) = {}

(* Hours and minutes are compared apart, in the query of break_detector.rb. *)
Fits(r, inter) ==
    /\ HourOf(r.start) >= HourOf(inter.start)
    /\ MinuteOf(r.start) >= MinuteOf(inter.start)
    /\ HourOf(r.end) <= HourOf(inter.end)
    /\ MinuteOf(r.end) <= MinuteOf(inter.end)

(* The breaks of the weekday that an entry has when it is put on today.     *)
all_days(entry, choice, breaks, today) == {b \in breaks : Concerns(b, choice)}
all(entry, choice, breaks, today) ==
    {b \in breaks : Concerns(b, choice) /\ Weekday(Placed(entry, today).start) \in b.days}

(* tb_range & breakshifts: of one array that holds the entry's range and    *)
(* those of all its breaks.                                                 *)
intersections(entry, breaks, today) ==
    LET at(row) == Placed(row, today)
    IN  IF Pairwise
        THEN UNION {Intersections(at(entry), at(b)) : b \in breaks}
             \cup UNION {UNION {Intersections(at(b1), at(b2)) : b2 \in breaks \ {b1}} :
                            b1 \in breaks}
        ELSE Common({at(entry)} \cup {at(b) : b \in breaks})

(* The breaks of any day within what they have in common.                   *)
matches(entry, choice, breaks, today) ==
    {b \in breaks :
        /\ Concerns(b, choice)
        /\ \E i \in intersections(entry, all(entry, choice, breaks, today), today) :
              Fits(Placed(b, today), i)}

BreakDetector(entry, choice, breaks, appointments, today) ==
    {b \in matches(entry, choice, breaks, today) : ~can_float(b, appointments, today)}

(* can_float? looks its provider up, and raises if a floating break has none. *)
Raises(entry, choice, breaks, today) ==
    \E b \in matches(entry, choice, breaks, today) : b.float > 0 /\ b.provider = NULL

(* Collider#detect, as ranges.                                              *)
Collisions(entry, choice, biz, appointments, today) ==
    {Span(a.start, a.end) :
        a \in AppointmentDetector(entry, choice, appointments, today)}
    \cup {Placed(b, today) :
        b \in BreakDetector(entry, choice, biz.breaks, appointments, today)}

-------------------------------------------------------------------------------
(* Slots, windows and blocks.                                               *)

Slot(a, b, entry) == [start |-> a, end |-> b, entry |-> entry]

(* As many slots as fit, and one for the time left at the end.              *)
time_slots_for_rounded(entry, size, today) ==
    LET r == Placed(entry, today)
    IN  {Slot(r.start + i * size, r.start + (i + 1) * size, entry) :
            i \in 0..(r.end - r.start) \div size}
time_slots_for(entry, size, today) ==
    LET r == Placed(entry, today)
        count == Later(0, (r.end - r.start) \div size)
        time == r.start + count * size
    IN  {Slot(r.start + i * size, r.start + (i + 1) * size, entry) : i \in 0..count - 1}
          \cup {s \in {Slot(time, r.end, entry)} : time < r.end}

(* The code shortens a slot by ten seconds at each end, so that a collision *)
(* that only touches it leaves it free.                                     *)
extract_available_slots_touching(entry, choice, biz, appointments, today) ==
    {s \in time_slots_for(entry, choice.duration, today) :
        \A c \in Collisions(entry, choice, biz, appointments, today) :
            c.end < s.start \/ s.end < c.start}
extract_available_slots(entry, choice, biz, appointments, today) ==
    {s \in time_slots_for(entry, choice.duration, today) :
        \A c \in Collisions(entry, choice, biz, appointments, today) : ~Overlap(s, c)}

generate_time_slots(choice, biz, appointments, today, day) ==
    UNION {extract_available_slots(e, choice, biz, appointments, today) :
               e \in time_entries_for(biz.entries, choice, day)}

(* The orders sort_by(&:start_time) may return: slots that start together   *)
(* come in any order.                                                       *)
Sorted(slots) ==
    LET orders[rest \in SUBSET slots] ==
            IF rest = {} THEN {<<>>}
            ELSE UNION {{<<s>> \o o : o \in orders[rest \ {s}]} :
                            s \in {x \in rest : \A y \in rest : x.start <= y.start}}
    IN  orders[slots]

(* One turn of the loop of combine_linear_slots.  The window that a gap     *)
(* closes is given the entry of the slot after the gap.                     *)
Combine(acc, slot) ==
    IF slot.start <= acc.end
    THEN [acc EXCEPT !.end = slot.end, !.last = slot]
    ELSE [windows |-> Append(acc.windows, Slot(acc.start, acc.end, slot.entry)),
          start |-> slot.start, end |-> slot.end, last |-> slot]

(* What the loop holds after each turn.                                     *)
Turns(sorted) ==
    LET first == Head(sorted)
        acc[k \in 0..Len(sorted)] ==
            IF k = 0 THEN [windows |-> <<>>, start |-> first.start,
                           end |-> first.end, last |-> first]
            ELSE Combine(acc[k - 1], sorted[k])
    IN  acc

combine_linear_slots(sorted) ==
    IF sorted = <<>> THEN <<>>
    ELSE LET acc == Turns(sorted)[Len(sorted)]
         IN  Append(acc.windows, Slot(acc.start, acc.end, acc.last.entry))

service_provider_open(entry, choice) ==
    IF entry.provider # NULL THEN entry.provider ELSE choice.provider
service_provider(entry, choice) ==
    CASE entry.provider # NULL -> entry.provider
      [] choice.provider # Deferred -> choice.provider
      [] OTHER -> FirstProvider

(* The hours of a window, on the day asked for.                             *)
generate_time_blocks(window, choice, day) ==
    LET base == At(day, window.start % Day)
    IN  {[start |-> base + i * choice.duration,
          end |-> base + (i + 1) * choice.duration,
          entry |-> window.entry,
          provider |-> service_provider(window.entry, choice)] :
            i \in 0..((window.end - window.start) \div choice.duration) - 1}

(* The lists available_on may answer, one for each order of the slots, and  *)
(* none if it raises.                                                       *)
available_on(choice, biz, appointments, today, day) ==
    {UNION {generate_time_blocks(w, choice, day) :
                w \in ToSet(combine_linear_slots(sorted))} :
        sorted \in {o \in Sorted(generate_time_slots(choice, biz, appointments, today, day)) :
                       \A e \in time_entries_for(biz.entries, choice, day) :
                           ~Raises(e, choice, biz.breaks, today)}}
===============================================================================
