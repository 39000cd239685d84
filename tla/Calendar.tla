------------------------------- MODULE Calendar -------------------------------
(***************************************************************************)
(* The business's calendar under the requests that fill it.  A request     *)
(* asks the query engine for the blocks of a day (Ask), and either shows   *)
(* them and ends (Leave) or stores one of them (Book).  Between the two a  *)
(* request of another customer may do the same, and midnight may pass.     *)
(***************************************************************************)
EXTENDS QueryEngine

CONSTANTS
    Businesses,   \* the businesses explored: time entries, breaks, and what
                  \* customers settle for before they name a date
    Workers,      \* the server's processes, each with one request at a time
    LastDay,      \* bound: the last day asked for, the first being 0
    MaxBooked     \* bound: how many appointments are stored

ASSUME CalendarAssumption ==
    /\ Businesses \subseteq [entries : SUBSET TimeEntry, breaks : SUBSET BreakShift,
                              choices : SUBSET Choice]
    /\ \A b \in Businesses : IsFiniteSet(b.entries)
    /\ LastDay \in Nat /\ MaxBooked \in Nat

VARIABLES
    biz,           \* the business
    today,         \* the day of the server's clock
    appointments,  \* the rows of that table
    request        \* what each worker's request got from the query engine

vars == <<biz, today, appointments, request>>

Days == 0..LastDay
Ids == 1..MaxBooked
Block == [start : Nat, end : Nat, entry : TimeEntry, provider : Providers]

(* asked, day and seen are kept for the properties: the day the list was   *)
(* made, the day it is for, and the appointments stored by then.           *)
Appointment == [id : Ids, provider : Providers, office : Offices,
                start : Nat, end : Nat, asked : Days, seen : SUBSET Ids]

Idle == [busy |-> FALSE]
Request == [busy : {TRUE}, choice : Choice, asked : Days, day : Days,
            seen : SUBSET Ids, offered : SUBSET Block]

TypeOK ==
    /\ biz \in Businesses
    /\ today \in Days
    /\ appointments \subseteq Appointment
    /\ request \in [Workers -> {Idle} \cup Request]

Init ==
    /\ biz \in Businesses
    /\ today = 0
    /\ appointments = {}
    /\ request = [w \in Workers |-> Idle]

Stored == {a.id : a \in appointments}

(* A day that is over is taken for today.                                  *)
set_base_time(day) == Later(day, today)

(* The date is one a customer names; the list is made in one query step    *)
(* before anything of it is used.  If the engine raises, the request ends  *)
(* with nothing to show.                                                   *)
Ask(w) ==
    /\ request[w] = Idle
    /\ \E choice \in biz.choices, date \in Days :
         LET day   == set_base_time(date)
             lists == available_on(choice, biz, appointments, today, day)
         IN  \/ lists = {} /\ UNCHANGED request
             \/ \E blocks \in lists :
                   request' = [request EXCEPT ![w] =
                       [busy |-> TRUE, choice |-> choice, asked |-> today, day |-> day,
                        seen |-> Stored, offered |-> blocks]]
    /\ UNCHANGED <<biz, today, appointments>>

(* commit! saves the block picked, and asks nobody.                        *)
Book(w) ==
    /\ request[w].busy
    /\ Cardinality(appointments) < MaxBooked
    /\ \E b \in request[w].offered :
         appointments' = appointments \cup
             {[id |-> Cardinality(appointments) + 1, provider |-> b.provider,
               office |-> request[w].choice.office, start |-> b.start, end |-> b.end,
               asked |-> request[w].asked, seen |-> request[w].seen]}
    /\ request' = [request EXCEPT ![w] = Idle]
    /\ UNCHANGED <<biz, today>>

Leave(w) ==
    /\ request[w].busy
    /\ request' = [request EXCEPT ![w] = Idle]
    /\ UNCHANGED <<biz, today, appointments>>

NextDay ==
    /\ today < LastDay
    /\ today' = today + 1
    /\ UNCHANGED <<biz, appointments, request>>

Next == NextDay \/ \E w \in Workers : Ask(w) \/ Book(w) \/ Leave(w)

Spec == Init /\ [][Next]_vars

-------------------------------------------------------------------------------
(* Properties.                                                              *)

Busy == {w \in Workers : request[w].busy}
Seen(r) == {a \in appointments : a.id \in r.seen}
Hours(r) == Span(r.start % Day, (r.start % Day) + (r.end - r.start))
DayOf(b) == b.start \div Day

(* No customer is booked over an appointment of the same provider and      *)
(* office that was stored before the list was made: overlaps come from     *)
(* requests that run at once, from lists made for another day, or from an  *)
(* appointment that begins before an entry and ends after it (the two      *)
(* queries of AppointmentDetector look for a start or an end inside it).   *)
SeenIsRespected ==
    \A a, b \in appointments :
        /\ a.id \in b.seen /\ Overlap(a, b)
        /\ a.provider = b.provider /\ a.office = b.office
        => \/ DayOf(b) # b.asked
           \/ \E e \in biz.entries : /\ Covers(a, Placed(e, b.asked))
                                     /\ Overlap(b, Placed(e, b.asked))

(* Every minute of an offered block is in the hours some provider who may  *)
(* serve the customer works at that office on that day, and the day is not *)
(* over: what combine_linear_slots merges and generate_time_blocks moves   *)
(* to the day asked for never leaves the hours.                            *)
WithinHours ==
    \A w \in Busy : LET r == request[w] IN
        \A b \in r.offered :
            /\ DayOf(b) >= r.asked
            /\ \A t \in b.start..b.end - 1 :
                   \E e \in time_entries_for(biz.entries, r.choice, DayOf(b)) :
                       e.start <= t % Day /\ t % Day < e.end

(* A block of a day whose weekday is today's has time of a break of that    *)
(* weekday, which lies within all the others of it that concern the         *)
(* customer, and which every entry with time of it holds wholly.            *)
Shares(r1, r2) == \E t \in r1.start..r1.end - 1 : r2.start <= t /\ t < r2.end
BreaksOf(r) == {k \in biz.breaks : Concerns(k, r.choice) /\ r.day % 7 \in k.days}
InBreak(r, b, k) ==
    /\ r.day % 7 = r.asked % 7
    /\ k \in BreaksOf(r) /\ Shares(Hours(b), k)
    /\ \A k2 \in BreaksOf(r) : k2.start <= k.start /\ k.end <= k2.end
    /\ \A e \in time_entries_for(biz.entries, r.choice, r.day) :
           Shares(e, k) => e.start <= k.start /\ k.end <= e.end
Sides(k, day) ==
    LET at == Placed(k, day)
    IN  {Span(at.start - k.float, at.start), Span(at.end, at.end + k.float)}
Meeting(r, k, side) == {a \in Seen(r) : a.provider = k.provider /\ Overlap(a, side)}

(* In a list for today, the time of a break of today is offered only if the *)
(* break can be taken on one side of it: all its provider has there, for as *)
(* long as the break floats, are appointments that begin before that time   *)
(* and end after it, which the queries of can_float? do not look for.  Of   *)
(* breaks that lie apart only what they have in common is looked at, so     *)
(* this is said of the innermost; and BreakDetector takes every day for     *)
(* today, so nothing is said of lists for other days (BreaksOfTheDayAreKept *)
(* fails).                                                                  *)
BreaksAreKept ==
    \A w \in Busy : LET r == request[w] IN
        \A b \in r.offered, k \in biz.breaks :
            InBreak(r, b, k)
            => /\ k.float > 0
               /\ \E side \in Sides(k, r.asked) :
                      \A a \in Meeting(r, k, side) : Covers(a, side)

(* A slot of an entry, of those that no other entry touches, is offered at  *)
(* its hours on the day asked for.                                          *)
Untouched(r, e) ==
    \A e2 \in time_entries_for(biz.entries, r.choice, r.day) \ {e} :
        e2.end < e.start \/ e.end < e2.start
SlotsOf(r, e) ==
    {Span(e.start + (i - 1) * r.choice.duration, e.start + i * r.choice.duration) :
        i \in 1..(e.end - e.start) \div r.choice.duration}
Offered(r, s) == \E b \in r.offered : Hours(b) = s

(* Nothing is held back but for a reason: a slot that meets no appointment  *)
(* of today is offered unless some break row has time of it, be it the row  *)
(* of another day or one that is disabled.                                  *)
FreeSlotsAreOffered ==
    \A w \in Busy : LET r == request[w] IN
        \A e \in time_entries_for(biz.entries, r.choice, r.day) : Untouched(r, e) =>
            \A s \in SlotsOf(r, e) :
                /\ \A a \in Seen(r) :
                       Blocks(a, r.choice) => ~Overlap(a, Placed(s, r.asked))
                /\ \A k \in biz.breaks : ~Overlap(k, s)
                => Offered(r, s)

(* query_engine.rb:16: "Main method for getting all Available TimeBlock(s) *)
(* for a given date": a block that is offered is not taken already.        *)
OfferedIsFree ==
    \A w \in Busy : LET r == request[w] IN
        \A b \in r.offered, a \in Seen(r) :
            a.provider = b.provider /\ a.office = r.choice.office => ~Overlap(a, b)

(* query_engine.rb:16, "all Available TimeBlock(s) for a given date", and   *)
(* break_detector.rb:29-30, "Query for our BreakShift candidates within the *)
(* current TimeBlock begin/end range": what is offered for a date is        *)
(* outside of the break of that day, if there is one and it cannot float.   *)
BreaksOfTheDayAreKept ==
    \A w \in Busy : LET r == request[w] IN
        \A b \in r.offered, k \in BreaksOf(r) :
            BreaksOf(r) = {k} /\ k.enabled /\ k.float = 0 => ~Shares(Hours(b), k)
===============================================================================
