---------------------------- MODULE CalendarProofs ----------------------------
(***************************************************************************)
(* What module Calendar promises of every business, number of workers,     *)
(* days and bookings: its properties, from one inductive invariant, which  *)
(* remembers of every list and every appointment which call of the query   *)
(* engine they come from.                                                  *)
(***************************************************************************)
EXTENDS Calendar, EngineProofs

(* The lists the query engine may answer, when the rows with these ids are  *)
(* stored.                                                                  *)
Lists(business, rows, choice, ids, asked, day) ==
    available_on(choice, business, {a \in rows : a.id \in ids}, asked, day)

RequestsMade ==
    \A w \in Workers : LET r == request[w] IN
        r.busy => /\ r.choice \in biz.choices /\ r.seen \subseteq Stored
                  /\ r.asked <= today /\ r.asked <= r.day
                  /\ r.offered \in Lists(biz, appointments, r.choice, r.seen, r.asked, r.day)

IdsGiven ==
    /\ IsFiniteSet(appointments) /\ Cardinality(appointments) <= MaxBooked
    /\ Stored \subseteq 1..Cardinality(appointments)

MadeFrom(a, b, choice) ==
    /\ a.provider = b.provider /\ a.office = choice.office
    /\ a.start = b.start /\ a.end = b.end
AppointmentsMade ==
    \A a \in appointments :
        /\ a.seen \subseteq Stored
        /\ \E choice \in biz.choices, day \in Days :
               /\ a.asked <= day
               /\ \E blocks \in Lists(biz, appointments, choice, a.seen, a.asked, day) :
                      \E b \in blocks : MadeFrom(a, b, choice)

CalendarInv == TypeOK /\ RequestsMade /\ IdsGiven /\ AppointmentsMade

LEMMA DaysNat == Days \subseteq Nat /\ \A x, y \in Days : Later(x, y) \in Days /\ y <= Later(x, y)
  BY CalendarAssumption DEF Days, Later

LEMMA CallAsked ==
    ASSUME biz \in Businesses, NEW choice \in biz.choices, NEW asked \in Days, NEW day \in Days
    PROVE  Asked(choice, biz, asked, day)
<1>1. biz.entries \subseteq TimeEntry /\ IsFiniteSet(biz.entries) /\ biz.choices \subseteq Choice
  BY CalendarAssumption
<1>. QED BY <1>1, DaysNat DEF Asked

LEMMA ListType ==
    ASSUME biz \in Businesses, NEW choice \in biz.choices, NEW asked \in Days, NEW day \in Days,
           NEW seen, NEW blocks \in available_on(choice, biz, seen, asked, day)
    PROVE  blocks \subseteq Block
<1>. SUFFICES ASSUME NEW b \in blocks PROVE b \in Block
  OBVIOUS
<1>0. Asked(choice, biz, asked, day)
  BY CallAsked
<1>1. /\ b.start \in Nat /\ b.end = b.start + choice.duration
      /\ b.entry \in TimeEntry
      /\ b \in [start : Int, end : Int, entry : TimeEntry,
                provider : {service_provider(b.entry, choice)}]
  BY <1>0, BlockShape
<1>2. service_provider(b.entry, choice) \in Providers
  <2>1. choice.provider \in Providers \cup {Deferred} /\ b.entry.provider \in Providers \cup {NULL}
    BY <1>0, <1>1 DEF Asked, Choice, TimeEntry
  <2>. QED BY <2>1, ProviderAssumption DEF service_provider
<1>3. choice.duration \in Nat
  BY <1>0 DEF Asked, Choice
<1>. QED BY <1>1, <1>2, <1>3 DEF Block

LEMMA BusyType ==
    ASSUME TypeOK, NEW w \in Workers, request[w].busy
    PROVE  request[w] \in Request
BY DEF TypeOK, Idle

LEMMA InitCalendar == Init => CalendarInv
<1>. SUFFICES ASSUME Init PROVE CalendarInv
  OBVIOUS
<1>1. TypeOK
  BY CalendarAssumption DEF Init, TypeOK, Days
<1>2. RequestsMade
  BY DEF Init, RequestsMade, Idle
<1>3. IdsGiven
  BY FS_EmptySet, CalendarAssumption DEF Init, IdsGiven, Stored
<1>4. AppointmentsMade
  BY DEF Init, AppointmentsMade
<1>. QED BY <1>1, <1>2, <1>3, <1>4 DEF CalendarInv

LEMMA AskStep ==
    ASSUME CalendarInv, NEW w \in Workers, Ask(w)
    PROVE  CalendarInv'
<1>0. CASE UNCHANGED vars
  BY <1>0 DEF CalendarInv, TypeOK, RequestsMade, IdsGiven, AppointmentsMade, Lists, Stored, vars
<1>. SUFFICES ASSUME ~UNCHANGED vars PROVE CalendarInv'
  BY <1>0
<1>1. PICK choice \in biz.choices, date \in Days :
         \E blocks \in available_on(choice, biz, appointments, today, set_base_time(date)) :
               request' = [request EXCEPT ![w] =
                   [busy |-> TRUE, choice |-> choice, asked |-> today,
                    day |-> set_base_time(date), seen |-> Stored, offered |-> blocks]]
  BY DEF Ask, vars
<1>. DEFINE day == set_base_time(date)
<1>2. PICK blocks \in available_on(choice, biz, appointments, today, day) :
               request' = [request EXCEPT ![w] =
                   [busy |-> TRUE, choice |-> choice, asked |-> today,
                    day |-> day, seen |-> Stored, offered |-> blocks]]
  BY <1>1
<1>3. UNCHANGED <<biz, today, appointments>>
  BY DEF Ask
<1>4. TypeOK /\ biz \in Businesses /\ today \in Days /\ choice \in Choice
  BY CalendarAssumption DEF CalendarInv, TypeOK
<1>5. day \in Days /\ today <= day
  BY <1>4, DaysNat DEF set_base_time
<1>. HIDE DEF day
<1>6. blocks \subseteq Block
  BY <1>4, <1>5, ListType
<1>7. Stored \subseteq Ids
  BY <1>4 DEF TypeOK, Stored, Appointment
<1>8. TypeOK'
  BY <1>2, <1>3, <1>4, <1>5, <1>6, <1>7 DEF TypeOK, Request
<1>9. {a \in appointments : a.id \in Stored} = appointments
  BY DEF Stored
<1>10. RequestsMade'
  <2>. SUFFICES ASSUME NEW v \in Workers, request'[v].busy
                PROVE  LET r == request'[v] IN
                       /\ r.choice \in biz.choices /\ r.seen \subseteq Stored
                       /\ r.asked <= today /\ r.asked <= r.day
                       /\ r.offered \in Lists(biz, appointments, r.choice, r.seen, r.asked, r.day)
    BY <1>3 DEF RequestsMade, Lists, Stored
  <2>1. CASE v = w
    <3>1. request'[v] = [busy |-> TRUE, choice |-> choice, asked |-> today,
                    day |-> day, seen |-> Stored, offered |-> blocks]
      BY <1>2, <1>4, <2>1 DEF TypeOK
    <3>2. today \in Nat
      BY <1>4, DaysNat
    <3>3. blocks \in Lists(biz, appointments, choice, Stored, today, day)
      BY <1>2, <1>9 DEF Lists
    <3>. QED BY <1>4, <1>5, <3>1, <3>2, <3>3
  <2>2. CASE v # w
    <3>1. request'[v] = request[v]
      BY <1>2, <1>4, <2>2 DEF TypeOK
    <3>. QED BY <3>1 DEF CalendarInv, RequestsMade
  <2>. QED BY <2>1, <2>2
<1>11. IdsGiven' /\ AppointmentsMade'
  BY <1>3 DEF CalendarInv, IdsGiven, AppointmentsMade, Stored, Lists
<1>. QED BY <1>8, <1>10, <1>11 DEF CalendarInv

LEMMA LeaveStep ==
    ASSUME CalendarInv, NEW w \in Workers, Leave(w)
    PROVE  CalendarInv'
<1>1. /\ request' = [request EXCEPT ![w] = Idle]
      /\ UNCHANGED <<biz, today, appointments>> /\ TypeOK
  BY DEF Leave, CalendarInv
<1>2. TypeOK'
  BY <1>1 DEF TypeOK
<1>3. RequestsMade'
  BY <1>1 DEF CalendarInv, RequestsMade, Stored, Lists, Idle, TypeOK
<1>4. IdsGiven' /\ AppointmentsMade'
  BY <1>1 DEF CalendarInv, IdsGiven, AppointmentsMade, Stored, Lists
<1>. QED BY <1>2, <1>3, <1>4 DEF CalendarInv

LEMMA NextDayStep ==
    ASSUME CalendarInv, NextDay
    PROVE  CalendarInv'
<1>1. /\ today' = today + 1 /\ today < LastDay /\ TypeOK
      /\ UNCHANGED <<biz, appointments, request>>
  BY DEF NextDay, CalendarInv
<1>2. TypeOK' /\ today \in Nat
  BY <1>1, CalendarAssumption DEF TypeOK, Days
<1>3. RequestsMade'
  <2>. SUFFICES ASSUME NEW v \in Workers, request[v].busy
                PROVE  request[v].asked <= today + 1
    BY <1>1 DEF CalendarInv, RequestsMade, Stored, Lists
  <2>1. request[v].asked \in Nat /\ request[v].asked <= today
    BY <1>1, BusyType, DaysNat DEF CalendarInv, RequestsMade, Request
  <2>. QED BY <1>2, <2>1
<1>4. IdsGiven' /\ AppointmentsMade'
  BY <1>1 DEF CalendarInv, IdsGiven, AppointmentsMade, Stored, Lists
<1>. QED BY <1>2, <1>3, <1>4 DEF CalendarInv

LEMMA BookStep ==
    ASSUME CalendarInv, NEW w \in Workers, Book(w)
    PROVE  CalendarInv'
<1>. DEFINE r == request[w]
            n == Cardinality(appointments) + 1
            row(b) == [id |-> n, provider |-> b.provider, office |-> r.choice.office,
                       start |-> b.start, end |-> b.end, asked |-> r.asked, seen |-> r.seen]
<1>1. /\ r.busy /\ Cardinality(appointments) < MaxBooked
      /\ request' = [request EXCEPT ![w] = Idle] /\ UNCHANGED <<biz, today>>
      /\ TypeOK /\ r \in Request
  BY BusyType DEF Book, CalendarInv
<1>2. PICK b \in r.offered : appointments' = appointments \cup {row(b)}
  BY DEF Book
<1>3. /\ r.choice \in biz.choices /\ r.seen \subseteq Stored /\ r.asked <= r.day
      /\ r.offered \in Lists(biz, appointments, r.choice, r.seen, r.asked, r.day)
      /\ r.asked \in Days /\ r.day \in Days /\ r.seen \subseteq Ids
      /\ r.offered \subseteq Block /\ r.choice \in Choice
  BY <1>1 DEF CalendarInv, RequestsMade, Request
<1>4. /\ IsFiniteSet(appointments) /\ Cardinality(appointments) \in Nat
      /\ Stored \subseteq 1..Cardinality(appointments) /\ n \in Ids /\ n \notin Stored
  BY <1>1, FS_CardinalityType, CalendarAssumption DEF CalendarInv, IdsGiven, Ids
<1>. HIDE DEF r
<1>. DEFINE new == row(b)
<1>5. /\ new.id = n /\ new.provider = b.provider /\ new.office = r.choice.office
      /\ new.start = b.start /\ new.end = b.end /\ new.asked = r.asked /\ new.seen = r.seen
  OBVIOUS
<1>6. new \in Appointment
  BY <1>2, <1>3, <1>4 DEF Appointment, Block, Choice
<1>. HIDE DEF new
<1>7. appointments' = appointments \cup {new} /\ new \notin appointments
  BY <1>2, <1>4, <1>5 DEF new, Stored
<1>8. TypeOK'
  BY <1>1, <1>6, <1>7 DEF TypeOK
<1>9. Stored' = Stored \cup {n}
  BY <1>5, <1>7 DEF Stored
<1>10. \A ids, choice, asked, day : ids \subseteq Stored =>
           Lists(biz, appointments', choice, ids, asked, day)
               = Lists(biz, appointments, choice, ids, asked, day)
  <2>. SUFFICES ASSUME NEW ids, ids \subseteq Stored
                PROVE  {a \in appointments' : a.id \in ids} = {a \in appointments : a.id \in ids}
    BY <1>1 DEF Lists
  <2>. QED BY <1>4, <1>5, <1>7
<1>11. IdsGiven'
  <2>1. IsFiniteSet(appointments') /\ Cardinality(appointments') = n
    BY <1>4, <1>7, FS_AddElement
  <2>2. n <= MaxBooked /\ Stored' \subseteq 1..n
    <3>1. 1..Cardinality(appointments) \subseteq 1..n /\ n \in 1..n
      BY <1>4
    <3>2. n <= MaxBooked
      BY <1>4 DEF Ids
    <3>. HIDE DEF n
    <3>. QED BY <1>4, <1>9, <3>1, <3>2
  <2>. HIDE DEF n
  <2>. QED BY <2>1, <2>2 DEF IdsGiven
<1>12. RequestsMade'
  <2>. SUFFICES ASSUME NEW v \in Workers, request'[v].busy
                PROVE  LET q == request'[v] IN
                       /\ q.choice \in biz.choices /\ q.seen \subseteq Stored
                       /\ q.asked <= today /\ q.asked <= q.day
                       /\ q.offered \in Lists(biz, appointments', q.choice, q.seen, q.asked, q.day)
    BY <1>1, <1>9 DEF RequestsMade
  <2>1. v # w /\ request'[v] = request[v]
    BY <1>1 DEF TypeOK, Idle
  <2>2. LET q == request[v] IN
             /\ q.choice \in biz.choices /\ q.seen \subseteq Stored
             /\ q.asked <= today /\ q.asked <= q.day
             /\ q.offered \in Lists(biz, appointments, q.choice, q.seen, q.asked, q.day)
    BY <2>1 DEF CalendarInv, RequestsMade
  <2>. QED BY <1>10, <2>1, <2>2
<1>13. AppointmentsMade'
  <2>. SUFFICES ASSUME NEW a \in appointments'
                PROVE  /\ a.seen \subseteq Stored
                       /\ \E choice \in biz.choices, day \in Days :
                            /\ a.asked <= day
                            /\ \E blocks \in Lists(biz, appointments', choice, a.seen, a.asked, day) :
                                   \E k \in blocks : MadeFrom(a, k, choice)
    BY <1>1, <1>9 DEF AppointmentsMade
  <2>1. CASE a \in appointments
    <3>1. a.seen \subseteq Stored
      BY <2>1 DEF CalendarInv, AppointmentsMade
    <3>2. PICK choice \in biz.choices, day \in Days :
              /\ a.asked <= day
              /\ \E blocks \in Lists(biz, appointments, choice, a.seen, a.asked, day) :
                      \E k \in blocks : MadeFrom(a, k, choice)
      BY <2>1 DEF CalendarInv, AppointmentsMade
    <3>. QED BY <1>10, <3>1, <3>2
  <2>2. CASE a = new
    <3>1. MadeFrom(a, b, r.choice)
      BY <1>5, <2>2 DEF MadeFrom
    <3>2. r.offered \in Lists(biz, appointments', r.choice, a.seen, a.asked, r.day)
      BY <1>3, <1>5, <1>10, <2>2
    <3>. QED BY <1>2, <1>3, <1>5, <2>2, <3>1, <3>2
  <2>. QED BY <1>7, <2>1, <2>2
<1>. QED BY <1>8, <1>11, <1>12, <1>13 DEF CalendarInv

(* Every list shown, and every appointment stored, is the query engine's    *)
(* answer to a call made on an earlier day with the appointments stored     *)
(* then, whatever was stored between the list and the booking.              *)
THEOREM CalendarInvariant == Spec => []CalendarInv
<1>1. CalendarInv /\ UNCHANGED vars => CalendarInv'
  BY DEF CalendarInv, TypeOK, RequestsMade, IdsGiven, AppointmentsMade, Lists, Stored, vars
<1>2. CalendarInv /\ [Next]_vars => CalendarInv'
  BY <1>1, AskStep, BookStep, LeaveStep, NextDayStep DEF Next
<1>. QED BY InitCalendar, <1>2, PTL DEF Spec

(* Lists and appointments have their types: providers in particular, for    *)
(* whoever takes any provider gets one.                                     *)
THEOREM CalendarTypes == Spec => []TypeOK
<1>1. CalendarInv => TypeOK
  BY DEF CalendarInv
<1>. QED BY <1>1, CalendarInvariant, PTL

-------------------------------------------------------------------------------
(* The hours of a block: the time of day it has, for it lies in one day.    *)
LEMMA BlockDay ==
    ASSUME NEW b, NEW day \in Nat, b.start \in Nat, b.end \in Int, b.start < b.end,
           day * Day <= b.start, b.end <= day * Day + Day
    PROVE  /\ DayOf(b) = day
           /\ \A t \in b.start..b.end - 1 : t % Day = t - day * Day
<1>1. ASSUME NEW t \in b.start..b.end - 1
      PROVE  t % Day = t - day * Day /\ t \div Day = day
  <2>. DEFINE x == t - day * Day
  <2>1. x \in 0..Day - 1 /\ t = day * Day + x /\ day \in Int
    BY DayPositive
  <2>. HIDE DEF x
  <2>2. (day * Day + x) % Day = x /\ (day * Day + x) \div Day = day
    BY <2>1, DayQuotient, Zenon
  <2>. QED BY <2>1, <2>2 DEF x
<1>2. b.start \in b.start..b.end - 1
  OBVIOUS
<1>. QED BY <1>1, <1>2 DEF DayOf

(* What the list of a busy request is.                                      *)
LEMMA ListShape ==
    ASSUME CalendarInv, NEW w \in Busy, NEW b \in request[w].offered
    PROVE  LET r == request[w]
               T == generate_time_slots(r.choice, biz, Seen(r), r.asked, r.day)
           IN  /\ Asked(r.choice, biz, r.asked, r.day) /\ r.asked <= r.day
               /\ r.offered \in available_on(r.choice, biz, Seen(r), r.asked, r.day)
               /\ b.start \in Nat /\ b.end \in Nat /\ b.start < b.end /\ DayOf(b) = r.day
               /\ \A t \in b.start..b.end - 1 :
                      /\ t % Day = t - r.day * Day
                      /\ Slotted(t - (r.day - r.asked) * Day, T)
<1>. DEFINE r == request[w]
<1>1. /\ r \in Request /\ r.choice \in biz.choices /\ r.asked <= r.day
      /\ r.offered \in available_on(r.choice, biz, Seen(r), r.asked, r.day)
      /\ biz \in Businesses
  BY BusyType DEF CalendarInv, RequestsMade, Lists, Seen, Busy, TypeOK
<1>2. r.asked \in Days /\ r.day \in Days /\ b \in r.offered
  BY <1>1 DEF Request
<1>. HIDE DEF r
<1>3. Asked(r.choice, biz, r.asked, r.day)
  BY <1>1, <1>2, CallAsked
<1>4. /\ b.start \in Nat /\ b.end = b.start + r.choice.duration
      /\ r.day * Day <= b.start /\ b.end <= r.day * Day + Day
      /\ \A t \in b.start..b.end - 1 :
             Slotted(t - (r.day - r.asked) * Day,
                     generate_time_slots(r.choice, biz, Seen(r), r.asked, r.day))
  BY <1>1, <1>2, <1>3, BlockShape
<1>5. r.choice.duration \in Nat \ {0} /\ r.day \in Nat
  BY <1>3 DEF Asked, Choice
<1>6. b.end \in Nat /\ b.start < b.end
  BY <1>4, <1>5
<1>7. DayOf(b) = r.day /\ \A t \in b.start..b.end - 1 : t % Day = t - r.day * Day
  BY <1>4, <1>5, <1>6, BlockDay
<1>. QED BY <1>1, <1>3, <1>4, <1>6, <1>7 DEF r

(* Every minute of an offered block is in the hours of an entry that        *)
(* concerns the customer, on the day asked for: merging free slots into     *)
(* windows and cutting these into blocks never leaves the hours.            *)
THEOREM HoursKept == Spec => []WithinHours
<1>1. ASSUME CalendarInv, NEW w \in Busy, NEW b \in request[w].offered
      PROVE  LET r == request[w] IN
            /\ DayOf(b) >= r.asked
            /\ \A t \in b.start..b.end - 1 :
                   \E e \in time_entries_for(biz.entries, r.choice, DayOf(b)) :
                       e.start <= t % Day /\ t % Day < e.end
  <2>. DEFINE r == request[w]
              T == generate_time_slots(r.choice, biz, Seen(r), r.asked, r.day)
  <2>1. /\ Asked(r.choice, biz, r.asked, r.day) /\ r.asked <= r.day
        /\ b.start \in Nat /\ b.end \in Nat /\ DayOf(b) = r.day
        /\ \A t \in b.start..b.end - 1 : t % Day = t - r.day * Day /\ Slotted(t - (r.day - r.asked) * Day, T)
    BY <1>1, ListShape
  <2>2. \A s \in T : /\ s.entry \in time_entries_for(biz.entries, r.choice, r.day)
                     /\ s.entry \in TimeEntry /\ s.start \in Int /\ s.end \in Int
                     /\ r.asked * Day + s.entry.start <= s.start
                     /\ s.end <= r.asked * Day + s.entry.end
    BY <2>1, AllSlots DEF SlotsOK
  <2>. HIDE DEF T, r
  <2>3. r.asked \in Nat /\ r.day \in Nat
    BY <2>1 DEF Asked
  <2>4. ASSUME NEW t \in b.start..b.end - 1
        PROVE  \E e \in time_entries_for(biz.entries, r.choice, DayOf(b)) :
                       e.start <= t % Day /\ t % Day < e.end
    <3>. DEFINE t0 == t - (r.day - r.asked) * Day
    <3>1. PICK s \in T : s.start <= t0 /\ t0 < s.end
      BY <2>1 DEF Slotted
    <3>2. s.entry.start <= t - r.day * Day /\ t - r.day * Day < s.entry.end
      <4>1. /\ s.entry.start \in Nat /\ s.entry.end \in Nat /\ s.start \in Int /\ s.end \in Int
            /\ t \in Int /\ r.asked * Day \in Int /\ r.day * Day \in Int
            /\ t0 = t - r.day * Day + r.asked * Day
        BY <2>1, <2>2, <2>3, DayPositive, EntryTimes
      <4>. HIDE DEF t0
      <4>2. t0 \in Int
        BY <4>1
      <4>. QED BY <2>2, <3>1, <4>1, <4>2
    <3>. QED BY <2>1, <2>2, <3>2
  <2>5. DayOf(b) >= r.asked
    BY <2>1, <2>3
  <2>. QED BY <2>4, <2>5 DEF r
<1>2. CalendarInv => WithinHours
  BY <1>1 DEF WithinHours
<1>. QED BY <1>2, CalendarInvariant, PTL

(* What an appointment is: a block of a list made for its day.              *)
LEMMA AppointmentShape ==
    ASSUME CalendarInv, NEW b \in appointments
    PROVE  \E choice \in biz.choices, day \in Days :
               /\ Asked(choice, biz, b.asked, day)
               /\ b.start \in Nat /\ b.end \in Nat /\ b.start < b.end
               /\ day * Day <= b.start /\ b.end <= day * Day + Day /\ DayOf(b) = day
               /\ \A t \in b.start..b.end - 1 :
                      Slotted(t - (day - b.asked) * Day,
                              generate_time_slots(choice, biz, Seen(b), b.asked, day))
               /\ b.office = choice.office
               /\ choice.provider # Deferred => b.provider = choice.provider
<1>1. PICK choice \in biz.choices, day \in Days :
          \E blocks \in Lists(biz, appointments, choice, b.seen, b.asked, day) :
              \E k \in blocks : MadeFrom(b, k, choice)
  BY DEF CalendarInv, AppointmentsMade
<1>2. PICK blocks \in available_on(choice, biz, Seen(b), b.asked, day) :
          \E k \in blocks : MadeFrom(b, k, choice)
  BY <1>1 DEF Lists, Seen
<1>3. PICK k \in blocks : MadeFrom(b, k, choice)
  BY <1>2
<1>4. Asked(choice, biz, b.asked, day)
  BY CallAsked DEF CalendarInv, TypeOK, Appointment
<1>5. /\ k.start \in Nat /\ k.end = k.start + choice.duration
      /\ day * Day <= k.start /\ k.end <= day * Day + Day
      /\ \A t \in k.start..k.end - 1 :
             Slotted(t - (day - b.asked) * Day,
                     generate_time_slots(choice, biz, Seen(b), b.asked, day))
      /\ k.entry \in TimeEntry /\ Concerns(k.entry, choice)
      /\ k.provider = service_provider(k.entry, choice)
  BY <1>4, BlockShape
<1>6. b.start = k.start /\ b.end = k.end /\ b.provider = k.provider /\ b.office = choice.office
  BY <1>3 DEF MadeFrom
<1>7. choice.duration \in Nat \ {0} /\ day \in Nat
  BY <1>4 DEF Asked, Choice
<1>8. b.start \in Nat /\ b.end \in Nat /\ b.start < b.end
  BY <1>5, <1>6, <1>7
<1>9. DayOf(b) = day
  BY <1>5, <1>6, <1>7, <1>8, BlockDay
<1>10. ASSUME choice.provider # Deferred PROVE b.provider = choice.provider
  <2>1. k.entry.provider \in {choice.provider, NULL}
    BY <1>5, <1>10 DEF Concerns
  <2>. QED BY <1>5, <1>6, <1>10, <2>1 DEF service_provider
<1>. QED BY <1>4, <1>5, <1>6, <1>8, <1>9, <1>10

(* Nobody is booked over an appointment stored before the list was made, on *)
(* the day it was made for today, but where the appointment lies over the   *)
(* whole of an entry: the detectors that extract_available_slots asks find  *)
(* all others, and merging and cutting keep out of what they found.         *)
THEOREM StoredIsRespected == Spec => []SeenIsRespected
<1>1. ASSUME CalendarInv, NEW a \in appointments, NEW b \in appointments,
             a.id \in b.seen, Overlap(a, b), a.provider = b.provider, a.office = b.office,
             DayOf(b) = b.asked
      PROVE  \E e \in biz.entries : /\ Covers(a, Placed(e, b.asked))
                                    /\ Overlap(b, Placed(e, b.asked))
  <2>1. PICK choice \in biz.choices, day \in Days :
               /\ Asked(choice, biz, b.asked, day)
               /\ b.start \in Nat /\ b.end \in Nat /\ b.start < b.end
               /\ day * Day <= b.start /\ b.end <= day * Day + Day /\ DayOf(b) = day
               /\ \A t \in b.start..b.end - 1 :
                      Slotted(t - (day - b.asked) * Day,
                              generate_time_slots(choice, biz, Seen(b), b.asked, day))
               /\ b.office = choice.office
               /\ choice.provider # Deferred => b.provider = choice.provider
    BY <1>1, AppointmentShape
  <2>2. PICK day2 \in Days :
               /\ a.start \in Nat /\ a.end \in Nat /\ a.start < a.end
               /\ day2 * Day <= a.start /\ a.end <= day2 * Day + Day
    BY <1>1, AppointmentShape
  <2>. DEFINE T == generate_time_slots(choice, biz, Seen(b), day, day)
              t == Later(a.start, b.start)
  <2>3. /\ day = b.asked /\ day \in Nat /\ day2 \in Nat
        /\ day * Day \in Nat /\ day2 * Day \in Nat /\ Day \in Nat \ {0}
    BY <1>1, <2>1, DaysNat, DayPositive
  <2>4. /\ t \in Int /\ t \in b.start..b.end - 1
        /\ a.start <= t /\ t < a.end /\ b.start <= t /\ t < b.end
    BY <1>1, <2>1, <2>2 DEF Later, Overlap
  <2>5. Slotted(t, T)
    <3>. HIDE DEF t
    <3>1. t - (day - b.asked) * Day = t
      BY <2>3, <2>4
    <3>2. Slotted(t - (day - b.asked) * Day, T)
      BY <2>1, <2>3, <2>4
    <3>. QED BY <3>1, <3>2
  <2>. HIDE DEF t
  <2>6. PICK s \in T : s.start <= t /\ t < s.end
    BY <2>5 DEF Slotted
  <2>. DEFINE e == s.entry
  <2>7. /\ s.start \in Int /\ s.end \in Int
        /\ e \in biz.entries /\ e \in TimeEntry
        /\ s \in extract_available_slots(e, choice, biz, Seen(b), day)
        /\ day * Day + e.start <= s.start /\ s.end <= day * Day + e.end
    <3>. HIDE DEF T
    <3>1. /\ SlotsOK(T) /\ e \in time_entries_for(biz.entries, choice, day) /\ e \in TimeEntry
          /\ s \in extract_available_slots(e, choice, biz, Seen(b), day)
          /\ day * Day + e.start <= s.start /\ s.end <= day * Day + e.end
      BY <2>1, <2>3, AllSlots DEF T
    <3>. QED BY <3>1 DEF SlotsOK, time_entries_for
  <2>. HIDE DEF T, e
  <2>8. /\ e.start \in Nat /\ e.end \in Nat
        /\ Placed(e, day).start = day * Day + e.start
        /\ Placed(e, day).end = day * Day + e.end
    BY <2>3, <2>7, EntryTimes
  <2>9. a \in Seen(b) /\ Blocks(a, choice) /\ choice.duration \in Nat \ {0}
    BY <1>1, <2>1 DEF Seen, Blocks, Asked, Choice
  <2>10. Within(a.start, Span(Midnight(day - 1), Midnight(day + 1)))
    <3>1. Midnight(day - 1) = day * Day - Day /\ Midnight(day + 1) = day * Day + Day
      BY <2>3 DEF Midnight, At
    <3>2. ~(day2 < day)
      <4>1. ASSUME day2 < day PROVE (day2 + 1) * Day <= day * Day
        BY <2>3, <4>1, Multiply
      <4>2. (day2 + 1) * Day = day2 * Day + Day
        BY <2>3
      <4>. QED BY <2>1, <2>2, <2>3, <2>4, <4>1, <4>2
    <3>3. day * Day <= day2 * Day
      BY <2>3, <3>2, Multiply
    <3>. QED BY <2>1, <2>2, <2>3, <2>4, <3>1, <3>3 DEF Within, Span
  <2>11. Overlap(s, a)
    BY <2>2, <2>4, <2>6, <2>7 DEF Overlap
  <2>12. Covers(a, Placed(e, day))
    BY <2>2, <2>3, <2>7, <2>8, <2>9, <2>10, <2>11, FreeSlotsMeetNothing
  <2>13. Overlap(b, Placed(e, day))
    <3>1. Placed(e, day).start <= t /\ t < Placed(e, day).end
      BY <2>3, <2>4, <2>6, <2>7, <2>8
    <3>2. Placed(e, day).start \in Int /\ Placed(e, day).end \in Int
      BY <2>3, <2>8
    <3>. QED BY <2>1, <2>4, <3>1, <3>2 DEF Overlap
  <2>. QED BY <2>3, <2>7, <2>12, <2>13
<1>2. CalendarInv => SeenIsRespected
  BY <1>1 DEF SeenIsRespected
<1>. QED BY <1>2, CalendarInvariant, PTL

(* A break an entry holds wholly is one of its collisions, or can float, if *)
(* it lies within all others of the weekday the entry has today.            *)
LEMMA BreakHeld ==
    ASSUME NEW e \in TimeEntry, NEW k, k.start \in Nat, k.end \in Nat, k.start <= k.end,
           e.start <= k.start, k.end <= e.end, NEW choice, Concerns(k, choice),
           NEW breaks, k \in breaks, NEW apts, NEW day \in Nat,
           k \in all(e, choice, breaks, day),
           \A b \in all(e, choice, breaks, day) :
               /\ b.start \in Nat /\ b.end \in Nat
               /\ b.start <= k.start /\ k.end <= b.end,
           ~can_float(k, apts, day)
    PROVE  k \in BreakDetector(e, choice, breaks, apts, day)
<1>. DEFINE at == Placed(k, day)
            rows == all(e, choice, breaks, day)
<1>1. /\ day * Day \in Nat /\ Placed(e, day).start = day * Day + e.start
      /\ Placed(e, day).end = day * Day + e.end /\ e.start \in Nat /\ e.end \in Nat
  BY EntryTimes
<1>2. /\ at = Span(day * Day + k.start, day * Day + k.end)
      /\ at.start = day * Day + k.start /\ at.end = day * Day + k.end
  BY DEF Placed, At, Span
<1>3. Later(Placed(e, day).start, at.start) = at.start
  BY <1>1, <1>2 DEF Later
<1>4. Earlier(Placed(e, day).end, at.end) = at.end
  BY <1>1, <1>2 DEF Earlier
<1>5. Span(at.start, at.end) = at /\ at.start <= at.end
  BY <1>1, <1>2 DEF Span
<1>6. ASSUME NEW b \in rows
      PROVE  Placed(b, day).start <= at.start /\ at.end <= Placed(b, day).end
  <2>1. Placed(b, day).start = day * Day + b.start /\ Placed(b, day).end = day * Day + b.end
    BY DEF Placed, At, Span
  <2>2. b.start \in Nat /\ b.end \in Nat /\ b.start <= k.start /\ k.end <= b.end
    OBVIOUS
  <2>. QED BY <1>1, <1>2, <2>1, <2>2
<1>7. k \in rows
  OBVIOUS
<1>. HIDE DEF at, rows
<1>8. at \in intersections(e, rows, day)
  <2>1. CASE Pairwise
    <3>1. at \in Intersections(Placed(e, day), at)
      BY <1>3, <1>4, <1>5 DEF Intersections
    <3>. QED BY <1>7, <2>1, <3>1 DEF intersections, at
  <2>2. CASE ~Pairwise
    <3>. DEFINE ranges == {Placed(e, day)} \cup {Placed(b, day) : b \in rows}
    <3>1. at \in ranges
      BY <1>7 DEF at
    <3>2. \A r \in ranges : r.start <= at.start /\ at.end <= r.end
      BY <1>1, <1>2, <1>6
    <3>. HIDE DEF ranges
    <3>3. at \in Common(ranges)
      BY <1>5, <3>1, <3>2 DEF Common
    <3>. QED BY <2>2, <3>3 DEF intersections, ranges
  <2>. QED BY <2>1, <2>2
<1>9. Fits(at, at)
  <2>1. \A x \in Int : HourOf(x) \in Int /\ MinuteOf(x) \in Int
    <3>1. Hour \in Nat \ {0} /\ Day \in Nat \ {0}
      BY HourAssumption, DayPositive
    <3>. QED BY <3>1 DEF HourOf, MinuteOf
  <2>2. at.start \in Int /\ at.end \in Int
    BY <1>1, <1>2
  <2>. QED BY <2>1, <2>2 DEF Fits
<1>10. k \in matches(e, choice, breaks, day)
  BY <1>8, <1>9 DEF matches, at, rows
<1>. QED BY <1>10 DEF BreakDetector

(* In a list for today, the time of the innermost break of today is sold    *)
(* only if the break can be taken on one side of it, as far as can_float?   *)
(* can see: of all its provider has there, only what begins before that     *)
(* time and ends after it may be left.                                      *)
THEOREM BreaksKept == Spec => []BreaksAreKept
<1>1. ASSUME CalendarInv, NEW w \in Busy, NEW b \in request[w].offered,
             NEW k \in biz.breaks, InBreak(request[w], b, k)
      PROVE  LET r == request[w] IN
               /\ k.float > 0
               /\ \E side \in Sides(k, r.asked) :
                      \A a \in Meeting(r, k, side) : Covers(a, side)
  <2>. DEFINE r == request[w]
              T == generate_time_slots(r.choice, biz, Seen(r), r.asked, r.day)
              from == b.start - r.day * Day
              at == Placed(k, r.asked)
  <2>1. /\ Asked(r.choice, biz, r.asked, r.day) /\ r.asked <= r.day
        /\ b.start \in Nat /\ b.end \in Nat /\ b.start < b.end
        /\ \A t \in b.start..b.end - 1 : t % Day = t - r.day * Day
        /\ \A t \in b.start..b.end - 1 : Slotted(t - (r.day - r.asked) * Day, T)
    BY <1>1, ListShape
  <2>2. /\ SlotsOK(T)
        /\ \A s \in T : /\ s.entry \in time_entries_for(biz.entries, r.choice, r.day)
                        /\ s.entry \in TimeEntry
                        /\ s \in extract_available_slots(s.entry, r.choice, biz, Seen(r), r.asked)
                        /\ r.asked * Day + s.entry.start <= s.start
                        /\ s.end <= r.asked * Day + s.entry.end
    BY <2>1, AllSlots
  <2>3. /\ Concerns(k, r.choice) /\ Shares(Hours(b), k)
        /\ \A e \in time_entries_for(biz.entries, r.choice, r.day) :
               Shares(e, k) => e.start <= k.start /\ k.end <= e.end
        /\ r.day % 7 = r.asked % 7 /\ r.day % 7 \in k.days
        /\ \A k2 \in biz.breaks : Concerns(k2, r.choice) /\ r.day % 7 \in k2.days
                                     => k2.start <= k.start /\ k.end <= k2.end
    BY <1>1 DEF InBreak, BreaksOf
  <2>. HIDE DEF T, r
  <2>4. r.asked \in Nat /\ r.day \in Nat /\ r.asked * Day \in Nat /\ r.day * Day \in Nat
    BY <2>1, DayPositive DEF Asked
  <2>5. k.start \in Nat /\ k.end \in Nat /\ k.float \in Nat
    <3>1. k \in BreakShift
      BY <1>1, CalendarAssumption DEF CalendarInv, TypeOK
    <3>. QED BY <3>1, DayPositive DEF BreakShift, Times
  <2>6. Hours(b).start = from /\ Hours(b).end = from + (b.end - b.start)
    <3>1. b.start \in b.start..b.end - 1
      BY <2>1
    <3>. QED BY <2>1, <3>1 DEF Hours, Span
  <2>7. PICK u \in Hours(b).start..Hours(b).end - 1 : k.start <= u /\ u < k.end
    BY <2>3 DEF Shares
  <2>7a. u \in Int /\ r.day * Day + u \in b.start..b.end - 1
    BY <2>1, <2>4, <2>6
  <2>. HIDE DEF from
  <2>8. PICK s \in T : s.start <= r.asked * Day + u /\ r.asked * Day + u < s.end
    <3>1. (r.day * Day + u) - (r.day - r.asked) * Day = r.asked * Day + u
      BY <2>4, <2>7a, DayPositive
    <3>2. Slotted(r.asked * Day + u, T)
      BY <2>1, <2>7a, <3>1
    <3>. QED BY <3>2 DEF Slotted
  <2>. DEFINE e == s.entry
  <2>9. /\ e \in time_entries_for(biz.entries, r.choice, r.day) /\ e \in TimeEntry
        /\ s \in extract_available_slots(e, r.choice, biz, Seen(r), r.asked)
        /\ r.asked * Day + e.start <= s.start /\ s.end <= r.asked * Day + e.end
        /\ s.start \in Int /\ s.end \in Int
    BY <2>2 DEF SlotsOK
  <2>. HIDE DEF e
  <2>10. e.start \in Nat /\ e.end \in Nat
    BY <2>4, <2>9, EntryTimes
  <2>11. e.start <= k.start /\ k.end <= e.end
    <3>1. e.start <= u /\ u < e.end
      BY <2>4, <2>7a, <2>8, <2>9, <2>10
    <3>2. Shares(e, k)
      BY <2>7, <2>7a, <2>10, <3>1 DEF Shares
    <3>. QED BY <2>3, <2>9, <3>2
  <2>12. at.start = r.asked * Day + k.start /\ at.end = r.asked * Day + k.end
    BY DEF Placed, At, Span
  <2>13. Overlap(s, at)
    BY <2>4, <2>5, <2>7, <2>7a, <2>8, <2>9, <2>12 DEF Overlap
  <2>14. can_float(k, Seen(r), r.asked)
    <3>1. SUFFICES ASSUME ~can_float(k, Seen(r), r.asked) PROVE FALSE
      OBVIOUS
    <3>2. k.start <= k.end
      BY <2>5, <2>7
    <3>2a. Weekday(Placed(e, r.asked).start) = r.day % 7
      <4>1. Placed(e, r.asked).start = r.asked * Day + e.start
        BY DEF Placed, At, Span
      <4>2. e.start \in 0..Day - 1 /\ r.asked \in Int
        <5>1. e.end <= Day /\ e.start < k.end
          BY <2>5, <2>7, <2>9, <2>10, <2>11, DayPositive DEF TimeEntry, Times
        <5>. QED BY <2>4, <2>5, <2>10, <2>11, <5>1, DayPositive
      <4>3. (r.asked * Day + e.start) \div Day = r.asked
        BY <4>2, DayQuotient, Zenon
      <4>. QED BY <2>3, <4>1, <4>3 DEF Weekday
    <3>2b. k \in all(e, r.choice, biz.breaks, r.asked)
      BY <2>3, <3>2a DEF all
    <3>2c. ASSUME NEW k2 \in all(e, r.choice, biz.breaks, r.asked)
           PROVE  /\ k2.start \in Nat /\ k2.end \in Nat
                  /\ k2.start <= k.start /\ k.end <= k2.end
      <4>1. k2 \in biz.breaks /\ Concerns(k2, r.choice) /\ r.day % 7 \in k2.days
        BY <3>2a DEF all
      <4>2. k2 \in BreakShift
        BY <1>1, <4>1, CalendarAssumption DEF CalendarInv, TypeOK
      <4>. QED BY <2>3, <4>1, <4>2, DayPositive DEF BreakShift, Times
    <3>3. k \in BreakDetector(e, r.choice, biz.breaks, Seen(r), r.asked)
      BY <2>3, <2>4, <2>5, <2>9, <2>11, <3>1, <3>2, <3>2b, <3>2c, BreakHeld
    <3>4. at \in Collisions(e, r.choice, biz, Seen(r), r.asked)
      BY <3>3 DEF Collisions
    <3>. QED BY <2>9, <2>13, <3>4 DEF extract_available_slots
  <2>15. PICK side \in Sides(k, r.asked) :
             \A a \in Seen(r) : a.provider = k.provider =>
                 ~Within(a.start, side) /\ ~Within(a.end, side)
    BY <2>14 DEF can_float, Sides
  <2>16. side.start \in Int /\ side.end \in Int
    BY <2>4, <2>5, <2>12 DEF Sides, Span
  <2>17. ASSUME NEW a \in Meeting(r, k, side) PROVE Covers(a, side)
    <3>1. /\ a \in Seen(r) /\ a.provider = k.provider /\ Overlap(a, side)
          /\ a.start \in Int /\ a.end \in Int
      BY <1>1 DEF Meeting, Seen, CalendarInv, TypeOK, Appointment
    <3>. QED BY <2>15, <2>16, <3>1 DEF Overlap, Within, Covers
  <2>18. k.float > 0
    BY <2>14 DEF can_float
  <2>. QED BY <2>17, <2>18 DEF r
<1>2. CalendarInv => BreaksAreKept
  BY <1>1 DEF BreaksAreKept
<1>. QED BY <1>2, CalendarInvariant, PTL

(* Of an entry that no other touches, the free slots are cut from it alone, *)
(* and kept.                                                                *)
IsFree(s, r) ==
    /\ \A a \in Seen(r) : Blocks(a, r.choice) => ~Overlap(a, Placed(s, r.asked))
    /\ \A k \in biz.breaks : ~Overlap(k, s)
SlotOf(e, d, i) == Span(e.start + (i - 1) * d, e.start + i * d)

LEMMA FreeIsSlot ==
    ASSUME NEW r, NEW e, Asked(r.choice, biz, r.asked, r.day),
           e \in time_entries_for(biz.entries, r.choice, r.day), e \in TimeEntry,
           NEW d, d = r.choice.duration, NEW i \in 1..(e.end - e.start) \div d,
           IsFree(SlotOf(e, d, i), r),
           \A k \in biz.breaks : k.start \in Int /\ k.end \in Int
    PROVE  LET x == Slot(r.asked * Day + e.start + (i - 1) * d,
                         r.asked * Day + e.start + i * d, e)
           IN  /\ x \in generate_time_slots(r.choice, biz, Seen(r), r.asked, r.day)
               /\ i * d \in Int /\ (i - 1) * d = i * d - d /\ (i - 1) * d \in Nat
               /\ e.start + i * d <= e.end
<1>. DEFINE A == r.asked * Day
            x == Slot(A + e.start + (i - 1) * d, A + e.start + i * d, e)
            s == SlotOf(e, d, i)
            P == Placed(e, r.asked)
<1>0. /\ d \in Nat \ {0} /\ r.asked \in Nat /\ A \in Nat /\ e.start \in Nat /\ e.end \in Nat
      /\ P.start = A + e.start /\ P.end = A + e.end
  BY EntryTimes DEF Asked, Choice
<1>. HIDE DEF A
<1>1. /\ i * d \in Int /\ (i - 1) * d = i * d - d /\ (i - 1) * d \in Nat
      /\ i * d <= e.end - e.start
      /\ i - 1 \in 0..((e.end - e.start) \div d) - 1 /\ (i - 1) + 1 = i
  <2>. DEFINE n == e.end - e.start
  <2>1. n \in Int /\ n \div d \in Int
    BY <1>0, Divide
  <2>. HIDE DEF n
  <2>2. i \in 1..n \div d
    BY DEF n
  <2>3. i - 1 \in 0..(n \div d) - 1 /\ (i - 1) + 1 = i
    BY <2>1, <2>2
  <2>4. /\ (i - 1) * d \in Nat /\ ((i - 1) + 1) * d = (i - 1) * d + d
        /\ ((i - 1) + 1) * d <= n
    BY <1>0, <2>1, <2>3, PieceFits
  <2>5. i * d \in Int
    BY <1>0, <2>1, <2>2
  <2>. QED BY <1>0, <2>3, <2>4, <2>5 DEF n
<1>2. x \in time_slots_for(e, d, r.asked)
  <2>1. P.end - P.start = e.end - e.start
    BY <1>0
  <2>2. (e.end - e.start) \div d \in Int
    BY <1>0, Divide
  <2>3. i - 1 \in 0..Later(0, (P.end - P.start) \div d) - 1
    BY <1>1, <2>1, <2>2 DEF Later
  <2>4. x = Slot(P.start + (i - 1) * d, P.start + ((i - 1) + 1) * d, e)
    BY <1>0, <1>1
  <2>. HIDE DEF x, P
  <2>. QED BY <2>3, <2>4 DEF time_slots_for, P
<1>3. /\ x.start = A + e.start + (i - 1) * d /\ x.end = A + e.start + i * d
      /\ s.start = e.start + (i - 1) * d /\ s.end = e.start + i * d
      /\ Placed(s, r.asked).start = A + s.start /\ Placed(s, r.asked).end = A + s.end
  BY DEF Slot, SlotOf, Span, Placed, At, A
<1>4. ASSUME NEW c \in Collisions(e, r.choice, biz, Seen(r), r.asked) PROVE ~Overlap(x, c)
  <2>1. CASE \E a \in AppointmentDetector(e, r.choice, Seen(r), r.asked) :
                 c = Span(a.start, a.end)
    <3>1. PICK a \in Seen(r) : Blocks(a, r.choice) /\ c = Span(a.start, a.end)
      BY <2>1 DEF AppointmentDetector
    <3>2. ~Overlap(a, Placed(s, r.asked))
      BY <3>1 DEF IsFree
    <3>3. x.start = Placed(s, r.asked).start /\ x.end = Placed(s, r.asked).end
      BY <1>0, <1>1, <1>3
    <3>4. c.start = a.start /\ c.end = a.end
      BY <3>1 DEF Span
    <3>. HIDE DEF x, s
    <3>. QED BY <3>2, <3>3, <3>4 DEF Overlap
  <2>2. CASE \E k \in BreakDetector(e, r.choice, biz.breaks, Seen(r), r.asked) :
                 c = Placed(k, r.asked)
    <3>1. PICK k \in biz.breaks : c = Placed(k, r.asked)
      BY <2>2 DEF BreakDetector, matches
    <3>2. ~Overlap(k, s) /\ k.start \in Int /\ k.end \in Int
      BY DEF IsFree
    <3>3. c.start = A + k.start /\ c.end = A + k.end
      BY <3>1 DEF Placed, At, Span, A
    <3>. HIDE DEF x, s
    <3>. QED BY <1>0, <1>1, <1>3, <3>2, <3>3 DEF Overlap
  <2>. QED BY <2>1, <2>2 DEF Collisions
<1>5. x \in extract_available_slots(e, r.choice, biz, Seen(r), r.asked)
  <2>. HIDE DEF x
  <2>. QED BY <1>2, <1>4 DEF extract_available_slots
<1>6. x \in generate_time_slots(r.choice, biz, Seen(r), r.asked, r.day)
  <2>. HIDE DEF x
  <2>. QED BY <1>5 DEF generate_time_slots
<1>7. e.start + i * d <= e.end
  BY <1>0, <1>1
<1>. QED BY <1>1, <1>6, <1>7 DEF A

LEMMA EntryAlone ==
    ASSUME NEW r, NEW e, Asked(r.choice, biz, r.asked, r.day),
           e \in time_entries_for(biz.entries, r.choice, r.day), e \in TimeEntry,
           \A e2 \in time_entries_for(biz.entries, r.choice, r.day) \ {e} :
               e2.end < e.start \/ e.end < e2.start
    PROVE  Alone(generate_time_slots(r.choice, biz, Seen(r), r.asked, r.day), e,
                 Starts(e, r.choice.duration, r.asked),
                 r.asked * Day + e.start, r.asked * Day + e.end)
<1>. DEFINE A == r.asked * Day
            T == generate_time_slots(r.choice, biz, Seen(r), r.asked, r.day)
            G == Starts(e, r.choice.duration, r.asked)
<1>1. /\ r.choice.duration \in Nat \ {0} /\ r.asked \in Nat /\ A \in Nat
      /\ e.start \in Nat /\ e.end \in Nat /\ Placed(e, r.asked).end \in Int
  BY EntryTimes DEF Asked, Choice
<1>2. SlotsOK(T) /\ \A s \in T :
                  /\ s.entry \in time_entries_for(biz.entries, r.choice, r.day)
                  /\ s.entry \in TimeEntry
                  /\ s \in time_slots_for(s.entry, r.choice.duration, r.asked)
                  /\ A + s.entry.start <= s.start
                  /\ s.end <= A + s.entry.end
  BY AllSlots
<1>. HIDE DEF T, A
<1>3. ASSUME NEW x \in T
      PROVE  IF x.entry = e THEN x.start \in G /\ A + e.start <= x.start /\ x.end <= A + e.end
                            ELSE x.end < A + e.start \/ A + e.end < x.start
  <2>1. CASE x.entry = e
    BY <1>1, <1>2, <2>1, SlotShape
  <2>2. CASE x.entry # e
    <3>1. x.entry.end < e.start \/ e.end < x.entry.start
      BY <1>2, <2>2
    <3>2. x.entry.start \in Nat /\ x.entry.end \in Nat /\ x.start \in Int /\ x.end \in Int
      BY <1>1, <1>2, EntryTimes DEF SlotsOK
    <3>. QED BY <1>1, <1>2, <2>2, <3>1, <3>2
  <2>. QED BY <2>1, <2>2
<1>4. ASSUME NEW x \in T, NEW y \in T, x.entry = e, y.entry = e, x.start <= y.start
      PROVE  x.end <= y.end
  <2>1. /\ x.end = Earlier(x.start + r.choice.duration, Placed(e, r.asked).end)
        /\ y.end = Earlier(y.start + r.choice.duration, Placed(e, r.asked).end)
    BY <1>1, <1>2, <1>4, SlotShape
  <2>2. x.start \in Int /\ y.start \in Int
    BY <1>2 DEF SlotsOK
  <2>. QED BY <1>1, <1>4, <2>1, <2>2 DEF Earlier
<1>5. A + e.start \in Int /\ A + e.end \in Int
  BY <1>1
<1>. HIDE DEF G
<1>6. Alone(T, e, G, A + e.start, A + e.end)
  BY <1>3, <1>4, <1>5 DEF Alone
<1>. QED BY <1>6 DEF T, G, A

(* A free slot that a window holds is one of the blocks cut from it.        *)
LEMMA CutOut ==
    ASSUME NEW choice \in Choice, NEW asked \in Nat, NEW day \in Nat, NEW e \in TimeEntry,
           NEW i \in Int, NEW w, w.end \in Int,
           (i - 1) * choice.duration \in Nat,
           e.start + i * choice.duration <= e.end,
           HeldBy(w, Slot(asked * Day + e.start + (i - 1) * choice.duration,
                          asked * Day + e.start + i * choice.duration, e),
                  Starts(e, choice.duration, asked))
    PROVE  \E b \in generate_time_blocks(w, choice, day) : Hours(b) = SlotOf(e, choice.duration, i)
<1>. DEFINE d == choice.duration
            A == asked * Day
            from == e.start + (i - 1) * d
<1>1. /\ d \in Nat \ {0} /\ A \in Nat /\ day * Day \in Nat
      /\ e.start \in Nat /\ e.end \in Nat /\ e.end <= Day /\ Day \in Nat
      /\ Placed(e, asked).start = A + e.start
  BY EntryTimes, DayPositive DEF Choice
<1>. HIDE DEF d, A
<1>2. PICK j \in Nat : w.start = A + e.start + j * d
  BY <1>1 DEF HeldBy, Starts, d, A
<1>. DEFINE m == i - 1 - j
<1>3. /\ i * d \in Int /\ j * d \in Int /\ (i - 1) * d = i * d - d
      /\ m * d = i * d - d - j * d /\ (m + 1) * d = i * d - j * d
      /\ j * d <= (i - 1) * d => j <= i - 1
  BY <1>1, ProductsApart
<1>4. j * d <= (i - 1) * d /\ A + e.start + i * d <= w.end /\ j * d \in Nat
  <2>1. w.start <= A + e.start + (i - 1) * d /\ A + e.start + i * d <= w.end
    BY DEF HeldBy, Slot, d, A
  <2>2. j * d \in Nat
    BY <1>1
  <2>. QED BY <1>1, <1>2, <1>3, <2>1, <2>2
<1>5. m \in Nat
  BY <1>3, <1>4
<1>. HIDE DEF m
<1>6. m \in 0..((w.end - w.start) \div d) - 1
  <2>. DEFINE n == w.end - w.start
  <2>1. n \in Int /\ (m + 1) * d <= n /\ m + 1 \in Int
    BY <1>1, <1>2, <1>3, <1>4, <1>5
  <2>. HIDE DEF n
  <2>2. m + 1 <= n \div d /\ n \div d \in Int
    BY <1>1, <2>1, PiecesFit, Divide
  <2>3. m \in 0..(n \div d) - 1
    BY <1>5, <2>2
  <2>. QED BY <2>3 DEF n
<1>7. w.start % Day = e.start + j * d
  <2>. DEFINE x == e.start + j * d
  <2>1. x \in 0..Day - 1 /\ w.start = A + x /\ asked \in Int
    BY <1>1, <1>2, <1>3, <1>4, d > 0 DEF d
  <2>. HIDE DEF x
  <2>2. (asked * Day + x) % Day = x
    BY <2>1, DayQuotient, Zenon
  <2>. QED BY <2>1, <2>2 DEF x, A
<1>. DEFINE base == At(day, w.start % Day)
            b == [start |-> base + m * d, end |-> base + (m + 1) * d, entry |-> w.entry,
                  provider |-> service_provider(w.entry, choice)]
<1>8. b \in generate_time_blocks(w, choice, day)
  BY <1>6 DEF generate_time_blocks, d
<1>9. /\ b.start = day * Day + from /\ b.end = day * Day + e.start + i * d
      /\ from \in 0..Day - 1 /\ b.end - b.start = d
  <2>1. base = day * Day + e.start + j * d
    BY <1>1, <1>3, <1>7 DEF At
  <2>2. b.start = base + m * d /\ b.end = base + (m + 1) * d
    OBVIOUS
  <2>3. e.start + i * d <= e.end /\ (i - 1) * d \in Nat
    BY DEF d
  <2>4. from \in 0..Day - 1 /\ from = e.start + i * d - d
    BY <1>1, <1>3, <2>3
  <2>. HIDE DEF base, b, from
  <2>5. m * d \in Int /\ (m + 1) * d \in Int /\ base \in Int
    BY <1>1, <1>3, <2>1
  <2>6. b.start = day * Day + from /\ b.end = day * Day + e.start + i * d
    BY <1>1, <1>3, <2>1, <2>2, <2>4, <2>5
  <2>. QED BY <1>1, <1>3, <2>4, <2>6
<1>. HIDE DEF b
<1>10. b.start % Day = from
  <2>. HIDE DEF from
  <2>1. (day * Day + from) % Day = from
    <3>1. day \in Int /\ from \in 0..Day - 1
      BY <1>9
    <3>. QED BY <3>1, DayQuotient, Zenon
  <2>. QED BY <1>9, <2>1
<1>11. Hours(b) = SlotOf(e, d, i)
  BY <1>1, <1>3, <1>9, <1>10 DEF Hours, SlotOf, Span
<1>. QED BY <1>8, <1>11 DEF d

(* Nothing free is held back: of an entry that no other touches, every slot *)
(* that meets no appointment of today and no break row, of whatever day, is *)
(* offered.                                                                 *)
THEOREM FreeSlotsOffered == Spec => []FreeSlotsAreOffered
<1>1. ASSUME CalendarInv, NEW w \in Busy,
             NEW e \in time_entries_for(biz.entries, request[w].choice, request[w].day),
             \A e2 \in time_entries_for(biz.entries, request[w].choice, request[w].day) \ {e} :
                 e2.end < e.start \/ e.end < e2.start,
             NEW i \in 1..(e.end - e.start) \div request[w].choice.duration,
             IsFree(SlotOf(e, request[w].choice.duration, i), request[w])
      PROVE  \E b \in request[w].offered : Hours(b) = SlotOf(e, request[w].choice.duration, i)
  <2>. DEFINE r == request[w]
              d == r.choice.duration
              T == generate_time_slots(r.choice, biz, Seen(r), r.asked, r.day)
              G == Starts(e, d, r.asked)
              x == Slot(r.asked * Day + e.start + (i - 1) * d,
                        r.asked * Day + e.start + i * d, e)
  <2>1. /\ r \in Request /\ r.choice \in biz.choices /\ biz \in Businesses
        /\ r.offered \in available_on(r.choice, biz, Seen(r), r.asked, r.day)
    BY <1>1, BusyType DEF CalendarInv, RequestsMade, Lists, Seen, Busy, TypeOK
  <2>2. /\ Asked(r.choice, biz, r.asked, r.day) /\ e \in TimeEntry
        /\ \A k \in biz.breaks : k.start \in Int /\ k.end \in Int
    <3>1. Asked(r.choice, biz, r.asked, r.day)
      BY <2>1, CallAsked DEF Request
    <3>2. biz.breaks \subseteq BreakShift
      BY <2>1, CalendarAssumption
    <3>. QED BY <3>1, <3>2, DayPositive DEF Asked, time_entries_for, BreakShift, Times
  <2>. HIDE DEF r
  <2>3. /\ x \in T /\ (i - 1) * d \in Nat /\ e.start + i * d <= e.end /\ i \in Int
    <3>1. /\ e \in time_entries_for(biz.entries, r.choice, r.day)
          /\ i \in 1..(e.end - e.start) \div d /\ IsFree(SlotOf(e, d, i), r)
      BY <1>1 DEF r
    <3>2. i \in Int
      <4>1. e.end - e.start \in Int
        <5>1. r.asked \in Nat
          BY <2>2 DEF Asked
        <5>2. e.start \in Nat /\ e.end \in Nat
          BY <2>2, <5>1, EntryTimes
        <5>. QED BY <5>2
      <4>2. d \in Nat \ {0}
        BY <2>2 DEF Asked, Choice
      <4>3. (e.end - e.start) \div d \in Int
        BY <4>1, <4>2, Divide
      <4>. QED BY <3>1, <4>3
    <3>. HIDE DEF d
    <3>3. /\ x \in T /\ (i - 1) * d \in Nat /\ e.start + i * d <= e.end
      BY <2>2, <3>1, FreeIsSlot DEF d
    <3>. QED BY <3>2, <3>3
  <2>4. Alone(T, e, G, r.asked * Day + e.start, r.asked * Day + e.end)
    BY <1>1, <2>2, EntryAlone DEF r
  <2>5. IsFiniteSet(T) /\ SlotsOK(T)
    BY <2>2, AllSlots
  <2>6. x.entry = e
    BY DEF Slot
  <2>. HIDE DEF T, x, G
  <2>7. PICK o \in Sorted(T) :
            r.offered = UNION {generate_time_blocks(v, r.choice, r.day) :
                                   v \in ToSet(combine_linear_slots(o))}
    BY <2>1 DEF available_on, T
  <2>8. PICK v \in ToSet(combine_linear_slots(o)) : HeldBy(v, x, G)
    BY <2>3, <2>4, <2>5, <2>6, AloneIsKept
  <2>9. v \in WindowsOf(T)
    BY <2>5, CombinedWindows
  <2>10. v.end \in Int
    BY <2>5, <2>9 DEF WindowsOf, SlotsOK
  <2>11. PICK b \in generate_time_blocks(v, r.choice, r.day) : Hours(b) = SlotOf(e, d, i)
    <3>1. r.choice \in Choice /\ r.asked \in Nat /\ r.day \in Nat
      BY <2>2 DEF Asked
    <3>. QED BY <2>2, <2>3, <2>8, <2>10, <3>1, CutOut DEF x, G
  <2>12. b \in r.offered
    BY <2>7
  <2>. QED BY <2>11, <2>12 DEF r
<1>2. CalendarInv => FreeSlotsAreOffered
  BY <1>1 DEF FreeSlotsAreOffered, IsFree, SlotOf, SlotsOf, Untouched, Offered
<1>. QED BY <1>2, CalendarInvariant, PTL
===============================================================================
