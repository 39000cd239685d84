------------------------------ MODULE MC_Calendar ------------------------------
(***************************************************************************)
(* Instances of Calendar: ticks of five minutes, so that the scenarios of  *)
(* spec/requests/query_engines_spec.rb can be stated as they stand.        *)
(***************************************************************************)
EXTENDS Calendar, TLC

CONSTANTS ann, bob, main, branch, w1, w2

Clock(h, m) == h * Hour + (m * Hour) \div 60
Hours24(h1, m1, h2, m2) == Span(Clock(h1, m1), Clock(h2, m2))
Entry(p, o, r) == [provider |-> p, office |-> o, days |-> 0..6,
                   start |-> r.start, end |-> r.end]
Break(p, r, float) == [provider |-> p, office |-> NULL, days |-> 0..6, enabled |-> TRUE,
                       start |-> r.start, end |-> r.end, float |-> float]

Chosen(providers, offices, minutes) ==
    [provider : providers, office : offices, duration : {Clock(0, m) : m \in minutes}]

(* One provider's morning, with a break that may float by half its length.  *)
MC_Floating ==
    [entries |-> {Entry(ann, main, Hours24(9, 0, 11, 0))},
     breaks  |-> {Break(ann, Hours24(9, 30, 10, 0), Clock(0, 15))},
     choices |-> Chosen({ann}, {main}, {30, 90})]
(* Entries one after another, through which a long service may run, of a   *)
(* provider who serves at two offices.                                     *)
MC_Adjacent ==
    [entries |-> {Entry(ann, NULL, Hours24(9, 0, 9, 30)),
                  Entry(ann, NULL, Hours24(9, 30, 10, 0)),
                  Entry(ann, NULL, Hours24(10, 0, 10, 35))},
     breaks  |-> {},
     choices |-> Chosen({ann}, {main, branch}, {30, 90})]
(* Two providers whose hours overlap, a break for all and one within it.   *)
MC_Shared ==
    [entries |-> {Entry(ann, main, Hours24(9, 0, 10, 30)),
                  Entry(bob, main, Hours24(9, 30, 11, 0))},
     breaks  |-> {Break(NULL, Hours24(10, 0, 10, 30), 0),
                  Break(ann, Hours24(10, 10, 10, 20), 0)},
     choices |-> Chosen({ann, Deferred}, {main}, {30})]
(* Hours that are everybody's, and one provider's that end with them.      *)
MC_Common ==
    [entries |-> {Entry(NULL, main, Hours24(9, 0, 10, 0)),
                  Entry(bob, main, Hours24(9, 30, 10, 0))},
     breaks  |-> {},
     choices |-> Chosen({bob, Deferred}, {main}, {30})]
(* A break that may float by less than an appointment lasts, so that one   *)
(* may lie over all of a side of it.                                       *)
MC_Covered ==
    [entries |-> {Entry(ann, main, Hours24(9, 0, 10, 30))},
     breaks  |-> {Break(ann, Hours24(9, 20, 10, 10), Clock(0, 10))},
     choices |-> Chosen({ann}, {main}, {30})]
(* A break on one day, and another on the next; two on a day and none.     *)
OnDay(day, break) == [break EXCEPT !.days = {day}]
MC_Weekdays ==
    [entries |-> {Entry(NULL, main, Hours24(9, 0, 10, 30))},
     breaks  |-> {OnDay(0, Break(ann, Hours24(9, 30, 10, 0), 0)),
                  OnDay(1, Break(ann, Hours24(10, 0, 10, 30), 0)),
                  OnDay(0, Break(bob, Hours24(9, 0, 9, 20), 0)),
                  OnDay(0, Break(bob, Hours24(10, 10, 10, 20), 0))},
     choices |-> Chosen({ann, bob}, {main}, {30})]
(* A break that was given up, and at the other office one that may float   *)
(* but is nobody's.                                                        *)
MC_Disabled ==
    [entries |-> {Entry(ann, NULL, Hours24(9, 0, 10, 0))},
     breaks  |-> {[Break(ann, Hours24(9, 30, 10, 0), 0) EXCEPT !.enabled = FALSE,
                                                               !.office = main],
                  [Break(NULL, Hours24(9, 30, 10, 0), 1) EXCEPT !.office = branch]},
     choices |-> Chosen({ann}, {main, branch}, {30})]
MC_Businesses == {MC_Floating, MC_Adjacent, MC_Shared, MC_Common, MC_Covered,
                  MC_Weekdays, MC_Disabled}
MC_Breaks == {MC_Weekdays, MC_Disabled}
MC_Symmetry == Permutations(Workers)

-------------------------------------------------------------------------------
(* The scenarios of spec/requests/query_engines_spec.rb, in their order: an *)
(* entry, breaks, appointments and a service's minutes, with the blocks     *)
(* (of scenario 9: the slots) the spec expects.                             *)
Taken(r) == [provider |-> ann, office |-> main, start |-> r.start, end |-> r.end]
Anns(minutes) == [provider |-> ann, office |-> main, duration |-> Clock(0, minutes)]
Offers(hours, breaks, taken, minutes) ==
    LET lists == available_on(Anns(minutes),
                     [entries |-> {Entry(ann, main, hours)}, breaks |-> breaks],
                     {Taken(r) : r \in taken}, 0, 0)
    IN  {{b.start : b \in list} : list \in lists}
From8(minutes) == {Clock(8, m) : m \in minutes}
TenMinutes == Break(ann, Hours24(8, 30, 8, 40), Clock(0, 10))

(* The engine answers what the spec expects of it.  Nothing of this depends *)
(* on the state, so it is looked at in the initial ones.                    *)
Scenarios ==
    /\ \A list \in Offers(Hours24(9, 0, 15, 0),
           {Break(ann, Hours24(12, 0, 13, 0), 0)}, {}, 60) : Cardinality(list) > 1
    /\ Offers(Hours24(9, 0, 10, 0), {Break(ann, Hours24(9, 30, 9, 40), 0)},
           {Hours24(9, 40, 10, 0)}, 15) = {{Clock(9, 0), Clock(9, 15)}}
    /\ Offers(Hours24(10, 0, 11, 0),
           {Break(ann, Hours24(10, 30, 11, 0), Clock(0, 30))}, {}, 15)
               = {{Clock(10, m) : m \in {0, 15, 30, 45}}}
    /\ \A list \in Offers(Hours24(8, 0, 17, 0),
           {Break(ann, Hours24(12, 30, 13, 0), 0)},
           {Hours24(10, 0, 11, 0), Hours24(13, 0, 14, 0), Hours24(15, 0, 16, 0)}, 15) :
               Cardinality(list) = 22
    /\ Offers(Hours24(8, 0, 9, 0), {TenMinutes}, {}, 10)
           = {From8({0, 10, 20, 30, 40, 50})}
    /\ Offers(Hours24(8, 0, 9, 0), {TenMinutes},
           {Hours24(8, 20, 8, 30), Hours24(8, 40, 8, 50)}, 10) = {From8({0, 10, 50})}
    /\ Offers(Hours24(8, 0, 9, 0), {TenMinutes},
           {Hours24(8, 20, 8, 30)}, 10) = {From8({0, 10, 30, 40, 50})}
    /\ Offers(Hours24(8, 0, 9, 0), {TenMinutes},
           {Hours24(8, 40, 8, 50)}, 10) = {From8({0, 10, 20, 30, 50})}
    /\ Cardinality(time_slots_for(Entry(ann, main, Hours24(8, 0, 9, 5)), 2, 0)) = 7
SpecScenarios == Init => Scenarios
===============================================================================
