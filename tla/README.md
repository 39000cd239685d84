# Verification of the scheduling conversation

This directory holds TLA+ models of skejio, a Rails application with which a
customer books an appointment by text message or phone call. Twilio turns each
text, key press or recording into an HTTP request. The application keeps the
conversation in a `SchedulerSession` row, runs it through two nested Statesman
machines, and answers with TwiML.

The models cover the heart of the program from three sides:

* **one conversation**, from the first message to the stored appointment, with
  every engine, every transition, the nesting of the transactions and what an
  exception or a killed worker leaves behind (`Conversation`, over `Ledger`);
* **requests of one customer that overlap in time**: the customer, the session
  and the selection found or created by each, and the state machine walked by
  both, over a database without unique indexes (`Sessions`);
* **the calendar**: the query engine from a day's hours to the blocks it offers,
  and the customers who book them at once (`QueryEngine`, `Calendar`, `Windows`).

| file | what it is |
| --- | --- |
| `Conversation.tla` | one conversation, its properties, and the mutants that test them |
| `Ledger.tla` | the abstract specification: what one conversation may do to the calendar |
| `Sessions.tla` | overlapping requests of one phone number |
| `QueryEngine.tla` | the query engine as pure operators: entries, collisions, slots, windows, blocks |
| `Calendar.tla` | the calendar under the requests that read and fill it |
| `Windows.tla` | the loop of `combine_linear_slots`, one turn a step |
| `MC_*.tla` | the instances TLC explores |
| `ConversationProofs.tla` | type correctness of `Conversation`, the booking invariant and the refinement of `Ledger` |
| `UnwindingProofs.tla` | what the calls in progress look like, and what a refusal leaves of them |
| `SelectionsProofs.tla` | what each copy of a session owes its state, and that no selection is missed or lost |
| `FinishProofs.tla` | that a finished session is booked, as long as the guard of finish does not give up |
| `SessionsProofs.tla` | the invariant of overlapping requests, and five properties; that a session no two requests had at once keeps its marks and one selection; that nothing raises before requests overlap |
| `EngineProofs.tla` | what the query engine's operators return, by induction where they loop |
| `WindowsProofs.tla` | the invariant of the loop and its properties |
| `CalendarProofs.tla` | the calendar's invariant and its properties, over the engine's operators |
| `*.cfg` | one per run |
| `PROJECT.json` | components, runs, mutants, source map, findings, hazards, theorems |

## 1. Inventory

### The system's parts

**Twilio controller** (`app/controllers/live_scheduler_controller.rb`). Keeps no
state of its own. Its filters find the business by the number called, the
customer by the number calling and the newest unfinished session of the two; they
save the session with the device in use and call `state.process!`; then
`prepare_twiml` calls `logic.process!` a second time and renders the answer.
Hard: two requests of one customer at once, and exceptions after some rows have
been saved. Correct when every request gets an answer that fits the state it left.

**Session persistence** (`base_session.rb`, `scheduler_session.rb`,
`appointment_selection_state.rb`). The row's state (from its transitions), a JSON
`meta` column memoized as `store`, `is_finished`; the selection row has a machine
and a `meta` column of its own. Hard: `meta` is written whole, from a copy read
earlier, and one request can hold two copies. Correct when no selection is lost.

**State machines** (`app/machines`). The session machine walks the eight linear
states, may go back to `handshake` or, from `appointment_selection`, to a
selection. The appointment machine has six states of its own. Each after-callback
runs the engine of the new state, *inside the transaction of the transition*. The
guard requires the state being left to be marked complete; the guard of `finish`
requires an appointment, and transitions both machines itself if there is none.

**State-logic engines** (`lib/skej/state_logic`). One `think` method per state:
reads the input and the store, saves, books, and transitions a machine. Think →
transition → callback → think gives deep chains of nested calls. Correct when the
chains end, and when they leave the two machines in step.

**Calendar** (`appointment.rb`, `lib/skej/appointments`, `lib/skej/ranges`,
`break_shift.rb`, `time_*.rb`). The query engine turns a day's time entries into
slots, subtracts breaks and appointments, merges windows and cuts them into
blocks; `commit!` stores one. Correct when an offered block collides with nothing
and a stored one still does not.

**TwiML views** (`lib/skej/twiml`). Wording, and the numbers that texts and
digits answer to. Correct when a number means what the list said.

**Settings** (`business.rb`, `setting.rb`, `settings_controller.rb`). Whether the
office and the service are asked for, offered or imposed, and whether the
customer picks the provider.

**Administration** (`schedule_rules_controller.rb` and its siblings,
`numbers_controller.rb`, `sub_account.rb`, `ability.rb`, `priority_sorter.rb`).
Rows saved one after another without a transaction, and one remote purchase.

**Front end, logs, accounts.** Forms, write-only logs and Devise's flows.

`PROJECT.json` lists each part with its status, and 40 hazards, each at its line.

### What is hard to test here

1. *Nesting.* An engine runs in the middle of another's `think`. When the inner
   one returns, the outer goes on with what it read before: provider selection
   has no `return` after its early exit, and the summary's tail runs after a menu
   choice has moved both machines away.
2. *Two copies of the session* in the request that creates the selection row.
3. *Saves that are not what they seem*: `advance!` saves before it marks;
   `commit!` and the store of the id are separate saves.
4. *Refusals and exceptions*. A refusal raised deep down ends every call up to the
   nearest one that rescues it, and the request goes on from there with the saves
   of whatever transaction goes on; an exception rolls back to the outermost
   transition, and only to there.
5. *Positional answers* to a list that is computed again.
6. *Guards with side effects* and a counter that gives up after three.
7. *Find or create without a constraint*: customers, sessions, selections and
   uuids are looked for and then made; uniqueness is only validated, and a
   duplicate that slips through makes every later save of either row fail.
8. *A memoized column and a state that is read afresh*: two requests of one
   session overwrite each other's marks, and one walks on from where the other is.
9. *Hours without a date*: entries and breaks are put on today, appointments are
   looked for around today, breaks by today's weekday, and the blocks are then moved
   to the day asked for.
10. *Boundaries*: slots that touch a collision, entries that touch each other,
   appointments that outlast an entry, breaks that give way.

## 2. The models

What is said here of the definitions is in `PROJECT.json` line by line ("map").

### Conversation: from code to model

A step is the code between two commits or calls. The chain of nested calls is the
variable `stack`, innermost first; a frame is what is left to do when the call
above it returns. `think` methods are the actions named after their classes;
code after a nested call is a frame and an action of its own
(`ProviderSelectionRest`, `SummaryRest`, `SummaryFinish`, `SaveDate`, `Choose`).

| variable | in the code |
| --- | --- |
| `biz` | how many offices, services and providers there are, and the settings |
| `db` | the rows as the running request sees them |
| `disk` | the rows as committed |
| `mem` | the two instances of the session: `@store`, and what was last saved |
| `req` | the request: device, input, whether the second instance is in use, and the counter of `scheduler_state_machine.rb:70` |
| `stack` | the nested calls |
| `thinked` | the cached engines whose `think` has returned |
| `free` | the slots other customers leave free on the day asked for |
| `announced` | the numbered list last sent |
| `reply` | what the last request answered: a view, or what was raised |

*Transactions.* A transition pushes a `commit` frame (`Transaction`) under the engine
its callback runs. `Write` changes `disk` only when no such frame is open, `Commit`
does so for the outermost. Guards and the check that a transition is declared come
before the transaction, as in Statesman.

*Refusals.* A transition's frame carries what its caller rescues (`rescues`): nothing
for `transition_to!`, a guard's refusal for `transition_next!`, both for
`transition_to`. The rescue encloses the guards, the resets they make and the engine
of the callback, so the frame that is left while those run keeps it: the `commit`
frame, or the `guard` frame under a reset, which then answers false. A refusal goes up
to the innermost frame that rescues it (`Catches`, `Refuse`); the calls down to
that frame end, and the request goes on (`Unwind`). What they wrote stays if a
transaction encloses the frame, since a transaction begun inside another one joins it;
it is rolled back if the frame was in the outermost. What is in memory stays in both
cases: the store, the counter of resets, the engines that have thought. A refusal
nobody rescues, and any other exception, ends the request and rolls back to `disk`
(`Raise`; `RaiseAfter` if a save came before it).

*Instances.* `mem[1]` is the session the controller loaded. The appointment
engines work on the session their row belongs to, which in the request that
creates the row is a second instance (`mem[2]`), read from the database. A save
writes the whole store, and only if it differs from the value last read or
written, since ActiveRecord updates changed columns.

*Requests.* A conversation is open to any text or call at any time, and the two
devices may alternate: the final report of a text session can be called, a call
loads the newest unfinished session, and a customer may text during a call. The
calendar (`free`) is fixed during a request and chosen anew for the next.

### Conversation: data abstracted

Offices, services, providers and customers are counted or are flags; there is at
least one of each selection. A date is none, one that parsed, or `""` (what
`to_s` makes of one that did not; a text summary takes it for "now", the spoken
list fails on it). A message is one of eight kinds, with the number `strip_to_int`
finds in it. The slots of a day are the numbers 1 and 2 in the order of their
start. Names, wording and logs are gone. `customer_name` in the store repeats
what the customer row says, and the keys nobody reads are left out.

`Raising` names two calls that raise at this commit: `"setting"`
(`Business#setting` returns a relation, which has no `is?` or `value`) and
`"start"` (`Appointment#label` calls a missing `start`). With `Raising = {}` the
model is the same code with these two calls working; the run `AsCommitted` is the
code as it is. There `Finish` always raises, so no session can finish, and a
voice conversation whose first booking was committed may book again on the next
request. `spec/requests/scheduler_state_machines_spec.rb:37-41` expects the
session to get past these states. So most properties are worth stating about
`Raising = {}`, and the theorems cover both.

The kinds of exception that stay in every run are those of the engines
themselves: an empty list that is `nil`, a state without a view, a refused
transition that nobody rescues, undeclared (`undeclared`) or by its guard (`denied`).

### Sessions: overlapping requests

`Conversation` lets one request finish before the next. `Sessions` drops that: each
`worker` is a server process with a request of the same phone number, and a step
is one query or one commit, as a database in *read committed* sees them. So the
look-up and the insert of `Customer.load` are `FindCustomer`, `ValidateCustomer`
(the query of `validates_uniqueness_of`) and `CreateCustomer`; those of a session
are `LoadSession`, `find_unique_uuid`, `ValidateUuid` and `CreateSession`.

* *Steps of more than one query.* `Thinking` joins the two reads of the state in
  `base_session.rb:81` and `:256`, and `TransitionTo` those of Statesman, of the guard
  (`scheduler_state_machine.rb:33-35`) and of the last `sort_key`. They can differ only
  if another request moves the session between them; the module's header says why no
  property turns on that.
* *Memory.* A worker has its own `store`, read when it loaded the session, and
  `saved`, what it last read or wrote of the column. A save writes the whole
  column, and only if it differs (`Save`). The state is read at each step
  (`current_state`), from the transitions' rows.
* *Transactions and locks.* What a transition's callbacks write is in `writes`
  until the outermost returns (`Return`). A row another open transaction has
  written cannot be written (`SessionLocked`, `CustomerLocked`).
* *The engines* are reduced to the rows they touch and whether they go on:
  `Handshake`, `InitialDecoder`, `CustomerRegistration`, `AppointmentSelection`,
  `Finish`. The three selection states touch no row of their own and are left
  out, as is the date the decoder may store, and the transitions that go back.
  Of the appointment machine only the row and the choice that ends it are here;
  all of it is in `Conversation`.
* *Two rows with one sort key.* Two requests that leave a state at once both add a
  transition; which of them the most recent is, the database may answer as it
  likes (`Latest` has both).
* *Duplicates.* With a duplicate uuid each later save of either session raises
  (`Invalid`), and with a duplicate customer each `update!` does.
* *Time.* Sessions become older than 24 hours (`Expire`), at any moment.
* *Failures.* A worker may be killed between any two steps (`Killed`); its open
  transaction rolls back.

Ghosts, read by no action's guard: `before` (how many rows there were when the
request that made this one began), `by`, `shared` (two requests had the session at
once) and `overlapped`.

### QueryEngine and Calendar

`QueryEngine` follows `available_on` call by call: the entries of a weekday
(`time_entries_for`), their slots (`time_slots_for`), the collisions of both
detectors (`Collisions`), the slots that meet none (`extract_available_slots`), the
windows they make (`combine_linear_slots`) and the blocks cut from them
(`generate_time_blocks`). Its answer is a set of lists, because slots that start
together are sorted in any order.

Instants are ticks counted from a midnight. Seconds serve the code to leave out
what merely touches: ten seconds at the ends of a slot (`query_engine.rb:115`)
become a strict `Overlap`, the thirty of `query_engine.rb:230` a `<=`, the thirty
of `can_float?` nothing, since appointments start and end on whole ticks. Business
and service only filter the rows and leave nothing to compare, and so do validity and
enabling for time entries. One time zone is assumed. The optimizers return what
they are given at this commit.

*Breaks* have days and may be out of force (`enabled` stands for `is_enabled` and the
validity), because `BreakDetector` does not treat them as one expects. It puts the
entry on today's date and takes the breaks of that weekday, whatever day is asked for
(`all`, `break_detector.rb:57-62`). It intersects the entry with all of these at once
(`intersections`, line 22). The query that follows asks neither for a day nor for
`is_enabled` (`matches`, lines 31-35 and 64-78): any break of the business within
what is in common is a collision. What the library makes of more than two ranges is
not in the repository, so it is a constant: `Pairwise` is FALSE for what all have in
common, TRUE for what any two have. A floating break without a provider raises in
`User.find` (`break_shift.rb:69`), and the request ends without a list (`Raises`).

`Calendar` has `appointments`, the server's day `today` and, for each worker, what
its request got from the query engine. `Ask` is one call of `available_on`; `Book`
is `commit!` of one of its blocks; `Leave` answers without a booking; `NextDay` is
the clock. The two queries of one detector, some milliseconds apart, see the same
rows.

### Windows

`combine_linear_slots` is a loop with five local variables. In `QueryEngine` it is a
recursive function of the number of turns (`Turns`). `Windows` is the same
loop as a state machine: `Neighbor`, `Gap` and `Return`, one turn a step.

## 3. Runs

### The conversation's runs

Constants common to them: two slots, the calendar full or free, texts of every
kind (numbers 1 to 6), calls with digits 1 to 6 and 9, a recording or nothing.
The longest menu of these businesses has three options, so 4 and 5 are its two
appointments and 6 names nothing; 9 is the caller's "change". These runs have
`CHECK_DEADLOCK FALSE`, because a finished session receives no more requests: the
next one starts another session.

| run | instance | distinct states | shows |
| --- | --- | --- | --- |
| `Core` | five businesses covering every setting, no failures | 1,215,000 | selections, bookings and answers are right in every order of inputs |
| `Crash` | one business with nothing to choose, few inputs, `MayAbort` | 235,000 | what is committed stays consistent when a request is cut anywhere |
| `AsCommitted` | a default office, `Raising = {"setting", "start"}` | 82,000 | so does this commit, with the rollbacks its exceptions cause |
| `Answered` | three businesses, few inputs, `FairSpec` | 231,000 | every request ends |

The bounds are enough for what the properties speak of. Two slots are the least
that tell an off-by-one from the right choice, and one booked slot leaves another
for a second booking. Two choices are the least that make a selection. Nothing
else is bounded: the number of requests is not, and the counters (`resets`, the
depth of the stack) are bounded by the code itself, which is what
`FinishGuardHolds` and `RecursionBounded` check. `DeepestCalls = 32` leaves two
frames above the deepest chain TLC found for any setting of a business of up to two
offices, services and providers. Of those, `MC_Skipped` has the most resets and nearly
the deepest calls: its customers choose a service and nothing else, so that one request
can pass the provider selection, retry another choice from the menu, and pass it again
inside the first pass.

#### Properties of a conversation

* `TypeOK`: the type invariant.
* `FinishedIsBooked`, `BookedIsFinished`, `AtMostOneBooking`: a finished session
  has an appointment; a customer who has booked is finished when the request is
  answered; one conversation books once.
* `ChosenIsBooked`, `KeepsLedger`: the committed rows point at a stored
  appointment, and obey `Ledger`.
* `FinishGuardHolds`, `RecursionBounded`, `Answered`: the guard of finish never
  gives up, the nesting is bounded, every request ends. The guard lets a session pass
  without an appointment after three resets in one request. Three do happen, so the
  bound is tight; a fourth try does not.
* `SelectionsMade`, `ChoicesKept`: no appointment is looked for without a name,
  office, service and provider in the database, and a choice is not lost to the
  other instance's save.
* `AlwaysSpeaks`: no request ends in a state that has no view.
* `SummaryBooksAnnounced`: the number texted books the appointment so numbered,
  if the calendar has not changed since.

Each is also checked against a mutant of the code it would catch, defined beside
the definition it replaces (`Books_late`, `advance_unsaved`, `SentBack_never`...).

*Not claimed.* With `MayAbort`, `AtMostOneBooking` and `BookedIsFinished` do not
hold: a worker killed between `commit!` and the store of the id leaves an
appointment its session does not know, and the customer books again. With
`Raising` as committed they do not hold either, for the same reason. Likewise a
rolled-back request may forget the date it was given.

*Fairness.* `FairSpec` assumes `WF_vars(Work)`: a worker that has taken a request
goes on with it, which the Unicorn process does unless it is killed. Nothing is
assumed of the customer or of failures.

### Sessions

Two workers, two requests (`MaxRequests`), each a text, a ringing call or a call
under way, with or without an answer in it; three uuids. The number may be new,
known, waiting to give a name, or about to choose an appointment (`MC_Starts`).
718,000 distinct states. Two requests are enough for every race between a look-up
and an insert, and to leave a session to another request later; a third uuid is
what a request can draw when two are taken. `CHECK_DEADLOCK FALSE`, because the
requests run out; `SomeoneGoesOn` says that nothing else stops.

* `CustomerOnce`, `OpenOnce`, `UuidOnce`: duplicates do arise, but only of a
  request that began before the other row was there. A look-up that was skipped,
  a kind of call that always starts afresh, or a uuid never looked for, break them.
* `MarksKept`, `SelectionOnce`: what sharing a session can spoil is not spoilt
  otherwise. In a session no two requests had at once, every state passed is marked
  in the committed column and there is one selection row. Both fail of a session
  that is shared: its meta column is what the last writer had, and the selection row
  has no constraint.
* `NamedFirst`: even in a shared session nobody gets past registration without
  a name. One request may advance in the name of an engine whose state the other has
  already left, and ask for the state after the one it finds; only the guard, which
  looks for that state's mark in the request's own store, stops it.
* `RaisedByOverlap`: requests that come one after another never raise, whatever
  expires and whoever is killed between them.
* `SomeoneGoesOn`: locks held over nested transitions never stop both requests.

### Calendar

Ticks of five minutes. Seven businesses: a morning with a break that floats; entries
one after another, through which a long service may run, of a provider with two
offices; two providers whose hours overlap, with a break for all and a shorter
one within it; hours that are
everybody's, and a provider's that end with them; a break that may float by less than
an appointment lasts; breaks of one weekday, two of which lie apart; a disabled break,
and a floating one that is nobody's. Two workers, two days (`LastDay`),
two stored appointments (`MaxBooked`): one to be seen, one to be booked over it.
364,000 distinct states, with `Pairwise = FALSE`; the proofs cover both readings of the
library. Deadlock is checked: a request can always be answered and
another made.

* `SeenIsRespected`: two bookings of one provider and office overlap only if the
  later list did not see the first, was made for another day than its own, or the
  first outlasts an entry. The property names all the ways there are.
* `WithinHours`: merging slots and moving hours to another day never leaves the
  hours somebody works there, nor offers a day that is over.
* `BreaksAreKept`: in a list for today, the time of a break of today is offered only if
  nothing of its provider starts or ends in one of the two places beside it. That is less
  than "Floatable if we can go either left or right" (`break_shift.rb:88`): an
  appointment that lies over the whole place is not looked for (lines 78-85), so that a
  break is given away which cannot be taken. The property names this exception, and
  `MC_Covered` is the business in which it arises. It speaks of the break that lies within
  all others of its day, because of breaks that lie apart the detector keeps neither;
  and of lists for a day of today's weekday, because for others it is false (below).
* `FreeSlotsAreOffered`: a slot is withheld only if it meets an appointment, or some
  break row: of whatever day, in force or not. It says no more, since the query for
  breaks has neither a day nor `is_enabled` (`break_detector.rb:31-35`, `64-78`): a
  disabled break withholds its time for good (`MC_Disabled`).
* `SpecScenarios`: the nine scenarios of `spec/requests/query_engines_spec.rb`.

### Windows

Every sorted collection of up to three slots in five ticks, of two entries: 44,000
distinct states. Three slots are what it takes to have a gap after a merge, or
a tie and a longer slot before it. `CHECK_DEADLOCK FALSE`: the loop ends.
`WindowsAreFree`, `WindowsAreApart` and `NoSlotIsDropped` say that windows hold free
time only, do not meet, and hold each slot to its end, unless a later slot that ends
before it was read.

That exception is what the code has: with overlapping entries a window's end is the
end of the last slot read (`query_engine.rb:232`), which may be earlier. The code then offers less than is free, and `FreeSlotsAreOffered`
speaks of entries that no other touches.

### Where code and text disagree

Five runs expect a violation; each checks one property that a comment or a view
of the repository states.

| run | the code | the text |
| --- | --- | --- |
| `ResultsBookAnnounced` | `display_result.rb:76,85` subtracts one twice: 2 books the first, 1 the last | the view says "Press 1 for" the first |
| `NoResultsAnswered` | an unparseable date becomes `""`, and `nil.empty?` raises (`display_result.rb:40`) | "If we have no results, we clear the appointment input and try again" |
| `OtherDays` | collisions are looked for around today (`appointment_detector.rb:40-44`), and the hours moved to the day asked for (`query_engine.rb:174`) | `query_engine.rb:16`: "getting all Available TimeBlock(s) for a given date" |
| `BreaksOfTheDay` | breaks are looked for by today's weekday (`break_detector.rb:57-62`): a list for another day offers that day's break | `query_engine.rb:16`, and `break_detector.rb:29-30`: "Query for our BreakShift candidates within the current TimeBlock begin/end range" |
| `ParentFinishes` | a soft transition is refused after a menu choice moved the session, and the refusal is swallowed | "Transition the parent session state from :appointment_selection -> :finish" |

One more has no run, because a property would only restate it: `repeat_input_date.rb:7-11`
logs "clearing current customer date input" and clears keys nobody reads, so that the
date stays (`RepeatInputDate` leaves it), and with it whatever is wrong with it.

## 4. Proofs

Assumptions: those named in the modules. In `Conversation`, slots are a finite
set of positive numbers, free sets are sets of them, inputs and businesses have
their types; in `Sessions`, there are more uuids than requests and at first at
most one row of each kind, with its transitions numbered, the marks of the states
passed, and a name if registration is past; in `Windows`, the
inputs are sorted sequences of slots that do not end before they start; in
`QueryEngine`, an hour has ticks; in `Calendar`, a business has finitely many entries.
Nothing bounds the numbers
of slots, entries, breaks, inputs, days, requests, workers or uuids; `Raising`, `MayAbort`
and `Pairwise` are arbitrary.

**One conversation.**

* `ConversationProofs!TypeCorrect`: `Spec => []TypeOK`. One step per action; the
  work is in the stack, which must stay a sequence of frames through every call
  and return (`ContinuesType`, `CallsType`, `FrameFields`).
* `ConversationProofs!BookingInvariant`: `Spec => [](TypeOK /\ Booking)`.
  `ChosenIsBooked` speaks of `disk`, which a commit replaces by `db`, whose
  `chosen` is set by a `choose` frame pushed earlier. So it is not inductive.
  `Booking` adds what is missing: every `choose` frame names a slot that is
  booked or that the frame just above it will book (`Ordered`); neither row
  points at an appointment it lacks (`Pointed`, of `db` and `disk`); and `db`
  only adds to `disk` (`Ahead`). Most actions push no booking and change neither
  row's bookings (`Keeps`), and one lemma covers them; `DisplayResult`,
  `process_actions`, `Book`, `Choose` and `Finish` are treated one by one.
* `ConversationProofs!ChosenCorrect` and `LedgerKept` follow: the first from `Pointed`,
  the second from `Ahead`, since whatever a step commits withdraws nothing.

* `UnwindingProofs!SettledInvariant`: `Spec => [](TypeOK /\ Settled)`. Outside every
  transaction the rows a request sees are the committed ones, and only the outermost
  call answers. With it comes the shape of a step: all but a transition and a refusal
  replace the innermost call by what it calls (`Goes`), and a refusal drops calls from
  the top (`Refuses`). Proofs that follow treat the many engines as one through it.

* `SelectionsProofs!SelectionsInvariant`: `Spec => [](TypeOK /\ Settled /\ SelectionsInv)`,
  from which `SelectionsCorrect` and `ChoicesCorrect` follow. Neither property is
  inductive: the machine advances on a mark in one copy of the store, while
  `SelectionsMade` speaks of the committed column, which the other copy may have written
  last. `Owed` says what a row's state and marks promise of its name and choices; the
  guard of a transition is where a mark buys what the next state needs. Of each copy in
  use, `Agrees` says that its memory differs from what it saved in marks and flags only,
  each of them earned (`Sound`); `Held` says that a copy alone saved what the row has,
  and that of two copies each, and the row, has every selection: the second is made only
  by the summary, after all of them. So a save of one over the other loses marks at
  most. Frames of the stack name only copies in use (`LiveFrame`).

  A swallowed refusal breaks this: the row is rolled back and the memory is not, so a
  later save could write a mark whose selection was undone. That nothing of the kind is
  committed takes two more parts. `Calm`: as long as the committed row lacks a selection or
  the name, the stack splits into the calls of the transition under way and, below
  them, calls that can only come to rest in the committed state (`Split`, `Rest`).
  So a refusal which undoes something (`Undone`) leaves those alone, and `Undoing` says so
  of the request until it answers: its engines have thought, and its view saves nothing
  the row does not owe. `SelectionsInv` is `SInv /\ Calm`, or `Undoing`.

* `FinishProofs!FinishedWhileGuarded`: `Spec /\ []FinishGuardHolds =>
  []FinishedIsBooked`. `FInv` says of both rows that a session in `finish`, or
  finished, has a choice. Three steps can disturb it (the transition, the choice, the
  finish engine), the others leave the three columns alone (`Still`), and an exception
  or a refusal leaves one of the two rows; that the choice is stored is `Pointed`. That
  the guard never gives up is checked by TLC in `Core`, not proved: what a request can
  still try after a swallowed refusal has no simple budget.

The first version of `FinishGuardHolds` said that the third reset is never used, and
held for the businesses explored until then. TLC finds three resets in `MC_Skipped`:
after a refused transition, one message can pass the provider selection, retry
the office from the menu and pass it again. The property now says what the guard is for,
that it does not give up. The same businesses showed that `DeepestCalls`, then 24, was
too small.

**Overlapping requests.** `SessionsProofs!SessionsInvariant`: `Spec => []IInv`.
None of the properties is inductive, for each depends on what requests remember:

* `NamedFirst` speaks of committed transitions, which were in some request's open
  transaction before, which it entered because of a mark in its store, which it
  put there, or read, because there was a name. `Honest` says this of each request:
  if it holds the mark of registration, or has a transition past it still to commit,
  it can see a name, its own uncommitted one included. `RowOK` says it of the rows.
* `CustomerOnce`, `OpenOnce` and `UuidOnce` compare a new row with what was there
  when its request began. `Remembered` keeps what the look-up found until the insert:
  that there was no customer; that no session that old is open; that none that old
  has this uuid. It stays true because rows are never removed, and sessions
  never become open or recent again.
* `Linked` ties a request to its customer and session.

What a request relies on is stated of its record and the two tables (`Good`), so
that what others do to it is one lemma (`GoodStays`): a step that only lets the
tables grow (`Grows`) keeps every other request's `Good`. Each action then has to
show its own request's, and the rows it writes. The five theorems after it are read
off `IInv`.

**A session to itself.** `SessionsProofs!AloneInvariant`: `Spec => []KInv`, from which
`MarksAreKept` and `SelectionMadeOnce` follow. Both properties speak of what is
committed, and are not inductive: a commit writes the column whole from the
request's copy, and adds transitions the request took on the strength of marks
that may be in its memory only. `Sole` says what the one request that has the
session relies on: its saved copy is the column, or will be at its commit; that
copy has the marks of what every transition it sees passed; between an engine's
end and the transition, `handshake` is marked, whose guard approves of anything;
a selection is written only where there is none. That nobody else has the session
is part of the invariant (`Unshared`): a request takes a session only from
`LoadSession`, which marks it as shared if another has it, or makes it. Two frames
cover what other requests do, `Apart` and `Alone`; each action then has to show
`Sole` of its own new record from the old one. `Starts` are assumed to have the
marks of the states they have passed and one selection at most.

**Before requests overlap.** `SessionsProofs!QuietInvariant`: `Spec => [](IInv /\ QInv)`,
from which `RaisesByOverlapOnly` follows. `RaisedByOverlap` says nothing of why a
request does not raise, so the invariant has to name, for each exception, what keeps
it away, and carry that from where it was found to where it is used. `Calm` does so
while nothing has overlapped yet:

* `Settled`: one customer, no number twice and no `sort_key` twice in a session, so
  that the uniqueness validations pass and `current_state` is one state (which
  `Latest` otherwise leaves open). A request between a look-up and its insert still
  has what it found (`Peaceful`), for nobody else writes.
* `Knows`: an engine that goes on has its mark in the request's own store, in which
  the guard looks for it, and it asks for a successor of the state found: no
  transition is refused or undeclared, and since every call of `think` is from the
  state found, none is made twice before the second `process!`.
* The decoder, which has no view, always goes on. So the state a request's first
  `process!` comes to rest in is another, of which the engine has thought; the second
  finds the same one, renders its view, and does nothing more.

That workers are killed at any step, with their transaction rolled back, and that
sessions expire between requests, is part of it. `Starts` are assumed to have their
transitions numbered, which `next_sort_key` gives any session made by requests one
after another.

**The engine's operators** (`EngineProofs`). A slot lies in its entry, a block in the
length of its window, for every length of entry and service (`SlotsInEntry`,
`BlocksInWindow`, by the arithmetic of division); `AppointmentDetector` finds each
appointment of today that meets an entry and does not outlast it
(`DetectorFinds`), so a slot that is let through meets none
(`FreeSlotsMeetNothing`). That a free slot is let through, `SlotShape` and `AllSlots`
say with it: the slots of an entry are its multiples of the service.

What `combine_linear_slots` returns is an induction over the turns of its loop. The
library's induction rules take an operator, so `SetInduction` states the rule
for a set of numbers, from `NatLeast`, and each induction names the set it is about.
`TurnsDefined` and `OrdersDefined` show that the recursive functions satisfy their
equations. `Held` is the loop's invariant: after turn `k` every window kept, and the
one that is open, has no time but that of slots read; `CombinedWindows` says so of
what it returns. `AllKept` is the one for completeness: of an entry no other
touches, each slot read is in a window, at a multiple of the service from where
that begins (`TurnsKeep`); so `AloneIsKept`, and the blocks cut from the window are the
slots (`PiecesFit`).

**The calendar.** `CalendarProofs!CalendarInvariant`: `Spec => []CalendarInv`. The
properties compare a list with a state that has moved on since it was made. So
`RequestsMade` says that each list is an answer of the engine to the appointments
that had been stored then, which are found again by their numbers, because no
appointment is ever changed (`IdsGiven`: the numbers are those up to how many there
are); `AppointmentsMade` says the same of the list each appointment was taken from.
Given these, each property is one about what the engine returns:

* `HoursKept`: each minute of a block is in a window, so in a slot, so in an entry; and
  a block moved to another day lies in that day alone (`BlockDay`).
* `StoredIsRespected`: an overlap with an appointment seen is, at some minute, an
  overlap with a slot; the detector finds the appointment, and the slot would not have
  been free.
* `BreaksKept`: the same with `BreakDetector`, which compares hours and minutes
  separately: what the innermost break of today has in common with an entry that holds
  it, and with the breaks around it, is the break itself under either reading of the
  library, and it makes a collision unless `can_float?` let it go.
* `FreeSlotsOffered`: what meets no appointment and no break row is free, and is kept.

The first version of `BreaksAreKept` said that a break whose time is offered can be
taken on one side. Its proof failed on appointments that lie over a side, a case the
businesses explored until then did not have; TLC finds it in `MC_Covered`.

**The loop.** `WindowsProofs!LoopInvariant`: the three properties of windows with
`TypeOK` and `LastSlot`, which says that the open window ends with the last slot
read and starts no later. `Neighbor` needs the order of the slots for the first
property, `Gap` for the second.

Only model-checked: of the conversation, `AtMostOneBooking`, `BookedIsFinished`,
`FinishGuardHolds`, `AlwaysSpeaks`, `SummaryBooksAnnounced` and `RecursionBounded`,
which need invariants about the order of frames that survive a swallowed refusal;
`SpecScenarios`, which is an evaluation of the operators at given arguments;
`SomeoneGoesOn`, which is about `ENABLED`, and `Answered`, which is
liveness: the last two are out of the prover's reach.

## 5. Plan

What the models leave for later work, in order:

1. `FinishGuardHolds`, from the trials a request can still make once refusals are
   swallowed; with it, `FinishedWhileGuarded` loses its hypothesis.
2. `AtMostOneBooking` and `BookedIsFinished`, from what the calls below a booking do.
3. `AlwaysSpeaks`, from the states a request can end in; `SummaryBooksAnnounced`, from
   what each list was made of and what the machines do before it is answered.
4. `RecursionBounded`, from a weight of each frame that its calls share.

## 6. Not modelled

* *Wording*: texts, speech, TwiML markup, recordings, labels, logging; blocked
  numbers, which get a fixed answer; Chronic's parsing (a library).
* *Code nothing calls*: the `retry` state, `TimeBlock#next`, `previous` and
  `collision_free?`, `QueryEngine#collisions_for` and `valid_blocks`.
* *Administration*. A schedule rule, its sheets, entries and breaks are saved one by
  one without a transaction (`schedule_rules_controller.rb:37`): what remains
  after a failure is some set of rows, and `Calendar` takes any set it is given.
  A number is bought before its row is made (`sub_account.rb:23`), and nothing in the
  code retries or repairs. `PrioritySorter` is a recursion over one collection in
  memory. Each stands among the hazards with a note.
* *Abilities* (a static table), Devise's flows, single-row forms, the system log.
* *Front end*. The Backbone files are form and layout code. The JavaScript in
  `public/javascripts` is jQuery and its Rails adapter, vendored; all of the
  program's logic is in Ruby.
* *Time zones*: one zone per business. `base_session.rb:26` speaks of the last hour
  where line 30 has 24.hour.ago; the models follow the code.
* *Across the models.* An engine in `Sessions` is reduced to its rows, so the nested
  calls of two overlapping requests are not explored in full; a conversation in
  `Conversation` sees other customers as a calendar that changes between requests,
  and `Calendar` sees a conversation as a request that asks and books.
