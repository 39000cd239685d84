------------------------------- MODULE Sessions -------------------------------
(***************************************************************************)
(* Requests of one phone number that overlap in time: two texts in a row,  *)
(* or a text during a call.  Each worker process finds or creates the      *)
(* customer, the session and its appointment selection, walks the state    *)
(* machine and saves, over a database without unique indexes.  A step is   *)
(* one query or one commit, as the database sees them (read committed),    *)
(* but for two that join reads of the session's state:                     *)
(*                                                                         *)
(*   - Thinking: the state an engine is cached under (base_session.rb:81)  *)
(*     and the one it is made for (line 256);                              *)
(*   - TransitionTo: the state Statesman leaves, the one the guard reads   *)
(*     again (scheduler_state_machine.rb:33-35), and the last sort_key.    *)
(*                                                                         *)
(* These reads differ only if another request commits a transition of the  *)
(* same session between them.  The session is then shared, and MarksKept,  *)
(* SelectionOnce and RaisedByOverlap claim nothing of it; rows are locked  *)
(* by writes alone; and for NamedFirst it matters which mark the guard     *)
(* finds in the request's own store, where each is put by its own engine,  *)
(* whatever state is found, and no transition modelled here goes back.     *)
(*                                                                         *)
(* What an engine makes of its input is module Conversation's, as are the  *)
(* appointment machine and the transitions that go back.  Here an engine   *)
(* is reduced to the rows it touches and whether it goes on, and the three *)
(* selection states, which touch no row of their own, are left out.        *)
(***************************************************************************)
EXTENDS Integers, FiniteSets, Sequences, SequencesExt

CONSTANTS
    Workers,      \* the server's processes
    Uuids,        \* the numbers find_unique_uuid draws from
    Starts,       \* the customers and sessions there may be to begin with
    MaxRequests   \* bound: the requests that are taken

ASSUME SessionsAssumption ==
    /\ MaxRequests \in Nat /\ Cardinality(Uuids) > MaxRequests
    /\ 0 \notin Uuids

VARIABLES
    customers,   \* the rows with this phone number, by id
    sessions,    \* the sessions of those customers with one business, by id
    worker,      \* what each process is doing
    taken,       \* the requests taken so far
    overlapped   \* whether two of them ever were under way at once

vars == <<customers, sessions, worker, taken, overlapped>>

linear_states == <<"handshake", "initial_decoder", "customer_registration",
                   "appointment_selection", "finish">>
States == ToSet(linear_states)
IndexOf(s) == CHOOSE k \in DOMAIN linear_states : linear_states[k] = s
Passed(s) == {linear_states[k] : k \in 1..IndexOf(s) - 1}

Kinds == {"text", "ringing", "call"}

(* The meta column: the states marked complete, and what was said already. *)
Store == SUBSET (States \cup {"handshake_shaked_hands", "user_registration_asked"})
TransitionRow == [to : States, sort_key : Nat]

(* before, by and shared are kept for the properties: how many rows there  *)
(* were when the request that made this one began, what it was, and        *)
(* whether two requests ever worked on the session at once.                *)
CustomerRow == [named : BOOLEAN, before : Nat]
SessionRow == [customer : Nat, uuid : Uuids, meta : Store,
               transitions : SUBSET TransitionRow, is_finished : BOOLEAN,
               recent : BOOLEAN, selections : Nat,
               before : Nat, by : Kinds, shared : BOOLEAN]

(* At first there is at most one row of each, made when nothing overlapped, *)
(* with the marks of the states passed, its transitions numbered, and a     *)
(* name if registration is passed.                                          *)
ASSUME StartsAssumption ==
    \A s \in Starts :
        /\ s.customers \in Seq(CustomerRow) /\ Len(s.customers) <= 1
        /\ s.sessions \in Seq(SessionRow) /\ Len(s.sessions) <= 1
        /\ \A c \in DOMAIN s.customers : s.customers[c].before = 0
        /\ \A j \in DOMAIN s.sessions :
               /\ s.sessions[j].customer \in DOMAIN s.customers
               /\ s.sessions[j].selections <= 1
               /\ \A t \in s.sessions[j].transitions :
                      Passed(t.to) \subseteq s.sessions[j].meta
               /\ \A t, u \in s.sessions[j].transitions :
                      t.sort_key = u.sort_key => t = u
               /\ \/ s.customers[s.sessions[j].customer].named
                  \/ /\ "customer_registration" \notin s.sessions[j].meta
                     /\ \A t \in s.sessions[j].transitions :
                            IndexOf(t.to) <= IndexOf("customer_registration")

(* What an open transaction has written, for nobody else to see.           *)
Writes == [transitions : SUBSET TransitionRow, meta : BOOLEAN,
           is_finished : BOOLEAN, selection : BOOLEAN, named : BOOLEAN]
NoWrites == [transitions |-> {}, meta |-> FALSE, is_finished |-> FALSE,
             selection |-> FALSE, named |-> FALSE]

Steps == {"idle", "find", "validate", "create", "load", "draw", "unique", "insert",
          "touch", "think", "shake", "name", "select", "reserve", "choose",
          "advance", "next", "enter", "return", "render", "answer"}

(* store is the memoized meta, and saved what the row object last read or  *)
(* wrote of it; begun are the engines whose think has not returned; had is *)
(* how many customers and sessions there were when the request began.      *)
Worker == [step : Steps, kind : Kinds, answer : BOOLEAN, had : Nat \X Nat,
           customer : Nat, session : Nat, uuid : Uuids \cup {0},
           store : Store, saved : Store, round : 1..2, begun : SUBSET States,
           thinked : SUBSET States, view : States, to : States,
           transaction : BOOLEAN, writes : Writes, raised : BOOLEAN]
Idle == [step |-> "idle", kind |-> "text", answer |-> FALSE, had |-> <<0, 0>>,
         customer |-> 0, session |-> 0, uuid |-> 0, store |-> {}, saved |-> {},
         round |-> 1, begun |-> {}, thinked |-> {}, view |-> "handshake",
         to |-> "handshake", transaction |-> FALSE, writes |-> NoWrites,
         raised |-> FALSE]

TypeOK ==
    /\ customers \in Seq(CustomerRow) /\ sessions \in Seq(SessionRow)
    /\ worker \in [Workers -> Worker]
    /\ taken \in Nat /\ overlapped \in BOOLEAN

Init ==
    /\ \E s \in Starts : customers = s.customers /\ sessions = s.sessions
    /\ worker = [w \in Workers |-> Idle]
    /\ taken = 0 /\ overlapped = FALSE

-------------------------------------------------------------------------------
(* Nat, locks and transactions.                                            *)

Busy == {w \in Workers : worker[w].step # "idle"}
At(w, step) == worker[w].step = step
Row(w) == sessions[worker[w].session]
Goes(w, new) == worker' = [worker EXCEPT ![w] = new]
Step(w, step) == [worker[w] EXCEPT !.step = step]

Invalid(w) == \E j \in DOMAIN sessions :
                  j # worker[w].session /\ sessions[j].uuid = Row(w).uuid

(* A row written in an open transaction waits for its end.                 *)
Others(w) == {v \in Workers \ {w} : worker[v].transaction}
SessionLocked(w) == \E v \in Others(w) :
                        /\ worker[v].session = worker[w].session
                        /\ worker[v].writes.meta \/ worker[v].writes.is_finished
CustomerLocked(w) == \E v \in Others(w) :
                         /\ worker[v].customer = worker[w].customer
                         /\ worker[v].writes.named

Ends(w, raised) == worker' = [worker EXCEPT ![w] = [Idle EXCEPT !.raised = raised]]

(* An exception nobody rescues.                                            *)
Raise(w) == Ends(w, TRUE) /\ UNCHANGED <<customers, sessions>>

(* save!: the uuid is validated whatever has changed; of the columns, meta *)
(* is written if it is not what this object read or wrote of it last.  The *)
(* worker is left as new, with its store.                                  *)
Save(w, new) ==
    IF Invalid(w) THEN Raise(w)
    ELSE LET written == new.store # worker[w].saved
             open == worker[w].transaction
         IN  /\ written => ~SessionLocked(w)
             /\ Goes(w, [new EXCEPT !.saved = new.store,
                             !.writes.meta = @ \/ (written /\ open)])
             /\ sessions' = IF written /\ ~open
                            THEN [sessions EXCEPT ![worker[w].session].meta = new.store]
                            ELSE sessions
             /\ UNCHANGED customers

-------------------------------------------------------------------------------
(* The request: customer, then session.                                     *)

Request(w, kind, answer) ==
    /\ At(w, "idle") /\ taken < MaxRequests
    /\ kind = "ringing" => ~answer
    /\ taken' = taken + 1
    /\ overlapped' = (overlapped \/ Busy # {})
    /\ worker' = [worker EXCEPT ![w] =
           [Idle EXCEPT !.step = "find", !.kind = kind, !.answer = answer,
                        !.had = <<Len(customers), Len(sessions)>>]]
    /\ UNCHANGED <<customers, sessions>>

FindCustomer_created(w) ==
    /\ At(w, "find")
    /\ Goes(w, Step(w, "create"))
    /\ UNCHANGED <<customers, sessions>>
FindCustomer(w) ==
    /\ At(w, "find")
    /\ IF customers # <<>> THEN Goes(w, [Step(w, "load") EXCEPT !.customer = 1])
       ELSE Goes(w, Step(w, "validate"))
    /\ UNCHANGED <<customers, sessions>>

(* validates_uniqueness_of :phone_number, and the INSERT it lets pass.     *)
ValidateCustomer(w) ==
    /\ At(w, "validate")
    /\ IF customers # <<>> THEN Raise(w)
       ELSE Goes(w, Step(w, "create")) /\ UNCHANGED <<customers, sessions>>

CreateCustomer(w) ==
    /\ At(w, "create")
    /\ customers' = Append(customers, [named |-> FALSE, before |-> worker[w].had[1]])
    /\ Goes(w, [Step(w, "load") EXCEPT !.customer = Len(customers) + 1])
    /\ UNCHANGED sessions

Unfinished(c) == {j \in DOMAIN sessions :
    sessions[j].customer = c /\ sessions[j].recent /\ ~sessions[j].is_finished}

(* A call that rings always gets a session of its own; others the newest   *)
(* unfinished one, if it is of the last 24 hours.                          *)
Fresh_calls(w) == worker[w].kind # "text"
Fresh(w) == worker[w].kind = "ringing"

LoadSession(w) ==
    /\ At(w, "load")
    /\ LET existing == Unfinished(worker[w].customer) IN
       \/ /\ Fresh(w) \/ existing = {}
          /\ Goes(w, Step(w, "draw"))
          /\ UNCHANGED sessions
       \/ /\ ~Fresh(w)
          /\ \E j \in existing :
                 /\ \A k \in existing : k <= j
                 /\ LET meta == sessions[j].meta IN
                    Goes(w, [Step(w, "touch") EXCEPT !.session = j, !.store = meta,
                                                     !.saved = meta])
                 /\ sessions' = [sessions EXCEPT ![j].shared =
                                    @ \/ \E v \in Workers \ {w} : worker[v].session = j]
    /\ UNCHANGED customers

UuidTaken_never(u) == FALSE
UuidTaken(u) == \E j \in DOMAIN sessions : sessions[j].uuid = u

find_unique_uuid_any(w) ==
    /\ At(w, "draw")
    /\ \E u \in Uuids : Goes(w, [Step(w, "unique") EXCEPT !.uuid = u])
    /\ UNCHANGED <<customers, sessions>>
find_unique_uuid(w) ==
    /\ At(w, "draw")
    /\ \E u \in Uuids : ~UuidTaken(u) /\ Goes(w, [Step(w, "unique") EXCEPT !.uuid = u])
    /\ UNCHANGED <<customers, sessions>>

(* The row is saved by the save! of simple_id, which validates it again.   *)
ValidateUuid(w) ==
    /\ At(w, "unique")
    /\ IF UuidTaken(worker[w].uuid) THEN Raise(w)
       ELSE Goes(w, Step(w, "insert")) /\ UNCHANGED <<customers, sessions>>

CreateSession(w) ==
    /\ At(w, "insert")
    /\ sessions' = Append(sessions,
           [customer |-> worker[w].customer, uuid |-> worker[w].uuid, meta |-> {},
            transitions |-> {}, is_finished |-> FALSE, recent |-> TRUE,
            selections |-> 0, before |-> worker[w].had[2], by |-> worker[w].kind,
            shared |-> FALSE])
    /\ Goes(w, [Step(w, "touch") EXCEPT !.session = Len(sessions) + 1])
    /\ UNCHANGED customers

(* @session.save! with the device, then the first of the two process!.     *)
SaveDevice(w) == At(w, "touch") /\ Save(w, Step(w, "think"))

-------------------------------------------------------------------------------
(* The state machine, and the engines.                                      *)

Visible(w) == Row(w).transitions \cup worker[w].writes.transitions
Latest(rows) == {t \in rows : \A u \in rows : u.sort_key <= t.sort_key}

(* The state a query answers: of rows with one sort_key, any.              *)
current_state(w) ==
    IF Visible(w) = {} THEN {"handshake"} ELSE {t.to : t \in Latest(Visible(w))}

next_state_by_priority_shared(s) ==
    <<"initial_input_date", "repeat_input_date", "display_result", "summary",
      "finish">>[IndexOf(s)]
next_state_by_priority(s) ==
    IF s = "finish" THEN linear_states[2] ELSE linear_states[IndexOf(s) + 1]
successors(s) ==
    IF s = "finish" THEN {"appointment_selection"}
    ELSE {next_state_by_priority(s), "handshake", s}

(* The engine of the state found now is asked to think, once.  It is the   *)
(* one whose view is rendered, if no transition's callback asks it.        *)
Thinking(w, s) ==
    /\ At(w, "think") /\ s \in current_state(w) /\ s \notin worker[w].thinked
Thinks(w, s, step) ==
    [worker[w] EXCEPT !.step = step, !.begun = @ \cup {s},
                      !.view = IF worker[w].transaction THEN @ ELSE s]
Completes(w, s) == [Thinks(w, s, "advance") EXCEPT !.store = @ \cup {s}]

AlreadyThinked(w) ==
    /\ At(w, "think")
    /\ \E s \in current_state(w) \cap worker[w].thinked : Goes(w, Thinks(w, s, "return"))
    /\ UNCHANGED <<customers, sessions>>

Handshake(w) ==
    /\ Thinking(w, "handshake")
    /\ Goes(w, IF worker[w].kind = "text" \/ "handshake_shaked_hands" \in worker[w].store
               THEN Completes(w, "handshake") ELSE Thinks(w, "handshake", "shake"))
    /\ UNCHANGED <<customers, sessions>>

Shake(w) ==
    /\ At(w, "shake")
    /\ Save(w, [Step(w, "return") EXCEPT !.store = @ \cup {"handshake_shaked_hands"}])

InitialDecoder(w) ==
    /\ Thinking(w, "initial_decoder")
    /\ Goes(w, Completes(w, "initial_decoder"))
    /\ UNCHANGED <<customers, sessions>>

Named(w) == customers[worker[w].customer].named \/ worker[w].writes.named
Heard(w) ==
    /\ worker[w].answer
    /\ worker[w].kind = "text" => "user_registration_asked" \in worker[w].store

CustomerRegistration(w) ==
    /\ Thinking(w, "customer_registration")
    /\ \/ Named(w) /\ Goes(w, [Completes(w, "customer_registration") EXCEPT !.answer = FALSE])
       \/ ~Named(w) /\ Heard(w) /\ Goes(w, Thinks(w, "customer_registration", "name"))
       \/ ~Named(w) /\ ~Heard(w) /\ Goes(w, Thinks(w, "customer_registration", "return"))
    /\ UNCHANGED <<customers, sessions>>

(* customer.update! validates that no other row has the phone number.      *)
UpdateCustomer(w) ==
    /\ At(w, "name") /\ ~CustomerLocked(w)
    /\ \/ Len(customers) > 1 /\ Raise(w)
       \/ /\ Len(customers) = 1
          /\ Goes(w, [Step(w, "advance") EXCEPT !.answer = FALSE,
                         !.store = @ \cup {"customer_registration"},
                         !.writes.named = @ \/ worker[w].transaction])
          /\ customers' = IF worker[w].transaction THEN customers
                          ELSE [customers EXCEPT ![worker[w].customer].named = TRUE]
          /\ UNCHANGED sessions

(* The appointment machine's row is looked for before it is used.  A new   *)
(* one begins by asking for a date; with an answer to that an appointment  *)
(* is chosen and both machines finish.                                     *)
AppointmentSelection(w) ==
    /\ Thinking(w, "appointment_selection")
    /\ Goes(w, [Completes(w, "appointment_selection") EXCEPT !.step = "select"])
    /\ UNCHANGED <<customers, sessions>>

Selected(w) == Row(w).selections > 0 \/ worker[w].writes.selection

FindSelection_unread(w) ==
    /\ At(w, "select")
    /\ \/ ~worker[w].answer /\ Goes(w, Step(w, "reserve"))
       \/ worker[w].answer /\ Goes(w, [Step(w, "choose") EXCEPT !.answer = FALSE])
    /\ UNCHANGED <<customers, sessions>>
FindSelection(w) ==
    /\ At(w, "select")
    /\ \/ ~Selected(w) /\ Goes(w, Step(w, "reserve"))
       \/ Selected(w) /\ ~worker[w].answer /\ Goes(w, Step(w, "return"))
       \/ Selected(w) /\ worker[w].answer
          /\ Goes(w, [Step(w, "choose") EXCEPT !.answer = FALSE])
    /\ UNCHANGED <<customers, sessions>>

CreateSelection(w) ==
    /\ At(w, "reserve")
    /\ Goes(w, [Step(w, "return") EXCEPT !.writes.selection = worker[w].transaction])
    /\ sessions' = IF worker[w].transaction THEN sessions
                   ELSE [sessions EXCEPT ![worker[w].session].selections = @ + 1]
    /\ UNCHANGED customers

(* store! :appointment_selection, :complete, then the session's finish.    *)
Choose(w) ==
    At(w, "choose") /\ Save(w, [Step(w, "enter") EXCEPT !.to = "finish"])

(* update! is_finished saves the store with it.                            *)
Finish(w) ==
    /\ Thinking(w, "finish")
    /\ \/ Invalid(w) /\ Raise(w)
       \/ /\ ~Invalid(w) /\ ~SessionLocked(w)
          /\ LET open == worker[w].transaction
                 store == worker[w].store
                 written == store # worker[w].saved
             IN  /\ Goes(w, [Thinks(w, "finish", "return") EXCEPT !.saved = store,
                                !.writes.is_finished = open,
                                !.writes.meta = @ \/ (written /\ open)])
                 /\ sessions' = IF open THEN sessions
                       ELSE [sessions EXCEPT ![worker[w].session].is_finished = TRUE,
                                             ![worker[w].session].meta =
                                                 IF written THEN store ELSE @]
          /\ UNCHANGED customers

(* advance!: the store is saved, and the state after the one found now is  *)
(* asked for, in the name of an engine whose state may be past.            *)
Advance_unsaved(w) ==
    At(w, "advance") /\ Goes(w, Step(w, "next")) /\ UNCHANGED <<customers, sessions>>
Advance(w) == At(w, "advance") /\ Save(w, Step(w, "next"))

NextState(w) ==
    /\ At(w, "next")
    /\ \E s \in current_state(w) :
           Goes(w, [Step(w, "enter") EXCEPT !.to = next_state_by_priority(s)])
    /\ UNCHANGED <<customers, sessions>>

(* The guard asks for the mark of the state being left, in this request's  *)
(* own store.                                                              *)
Approved_always(w, s) == TRUE
Approved(w, s) == s = "handshake" \/ s \in worker[w].store

next_sort_key(w) == IF Visible(w) = {} THEN 0
                    ELSE 10 + (CHOOSE t \in Latest(Visible(w)) : TRUE).sort_key

(* transition_next! rescues a guard's refusal, and the transition_to of    *)
(* the appointment's finish an undeclared transition too.                  *)
TransitionTo(w) ==
    /\ At(w, "enter")
    /\ \E s \in current_state(w) :
        LET to == worker[w].to IN
        \/ /\ to \in successors(s) /\ Approved(w, s)
           /\ Goes(w, [Step(w, "think") EXCEPT !.transaction = TRUE,
                  !.writes.transitions = @ \cup
                      {[to |-> to, sort_key |-> next_sort_key(w)]}])
           /\ UNCHANGED <<customers, sessions>>
        \/ /\ IF to \in successors(s) THEN ~Approved(w, s) ELSE to = "finish"
           /\ Goes(w, Step(w, "return"))
           /\ UNCHANGED <<customers, sessions>>
        \/ to \notin successors(s) /\ to # "finish" /\ Raise(w)

(* The calls return: the transaction commits, and process! is called once  *)
(* more before the answer is rendered.                                     *)
Return(w) ==
    /\ At(w, "return")
    /\ LET me == worker[w]  new == me.writes IN
       /\ sessions' = [sessions EXCEPT
              ![me.session].transitions = @ \cup new.transitions,
              ![me.session].meta = IF new.meta THEN me.saved ELSE @,
              ![me.session].is_finished = @ \/ new.is_finished,
              ![me.session].selections = IF new.selection THEN @ + 1 ELSE @]
       /\ customers' = [customers EXCEPT ![me.customer].named = @ \/ new.named]
       /\ Goes(w, [me EXCEPT !.step = IF me.round = 1 THEN "think" ELSE "render",
                   !.round = 2, !.transaction = FALSE, !.writes = NoWrites,
                   !.thinked = @ \cup me.begun, !.begun = {}])

(* The view is that of the engine found by the second process!.  A         *)
(* question for a name is stored; the decoder has no view.                 *)
Render(w) ==
    /\ At(w, "render")
    /\ \/ /\ worker[w].view = "customer_registration"
          /\ Save(w, [Step(w, "answer") EXCEPT !.store = @ \cup {"user_registration_asked"}])
       \/ /\ worker[w].view = "initial_decoder"
          /\ Raise(w)
       \/ /\ worker[w].view \notin {"customer_registration", "initial_decoder"}
          /\ Goes(w, Step(w, "answer")) /\ UNCHANGED <<customers, sessions>>

Answer(w) == At(w, "answer") /\ Ends(w, FALSE) /\ UNCHANGED <<customers, sessions>>

(* A worker is killed: the database rolls back what was open.              *)
Killed_open(w) ==
    /\ ~At(w, "idle")
    /\ Goes(w, Step(w, "idle")) /\ UNCHANGED <<customers, sessions>>
Killed(w) ==
    ~At(w, "idle") /\ Ends(w, FALSE) /\ UNCHANGED <<customers, sessions>>

(* A session becomes older than 24 hours, the oldest first.                *)
Expire ==
    /\ \E j \in DOMAIN sessions :
           /\ sessions[j].recent /\ \A k \in 1..j - 1 : ~sessions[k].recent
           /\ sessions' = [sessions EXCEPT ![j].recent = FALSE]
    /\ UNCHANGED <<customers, worker, taken, overlapped>>

Works(w) ==
    \/ FindCustomer(w) \/ ValidateCustomer(w) \/ CreateCustomer(w)
    \/ LoadSession(w) \/ find_unique_uuid(w) \/ ValidateUuid(w) \/ CreateSession(w)
    \/ SaveDevice(w) \/ AlreadyThinked(w)
    \/ Handshake(w) \/ Shake(w) \/ InitialDecoder(w)
    \/ CustomerRegistration(w) \/ UpdateCustomer(w)
    \/ AppointmentSelection(w) \/ FindSelection(w) \/ CreateSelection(w) \/ Choose(w)
    \/ Finish(w)
    \/ Advance(w) \/ NextState(w) \/ TransitionTo(w) \/ Return(w)
    \/ Render(w) \/ Answer(w)

Next ==
    \/ \E w \in Workers, kind \in Kinds, answer \in BOOLEAN : Request(w, kind, answer)
    \/ /\ \E w \in Workers : Works(w) \/ Killed(w)
       /\ UNCHANGED <<taken, overlapped>>
    \/ Expire

Spec == Init /\ [][Next]_vars

-------------------------------------------------------------------------------
(* Properties.                                                              *)

(* A second row for the phone number is made only by a request that began  *)
(* before there was a first: Customer.load creates two customers by        *)
(* overlap alone, whatever its validation lets pass.                       *)
CustomerOnce == \A c \in DOMAIN customers : customers[c].before = 0

(* A text, or a call under way, starts a conversation beside an unfinished *)
(* one of its customer only if that one was not there when it began.       *)
OpenOnce ==
    \A i, j \in DOMAIN sessions :
        /\ i < j /\ i \in Unfinished(sessions[j].customer)
        /\ sessions[j].by # "ringing"
        => sessions[j].before < i

(* Nor does find_unique_uuid give a session the number of another that was *)
(* there when the request began: both could never be saved again.          *)
UuidOnce ==
    \A i, j \in DOMAIN sessions :
        i < j /\ sessions[i].uuid = sessions[j].uuid => sessions[j].before < i

StateOf(j) == IF sessions[j].transitions = {} THEN {"handshake"}
              ELSE {t.to : t \in Latest(sessions[j].transitions)}

(* A session that two requests never worked on at once has the mark of     *)
(* every state it has passed in its meta column, although whole columns    *)
(* are written, from a copy, at several places of a request.               *)
MarksKept ==
    \A j \in DOMAIN sessions : ~sessions[j].shared =>
        \A s \in StateOf(j) : Passed(s) \subseteq sessions[j].meta

(* It has one appointment selection at most.                               *)
SelectionOnce ==
    \A j \in DOMAIN sessions : ~sessions[j].shared => sessions[j].selections <= 1

(* However requests overlap, no session gets past customer_registration    *)
(* before its customer has a name: a request that goes on in the name of   *)
(* an engine whose state is past is stopped by the guard, for the mark of  *)
(* the state it finds is not in its own store.                             *)
NamedFirst ==
    \A j \in DOMAIN sessions : \A t \in sessions[j].transitions :
        IndexOf(t.to) > IndexOf("customer_registration")
        => customers[sessions[j].customer].named

(* Requests that come one after another, sessions that expire and workers  *)
(* that are killed between them included, never end in an exception.       *)
RaisedByOverlap == \A w \in Workers : worker[w].raised => overlapped

(* Workers that wait for rows of each other's transactions do not all wait *)
(* at once: the chain of engines takes its locks in one order.             *)
SomeoneGoesOn == Busy # {} => \E w \in Busy : ENABLED Works(w)
===============================================================================
