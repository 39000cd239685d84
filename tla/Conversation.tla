----------------------------- MODULE Conversation -----------------------------
(***************************************************************************)
(* One customer's scheduling conversation: a SchedulerSession, its         *)
(* AppointmentSelectionState, the two state machines that drive them and   *)
(* the logic engines of lib/skej/state_logic.  A request runs one engine,  *)
(* whose think method may transition a machine, whose after-callback runs  *)
(* the next engine, and so on: the chain of nested calls is the variable   *)
(* `stack', each frame the work that is left when the call above returns.  *)
(* A step is the code between two commits, so that an exception or a       *)
(* killed worker (Abort) finds exactly what the database would hold.       *)
(***************************************************************************)
EXTENDS Integers, Sequences, FiniteSets

CONSTANTS
    Businesses,    \* the business configurations explored (see Business)
    Slots,         \* the appointments a date may offer, numbered by start time
    FreeSets,      \* what other customers may leave free, sets of slots
    SmsInputs,     \* the message bodies a text may carry
    VoiceInputs,   \* the digits or recording a call may carry
    Raising,       \* calls that raise at this commit, of {"setting", "start"}
    MayAbort       \* whether an exception or a crash may end a request

ASSUME SlotsAssumption == Slots \subseteq Nat \ {0} /\ IsFiniteSet(Slots)
ASSUME FreeAssumption == FreeSets \subseteq SUBSET Slots
ASSUME RaisingAssumption == Raising \subseteq {"setting", "start"}
ASSUME AbortAssumption == MayAbort \in BOOLEAN

-------------------------------------------------------------------------------
(* Values.  Dates, names and ids are abstracted to what the control reads.  *)

Kinds == {"none", "date", "text", "change", "yes", "no", "number", "recording"}
Input == [kind : Kinds, n : Nat]
NoInput == [kind |-> "none", n |-> 0]

ASSUME InputAssumption == SmsInputs \subseteq Input /\ VoiceInputs \subseteq Input

Modes == {"ask", "ask_and_assume", "assume"}
Business == [offices : 1..2, services : 1..2, providers : 1..2,
             office : Modes, service : Modes, full_control : BOOLEAN]
ASSUME BusinessAssumption == Businesses \subseteq Business

linear_states ==
    <<"handshake", "initial_decoder", "customer_registration",
      "office_selection", "service_selection", "provider_selection",
      "appointment_selection", "finish">>

SessionStates ==
    {"handshake", "initial_decoder", "customer_registration",
     "office_selection", "service_selection", "provider_selection",
     "appointment_selection", "finish"}

AptStates == {"handshake", "initial_input_date", "repeat_input_date",
              "display_result", "summary", "finish"}

Selections == {"office", "service", "provider"}
StateOf(sel) == CASE sel = "office"   -> "office_selection"
                  [] sel = "service"  -> "service_selection"
                  [] sel = "provider" -> "provider_selection"

(* "" is what to_s makes of a date Chronic could not parse.                 *)
NoDate == "nil"
DateValues == {NoDate, "date", ""}

NoSlot == 0

(* The session's JSON meta column, less the keys nobody reads.              *)
Store == [complete : SUBSET SessionStates,
          shaked : BOOLEAN, asked_name : BOOLEAN, decoded : BOOLEAN,
          chosen : SUBSET Selections, assumed : SUBSET Selections,
          asked_to_change : SUBSET Selections, confirming : SUBSET Selections,
          retrying : SUBSET Selections, just_shown : BOOLEAN]

EmptyStore == [complete |-> {}, shaked |-> FALSE, asked_name |-> FALSE,
               decoded |-> FALSE, chosen |-> {}, assumed |-> {},
               asked_to_change |-> {}, confirming |-> {}, retrying |-> {},
               just_shown |-> FALSE]

(* The rows of this conversation.  apt = "none" until the selection row is  *)
(* created; date and chosen are the two keys of that row's own meta.        *)
Database == [state : SessionStates, store : Store, finished : BOOLEAN,
             apt : AptStates \cup {"none"}, date : DateValues,
             chosen : Slots \cup {NoSlot}, named : BOOLEAN,
             booked : SUBSET Slots]

(* A model instance of the session: its memoized store, and the value the  *)
(* instance last read or wrote (ActiveRecord writes changed columns only).  *)
Instance == [store : Store, saved : Store]

Copies == 1..2
Devices == {"sms", "voice"}
Engines == ({"session"} \X Copies \X SessionStates)
               \cup ({"apt"} \X Copies \X AptStates)

Views == {"handshake", "ask_name", "ask_office", "ask_service", "ask_provider",
          "welcome", "ask_date", "results", "no_results", "summary",
          "under_construction", "final_report"}
Raised == {"undeclared", "denied", "nil_results", "setting", "start",
           "no_view", "aborted"}
Replies == Views \cup Raised \cup {"none"}

Frame ==
    [op : {"logic"}, m : {"session", "apt"}, c : Copies]
      \cup [op : {"done"}, eng : Engines]
      \cup [op : {"commit", "guard"}, rescues : SUBSET {"denied", "undeclared"}]
      \cup [op : {"to_session"}, c : Copies, to : SessionStates,
            rescues : SUBSET {"denied", "undeclared"}]
      \cup [op : {"to_apt"}, c : Copies, to : AptStates,
            rescues : SUBSET {"denied", "undeclared"}]
      \cup [op : {"reset"}, c : Copies]
      \cup [op : {"provider"}, c : Copies, input : Input]
      \cup [op : {"save_date"}, date : DateValues]
      \cup [op : {"book"}, slot : Slots, n : Nat]
      \cup [op : {"choose"}, slot : Slots]
      \cup [op : {"menu", "chosen", "finish", "respond"}]
      \cup [op : {"render"}, at : AptStates \cup {"none"}]

-------------------------------------------------------------------------------
VARIABLES
    biz,        \* the business: how many choices it has, and its settings
    db,         \* the database as the running request sees it
    disk,       \* the database as committed
    mem,        \* the session instances of the running request
    req,        \* the running request
    stack,      \* the nested calls in progress, innermost first
    thinked,    \* the engines of this request whose think has returned
    free,       \* the slots other customers leave free on this request's day
    announced,  \* the numbered list of slots the customer was last sent
    reply       \* what the last request answered

vars == <<biz, db, disk, mem, req, stack, thinked, free, announced, reply>>
vars_but_stack == <<biz, db, disk, mem, req, thinked, free, announced, reply>>

Blank == [store |-> EmptyStore, saved |-> EmptyStore]
Idle == [device |-> "none", input |-> NoInput, twin |-> FALSE, resets |-> 0]
NoList == [first |-> 0, slots |-> {}]

Init ==
    /\ biz \in Businesses
    /\ \E named \in BOOLEAN :
          db = [state |-> "handshake", store |-> EmptyStore, finished |-> FALSE,
                apt |-> "none", date |-> NoDate, chosen |-> NoSlot,
                named |-> named, booked |-> {}]
    /\ disk = db
    /\ mem = [c \in Copies |-> Blank]
    /\ req = Idle
    /\ stack = <<>>
    /\ thinked = {}
    /\ free = {}
    /\ announced = NoList
    /\ reply = "none"

-------------------------------------------------------------------------------
(* Calls, saves and transactions.                                           *)

Running == stack # <<>>
At(op) == stack # <<>> /\ Head(stack).op = op

Logic(m, c) == [op |-> "logic", m |-> m, c |-> c]
ToSession(c, to, rescues) ==
    [op |-> "to_session", c |-> c, to |-> to, rescues |-> rescues]
ToApt(c, to, rescues) ==
    [op |-> "to_apt", c |-> c, to |-> to, rescues |-> rescues]

(* transition_to! rescues nothing, transition_to both refusals, and         *)
(* transition_next! only that of a guard.                                   *)
Bang == {}
Soft == {"denied", "undeclared"}

current_state(m) == IF m = "session" THEN db.state ELSE db.apt

(* The engine of machine m's current state is asked to think.  An engine is *)
(* cached by its session instance and thinks again only while its first     *)
(* think has not returned.                                                  *)
Thinking(m, c, s) ==
    /\ At("logic") /\ Head(stack).m = m /\ Head(stack).c = c
    /\ current_state(m) = s
    /\ <<m, c, s>> \notin thinked

(* think calls `frames' last; process! then marks the engine.               *)
Calls(frames) ==
    LET me == Head(stack) IN
    stack' = frames \o <<[op |-> "done",
                          eng |-> <<me.m, me.c, current_state(me.m)>>]>>
                    \o Tail(stack)

(* A frame that is not an engine's think is replaced by what it calls.      *)
Continues(frames) == stack' = frames \o Tail(stack)

InTransaction == \E i \in DOMAIN stack : stack[i].op = "commit"

Write(d) ==
    /\ db' = d
    /\ disk' = IF InTransaction THEN disk ELSE d

Saved(c, st, d) == IF st = mem[c].saved THEN d ELSE [d EXCEPT !.store = st]

Save(c, st, d) ==
    /\ mem' = [mem EXCEPT ![c] = [store |-> st, saved |-> st]]
    /\ Write(Saved(c, st, d))

Remember(c, st) ==
    /\ mem' = [mem EXCEPT ![c].store = st]
    /\ UNCHANGED <<db, disk>>

Marked(st, s) == [st EXCEPT !.complete = @ \cup {s}]

IndexOf(s) == CHOOSE i \in DOMAIN linear_states : linear_states[i] = s

next_state_by_priority(s) ==
    IF s = "finish" THEN linear_states[2] ELSE linear_states[IndexOf(s) + 1]

(* Mutant: advance! leaves the store in memory.                             *)
advance_unsaved(c, s, st, d) ==
    /\ mem' = [mem EXCEPT ![c].store = Marked(st, s)]
    /\ Write(d)

(* The meta column is saved before the completion mark is set, so a mark    *)
(* made by advance! itself stays in memory until the next save.             *)
advance(c, s, st, d) ==
    /\ mem' = [mem EXCEPT ![c] = [store |-> Marked(st, s), saved |-> st]]
    /\ Write(Saved(c, st, d))

Advance(c) == ToSession(c, next_state_by_priority(db.state), {"denied"})

Answer(r) ==
    /\ stack' = <<>>
    /\ req' = Idle
    /\ free' = {}
    /\ mem' = [c \in Copies |-> Blank]
    /\ thinked' = {}
    /\ reply' = r

(* An exception nobody rescues, after a save of d: the open transaction is  *)
(* rolled back.                                                             *)
RaiseAfter(why, d) ==
    /\ Answer(why)
    /\ disk' = IF InTransaction THEN disk ELSE d
    /\ db' = disk'
    /\ UNCHANGED <<biz, announced>>

Raise(why) == RaiseAfter(why, disk)

(* A transition rescues what its guard and its callbacks raise, as well as  *)
(* its own refusal.                                                         *)
Catches(i, why) ==
    /\ i = 1 \/ stack[i].op \in {"commit", "guard"}
    /\ why \in stack[i].rescues

(* The calls down to the i-th end.  A transaction that was begun inside     *)
(* another one ends with it, and nothing it wrote is undone.                *)
Unwind(i) ==
    LET rest == SubSeq(stack, i + 1, Len(stack)) IN
    /\ stack' = rest
    /\ db' = IF \E j \in DOMAIN rest : rest[j].op = "commit" THEN db ELSE disk
    /\ UNCHANGED <<biz, disk, mem, req, thinked, free, announced, reply>>

(* A refusal goes up to the innermost call that rescues it.                 *)
Refuse(why) ==
    \/ (\A i \in DOMAIN stack : ~Catches(i, why)) /\ Raise(why)
    \/ \E i \in DOMAIN stack :
          /\ Catches(i, why)
          /\ \A j \in 1..(i - 1) : ~Catches(j, why)
          /\ Unwind(i)

(* Mutant: the input of a finished choice stays for the next state.         *)
clear_session_input_forgotten == req' = req

clear_session_input == req' = [req EXCEPT !.input = NoInput]

user_input == req.input.kind \notin {"none", "recording"}
sms == req.device = "sms"

-------------------------------------------------------------------------------
(* Requests, and the frames every engine shares.                            *)

Request(device, input) ==
    /\ ~Running /\ ~db.finished
    /\ input \in (IF device = "sms" THEN SmsInputs ELSE VoiceInputs)
    /\ \E f \in FreeSets : free' = f
    /\ req' = [device |-> device, input |-> input, twin |-> FALSE, resets |-> 0]
    /\ mem' = [mem EXCEPT ![1] = [store |-> db.store, saved |-> db.store]]
    /\ stack' = <<Logic("session", 1), Logic("session", 1), [op |-> "respond"]>>
    /\ reply' = "none"
    /\ UNCHANGED <<biz, db, disk, thinked, announced>>

AlreadyThinked ==
    /\ At("logic")
    /\ LET me == Head(stack) IN <<me.m, me.c, current_state(me.m)>> \in thinked
    /\ Continues(<<>>)
    /\ UNCHANGED vars_but_stack

Done ==
    /\ At("done")
    /\ thinked' = thinked \cup {Head(stack).eng}
    /\ Continues(<<>>)
    /\ UNCHANGED <<biz, db, disk, mem, req, free, announced, reply>>

(* Only the outermost of nested transactions commits.                       *)
Commit ==
    /\ At("commit")
    /\ disk' = IF \E i \in DOMAIN Tail(stack) : Tail(stack)[i].op = "commit"
               THEN disk ELSE db
    /\ Continues(<<>>)
    /\ UNCHANGED <<biz, db, mem, req, thinked, free, announced, reply>>

Abort == MayAbort /\ Running /\ Raise("aborted")

-------------------------------------------------------------------------------
(* The two state machines.                                                  *)

successors(s) ==
    IF s = "finish" THEN {"appointment_selection"}
    ELSE {next_state_by_priority(s), "handshake", s}
           \cup (IF s = "appointment_selection"
                 THEN {"office_selection", "service_selection", "provider_selection"}
                 ELSE {})

apt_successors(s) ==
    CASE s = "handshake" -> {"initial_input_date", "display_result", "summary"}
      [] s = "initial_input_date" ->
            {"display_result", "initial_input_date", "repeat_input_date", "summary"}
      [] s = "repeat_input_date" -> {"initial_input_date", "repeat_input_date"}
      [] s = "display_result" ->
            {"summary", "repeat_input_date", "initial_input_date", "handshake", "finish"}
      [] s = "summary" ->
            {"repeat_input_date", "initial_input_date", "finish", "handshake", "summary"}
      [] s = "finish" -> {"handshake", "finish"}

Declared == Head(stack).to \in successors(db.state)

(* The guard of every transition: the state being left is complete.         *)
Approved ==
    \/ db.state = "handshake"
    \/ db.state \in mem[Head(stack).c].store.complete

(* Mutant: the guard of finish is gone.                                     *)
SentBack_never == FALSE

(* Mutant: one chance fewer.                                                *)
MaxResets_two == 2

(* The guard of finish sends a conversation without an appointment back,    *)
(* three times in a request at most.                                        *)
MaxResets == 3
SentBack == Head(stack).to = "finish" /\ db.chosen = NoSlot /\ req.resets < MaxResets

(* What is left of a transition while its callbacks run.                    *)
Transaction == [op |-> "commit", rescues |-> Head(stack).rescues]

EnterSessionState ==
    /\ At("to_session") /\ Declared /\ Approved /\ ~SentBack
    /\ db' = [db EXCEPT !.state = Head(stack).to]
    /\ Continues(<<Logic("session", Head(stack).c), Transaction>>)
    /\ UNCHANGED <<biz, disk, mem, req, thinked, free, announced, reply>>

(* The guard's own call of reset_appointment_selection!, up to and          *)
(* including the appointment machine's transition; it runs within the       *)
(* transition it guards.                                                    *)
reset_appointment_selection ==
    /\ At("to_session") /\ Declared /\ Approved /\ SentBack
    /\ req' = [req EXCEPT !.resets = @ + 1]
    /\ LET c == Head(stack).c IN
       /\ Save(c, mem[c].store, db)
       /\ Continues((IF db.apt = "handshake" THEN <<>>
                     ELSE <<ToApt(c, "handshake", Bang)>>)
                     \o <<[op |-> "reset", c |-> c],
                          [op |-> "guard", rescues |-> Head(stack).rescues]>>)
    /\ UNCHANGED <<biz, thinked, free, announced, reply>>

Reset ==
    /\ At("reset")
    /\ Continues(IF db.state = "appointment_selection" THEN <<>>
                 ELSE <<ToSession(Head(stack).c, "appointment_selection", Bang)>>)
    /\ UNCHANGED vars_but_stack

(* The guard that has sent the conversation back answers false.             *)
Guard == At("guard") /\ Refuse("denied")

Refusal == IF Declared THEN "denied" ELSE "undeclared"

(* Mutant: a refused transition is tried again.                             *)
RefuseSession_retries ==
    At("to_session") /\ ~(Declared /\ Approved) /\ UNCHANGED vars

RefuseSession ==
    /\ At("to_session") /\ ~(Declared /\ Approved)
    /\ Refuse(Refusal)

EnterAptState ==
    /\ At("to_apt") /\ Head(stack).to \in apt_successors(db.apt)
    /\ db' = [db EXCEPT !.apt = Head(stack).to]
    /\ Continues(<<Logic("apt", Head(stack).c), Transaction>>)
    /\ UNCHANGED <<biz, disk, mem, req, thinked, free, announced, reply>>

RefuseApt ==
    /\ At("to_apt") /\ Head(stack).to \notin apt_successors(db.apt)
    /\ Refuse("undeclared")

-------------------------------------------------------------------------------
(* The engines of the session machine.                                      *)

Handshake(c) ==
    /\ Thinking("session", c, "handshake")
    /\ LET st == mem[c].store IN
       \/ /\ sms \/ st.shaked
          /\ advance(c, "handshake", Marked(st, "handshake"), db)
          /\ Calls(<<Advance(c)>>)
       \/ /\ ~(sms \/ st.shaked)
          /\ Save(c, [st EXCEPT !.shaked = TRUE], db)
          /\ Calls(<<>>)
    /\ UNCHANGED <<biz, req, thinked, free, announced, reply>>

InitialDecoder(c) ==
    /\ Thinking("session", c, "initial_decoder")
    /\ LET st == mem[c].store
           dated == sms /\ req.input.kind = "date"
           kept == [st EXCEPT !.decoded = @ \/ dated]
       IN /\ req' = [req EXCEPT !.input = IF dated THEN NoInput ELSE @]
          /\ advance(c, "initial_decoder", Marked(kept, "initial_decoder"), db)
    /\ Calls(<<Advance(c)>>)
    /\ UNCHANGED <<biz, thinked, free, announced, reply>>

(* The name comes from the text that answers the question, or from a        *)
(* recording; the customer row is saved on its own.                         *)
CustomerRegistration(c) ==
    /\ Thinking("session", c, "customer_registration")
    /\ LET st == mem[c].store
           heard == \/ sms /\ user_input /\ st.asked_name
                    \/ ~sms /\ req.input.kind = "recording"
           named == db.named \/ heard
       IN \/ /\ named
             /\ advance(c, "customer_registration",
                        Marked(st, "customer_registration"),
                        [db EXCEPT !.named = TRUE])
             /\ clear_session_input
             /\ Calls(<<Advance(c)>>)
          \/ /\ ~named
             /\ Calls(<<>>)
             /\ UNCHANGED <<db, disk, mem, req>>
    /\ UNCHANGED <<biz, thinked, free, announced, reply>>

count(sel) == CASE sel = "office"   -> biz.offices
                [] sel = "service"  -> biz.services
                [] sel = "provider" -> biz.providers
mode(sel) == IF sel = "office" THEN biz.office ELSE biz.service

Complete(c, s) == s \in mem[c].store.complete
matches(sel, input) == input.n \in 1..count(sel)

With(st, sel) == [st EXCEPT !.chosen = @ \cup {sel}]

(* Office and service selection: nothing to choose, or chosen before.       *)
SkipSelection(c, sel) ==
    LET s == StateOf(sel)  st == mem[c].store IN
    /\ Thinking("session", c, s)
    /\ \/ /\ count(sel) < 2
          /\ advance(c, s, Marked(With(st, sel), s), db)
       \/ /\ count(sel) >= 2 /\ Complete(c, s) /\ sel \in st.chosen
          /\ advance(c, s, st, db)
    /\ Calls(<<Advance(c)>>)
    /\ UNCHANGED <<biz, req, thinked, free, announced, reply>>

Selecting(c, sel) ==
    /\ Thinking("session", c, StateOf(sel))
    /\ count(sel) >= 2
    /\ ~(Complete(c, StateOf(sel)) /\ sel \in mem[c].store.chosen)

(* The branches of process_assumptions, by the setting and the flags.       *)
Asked(c, sel) == sel \in mem[c].store.asked_to_change
Offering(c, sel) == mode(sel) = "ask_and_assume" /\ ~Asked(c, sel)
Confirming(c, sel) == Offering(c, sel) /\ sel \in mem[c].store.confirming
Retrying(c, sel) ==
    /\ Offering(c, sel) /\ sel \notin mem[c].store.confirming
    /\ sel \in mem[c].store.retrying

(* process_input: the digits name an option, or they do not.                *)
process_input(c, sel) ==
    LET s == StateOf(sel)
        st == IF Retrying(c, sel)
              THEN [mem[c].store EXCEPT !.retrying = @ \ {sel}]
              ELSE mem[c].store
    IN
    /\ Selecting(c, sel)
    /\ mode(sel) = "ask" \/ Asked(c, sel) \/ Retrying(c, sel)
    /\ \/ /\ matches(sel, req.input)
          /\ advance(c, s, Marked(With(st, sel), s), db)
          /\ clear_session_input
          /\ Calls(<<Advance(c)>>)
       \/ /\ ~matches(sel, req.input)
          /\ Remember(c, st)
          /\ Calls(<<>>)
          /\ UNCHANGED req
    /\ UNCHANGED <<biz, thinked, free, announced, reply>>

says_yes == \/ sms /\ req.input.kind = "yes"
            \/ ~sms /\ req.input.n = 1
says_no == \/ sms /\ req.input.kind \in {"no", "change"}
           \/ ~sms /\ req.input.n = 2

(* process_assumptions when the business offers its default: a caller is    *)
(* asked to confirm it, a text is moved on with it at once.                 *)
OfferDefault(c, sel) ==
    LET s == StateOf(sel)  st == mem[c].store IN
    /\ Selecting(c, sel)
    /\ Offering(c, sel) /\ ~Retrying(c, sel)
    /\ \/ /\ Confirming(c, sel) /\ ~says_yes /\ says_no
          /\ advance(c, s, With(st, sel), db)
          /\ clear_session_input
          /\ Calls(<<Advance(c)>>)
       \/ /\ Confirming(c, sel) /\ (says_yes \/ ~says_no)
          /\ Save(c, [st EXCEPT !.asked_to_change = @ \cup {sel}], db)
          /\ Calls(<<>>)
          /\ UNCHANGED req
       \/ /\ ~Confirming(c, sel) /\ sms
          /\ advance(c, s, With(st, sel), db)
          /\ Calls(<<Advance(c)>>)
          /\ UNCHANGED req
       \/ /\ ~Confirming(c, sel) /\ ~sms
          /\ Save(c, [st EXCEPT !.confirming = @ \cup {sel}], db)
          /\ Calls(<<>>)
          /\ UNCHANGED req
    /\ UNCHANGED <<biz, thinked, free, announced, reply>>

(* process_assumptions when the business does not: the id goes under        *)
(* another key than the one a customer's choice goes under.                 *)
ImposeDefault(c, sel) ==
    LET st == mem[c].store IN
    /\ Selecting(c, sel)
    /\ mode(sel) = "assume" /\ ~Asked(c, sel)
    /\ advance(c, StateOf(sel), [st EXCEPT !.assumed = @ \cup {sel}], db)
    /\ clear_session_input
    /\ Calls(<<Advance(c)>>)
    /\ UNCHANGED <<biz, thinked, free, announced, reply>>

(* A completed provider selection advances and then goes on with the rest   *)
(* of think, on the digits it read first: there is no return.               *)
ProviderSelection(c) ==
    LET rest == [op |-> "provider", c |-> c, input |-> req.input] IN
    /\ Thinking("session", c, "provider_selection")
    /\ \/ /\ Complete(c, "provider_selection")
          /\ advance(c, "provider_selection", mem[c].store, db)
          /\ Calls(<<Advance(c), rest>>)
       \/ /\ ~Complete(c, "provider_selection")
          /\ Calls(<<rest>>)
          /\ UNCHANGED <<db, disk, mem>>
    /\ UNCHANGED <<biz, req, thinked, free, announced, reply>>

ProviderSelectionRest ==
    /\ At("provider")
    /\ LET c == Head(stack).c
           assigned == biz.providers < 2 \/ ~biz.full_control
           picked == ~assigned /\ matches("provider", Head(stack).input)
       IN /\ IF assigned \/ picked
             THEN /\ advance(c, "provider_selection",
                            Marked(With(mem[c].store, "provider"),
                                   "provider_selection"), db)
                  /\ Continues(<<Advance(c)>>)
             ELSE Continues(<<>>) /\ UNCHANGED <<db, disk, mem>>
          /\ IF picked THEN clear_session_input ELSE UNCHANGED req
    /\ UNCHANGED <<biz, thinked, free, announced, reply>>

(* The first visit creates the selection row, and the new row's             *)
(* scheduler_session is a second instance of the session, read from the     *)
(* database: for the rest of that request the two machines work on          *)
(* different copies of the store.                                           *)
AppointmentSelection(c) ==
    /\ Thinking("session", c, "appointment_selection")
    /\ LET st == Marked(mem[c].store, "appointment_selection") IN
       \/ /\ db.apt = "none"
          /\ mem' = [mem EXCEPT ![c].store = st,
                                ![2] = [store |-> db.store, saved |-> db.store]]
          /\ Write([db EXCEPT !.apt = "handshake"])
          /\ req' = [req EXCEPT !.twin = TRUE]
       \/ /\ db.apt # "none"
          /\ Remember(c, st)
          /\ UNCHANGED req
    /\ Calls(<<Logic("apt", c)>>)
    /\ UNCHANGED <<biz, thinked, free, announced, reply>>

Finish(c) ==
    /\ Thinking("session", c, "finish")
    /\ \/ /\ "setting" \notin Raising
          /\ Save(c, mem[c].store, [db EXCEPT !.finished = TRUE])
          /\ Calls(<<>>)
          /\ UNCHANGED <<biz, req, thinked, free, announced, reply>>
       \/ /\ "setting" \in Raising
          /\ RaiseAfter("setting", Saved(c, mem[c].store,
                                         [db EXCEPT !.finished = TRUE]))

-------------------------------------------------------------------------------
(* The engines of the appointment machine.  Whichever instance of the row   *)
(* asks, they think on the session instance the row belongs to.             *)

I == IF req.twin THEN 2 ELSE 1

(* What the query engine answers: the day's slots still free, in order.     *)
Offered == free \ db.booked
Nth(S, k) ==
    IF \E s \in S : Cardinality({t \in S : t <= s}) = k
    THEN CHOOSE s \in S : Cardinality({t \in S : t <= s}) = k
    ELSE NoSlot

(* Mutant: an array indexed from one.                                       *)
RubyAt_from_one(S, i) == Nth(S, i)

(* An array indexed the way Ruby does: from 0, and from -1 backwards.       *)
RubyAt(S, i) == Nth(S, IF i >= 0 THEN i + 1 ELSE Cardinality(S) + i + 1)

AptHandshake(c) ==
    /\ Thinking("apt", c, "handshake")
    /\ LET st == mem[I].store
           decodes == db.date # "date" /\ sms /\ st.decoded
           dated == db.date = "date" \/ decodes
       IN /\ IF decodes
             THEN /\ Write([db EXCEPT !.date = "date"])
                  /\ mem' = [mem EXCEPT ![I].store = [st EXCEPT !.decoded = FALSE]]
             ELSE UNCHANGED <<db, disk, mem>>
          /\ Calls(<<ToApt(I, IF ~dated THEN "initial_input_date"
                              ELSE IF sms THEN "summary" ELSE "display_result",
                           Bang)>>)
    /\ UNCHANGED <<biz, req, thinked, free, announced, reply>>

InitialInputDate(c) ==
    /\ Thinking("apt", c, "initial_input_date")
    /\ LET st == mem[I].store
           decoded == sms /\ st.decoded
           parses == IF sms THEN req.input.kind = "date" ELSE req.input.n \in 1..7
       IN \/ /\ decoded
             /\ Save(I, [st EXCEPT !.decoded = FALSE], db)
             /\ Calls(<<[op |-> "save_date", date |-> "date"]>>)
          \/ /\ ~decoded /\ user_input
             /\ Calls(<<[op |-> "save_date", date |-> IF parses THEN "date" ELSE ""]>>)
             /\ UNCHANGED <<db, disk, mem>>
          \/ /\ ~decoded /\ ~user_input
             /\ Calls(<<>>)
             /\ UNCHANGED <<db, disk, mem>>
    /\ UNCHANGED <<biz, req, thinked, free, announced, reply>>

SaveDate ==
    /\ At("save_date")
    /\ Write([db EXCEPT !.date = Head(stack).date])
    /\ clear_session_input
    /\ Continues(<<ToApt(I, IF sms THEN "summary" ELSE "display_result", Bang)>>)
    /\ UNCHANGED <<biz, mem, thinked, free, announced, reply>>

(* Mutant: another date is asked for, but not waited for.                   *)
RepeatInputDate_stays(c) ==
    /\ Thinking("apt", c, "repeat_input_date")
    /\ Save(I, [mem[I].store EXCEPT !.decoded = FALSE], db)
    /\ Calls(<<>>)
    /\ UNCHANGED <<biz, req, thinked, free, announced, reply>>

RepeatInputDate(c) ==
    /\ Thinking("apt", c, "repeat_input_date")
    /\ Save(I, [mem[I].store EXCEPT !.decoded = FALSE], db)
    /\ Calls(<<ToApt(I, "initial_input_date", Bang)>>)
    /\ UNCHANGED <<biz, req, thinked, free, announced, reply>>

(* Mutant: the number the customer sent is taken for an appointment.        *)
Books_by_number(slot, n) ==
    <<[op |-> "book", slot |-> n, n |-> n], [op |-> "choose", slot |-> n]>>

(* Mutant: the id is stored before the appointment.                         *)
Books_late(slot, n) ==
    <<[op |-> "choose", slot |-> slot], [op |-> "book", slot |-> slot, n |-> n]>>

(* Mutant: the id is not stored.                                            *)
Books_forgotten(slot, n) == <<[op |-> "book", slot |-> slot, n |-> n]>>

(* The appointment is stored first, and then its id.                        *)
Books(slot, n) ==
    <<[op |-> "book", slot |-> slot, n |-> n], [op |-> "choose", slot |-> slot]>>

wants_change ==
    \/ sms /\ req.input.kind = "change"
    \/ ~sms /\ req.input.n = 9

(* The engine marks itself before it thinks; an empty list asks for another *)
(* date, and a number picks from the list the last request showed.          *)
DisplayResult(c) ==
    LET st == mem[I].store
        slot == RubyAt(Offered, req.input.n - 2)
    IN
    /\ Thinking("apt", c, "display_result")
    /\ \/ /\ db.date = NoDate
          /\ Calls(<<ToApt(I, "repeat_input_date", Bang)>>)
          /\ thinked' = thinked \cup {<<"apt", c, "display_result">>}
          /\ UNCHANGED <<db, disk, mem, req, biz, free, announced, reply>>
       \/ /\ db.date # NoDate /\ wants_change
          /\ Save(I, st, db)
          /\ clear_session_input
          /\ Calls(<<ToApt(I, "repeat_input_date", Bang)>>)
          /\ thinked' = thinked \cup {<<"apt", c, "display_result">>}
          /\ UNCHANGED <<biz, free, announced, reply>>
       \/ /\ db.date = "" /\ ~wants_change
          /\ RaiseAfter("nil_results", Saved(I, st, db))
       \/ /\ db.date = "date" /\ ~wants_change
          /\ thinked' = thinked \cup {<<"apt", c, "display_result">>}
          /\ \/ /\ Offered = {}
                /\ Save(I, st, db)
                /\ Calls(<<ToApt(I, "repeat_input_date", Bang)>>)
             \/ /\ Offered # {} /\ ~(st.just_shown /\ user_input)
                /\ Save(I, [st EXCEPT !.just_shown = TRUE], db)
                /\ Calls(<<>>)
             \/ /\ Offered # {} /\ st.just_shown /\ user_input
                /\ mem' = [mem EXCEPT ![I] = [store |-> [st EXCEPT !.just_shown = FALSE],
                                              saved |-> st]]
                /\ Write(Saved(I, st, db))
                /\ Calls(IF slot = NoSlot THEN <<>>
                         ELSE Books(slot, req.input.n) \o <<ToApt(I, "finish", Bang)>>)
          /\ UNCHANGED <<biz, req, free, announced, reply>>

(* appointment.commit! and the store! of its id are two commits.            *)
Book ==
    /\ At("book")
    /\ Write([db EXCEPT !.booked = @ \cup {Head(stack).slot}])
    /\ Continues(<<>>)
    /\ UNCHANGED <<biz, mem, req, thinked, free, announced, reply>>

Choose ==
    /\ At("choose")
    /\ Write([db EXCEPT !.chosen = Head(stack).slot])
    /\ Continues(<<>>)
    /\ UNCHANGED <<biz, mem, req, thinked, free, announced, reply>>

(* Summary up to its menu.  A date with no appointments is forgotten.       *)
Summary(c) ==
    /\ Thinking("apt", c, "summary")
    /\ \/ /\ db.date = NoDate /\ ~mem[I].store.decoded
          /\ Calls(<<ToApt(I, "repeat_input_date", Bang)>>)
          /\ UNCHANGED <<biz, db, disk, mem, req, thinked, free, announced, reply>>
       \/ /\ db.date = NoDate /\ mem[I].store.decoded
          /\ Raise("nil_results")
       \/ /\ db.date # NoDate
          /\ Save(I, mem[I].store,
                  IF Offered = {} THEN [db EXCEPT !.date = NoDate] ELSE db)
          /\ Calls(<<[op |-> "menu"], [op |-> "chosen"]>>)
          /\ UNCHANGED <<biz, req, thinked, free, announced, reply>>

can_change(sel) ==
    CASE sel = "office"   -> biz.office # "assume"
      [] sel = "service"  -> biz.service # "assume"
      [] sel = "provider" -> biz.full_control

(* The options come first: service, office, provider, date; the             *)
(* appointments are numbered on from there.                                 *)
menu_options ==
    LET offer(sel) == IF can_change(sel) THEN <<sel>> ELSE <<>>
    IN offer("service") \o offer("office") \o offer("provider") \o <<"date">>

(* Mutant: the old choice is forgotten before the new one is made.          *)
Retry_forgets(sel) ==
    LET st == mem[I].store
        again == [st EXCEPT !.complete = @ \ {StateOf(sel)},
                            !.chosen = @ \ {sel}, !.retrying = @ \cup {sel}]
    IN /\ Save(I, again, db)
       /\ Continues(<<ToSession(I, StateOf(sel), Bang)>>)

(* retry!: the selection is to be made again.                               *)
Retry(sel) ==
    LET st == mem[I].store
        again == [st EXCEPT !.complete = @ \ {StateOf(sel)},
                            !.retrying = @ \cup {sel}]
    IN /\ Save(I, again, db)
       /\ Continues(<<ToSession(I, StateOf(sel), Bang)>>)

process_actions ==
    LET n == req.input.n
        options == Len(menu_options)
        slot == RubyAt(Offered, n - options - 1)
    IN
    /\ At("menu")
    /\ "setting" \notin Raising
    /\ clear_session_input
    /\ \/ /\ n > options /\ slot # NoSlot /\ "start" \notin Raising
          /\ Continues(Books(slot, n) \o <<[op |-> "finish"]>>)
          /\ UNCHANGED <<db, disk, mem>>
       \/ /\ n \in 1..options /\ menu_options[n] # "date"
          /\ Retry(menu_options[n])
       \/ /\ n = options
          /\ Continues(<<ToApt(I, "repeat_input_date", Bang)>>)
          /\ UNCHANGED <<db, disk, mem>>
       \/ /\ n = 0 \/ (n > options /\ slot = NoSlot)
          /\ Continues(<<>>)
          /\ UNCHANGED <<db, disk, mem>>
    /\ UNCHANGED <<biz, thinked, free, announced, reply>>

(* Neither the settings nor Appointment#label can be read at this commit.   *)
SummaryRaises ==
    /\ At("menu")
    /\ \/ "setting" \in Raising /\ Raise("setting")
       \/ /\ "setting" \notin Raising /\ "start" \in Raising
          /\ req.input.n > Len(menu_options)
          /\ RubyAt(Offered, req.input.n - Len(menu_options) - 1) # NoSlot
          /\ Raise("start")

(* The tail of think, also after a menu choice has moved both machines on.  *)
SummaryRest ==
    /\ At("chosen")
    /\ Continues(IF db.chosen # NoSlot \/ ~sms THEN <<[op |-> "finish"]>> ELSE <<>>)
    /\ UNCHANGED vars_but_stack

SummaryFinish ==
    /\ At("finish")
    /\ Save(I, Marked(mem[I].store, "appointment_selection"), db)
    /\ Continues(<<ToApt(I, "finish", Soft)>>)
    /\ UNCHANGED <<biz, req, thinked, free, announced, reply>>

(* Mutant: the end of the selection does not end the session.               *)
AptFinish_alone(c) ==
    /\ Thinking("apt", c, "finish")
    /\ Calls(<<>>)
    /\ UNCHANGED vars_but_stack

AptFinish(c) ==
    /\ Thinking("apt", c, "finish")
    /\ Calls(IF db.state = "finish" THEN <<>> ELSE <<ToSession(I, "finish", Soft)>>)
    /\ UNCHANGED vars_but_stack

-------------------------------------------------------------------------------
(* The answer.                                                              *)

Replying(view, list) == Answer(view) /\ announced' = list

(* The view of a session state, which may itself save.                      *)
Respond ==
    /\ At("respond")
    /\ \/ /\ db.state = "customer_registration"
          /\ Replying("ask_name", NoList)
          /\ Write(Saved(1, [mem[1].store EXCEPT !.asked_name = TRUE], db))
       \/ /\ db.state \in {"handshake", "initial_decoder", "office_selection",
                            "service_selection", "provider_selection", "finish"}
          /\ Replying(CASE db.state = "handshake" -> "handshake"
                        [] db.state = "initial_decoder" -> "no_view"
                        [] db.state = "office_selection" -> "ask_office"
                        [] db.state = "service_selection" -> "ask_service"
                        [] db.state = "provider_selection" -> "ask_provider"
                        [] db.state = "finish" -> IF "start" \in Raising THEN "start"
                                                  ELSE "final_report", NoList)
          /\ UNCHANGED <<db, disk>>
       \/ /\ db.state = "appointment_selection"
          /\ Continues((IF <<"apt", 1, db.apt>> \in thinked THEN <<>>
                        ELSE <<Logic("apt", 1)>>)
                          \o <<[op |-> "render", at |-> db.apt]>>)
          /\ UNCHANGED <<db, disk, mem, req, thinked, free, announced, reply>>
    /\ UNCHANGED biz

(* The view of an appointment state, from the list its engine found.        *)
Render ==
    LET at == Head(stack).at
        found == db.date # NoDate /\ Offered # {}
    IN
    /\ At("render")
    /\ \/ /\ at \in {"handshake", "initial_input_date", "finish", "repeat_input_date"}
          /\ Replying(CASE at = "handshake" -> "welcome"
                        [] at = "initial_input_date" -> "ask_date"
                        [] at = "finish" -> "under_construction"
                        [] at = "repeat_input_date" -> "no_view", NoList)
       \/ /\ at \in {"display_result", "summary"} /\ ~found
          /\ Replying("no_results", NoList)
       \/ /\ at = "display_result" /\ found
          /\ IF "start" \in Raising THEN Replying("start", NoList)
             ELSE Replying("results", [first |-> 1, slots |-> Offered])
       \/ /\ at = "summary" /\ found
          /\ IF ~sms THEN Replying("no_view", NoList)
             ELSE Replying("summary", [first |-> Len(menu_options) + 1, slots |-> Offered])
    /\ UNCHANGED <<biz, db, disk>>

-------------------------------------------------------------------------------
SessionThinks(c) ==
    \/ Handshake(c) \/ InitialDecoder(c) \/ CustomerRegistration(c)
    \/ \E sel \in {"office", "service"} :
          \/ SkipSelection(c, sel) \/ process_input(c, sel)
          \/ OfferDefault(c, sel) \/ ImposeDefault(c, sel)
    \/ ProviderSelection(c) \/ AppointmentSelection(c) \/ Finish(c)

AptThinks(c) ==
    \/ AptHandshake(c) \/ InitialInputDate(c) \/ RepeatInputDate(c)
    \/ DisplayResult(c) \/ Summary(c) \/ AptFinish(c)

Transitions ==
    \/ EnterSessionState \/ reset_appointment_selection \/ Reset \/ Guard
    \/ RefuseSession \/ EnterAptState \/ RefuseApt

Resumes ==
    \/ AlreadyThinked \/ Done \/ Commit
    \/ ProviderSelectionRest \/ SaveDate \/ Book \/ Choose
    \/ process_actions \/ SummaryRaises \/ SummaryRest \/ SummaryFinish
    \/ Respond \/ Render

(* What the worker does, as opposed to its customer and its misfortunes.    *)
Work == (\E c \in Copies : SessionThinks(c) \/ AptThinks(c)) \/ Transitions \/ Resumes

Next ==
    \/ \E d \in Devices, i \in SmsInputs \cup VoiceInputs : Request(d, i)
    \/ Work
    \/ Abort

Spec == Init /\ [][Next]_vars

(* A worker that has taken a request goes on with it.                       *)
FairSpec == Spec /\ WF_vars(Work)

-------------------------------------------------------------------------------
(* Properties.                                                              *)

(* Every variable stays within the values the code can give it: rows, the   *)
(* two instances of the session, the request and the frames of its stack.   *)
TypeOK ==
    /\ biz \in Business
    /\ db \in Database /\ disk \in Database
    /\ mem \in [Copies -> Instance]
    /\ req \in [device : Devices \cup {"none"}, input : Input,
                twin : BOOLEAN, resets : 0..MaxResets]
    /\ stack \in Seq(Frame)
    /\ thinked \subseteq Engines
    /\ free \subseteq Slots
    /\ announced \in [first : Nat, slots : SUBSET Slots]
    /\ reply \in Replies

(* A finished session has an appointment, and it is stored: whatever path   *)
(* leads to finish, its guard and the order of commit! and store! hold      *)
(* (scheduler_state_machine.rb:68-77, summary.rb:106-109).                  *)
FinishedIsBooked == disk.finished => disk.chosen \in disk.booked

(* The id a selection keeps is that of a stored appointment, also after a   *)
(* crash between the two saves.                                             *)
ChosenIsBooked == disk.chosen # NoSlot => disk.chosen \in disk.booked

(* One conversation books at most one appointment, however often the        *)
(* machines are sent round and whichever list the customer answers.         *)
AtMostOneBooking == Cardinality(disk.booked) <= 1

(* When a request has been answered, the customer who booked is finished:   *)
(* the two machines do not stop half way.                                   *)
BookedIsFinished == ~Running /\ disk.booked # {} => disk.finished

(* The guard of finish is never waved through because it already sent the   *)
(* conversation back MaxResets times in one request.                        *)
FinishGuardHolds ==
    At("to_session") /\ Head(stack).to = "finish" /\ Declared /\ Approved
        /\ db.chosen = NoSlot => req.resets < MaxResets

(* No appointment is looked for before there is a name, an office, a        *)
(* service and a provider, in the database and not only in memory.          *)
SelectionsMade ==
    disk.state \in {"appointment_selection", "finish"} =>
        disk.named /\ disk.store.chosen \cup disk.store.assumed = Selections

(* A request never stops in a state that has nothing to say to this device: *)
(* initial_decoder, repeat_input_date, or the text-only summary in a call.  *)
AlwaysSpeaks == reply # "no_view"

(* A chosen office, service or provider is never forgotten, although two    *)
(* instances of the session save the whole store one after the other.       *)
ChoicesKept == [][disk.store.chosen \subseteq disk'.store.chosen]_vars

(* Whatever is rolled back, the committed calendar obeys the ledger:        *)
(* bookings stay, the chosen appointment is one, a finished session stays.  *)
Kept == INSTANCE Ledger WITH booked <- disk.booked, chosen <- disk.chosen,
                             finished <- disk.finished
KeepsLedger == Kept!Spec

(* The number a text sends back books the appointment that had this number  *)
(* in the summary, if the calendar has not changed since.                   *)
BooksAnnounced ==
    LET me == Head(stack)  nth == me.n - announced.first + 1 IN
    At("book") /\ announced.slots = Offered /\ nth \in 1..Cardinality(Offered)
        => me.slot = Nth(Offered, nth)

SummaryBooksAnnounced == db.apt = "summary" => BooksAnnounced

(* The digit a caller presses books the appointment read out with it.       *)
ResultsBookAnnounced == db.apt = "display_result" => BooksAnnounced

(* The frames of the deepest chain of calls TLC finds, and two to spare.    *)
DeepestCalls == 32

(* Transitions call engines that call transitions, yet the nesting is       *)
(* bounded: a choice clears its input, and an engine thinks once a request  *)
(* (summary.rb:86-88 fears "massive recursiveness").                        *)
RecursionBounded == Len(stack) <= DeepestCalls

(* Every request is answered.                                               *)
Answered == Running ~> ~Running

(* The engine of the appointment machine's finish moves the session to      *)
(* finish as well (appointments/finish.rb:9-14).                            *)
ParentFinishes == ~Running /\ disk.apt = "finish" => disk.state = "finish"

(* A day without results sends the customer back for another date           *)
(* (display_result.rb:34-45), and does not end the request.                 *)
NoResultsAnswered == reply # "nil_results"
===============================================================================
