--------------------------- MODULE UnwindingProofs ----------------------------
(***************************************************************************)
(* The shape of the calls in progress.  Whatever a step writes outside a   *)
(* transaction is committed at once, only the last call answers, and every *)
(* step but a transition and a refusal replaces the innermost call by what *)
(* it calls in turn.                                                       *)
(***************************************************************************)
EXTENDS ConversationProofs

Answers == {"respond", "render"}

Settled ==
    /\ \A i \in DOMAIN stack : stack[i].op \in Answers => i = Len(stack)
    /\ ~InTransaction => db = disk

(* The calls an engine makes: it neither answers nor opens a transaction.   *)
Call == {f \in Frame : f.op \notin Answers \cup {"commit"}}

Writes == UNCHANGED <<db, disk>> \/ \E d : Write(d)

(* The innermost call is replaced by what it calls.                         *)
Goes ==
    /\ stack # <<>> /\ Head(stack) \in Call /\ Writes
    /\ \E fs \in Seq(Call) : stack' = fs \o Tail(stack)

(* A refusal is raised by a transition or by its guard.                     *)
Refuses ==
    /\ At("to_session") \/ At("to_apt") \/ At("guard")
    /\ \E why \in {"denied", "undeclared"} : Refuse(why)

Raises == \E why, d : RaiseAfter(why, d)

-------------------------------------------------------------------------------
(* Sequences of calls.                                                      *)

LEMMA CallFrames == Call \subseteq Frame /\ Seq(Call) \subseteq Seq(Frame)
BY DEF Call

LEMMA ACall ==
    ASSUME NEW f \in Frame, f.op \notin {"respond", "render", "commit"}
    PROVE  f \in Call /\ <<f>> \in Seq(Call)
<1>1. f \in Call
  BY DEF Call, Answers
<1>. QED BY <1>1

LEMMA NoCalls == <<>> \in Seq(Call)
OBVIOUS

LEMMA TwoCalls ==
    ASSUME NEW f \in Call, NEW g \in Call
    PROVE  <<f, g>> \in Seq(Call)
OBVIOUS

LEMMA AllCalls ==
    ASSUME NEW f \in Frame
    PROVE  /\ \A m, c : f = Logic(m, c) => <<f>> \in Seq(Call)
           /\ \A c, to, r : f \in {ToSession(c, to, r), ToApt(c, to, r)} => <<f>> \in Seq(Call)
           /\ \A c, to, r : f \in {ToSession(c, to, r), ToApt(c, to, r)} => f \in Call
<1>1. /\ \A m, c : Logic(m, c).op = "logic"
      /\ \A c, to, r : ToSession(c, to, r).op = "to_session" /\ ToApt(c, to, r).op = "to_apt"
  BY DEF Logic, ToSession, ToApt
<1>. QED BY <1>1, ACall

LEMMA HeadIsCall ==
    ASSUME TypeOK, stack # <<>>, Head(stack).op \notin {"respond", "render", "commit"}
    PROVE  Head(stack) \in Call
BY HeadAndTail DEF TypeOK, Call, Answers

LEMMA ContinuesGoes ==
    ASSUME TypeOK, stack # <<>>, Head(stack).op \notin {"respond", "render", "commit"},
           NEW fs \in Seq(Call), Continues(fs), Writes
    PROVE  Goes
BY HeadIsCall DEF Goes, Continues

LEMMA CallsGoes ==
    ASSUME TypeOK, NEW m, NEW c, NEW s, s # "none", Thinking(m, c, s),
           NEW fs \in Seq(Call), Calls(fs), Writes
    PROVE  Goes
<1>. DEFINE e == <<Head(stack).m, Head(stack).c, current_state(Head(stack).m)>>
            done == [op |-> "done", eng |-> e]
<1>1. /\ stack # <<>> /\ Head(stack) \in Call /\ Head(stack) \in Frame
      /\ Head(stack).op = "logic" /\ Tail(stack) \in Seq(Frame)
  BY HeadIsCall, HeadAndTail DEF Thinking, At, TypeOK
<1>2. e \in Engines
  BY <1>1, FrameFields DEF current_state, Engines, Database, TypeOK, Thinking
<1>3. done \in Call
  BY <1>2 DEF Frame, Call, Answers
<1>. HIDE DEF done
<1>4. fs \o <<done>> \in Seq(Call)
  BY <1>3
<1>5. stack' = (fs \o <<done>>) \o Tail(stack)
  BY DEF Calls, done
<1>. QED BY <1>1, <1>4, <1>5 DEF Goes

LEMMA Written ==
    /\ \A d : Write(d) => Writes
    /\ \A c, st, d : Save(c, st, d) => Writes
    /\ \A c, s, st, d : advance(c, s, st, d) => Writes
    /\ \A c, st : Remember(c, st) => Writes
    /\ UNCHANGED <<db, disk>> => Writes
BY DEF Writes, Save, advance, Remember

-------------------------------------------------------------------------------
(* What every engine does: it saves, and ends with a call.                  *)

(* An engine of the session machine that does not finish: it makes at most  *)
(* one call, of the transition to the next state.                           *)
Shallow(fs) == fs = <<>> \/ (Len(fs) = 1 /\ fs[1].op \in {"to_session", "provider"})

Thinks(c, s) ==
    /\ Thinking("session", c, s) /\ s \in SessionStates
    /\ Writes /\ db'.state = db.state
    /\ \E fs \in Seq(Call) : Calls(fs) /\ Shallow(fs)

LEMMA SameState ==
    ASSUME NEW c, NEW s, NEW st, NEW d \in Database, d.state = db.state,
           Save(c, st, d) \/ advance(c, s, st, d)
    PROVE  db'.state = db.state
BY DEF Save, advance, Write, Saved, Database

LEMMA AdvanceCall ==
    ASSUME TypeOK, NEW c \in Copies
    PROVE  /\ Advance(c) \in Call /\ <<Advance(c)>> \in Seq(Call)
           /\ Shallow(<<Advance(c)>>) /\ Shallow(<<>>)
<1>1. Advance(c) \in Frame /\ Advance(c).op = "to_session"
  BY AdvanceFrame DEF Advance, ToSession
<1>. QED BY <1>1, ACall DEF Shallow

LEMMA AdvancesThinks ==
    ASSUME TypeOK, NEW c \in Copies, NEW s \in SessionStates, Thinking("session", c, s),
           \/ /\ Calls(<<Advance(c)>>) \/ Calls(<<>>)
              /\ \E d \in Database : /\ d.state = db.state
                                     /\ \E st : Save(c, st, d) \/ advance(c, s, st, d)
           \/ Calls(<<>>) /\ UNCHANGED <<db, disk>>
    PROVE  Thinks(c, s)
<1>1. \E fs \in Seq(Call) : Calls(fs) /\ Shallow(fs)
  BY AdvanceCall, NoCalls
<1>2. Writes /\ db'.state = db.state
  BY SameState, Written
<1>. QED BY <1>1, <1>2 DEF Thinks

LEMMA LinearThinks ==
    ASSUME TypeOK, NEW c \in Copies,
           Handshake(c) \/ InitialDecoder(c) \/ CustomerRegistration(c)
    PROVE  \E s \in SessionStates : Thinks(c, s)
<1>. DEFINE d == [db EXCEPT !.named = TRUE]
<1>0. /\ db \in Database /\ d \in Database /\ d.state = db.state
      /\ \A s \in {"handshake", "initial_decoder", "customer_registration"} :
            s \in SessionStates
  BY DEF TypeOK, Database, SessionStates
<1>1. CASE Handshake(c)
  <2>1. /\ Thinking("session", c, "handshake")
        /\ Calls(<<Advance(c)>>) \/ Calls(<<>>)
        /\ \E st : Save(c, st, db) \/ advance(c, "handshake", st, db)
    BY <1>1 DEF Handshake
  <2>. QED BY <1>0, <2>1, AdvancesThinks
<1>2. CASE InitialDecoder(c)
  <2>1. /\ Thinking("session", c, "initial_decoder") /\ Calls(<<Advance(c)>>)
        /\ \E st : advance(c, "initial_decoder", st, db)
    BY <1>2 DEF InitialDecoder
  <2>. QED BY <1>0, <2>1, AdvancesThinks
<1>3. CASE CustomerRegistration(c)
  <2>1. /\ Thinking("session", c, "customer_registration")
        /\ \/ /\ Calls(<<Advance(c)>>)
              /\ \E st : advance(c, "customer_registration", st, d)
           \/ Calls(<<>>) /\ UNCHANGED <<db, disk>>
    BY <1>3 DEF CustomerRegistration
  <2>. HIDE DEF d
  <2>. QED BY <1>0, <2>1, AdvancesThinks
<1>. QED BY <1>1, <1>2, <1>3

LEMMA SelectionThinks ==
    ASSUME TypeOK, NEW c \in Copies, NEW sel \in {"office", "service"},
           \/ SkipSelection(c, sel) \/ process_input(c, sel)
           \/ OfferDefault(c, sel) \/ ImposeDefault(c, sel)
    PROVE  \E s \in SessionStates : Thinks(c, s)
<1>. DEFINE s == StateOf(sel)
<1>0. s \in SessionStates /\ db \in Database
  BY DEF StateOf, SessionStates, TypeOK
<1>1. /\ Thinking("session", c, s)
      /\ \/ /\ Calls(<<Advance(c)>>) \/ Calls(<<>>)
            /\ \E st : Save(c, st, db) \/ advance(c, s, st, db)
         \/ Calls(<<>>) /\ UNCHANGED <<db, disk>>
  <2>1. CASE SkipSelection(c, sel)
    BY <2>1 DEF SkipSelection
  <2>2. CASE process_input(c, sel)
    BY <2>2 DEF process_input, Selecting, Remember
  <2>3. CASE OfferDefault(c, sel)
    BY <2>3 DEF OfferDefault, Selecting
  <2>4. CASE ImposeDefault(c, sel)
    BY <2>4 DEF ImposeDefault, Selecting
  <2>. QED BY <2>1, <2>2, <2>3, <2>4
<1>. HIDE DEF s
<1>. QED BY <1>0, <1>1, AdvancesThinks

(* Only a provider selection that was complete before makes two calls.      *)
LEMMA ProviderGoes ==
    ASSUME TypeOK, NEW c \in Copies, ProviderSelection(c)
    PROVE  /\ Goes
           /\ Complete(c, "provider_selection") \/ Thinks(c, "provider_selection")
<1>. DEFINE s == "provider_selection"
            rest == [op |-> "provider", c |-> c, input |-> req.input]
<1>1. s # "none" /\ s \in SessionStates /\ Thinking("session", c, s)
  BY DEF ProviderSelection, SessionStates
<1>2. rest \in Frame /\ rest.op = "provider"
  BY FramesType DEF TypeOK
<1>3. rest \in Call /\ <<rest>> \in Seq(Call) /\ Shallow(<<rest>>)
  BY <1>2, ACall DEF Shallow
<1>4. <<Advance(c), rest>> \in Seq(Call)
  BY <1>3, AdvanceCall, TwoCalls
<1>. HIDE DEF rest
<1>5. CASE /\ Complete(c, s) /\ advance(c, s, mem[c].store, db)
           /\ Calls(<<Advance(c), rest>>)
  <2>1. Writes
    BY <1>5, Written
  <2>. QED BY <1>1, <1>4, <1>5, <2>1, CallsGoes
<1>6. CASE Calls(<<rest>>) /\ UNCHANGED <<db, disk>>
  <2>1. Writes /\ db'.state = db.state
    BY <1>6, Written
  <2>. QED BY <1>1, <1>3, <1>6, <2>1, CallsGoes DEF Thinks
<1>. QED BY <1>5, <1>6 DEF ProviderSelection, rest

LEMMA ProviderRestGoes ==
    ASSUME TypeOK, ProviderSelectionRest
    PROVE  /\ Goes /\ db'.state = db.state
           /\ \E fs \in Seq(Call) : stack' = fs \o Tail(stack) /\ Shallow(fs)
<1>. DEFINE c == Head(stack).c
            s == "provider_selection"
            st == Marked(With(mem[c].store, "provider"), s)
<1>1. /\ stack # <<>> /\ Head(stack).op = "provider" /\ c \in Copies /\ db \in Database
  BY HeadAndTail, FrameFields DEF TypeOK, ProviderSelectionRest, At
<1>2. \/ advance(c, s, st, db) /\ Continues(<<Advance(c)>>)
      \/ Continues(<<>>) /\ UNCHANGED <<db, disk>>
  BY DEF ProviderSelectionRest
<1>3. Writes /\ db'.state = db.state
  BY <1>1, <1>2, SameState, Written
<1>4. PICK fs \in Seq(Call) : Continues(fs) /\ Shallow(fs)
  BY <1>1, <1>2, AdvanceCall, NoCalls
<1>. QED BY <1>1, <1>3, <1>4, ContinuesGoes DEF Continues

LEMMA ThinksGoes ==
    ASSUME TypeOK, NEW c \in Copies, NEW s, Thinks(c, s)
    PROVE  Goes
<1>1. s # "none" /\ Thinking("session", c, s) /\ Writes
  BY DEF Thinks, SessionStates
<1>2. PICK fs \in Seq(Call) : Calls(fs)
  BY DEF Thinks
<1>. QED BY <1>1, <1>2, CallsGoes

LEMMA AppointmentSelectionGoes ==
    ASSUME TypeOK, NEW c \in Copies, AppointmentSelection(c)
    PROVE  Goes
<1>1. Thinking("session", c, "appointment_selection") /\ Calls(<<Logic("apt", c)>>) /\ Writes
  BY Written DEF AppointmentSelection
<1>2. <<Logic("apt", c)>> \in Seq(Call)
  BY FramesType, AllCalls
<1>3. "appointment_selection" # "none"
  OBVIOUS
<1>. QED BY <1>1, <1>2, <1>3, CallsGoes

LEMMA FinishGoes ==
    ASSUME TypeOK, NEW c \in Copies, Finish(c)
    PROVE  Goes \/ Raises
<1>1. CASE /\ Save(c, mem[c].store, [db EXCEPT !.finished = TRUE]) /\ Calls(<<>>)
  <2>1. "finish" # "none" /\ Thinking("session", c, "finish")
    BY DEF Finish
  <2>. QED BY <1>1, <2>1, CallsGoes, NoCalls, Written
<1>. QED BY <1>1 DEF Finish, Raises

LEMMA AptCall ==
    ASSUME NEW to \in AptStates, NEW r \in {Bang, Soft}
    PROVE  ToApt(I, to, r) \in Call /\ <<ToApt(I, to, r)>> \in Seq(Call)
<1>1. ToApt(I, to, r) \in Frame
  BY IType, FramesType DEF Bang, Soft
<1>. QED BY <1>1, AllCalls

LEMMA BooksCalls ==
    ASSUME NEW slot \in Slots, NEW n \in Nat
    PROVE  Books(slot, n) \in Seq(Call)
<1>1. /\ [op |-> "book", slot |-> slot, n |-> n] \in Call
      /\ [op |-> "choose", slot |-> slot] \in Call
  BY FramesType, ACall
<1>. QED BY <1>1, TwoCalls DEF Books

LEMMA BookingGoes ==
    ASSUME TypeOK, NEW k, NEW end \in Seq(Call)
    PROVE  LET slot == RubyAt(Offered, k) IN
           slot # NoSlot => Books(slot, req.input.n) \o end \in Seq(Call)
<1>. DEFINE slot == RubyAt(Offered, k)
<1>1. slot \in Slots \cup {NoSlot} /\ req.input.n \in Nat
  BY OfferedType, RubyAtType DEF TypeOK, Input
<1>2. slot # NoSlot => Books(slot, req.input.n) \in Seq(Call)
  BY <1>1, BooksCalls
<1>. QED BY <1>2

LEMMA AptThinksGoes ==
    ASSUME TypeOK, NEW c \in Copies, AptThinks(c)
    PROVE  Goes \/ Raises
<1>. DEFINE to(s) == <<ToApt(I, s, Bang)>>
<1>0. \A s \in AptStates : s # "none" /\ to(s) \in Seq(Call)
  BY AptCall DEF AptStates
<1>1. \A s \in AptStates, fs \in Seq(Call) :
         Thinking("apt", c, s) /\ Calls(fs) /\ Writes => Goes
  BY <1>0, CallsGoes
<1>2. \A s \in {"handshake", "initial_input_date", "repeat_input_date", "display_result",
                "summary", "finish"} : s \in AptStates
  BY DEF AptStates
<1>3. \A s \in AptStates : Calls(to(s)) => \E fs \in Seq(Call) : Calls(fs)
  BY <1>0
<1>. HIDE DEF to
<1>4. CASE AptHandshake(c)
  <2>1. /\ Thinking("apt", c, "handshake")
        /\ \E s \in {"initial_input_date", "summary", "display_result"} : Calls(to(s))
    BY <1>4 DEF AptHandshake, to
  <2>2. Writes
    BY <1>4, Written DEF AptHandshake
  <2>. QED BY <1>1, <1>2, <1>3, <2>1, <2>2
<1>5. CASE InitialInputDate(c)
  <2>. DEFINE good == [op |-> "save_date", date |-> "date"]
              bad == [op |-> "save_date", date |-> ""]
  <2>1. <<good>> \in Seq(Call) /\ <<bad>> \in Seq(Call)
    BY FramesType, ACall DEF DateValues
  <2>2. /\ Thinking("apt", c, "initial_input_date")
        /\ Calls(<<good>>) \/ Calls(<<bad>>) \/ Calls(<<>>)
    BY <1>5 DEF InitialInputDate
  <2>3. Writes
    BY <1>5, Written DEF InitialInputDate
  <2>. HIDE DEF good, bad
  <2>. QED BY <1>1, <1>2, <2>1, <2>2, <2>3, NoCalls
<1>6. CASE RepeatInputDate(c)
  <2>1. Thinking("apt", c, "repeat_input_date") /\ Calls(to("initial_input_date")) /\ Writes
    BY <1>6, Written DEF RepeatInputDate, to
  <2>. QED BY <1>1, <1>2, <1>3, <2>1
<1>7. CASE DisplayResult(c)
  <2>. DEFINE k == req.input.n - 2
              slot == RubyAt(Offered, k)
              st == mem[I].store
              end == to("finish")
              row == Saved(I, st, db)
  <2>1. CASE RaiseAfter("nil_results", row)
    BY <2>1 DEF Raises
  <2>2. CASE ~RaiseAfter("nil_results", row)
    <3>1. /\ Thinking("apt", c, "display_result")
          /\ \/ Calls(to("repeat_input_date")) \/ Calls(<<>>)
             \/ slot # NoSlot /\ Calls(Books(slot, req.input.n) \o end)
      BY <2>2, <1>7 DEF DisplayResult, to
    <3>2. \/ UNCHANGED <<db, disk>> \/ Save(I, st, db)
          \/ Save(I, [st EXCEPT !.just_shown = TRUE], db) \/ Write(row)
      BY <2>2, <1>7 DEF DisplayResult
    <3>3. Writes
      BY <3>2, Written
    <3>4. end \in Seq(Call) /\ to("repeat_input_date") \in Seq(Call)
      BY <1>0, <1>2
    <3>. HIDE DEF end, k
    <3>5. \E fs \in Seq(Call) : Calls(fs)
      BY <3>1, <3>4, BookingGoes, NoCalls
    <3>. QED BY <1>1, <1>2, <3>1, <3>3, <3>5
  <2>. QED BY <2>1, <2>2
<1>8. CASE Summary(c)
  <2>. DEFINE menu == <<[op |-> "menu"], [op |-> "chosen"]>>
  <2>1. menu \in Seq(Call)
    <3>1. [op |-> "menu"] \in Call /\ [op |-> "chosen"] \in Call
      BY FramesType, ACall
    <3>. QED BY <3>1, TwoCalls
  <2>2. Thinking("apt", c, "summary")
    BY <1>8 DEF Summary
  <2>3. CASE Raise("nil_results")
    BY <2>3 DEF Raises, Raise
  <2>4. CASE Calls(to("repeat_input_date")) /\ UNCHANGED <<db, disk>>
    BY <1>1, <1>2, <1>3, <2>2, <2>4, Written
  <2>5. CASE Calls(menu) /\ \E d : Save(I, mem[I].store, d)
    <3>1. Writes
      BY <2>5, Written
    <3>. HIDE DEF menu
    <3>. QED BY <1>1, <1>2, <2>1, <2>2, <2>5, <3>1
  <2>. QED BY <1>8, <2>3, <2>4, <2>5 DEF Summary, to
<1>9. CASE AptFinish(c)
  <2>. DEFINE go == ToSession(I, "finish", Soft)
  <2>1. go \in Frame
    BY IType, FramesType DEF Soft, SessionStates
  <2>2. <<go>> \in Seq(Call)
    BY <2>1, AllCalls
  <2>3. Thinking("apt", c, "finish") /\ (Calls(<<go>>) \/ Calls(<<>>)) /\ Writes
    BY <1>9, Written DEF AptFinish, vars_but_stack
  <2>. HIDE DEF go
  <2>. QED BY <1>1, <1>2, <2>2, <2>3, NoCalls
<1>. QED BY <1>4, <1>5, <1>6, <1>7, <1>8, <1>9 DEF AptThinks

-------------------------------------------------------------------------------
(* What engines leave to be done.                                           *)

LEMMA ResumesGoes ==
    ASSUME TypeOK, \/ AlreadyThinked \/ Done \/ SaveDate \/ Book \/ Choose
                   \/ process_actions \/ SummaryRaises \/ SummaryRest \/ SummaryFinish
    PROVE  Goes \/ Raises
<1>0. /\ stack # <<>>
      /\ Head(stack).op \notin {"respond", "render", "commit"}
  BY DEF AlreadyThinked, Done, SaveDate, Book, Choose, process_actions, SummaryRaises,
     SummaryRest, SummaryFinish, At
<1>1. \A fs \in Seq(Call) : Continues(fs) /\ Writes => Goes
  BY <1>0, ContinuesGoes
<1>. DEFINE fin == <<[op |-> "finish"]>>
            again == <<ToApt(I, "repeat_input_date", Bang)>>
            end == <<ToApt(I, "finish", Soft)>>
            n == req.input.n
<1>2. fin \in Seq(Call) /\ again \in Seq(Call) /\ end \in Seq(Call)
  BY FramesType, ACall, AptCall DEF AptStates
<1>3. CASE AlreadyThinked \/ Done
  BY <1>1, <1>3, NoCalls, Written DEF AlreadyThinked, Done, vars_but_stack
<1>4. CASE Book \/ Choose
  BY <1>1, <1>4, NoCalls, Written DEF Book, Choose
<1>5. CASE SaveDate
  <2>. DEFINE to == IF sms THEN "summary" ELSE "display_result"
  <2>1. <<ToApt(I, to, Bang)>> \in Seq(Call)
    BY AptCall DEF AptStates
  <2>2. Continues(<<ToApt(I, to, Bang)>>) /\ Writes
    BY <1>5, Written DEF SaveDate
  <2>. QED BY <1>1, <2>1, <2>2
<1>6. CASE SummaryRest
  <2>. DEFINE fs == IF db.chosen # NoSlot \/ ~sms THEN fin ELSE <<>>
  <2>1. fs \in Seq(Call)
    BY <1>2, NoCalls
  <2>2. Continues(fs) /\ Writes
    BY <1>6, Written DEF SummaryRest, vars_but_stack
  <2>. HIDE DEF fs
  <2>. QED BY <1>1, <2>1, <2>2
<1>7. CASE SummaryFinish
  <2>1. Continues(end) /\ Writes
    BY <1>7, Written DEF SummaryFinish
  <2>. HIDE DEF end
  <2>. QED BY <1>1, <1>2, <2>1
<1>8. CASE SummaryRaises
  BY <1>8 DEF SummaryRaises, Raise, Raises
<1>9. CASE process_actions
  <2>. DEFINE options == Len(menu_options)
              k == n - options - 1
              slot == RubyAt(Offered, k)
              sel == menu_options[n]
  <2>1. \/ /\ \/ slot # NoSlot /\ Continues(Books(slot, n) \o fin)
              \/ Continues(again) \/ Continues(<<>>)
           /\ UNCHANGED <<db, disk>>
        \/ n \in 1..options /\ sel # "date" /\ Retry(sel)
    BY <1>9 DEF process_actions
  <2>. HIDE DEF fin, again, k
  <2>2. CASE /\ \/ slot # NoSlot /\ Continues(Books(slot, n) \o fin)
                \/ Continues(again) \/ Continues(<<>>)
             /\ UNCHANGED <<db, disk>>
    <3>1. slot # NoSlot => Books(slot, n) \o fin \in Seq(Call)
      BY <1>2, BookingGoes
    <3>2. \E fs \in Seq(Call) : Continues(fs)
      BY <1>2, <2>2, <3>1, NoCalls
    <3>. QED BY <1>1, <2>2, <3>2, Written
  <2>3. CASE n \in 1..options /\ sel # "date" /\ Retry(sel)
    <3>. DEFINE go == ToSession(I, StateOf(sel), Bang)
    <3>1. sel \in {"office", "service", "provider"}
      BY <2>3, MenuType
    <3>2. StateOf(sel) \in SessionStates
      BY <3>1 DEF StateOf, SessionStates
    <3>3. go \in Frame
      BY <3>2, IType, FramesType DEF Bang
    <3>4. <<go>> \in Seq(Call)
      BY <3>3, AllCalls
    <3>5. Continues(<<go>>) /\ Writes
      BY <2>3, Written DEF Retry
    <3>. QED BY <1>1, <3>4, <3>5
  <2>. QED BY <2>1, <2>2, <2>3
<1>. QED BY <1>3, <1>4, <1>5, <1>6, <1>7, <1>8, <1>9

LEMMA ResetGoes ==
    ASSUME TypeOK, reset_appointment_selection \/ Reset
    PROVE  Goes
<1>. DEFINE c == Head(stack).c
<1>0. /\ stack # <<>> /\ c \in Copies
      /\ Head(stack).op \notin {"respond", "render", "commit"}
      /\ Head(stack).op = "to_session"
            => Head(stack).rescues \in SUBSET {"denied", "undeclared"}
  BY HeadAndTail, FrameFields DEF TypeOK, reset_appointment_selection, Reset, At
<1>1. CASE Reset
  <2>. DEFINE go == ToSession(c, "appointment_selection", Bang)
  <2>1. go \in Frame
    BY <1>0, FramesType DEF Bang, SessionStates
  <2>2. <<go>> \in Seq(Call)
    BY <2>1, AllCalls
  <2>3. (Continues(<<go>>) \/ Continues(<<>>)) /\ Writes
    BY <1>1, Written DEF Reset, vars_but_stack
  <2>. HIDE DEF go
  <2>. QED BY <1>0, <2>2, <2>3, NoCalls, ContinuesGoes
<1>2. CASE reset_appointment_selection
  <2>. DEFINE guard == [op |-> "guard", rescues |-> Head(stack).rescues]
              reset == [op |-> "reset", c |-> c]
              go == ToApt(c, "handshake", Bang)
              one == IF db.apt = "handshake" THEN <<>> ELSE <<go>>
  <2>1. guard \in Call /\ reset \in Call
    BY <1>0, <1>2, FramesType, ACall DEF reset_appointment_selection, At
  <2>2. go \in Frame
    BY <1>0, FramesType DEF Bang, AptStates
  <2>3. one \in Seq(Call)
    BY <2>2, AllCalls, NoCalls
  <2>4. Continues(one \o <<reset, guard>>) /\ Writes
    BY <1>2, Written DEF reset_appointment_selection
  <2>. HIDE DEF guard, reset, one
  <2>5. one \o <<reset, guard>> \in Seq(Call)
    BY <2>1, <2>3, TwoCalls
  <2>. QED BY <1>0, <2>4, <2>5, ContinuesGoes
<1>. QED BY <1>1, <1>2

(* Every step of a request.                                                 *)
LEMMA WorkSteps ==
    ASSUME TypeOK, Work \/ Abort
    PROVE  \/ Goes \/ Raises \/ Refuses \/ EnterSessionState \/ EnterAptState
           \/ Commit \/ Respond \/ Render
<1>1. ASSUME NEW c \in Copies, SessionThinks(c) PROVE Goes \/ Raises
  <2>1. ASSUME NEW s, Thinks(c, s) PROVE Goes
    BY <2>1, ThinksGoes
  <2>2. CASE Handshake(c) \/ InitialDecoder(c) \/ CustomerRegistration(c)
    BY <2>1, <2>2, LinearThinks
  <2>3. ASSUME NEW sel \in {"office", "service"},
               \/ SkipSelection(c, sel) \/ process_input(c, sel)
               \/ OfferDefault(c, sel) \/ ImposeDefault(c, sel)
        PROVE  Goes
    BY <2>1, <2>3, SelectionThinks
  <2>4. CASE ProviderSelection(c) \/ AppointmentSelection(c) \/ Finish(c)
    BY <2>4, ProviderGoes, AppointmentSelectionGoes, FinishGoes
  <2>. QED BY <1>1, <2>2, <2>3, <2>4 DEF SessionThinks
<1>2. ASSUME NEW c \in Copies, AptThinks(c) PROVE Goes \/ Raises
  BY <1>2, AptThinksGoes
<1>3. CASE Transitions
  <2>1. CASE RefuseSession \/ RefuseApt \/ Guard
    BY <2>1 DEF Refuses, RefuseSession, RefuseApt, Guard, Refusal
  <2>. QED BY <1>3, <2>1, ResetGoes DEF Transitions
<1>4. CASE Resumes
  BY <1>4, ResumesGoes, ProviderRestGoes DEF Resumes
<1>5. CASE Abort
  BY <1>5 DEF Abort, Raise, Raises
<1>. QED BY <1>1, <1>2, <1>3, <1>4, <1>5 DEF Work

-------------------------------------------------------------------------------
(* Only the last call answers, and what is not in a transaction is          *)
(* committed.                                                               *)

LEMMA StackTail ==
    ASSUME TypeOK, stack # <<>>
    PROVE  /\ Tail(stack) \in Seq(Frame) /\ Len(stack) \in Nat \ {0}
           /\ Len(Tail(stack)) = Len(stack) - 1 /\ Head(stack) = stack[1]
           /\ \A j \in DOMAIN Tail(stack) :
                 j \in Nat /\ j + 1 \in DOMAIN stack /\ Tail(stack)[j] = stack[j + 1]
BY HeadAndTail DEF TypeOK

LEMMA CallsBefore ==
    ASSUME TypeOK, stack # <<>>, NEW fs \in Seq(Frame), stack' = fs \o Tail(stack)
    PROVE  /\ stack' \in Seq(Frame) /\ Len(stack') = Len(fs) + Len(stack) - 1
           /\ \A j \in DOMAIN stack' :
                 \/ j \in DOMAIN fs /\ stack'[j] = fs[j]
                 \/ /\ j - Len(fs) + 1 \in DOMAIN stack
                    /\ stack'[j] = stack[j - Len(fs) + 1]
BY StackTail, ConcatProperties

LEMMA GoesSettled ==
    ASSUME TypeOK, Settled, Goes
    PROVE  Settled' /\ (InTransaction' <=> InTransaction)
<1>1. PICK fs \in Seq(Call) : stack' = fs \o Tail(stack)
  BY DEF Goes
<1>2. fs \in Seq(Frame) /\ stack # <<>> /\ Head(stack) \in Call
      /\ \A j \in DOMAIN fs : fs[j].op \notin Answers \cup {"commit"}
  BY <1>1, CallFrames DEF Goes, Call
<1>3. \A i \in DOMAIN stack' : stack'[i].op \in Answers => i = Len(stack')
  <2>. SUFFICES ASSUME NEW i \in DOMAIN stack', stack'[i].op \in Answers
                PROVE  i = Len(stack')
    OBVIOUS
  <2>1. i - Len(fs) + 1 \in DOMAIN stack /\ stack'[i] = stack[i - Len(fs) + 1]
    BY <1>1, <1>2, CallsBefore
  <2>2. i - Len(fs) + 1 = Len(stack)
    BY <2>1 DEF Settled
  <2>3. Len(stack') = Len(fs) + Len(stack) - 1
        /\ Len(fs) \in Nat /\ Len(stack) \in Nat
    BY <1>1, <1>2, CallsBefore, StackTail
  <2>. QED BY <2>2, <2>3
<1>4. InTransaction' => InTransaction
  <2>. SUFFICES ASSUME NEW i \in DOMAIN stack', stack'[i].op = "commit"
                PROVE  InTransaction
    BY DEF InTransaction
  <2>1. i - Len(fs) + 1 \in DOMAIN stack /\ stack'[i] = stack[i - Len(fs) + 1]
    BY <1>1, <1>2, CallsBefore
  <2>. QED BY <2>1 DEF InTransaction
<1>5. InTransaction => InTransaction'
  <2>. SUFFICES ASSUME NEW i \in DOMAIN stack, stack[i].op = "commit"
                PROVE  InTransaction'
    BY DEF InTransaction
  <2>1. /\ i \in 1..Len(stack) /\ Head(stack) = stack[1] /\ Len(fs) \in Nat
        /\ Len(stack) \in Nat /\ stack # <<>> /\ Tail(stack) \in Seq(Frame)
        /\ Len(Tail(stack)) = Len(stack) - 1
    BY <1>2, StackTail DEF TypeOK
  <2>2. i # 1
    BY <1>2, <2>1 DEF Call
  <2>3. i - 1 \in DOMAIN Tail(stack) /\ Tail(stack)[i - 1] = stack[i]
    BY <2>1, <2>2, HeadTailProperties DEF TypeOK
  <2>4. Len(fs) + i - 1 \in DOMAIN stack' /\ stack'[Len(fs) + i - 1] = stack[i]
    BY <1>1, <1>2, <2>1, <2>2, <2>3, ConcatProperties
  <2>. QED BY <2>4 DEF InTransaction
<1>6. ~InTransaction => db' = disk'
  BY DEF Settled, Goes, Writes, Write
<1>. QED BY <1>3, <1>4, <1>5, <1>6 DEF Settled

LEMMA EnterSettled ==
    ASSUME TypeOK, Settled, EnterSessionState \/ EnterAptState
    PROVE  Settled' /\ InTransaction'
<1>. DEFINE fs == <<Logic(IF At("to_session") THEN "session" ELSE "apt", Head(stack).c),
                    Transaction>>
<1>1. stack # <<>> /\ stack' = fs \o Tail(stack)
  BY DEF EnterSessionState, EnterAptState, At, Continues
<1>2. fs \in Seq(Frame) /\ Len(fs) = 2 /\ fs[1].op = "logic" /\ fs[2].op = "commit"
  <2>1. /\ Head(stack).c \in Copies /\ Head(stack).rescues \in SUBSET {"denied", "undeclared"}
    BY <1>1, HeadAndTail, FrameFields DEF TypeOK, EnterSessionState, EnterAptState, At
  <2>. QED BY <2>1, FramesType DEF Transaction, Logic
<1>. HIDE DEF fs
<1>3. \A i \in DOMAIN stack' : stack'[i].op \in Answers => i = Len(stack')
  <2>. SUFFICES ASSUME NEW i \in DOMAIN stack', stack'[i].op \in Answers
                PROVE  i = Len(stack')
    OBVIOUS
  <2>1. i - Len(fs) + 1 \in DOMAIN stack /\ stack'[i] = stack[i - Len(fs) + 1]
    <3>1. \A j \in DOMAIN fs : fs[j].op \notin Answers
      BY <1>2 DEF Answers
    <3>. QED BY <1>1, <1>2, <3>1, CallsBefore
  <2>2. i - Len(fs) + 1 = Len(stack)
    BY <2>1 DEF Settled
  <2>3. Len(stack') = Len(fs) + Len(stack) - 1
        /\ Len(fs) \in Nat /\ Len(stack) \in Nat
    <3>1. Len(stack') = Len(fs) + Len(stack) - 1
      BY <1>1, <1>2, CallsBefore
    <3>2. Len(stack) \in Nat
      BY <1>1, StackTail
    <3>. QED BY <1>2, <3>1, <3>2
  <2>. QED BY <2>2, <2>3
<1>4. InTransaction'
  <2>1. 2 \in DOMAIN stack' /\ stack'[2] = fs[2]
    BY <1>1, <1>2, StackTail, ConcatProperties
  <2>. QED BY <1>2, <2>1 DEF InTransaction
<1>. QED BY <1>3, <1>4 DEF Settled

LEMMA CommitSettled ==
    ASSUME TypeOK, Settled, Commit
    PROVE  Settled'
<1>1. stack # <<>> /\ stack' = Tail(stack) /\ db' = db
      /\ disk' = IF InTransaction' THEN disk ELSE db
  <2>1. stack # <<>> /\ Tail(stack) \in Seq(Frame)
    BY HeadAndTail DEF Commit, At, TypeOK
  <2>2. stack' = Tail(stack)
    BY <2>1 DEF Commit, Continues
  <2>. QED BY <2>1, <2>2 DEF Commit, InTransaction
<1>2. \A i \in DOMAIN stack' : stack'[i].op \in Answers => i = Len(stack')
  <2>. SUFFICES ASSUME NEW i \in DOMAIN stack', stack'[i].op \in Answers
                PROVE  i = Len(stack')
    OBVIOUS
  <2>1. i + 1 \in DOMAIN stack /\ stack'[i] = stack[i + 1]
        /\ Len(stack') = Len(stack) - 1 /\ Len(stack) \in Nat /\ i \in Nat
    BY <1>1, StackTail
  <2>. QED BY <2>1 DEF Settled
<1>. QED BY <1>1, <1>2 DEF Settled

LEMMA EmptySettled ==
    ASSUME stack' = <<>>, db' = disk'
    PROVE  Settled'
BY DEF Settled

(* The answering call is alone.                                             *)
LEMMA LastCall ==
    ASSUME TypeOK, Settled, stack # <<>>, Head(stack).op \in Answers
    PROVE  /\ Tail(stack) = <<>> /\ Len(stack) = 1
           /\ ~InTransaction /\ db = disk
<1>0. stack \in Seq(Frame) /\ DOMAIN stack = 1..Len(stack)
  BY DEF TypeOK
<1>1. Len(stack) = 1 /\ stack[1] = Head(stack)
  <2>1. stack[1] = Head(stack) /\ Len(stack) \in Nat \ {0}
    BY StackTail
  <2>. QED BY <1>0, <2>1 DEF Settled
<1>2. Tail(stack) = <<>>
  <2>1. Tail(stack) \in Seq(Frame) /\ Len(Tail(stack)) = 0
    BY <1>1, StackTail
  <2>. QED BY <2>1, EmptySeq
<1>3. ~InTransaction
  BY <1>0, <1>1 DEF InTransaction, Answers
<1>. QED BY <1>1, <1>2, <1>3 DEF Settled

LEMMA RespondSettled ==
    ASSUME TypeOK, Settled, Respond \/ Render
    PROVE  Settled'
<1>1. Tail(stack) = <<>> /\ ~InTransaction /\ db = disk
  BY LastCall DEF Respond, Render, At, Answers
<1>. DEFINE think == IF <<"apt", 1, db.apt>> \in thinked THEN <<>> ELSE <<Logic("apt", 1)>>
            last == [op |-> "render", at |-> db.apt]
<1>2. \/ stack' = <<>> /\ (UNCHANGED <<db, disk>> \/ \E d : Write(d))
      \/ stack' = (think \o <<last>>) \o Tail(stack) /\ UNCHANGED <<db, disk>>
  BY DEF Respond, Render, Replying, Answer, Continues
<1>3. CASE stack' = <<>> /\ (UNCHANGED <<db, disk>> \/ \E d : Write(d))
  BY <1>1, <1>3, EmptySettled DEF Write
<1>4. CASE stack' = (think \o <<last>>) \o Tail(stack) /\ UNCHANGED <<db, disk>>
  <2>1. think \in Seq(Call)
    BY FramesType, AllCalls, NoCalls DEF Copies
  <2>2. last \in Frame
    BY FramesType DEF TypeOK, Database
  <2>. HIDE DEF last, think
  <2>3. stack' = think \o <<last>>
    <3>1. think \o <<last>> \in Seq(Frame)
      BY <2>1, <2>2, CallFrames
    <3>. QED BY <1>1, <1>4, <3>1, ConcatEmptySeq
  <2>4. \A i \in DOMAIN stack' : (i \in DOMAIN think /\ stack'[i] = think[i]) \/ i = Len(stack')
    BY <2>1, <2>2, <2>3, CallFrames, ConcatProperties
  <2>5. \A i \in DOMAIN think : think[i].op \notin Answers
    BY <2>1 DEF Call
  <2>. QED BY <1>1, <1>4, <2>4, <2>5 DEF Settled
<1>. QED BY <1>2, <1>3, <1>4

LEMMA UnwindSettled ==
    ASSUME TypeOK, Settled, NEW i \in DOMAIN stack, Unwind(i)
    PROVE  Settled' /\ (InTransaction' => db' = db) /\ (~InTransaction' => db' = disk)
<1>. DEFINE rest == SubSeq(stack, i + 1, Len(stack))
<1>1. /\ stack' = rest /\ disk' = disk /\ stack \in Seq(Frame)
      /\ db' = IF \E j \in DOMAIN rest : rest[j].op = "commit" THEN db ELSE disk
  BY DEF Unwind, TypeOK
<1>2. /\ rest \in Seq(Frame)
      /\ \A j \in DOMAIN rest : j + i \in DOMAIN stack /\ rest[j] = stack[j + i]
  BY <1>1, RestFrames
<1>3. Len(rest) = Len(stack) - i /\ i \in Nat /\ Len(stack) \in Nat
  <2>1. i \in 1..Len(stack) /\ Len(stack) \in Nat
    BY <1>1
  <2>2. \A k \in i+1..Len(stack) : stack[k] \in Frame
    BY <1>1, <2>1
  <2>3. Len(rest) = IF i + 1 <= Len(stack) THEN Len(stack) - (i + 1) + 1 ELSE 0
    <3>1. i + 1 \in Int /\ Len(stack) \in Int
      BY <2>1
    <3>. QED BY <2>2, <3>1, SubSeqProperties
  <2>. QED BY <2>1, <2>3
<1>. HIDE DEF rest
<1>4. \A j \in DOMAIN stack' : stack'[j].op \in Answers => j = Len(stack')
  <2>. SUFFICES ASSUME NEW j \in DOMAIN rest, rest[j].op \in Answers
                PROVE  j = Len(rest)
    BY <1>1
  <2>1. j + i = Len(stack)
    BY <1>2 DEF Settled
  <2>2. j \in Nat
    BY <1>2
  <2>. QED BY <1>3, <2>1, <2>2
<1>5. InTransaction' <=> \E j \in DOMAIN rest : rest[j].op = "commit"
  BY <1>1 DEF InTransaction
<1>. QED BY <1>1, <1>4, <1>5 DEF Settled

LEMMA RequestSettled ==
    ASSUME Settled, NEW d, NEW i, Request(d, i)
    PROVE  Settled'
<1>1. stack' = <<Logic("session", 1), Logic("session", 1), [op |-> "respond"]>>
  BY DEF Request
<1>2. DOMAIN stack' = 1..3 /\ Len(stack') = 3
      /\ stack'[1].op = "logic" /\ stack'[2].op = "logic"
  BY <1>1 DEF Logic
<1>3. ~InTransaction
  BY DEF Request, Running, InTransaction
<1>. QED BY <1>2, <1>3 DEF Settled, Answers, Request

LEMMA NextSettled == TypeOK /\ Settled /\ [Next]_vars => Settled'
<1>. SUFFICES ASSUME TypeOK, Settled, [Next]_vars PROVE Settled'
  OBVIOUS
<1>1. CASE UNCHANGED vars
  BY <1>1 DEF vars, Settled, InTransaction
<1>2. ASSUME NEW d, NEW i, Request(d, i) PROVE Settled'
  BY <1>2, RequestSettled
<1>3. CASE Work \/ Abort
  <2>1. CASE Raises
    BY <2>1, EmptySettled DEF Raises, RaiseAfter, Answer
  <2>2. CASE Refuses
    <3>1. ASSUME NEW why, Raise(why) PROVE Settled'
      BY <3>1, EmptySettled DEF Raise, RaiseAfter, Answer
    <3>. QED BY <2>2, <3>1, UnwindSettled DEF Refuses, Refuse
  <2>. QED BY <1>3, <2>1, <2>2, WorkSteps, GoesSettled, EnterSettled, CommitSettled,
              RespondSettled
<1>. QED BY <1>1, <1>2, <1>3 DEF Next

(* The database and what is committed differ within a transaction only,     *)
(* whichever of its calls was refused, and however many of them ended.      *)
THEOREM SettledInvariant == Spec => [](TypeOK /\ Settled)
<1>1. Init => TypeOK /\ Settled
  <2>1. Init => Settled
    BY DEF Init, Settled
  <2>. QED BY <2>1, InitType
<1>2. TypeOK /\ Settled /\ [Next]_vars => (TypeOK /\ Settled)'
  BY NextType, NextSettled
<1>. QED BY <1>1, <1>2, PTL DEF Spec
===============================================================================
