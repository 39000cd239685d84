-------------------------- MODULE ConversationProofs --------------------------
(* Theorems about Conversation, for every business, calendar and input:    *)
(* its types, then its bookings.                                           *)
EXTENDS Conversation, SequenceTheorems, TLAPS

(* The fields a frame of each kind carries.                                 *)
LEMMA FrameFields ==
    ASSUME NEW f \in Frame
    PROVE  /\ f.op = "logic" => f.m \in {"session", "apt"} /\ f.c \in Copies
           /\ f.op = "done" => f.eng \in Engines
           /\ f.op \in {"commit", "guard"}
                 => f.rescues \in SUBSET {"denied", "undeclared"}
           /\ f.op = "to_session" => f.c \in Copies /\ f.to \in SessionStates
                                       /\ f.rescues \in SUBSET {"denied", "undeclared"}
           /\ f.op = "to_apt" => f.c \in Copies /\ f.to \in AptStates
                                       /\ f.rescues \in SUBSET {"denied", "undeclared"}
           /\ f.op = "reset" => f.c \in Copies
           /\ f.op = "provider" => f.c \in Copies /\ f.input \in Input
           /\ f.op = "save_date" => f.date \in DateValues
           /\ f.op = "book" => f.slot \in Slots /\ f.n \in Nat
           /\ f.op = "choose" => f.slot \in Slots
           /\ f.op = "render" => f.at \in AptStates \cup {"none"}
BY DEF Frame

LEMMA HeadAndTail ==
    ASSUME stack \in Seq(Frame), stack # <<>>
    PROVE  Head(stack) \in Frame /\ Tail(stack) \in Seq(Frame)
BY DEF Frame

LEMMA OneFrame ==
    ASSUME NEW f \in Frame
    PROVE  <<f>> \in Seq(Frame)
OBVIOUS

LEMMA NoFrames == <<>> \in Seq(Frame)
OBVIOUS

LEMMA ContinuesType ==
    ASSUME NEW fs \in Seq(Frame), stack \in Seq(Frame), stack # <<>>, Continues(fs)
    PROVE  stack' \in Seq(Frame)
<1>1. Tail(stack) \in Seq(Frame)
  BY HeadAndTail
<1>. QED
  BY <1>1 DEF Continues

LEMMA CallsType ==
    ASSUME NEW fs \in Seq(Frame), stack \in Seq(Frame), At("logic"),
           db \in Database, current_state(Head(stack).m) # "none", Calls(fs)
    PROVE  stack' \in Seq(Frame)
<1>1. Head(stack) \in Frame /\ Tail(stack) \in Seq(Frame)
  BY HeadAndTail DEF At
<1>2. Head(stack).m \in {"session", "apt"} /\ Head(stack).c \in Copies
  BY <1>1, FrameFields DEF At
<1>. DEFINE me == Head(stack)
            e == <<me.m, me.c, current_state(me.m)>>
<1>3. e \in Engines
  BY <1>2 DEF current_state, Engines, Database
<1>4. [op |-> "done", eng |-> e] \in Frame
  BY <1>3 DEF Frame
<1>5. <<[op |-> "done", eng |-> e]>> \in Seq(Frame)
  BY <1>4
<1>. QED
  BY <1>1, <1>5 DEF Calls

LEMMA FramesType ==
    /\ \A m \in {"session", "apt"}, c \in Copies : Logic(m, c) \in Frame
    /\ \A c \in Copies, to \in SessionStates, r \in SUBSET {"denied", "undeclared"} :
          ToSession(c, to, r) \in Frame
    /\ \A c \in Copies, to \in AptStates, r \in SUBSET {"denied", "undeclared"} :
          ToApt(c, to, r) \in Frame
    /\ \A c \in Copies : [op |-> "reset", c |-> c] \in Frame
    /\ \A c \in Copies, i \in Input : [op |-> "provider", c |-> c, input |-> i] \in Frame
    /\ \A d \in DateValues : [op |-> "save_date", date |-> d] \in Frame
    /\ \A s \in Slots, n \in Nat : [op |-> "book", slot |-> s, n |-> n] \in Frame
    /\ \A s \in Slots : [op |-> "choose", slot |-> s] \in Frame
    /\ \A o \in {"menu", "chosen", "finish", "respond"} : [op |-> o] \in Frame
    /\ \A o \in {"commit", "guard"}, r \in SUBSET {"denied", "undeclared"} :
          [op |-> o, rescues |-> r] \in Frame
    /\ \A a \in AptStates \cup {"none"} : [op |-> "render", at |-> a] \in Frame
BY DEF Frame, Logic, ToSession, ToApt

-------------------------------------------------------------------------------
(* What saving does to the types of the rows and the instances.             *)

LEMMA MarkedType ==
    ASSUME NEW st \in Store, NEW s \in SessionStates
    PROVE  Marked(st, s) \in Store
BY DEF Marked, Store

LEMMA StoreOf ==
    ASSUME TypeOK, NEW c \in Copies
    PROVE  mem[c].store \in Store /\ mem[c].saved \in Store
BY DEF TypeOK, Instance

LEMMA SavedType ==
    ASSUME NEW c, NEW st \in Store, NEW d \in Database
    PROVE  Saved(c, st, d) \in Database
BY DEF Saved, Database

LEMMA WriteType ==
    ASSUME TypeOK, NEW d \in Database, Write(d)
    PROVE  db' \in Database /\ disk' \in Database
BY DEF TypeOK, Write

LEMMA SaveType ==
    ASSUME TypeOK, NEW c \in Copies, NEW st \in Store, NEW d \in Database, Save(c, st, d)
    PROVE  /\ mem' \in [Copies -> Instance]
           /\ db' \in Database /\ disk' \in Database
<1>1. mem' \in [Copies -> Instance]
  BY DEF TypeOK, Save, Instance
<1>2. Saved(c, st, d) \in Database
  BY SavedType
<1>. QED
  BY <1>1, <1>2, WriteType DEF Save

LEMMA AdvanceType ==
    ASSUME TypeOK, NEW c \in Copies, NEW s \in SessionStates,
           NEW st \in Store, NEW d \in Database, advance(c, s, st, d)
    PROVE  /\ mem' \in [Copies -> Instance]
           /\ db' \in Database /\ disk' \in Database
<1>1. mem' \in [Copies -> Instance]
  BY MarkedType DEF TypeOK, advance, Instance
<1>2. Saved(c, st, d) \in Database
  BY SavedType
<1>. QED
  BY <1>1, <1>2, WriteType DEF advance

LEMMA RememberType ==
    ASSUME TypeOK, NEW c \in Copies, NEW st \in Store, Remember(c, st)
    PROVE  mem' \in [Copies -> Instance]
BY DEF TypeOK, Remember, Instance

LEMMA ClearedInput ==
    ASSUME TypeOK, clear_session_input
    PROVE  req' \in [device : Devices \cup {"none"}, input : Input,
                     twin : BOOLEAN, resets : 0..MaxResets]
BY DEF TypeOK, clear_session_input, NoInput, Input, Kinds

LEMMA AnswerType ==
    ASSUME NEW r \in Replies, Answer(r)
    PROVE  /\ stack' \in Seq(Frame) /\ thinked' \subseteq Engines
           /\ req' \in [device : Devices \cup {"none"}, input : Input,
                        twin : BOOLEAN, resets : 0..MaxResets]
           /\ mem' \in [Copies -> Instance] /\ free' \subseteq Slots
           /\ reply' \in Replies
<1>1. EmptyStore \in Store
  BY DEF EmptyStore, Store
<1>. QED
  BY <1>1 DEF Answer, Idle, NoInput, Input, Kinds, Blank, Instance, MaxResets

LEMMA RaiseAfterType ==
    ASSUME TypeOK, NEW why \in Raised, NEW d \in Database, RaiseAfter(why, d)
    PROVE  TypeOK'
<1>1. why \in Replies
  BY DEF Replies
<1>2. disk' \in Database /\ db' \in Database
  BY DEF TypeOK, RaiseAfter
<1>. QED
  BY <1>1, <1>2, AnswerType DEF TypeOK, RaiseAfter

LEMMA RaiseType ==
    ASSUME TypeOK, NEW why \in Raised, Raise(why)
    PROVE  TypeOK'
BY RaiseAfterType DEF TypeOK, Raise

(* The calls that are left when a refusal has gone up to the i-th of them.  *)
LEMMA RestFrames ==
    ASSUME NEW s \in Seq(Frame), NEW i \in DOMAIN s
    PROVE  LET rest == SubSeq(s, i + 1, Len(s)) IN
           /\ rest \in Seq(Frame)
           /\ \A j \in DOMAIN rest : j + i \in DOMAIN s /\ rest[j] = s[j + i]
<1>1. /\ Len(s) \in Nat /\ i \in 1..Len(s)
      /\ \A j \in 1..Len(s) : s[j] \in Frame
  OBVIOUS
<1>2. CASE i = Len(s)
  <2>1. SubSeq(s, i + 1, Len(s)) = <<>>
    BY <1>1, <1>2, SubSeqProperties
  <2>. QED  BY <2>1
<1>3. CASE i # Len(s)
  <2>1. i + 1 \in 1..(Len(s) + 1)
    BY <1>1, <1>3
  <2>2. SubSeq(s, i + 1, Len(s)) \in Seq(Frame)
    BY <1>1, <2>1, SubSeqProperties
  <2>. QED  BY <1>1, <2>1, <2>2, SubSeqProperties
<1>. QED
  BY <1>2, <1>3

LEMMA RefuseType ==
    ASSUME TypeOK, NEW why \in {"denied", "undeclared"}, Refuse(why)
    PROVE  TypeOK'
<1>1. CASE Raise(why)
  BY <1>1, RaiseType DEF Raised
<1>2. ASSUME NEW i \in DOMAIN stack, Unwind(i) PROVE TypeOK'
  <2>1. stack' \in Seq(Frame)
    BY <1>2, RestFrames DEF TypeOK, Unwind
  <2>2. db' \in Database
    BY <1>2 DEF TypeOK, Unwind
  <2>. QED  BY <1>2, <2>1, <2>2 DEF TypeOK, Unwind
<1>. QED
  BY <1>1, <1>2 DEF Refuse

LEMMA ThinkingCalls ==
    ASSUME TypeOK, NEW m, NEW c, NEW s, s # "none", Thinking(m, c, s),
           NEW fs \in Seq(Frame), Calls(fs)
    PROVE  stack' \in Seq(Frame)
BY CallsType DEF TypeOK, Thinking, At

(* The next state in the linear order is a state.                           *)
LEMMA NextStateType ==
    ASSUME NEW s \in SessionStates
    PROVE  next_state_by_priority(s) \in SessionStates
<1>1. \A t \in SessionStates : \E i \in 1..8 : linear_states[i] = t
  BY DEF SessionStates, linear_states
<1>2. DOMAIN linear_states = 1..8
  BY DEF linear_states
<1>3. IndexOf(s) \in 1..8 /\ linear_states[IndexOf(s)] = s
  BY <1>1, <1>2 DEF IndexOf
<1>4. \A i \in 1..8 : linear_states[i] \in SessionStates
  BY DEF SessionStates, linear_states
<1>5. s # "finish" => IndexOf(s) # 8
  BY <1>3 DEF linear_states
<1>. QED
  BY <1>3, <1>4, <1>5 DEF next_state_by_priority

LEMMA AdvanceFrame ==
    ASSUME TypeOK, NEW c \in Copies
    PROVE  Advance(c) \in Frame /\ <<Advance(c)>> \in Seq(Frame)
<1>1. Advance(c) \in Frame
  BY NextStateType, FramesType DEF TypeOK, Advance, Database
<1>. QED
  BY <1>1

-------------------------------------------------------------------------------
(* Requests, returns and transitions keep the types.                        *)

LEMMA RequestType ==
    ASSUME TypeOK, NEW d \in Devices, NEW i \in SmsInputs \cup VoiceInputs, Request(d, i)
    PROVE  TypeOK'
<1>1. i \in Input
  BY InputAssumption
<1>2. stack' \in Seq(Frame)
  <2>1. Logic("session", 1) \in Frame /\ [op |-> "respond"] \in Frame
    BY FramesType DEF Copies
  <2>. QED  BY <2>1 DEF Request
<1>3. mem' \in [Copies -> Instance]
  BY DEF TypeOK, Request, Instance, Database
<1>4. free' \subseteq Slots
  BY FreeAssumption DEF Request
<1>5. req' \in [device : Devices \cup {"none"}, input : Input,
                twin : BOOLEAN, resets : 0..MaxResets]
  BY <1>1 DEF Request, MaxResets
<1>. QED
  BY <1>2, <1>3, <1>4, <1>5 DEF TypeOK, Request, Replies

LEMMA ResumesType ==
    ASSUME TypeOK, AlreadyThinked \/ Done \/ Commit
    PROVE  TypeOK'
<1>0. stack # <<>> /\ Head(stack) \in Frame
  BY HeadAndTail DEF TypeOK, AlreadyThinked, Done, Commit, At
<1>1. Continues(<<>>)
  BY DEF AlreadyThinked, Done, Commit
<1>2. stack' \in Seq(Frame)
  BY <1>0, <1>1, ContinuesType, NoFrames DEF TypeOK
<1>3. CASE AlreadyThinked
  BY <1>2, <1>3 DEF TypeOK, AlreadyThinked, vars_but_stack
<1>4. CASE Done
  <2>1. Head(stack).eng \in Engines
    BY <1>0, <1>4, FrameFields DEF Done, At
  <2>. QED  BY <1>2, <1>4, <2>1 DEF TypeOK, Done
<1>5. CASE Commit
  BY <1>2, <1>5 DEF TypeOK, Commit
<1>. QED
  BY <1>3, <1>4, <1>5

LEMMA TransitionsType ==
    ASSUME TypeOK, Transitions
    PROVE  TypeOK'
<1>0. stack # <<>> /\ Head(stack) \in Frame
  BY HeadAndTail DEF TypeOK, Transitions, EnterSessionState, reset_appointment_selection,
     Reset, Guard, RefuseSession, EnterAptState, RefuseApt, At
<1>1. CASE EnterSessionState
  <2>1. /\ Head(stack).c \in Copies /\ Head(stack).to \in SessionStates
        /\ Head(stack).rescues \in SUBSET {"denied", "undeclared"}
    BY <1>0, <1>1, FrameFields DEF EnterSessionState, At
  <2>2. <<Logic("session", Head(stack).c), Transaction>> \in Seq(Frame)
    BY <2>1, FramesType DEF Transaction
  <2>3. stack' \in Seq(Frame)
    BY <1>0, <1>1, <2>2, ContinuesType DEF TypeOK, EnterSessionState
  <2>4. db' \in Database
    BY <1>1, <2>1 DEF TypeOK, EnterSessionState, Database
  <2>. QED  BY <1>1, <2>3, <2>4 DEF TypeOK, EnterSessionState
<1>2. CASE reset_appointment_selection
  <2>1. Head(stack).c \in Copies /\ Head(stack).rescues \in SUBSET {"denied", "undeclared"}
    BY <1>0, <1>2, FrameFields DEF reset_appointment_selection, At
  <2>. DEFINE c == Head(stack).c
              guard == [op |-> "guard", rescues |-> Head(stack).rescues]
              fs == (IF db.apt = "handshake" THEN <<>> ELSE <<ToApt(c, "handshake", Bang)>>)
                       \o <<[op |-> "reset", c |-> c], guard>>
  <2>2. /\ ToApt(c, "handshake", Bang) \in Frame
        /\ [op |-> "reset", c |-> c] \in Frame /\ guard \in Frame
    BY <2>1, FramesType DEF Bang, AptStates
  <2>3. fs \in Seq(Frame)
    BY <2>2
  <2>4. stack' \in Seq(Frame)
    BY <1>0, <1>2, <2>3, ContinuesType DEF TypeOK, reset_appointment_selection
  <2>5. mem[c].store \in Store /\ Save(c, mem[c].store, db) /\ db \in Database
    BY <1>2, <2>1, StoreOf DEF reset_appointment_selection, TypeOK
  <2>6. mem' \in [Copies -> Instance] /\ db' \in Database /\ disk' \in Database
    BY <2>1, <2>5, SaveType
  <2>7. req' \in [device : Devices \cup {"none"}, input : Input,
                  twin : BOOLEAN, resets : 0..MaxResets]
    <3>1. req' = [req EXCEPT !.resets = @ + 1] /\ req.resets < MaxResets
      BY <1>2 DEF reset_appointment_selection, SentBack
    <3>. QED  BY <3>1 DEF TypeOK, MaxResets
  <2>. QED  BY <1>2, <2>4, <2>6, <2>7 DEF TypeOK, reset_appointment_selection
<1>3. CASE Reset
  <2>1. ToSession(Head(stack).c, "appointment_selection", Bang) \in Frame
    BY <1>0, <1>3, FrameFields, FramesType DEF Reset, At, Bang, SessionStates
  <2>. DEFINE fs == IF db.state = "appointment_selection" THEN <<>>
                    ELSE <<ToSession(Head(stack).c, "appointment_selection", Bang)>>
  <2>3. fs \in Seq(Frame)
    BY <2>1, NoFrames
  <2>4. Continues(fs)
    BY <1>3 DEF Reset
  <2>2. stack' \in Seq(Frame)
    BY <1>0, <2>3, <2>4, ContinuesType DEF TypeOK
  <2>. QED  BY <1>3, <2>2 DEF TypeOK, Reset, vars_but_stack
<1>4. CASE EnterAptState
  <2>1. /\ Head(stack).c \in Copies /\ Head(stack).to \in AptStates
        /\ Head(stack).rescues \in SUBSET {"denied", "undeclared"}
    BY <1>0, <1>4, FrameFields DEF EnterAptState, At
  <2>2. <<Logic("apt", Head(stack).c), Transaction>> \in Seq(Frame)
    BY <2>1, FramesType DEF Transaction
  <2>3. stack' \in Seq(Frame)
    BY <1>0, <1>4, <2>2, ContinuesType DEF TypeOK, EnterAptState
  <2>4. db' \in Database
    BY <1>4, <2>1 DEF TypeOK, EnterAptState, Database
  <2>. QED  BY <1>4, <2>3, <2>4 DEF TypeOK, EnterAptState
<1>5. CASE RefuseSession
  BY <1>5, RefuseType DEF RefuseSession, Refusal
<1>6. CASE RefuseApt \/ Guard
  BY <1>6, RefuseType DEF RefuseApt, Guard
<1>. QED
  BY <1>1, <1>2, <1>3, <1>4, <1>5, <1>6 DEF Transitions

-------------------------------------------------------------------------------
(* The engines of the session machine keep the types.                       *)

LEMMA HandshakeType ==
    ASSUME TypeOK, NEW c \in Copies, Handshake(c)
    PROVE  TypeOK'
<1>. DEFINE st == mem[c].store
<1>1. st \in Store /\ db \in Database
  BY StoreOf DEF TypeOK
<1>2. CASE advance(c, "handshake", Marked(st, "handshake"), db) /\ Calls(<<Advance(c)>>)
  <2>1. Marked(st, "handshake") \in Store
    BY <1>1, MarkedType DEF SessionStates
  <2>2. mem' \in [Copies -> Instance] /\ db' \in Database /\ disk' \in Database
    BY <1>1, <1>2, <2>1, AdvanceType DEF SessionStates
  <2>3. stack' \in Seq(Frame)
    BY <1>2, AdvanceFrame, ThinkingCalls DEF Handshake
  <2>. QED  BY <2>2, <2>3 DEF TypeOK, Handshake
<1>3. CASE Save(c, [st EXCEPT !.shaked = TRUE], db) /\ Calls(<<>>)
  <2>1. [st EXCEPT !.shaked = TRUE] \in Store
    BY <1>1 DEF Store
  <2>2. mem' \in [Copies -> Instance] /\ db' \in Database /\ disk' \in Database
    BY <1>1, <1>3, <2>1, SaveType
  <2>3. stack' \in Seq(Frame)
    BY <1>3, NoFrames, ThinkingCalls DEF Handshake
  <2>. QED  BY <2>2, <2>3 DEF TypeOK, Handshake
<1>. QED
  BY <1>2, <1>3 DEF Handshake

LEMMA InitialDecoderType ==
    ASSUME TypeOK, NEW c \in Copies, InitialDecoder(c)
    PROVE  TypeOK'
<1>. DEFINE st == mem[c].store
            dated == sms /\ req.input.kind = "date"
            kept == [st EXCEPT !.decoded = @ \/ dated]
<1>1. st \in Store /\ db \in Database
  BY StoreOf DEF TypeOK
<1>2. kept \in Store
  <2>1. (st.decoded \/ dated) \in BOOLEAN
    OBVIOUS
  <2>. QED  BY <1>1, <2>1 DEF Store
<1>3. Marked(kept, "initial_decoder") \in Store
  BY <1>2, MarkedType DEF SessionStates
<1>4. mem' \in [Copies -> Instance] /\ db' \in Database /\ disk' \in Database
  BY <1>1, <1>3, AdvanceType DEF InitialDecoder, SessionStates
<1>5. stack' \in Seq(Frame)
  BY AdvanceFrame, ThinkingCalls DEF InitialDecoder
<1>6. req' \in [device : Devices \cup {"none"}, input : Input,
                twin : BOOLEAN, resets : 0..MaxResets]
  BY DEF TypeOK, InitialDecoder, NoInput, Input, Kinds
<1>. QED
  BY <1>4, <1>5, <1>6 DEF TypeOK, InitialDecoder

LEMMA CustomerRegistrationType ==
    ASSUME TypeOK, NEW c \in Copies, CustomerRegistration(c)
    PROVE  TypeOK'
<1>. DEFINE st == mem[c].store
            d == [db EXCEPT !.named = TRUE]
<1>1. st \in Store /\ d \in Database
  BY StoreOf DEF TypeOK, Database
<1>2. Marked(st, "customer_registration") \in Store
  BY <1>1, MarkedType DEF SessionStates
<1>3. CASE /\ advance(c, "customer_registration", Marked(st, "customer_registration"), d)
           /\ clear_session_input /\ Calls(<<Advance(c)>>)
  <2>1. mem' \in [Copies -> Instance] /\ db' \in Database /\ disk' \in Database
    BY <1>1, <1>2, <1>3, AdvanceType DEF SessionStates
  <2>2. stack' \in Seq(Frame)
    BY <1>3, AdvanceFrame, ThinkingCalls DEF CustomerRegistration
  <2>. QED  BY <1>3, <2>1, <2>2, ClearedInput DEF TypeOK, CustomerRegistration
<1>4. CASE Calls(<<>>) /\ UNCHANGED <<db, disk, mem, req>>
  <2>1. stack' \in Seq(Frame)
    BY <1>4, NoFrames, ThinkingCalls DEF CustomerRegistration
  <2>. QED  BY <1>4, <2>1 DEF TypeOK, CustomerRegistration
<1>. QED
  BY <1>3, <1>4 DEF CustomerRegistration

LEMMA SelectionTypes ==
    ASSUME NEW sel \in {"office", "service", "provider"}
    PROVE  StateOf(sel) \in SessionStates /\ sel \in Selections
BY DEF StateOf, SessionStates, Selections

LEMMA WithType ==
    ASSUME NEW st \in Store, NEW sel \in Selections
    PROVE  With(st, sel) \in Store
BY DEF With, Store

LEMMA SkipSelectionType ==
    ASSUME TypeOK, NEW c \in Copies, NEW sel \in {"office", "service"}, SkipSelection(c, sel)
    PROVE  TypeOK'
<1>. DEFINE s == StateOf(sel)
            st == mem[c].store
<1>1. st \in Store /\ db \in Database /\ s \in SessionStates /\ sel \in Selections
  BY StoreOf, SelectionTypes DEF TypeOK
<1>2. Marked(With(st, sel), s) \in Store
  BY <1>1, WithType, MarkedType
<1>3. mem' \in [Copies -> Instance] /\ db' \in Database /\ disk' \in Database
  BY <1>1, <1>2, AdvanceType DEF SkipSelection
<1>4. s # "none"
  BY <1>1 DEF SessionStates
<1>5. stack' \in Seq(Frame)
  BY <1>4, AdvanceFrame, ThinkingCalls DEF SkipSelection
<1>. QED
  BY <1>3, <1>5 DEF TypeOK, SkipSelection

LEMMA process_inputType ==
    ASSUME TypeOK, NEW c \in Copies, NEW sel \in {"office", "service"}, process_input(c, sel)
    PROVE  TypeOK'
<1>. DEFINE s == StateOf(sel)
            st == IF Retrying(c, sel)
                  THEN [mem[c].store EXCEPT !.retrying = @ \ {sel}]
                  ELSE mem[c].store
<1>1. db \in Database /\ s \in SessionStates /\ sel \in Selections
  BY SelectionTypes DEF TypeOK
<1>2. st \in Store
  BY StoreOf DEF Store
<1>3. Marked(With(st, sel), s) \in Store
  BY <1>1, <1>2, WithType, MarkedType
<1>4. s # "none" /\ Thinking("session", c, s)
  BY <1>1 DEF SessionStates, process_input, Selecting
<1>5. CASE /\ advance(c, s, Marked(With(st, sel), s), db)
           /\ clear_session_input /\ Calls(<<Advance(c)>>)
  <2>1. mem' \in [Copies -> Instance] /\ db' \in Database /\ disk' \in Database
    BY <1>1, <1>3, <1>5, AdvanceType
  <2>2. stack' \in Seq(Frame)
    BY <1>4, <1>5, AdvanceFrame, ThinkingCalls
  <2>. QED  BY <1>5, <2>1, <2>2, ClearedInput DEF TypeOK, process_input
<1>6. CASE Remember(c, st) /\ Calls(<<>>) /\ UNCHANGED req
  <2>1. mem' \in [Copies -> Instance]
    BY <1>2, <1>6, RememberType
  <2>2. stack' \in Seq(Frame)
    BY <1>4, <1>6, NoFrames, ThinkingCalls
  <2>. QED  BY <1>6, <2>1, <2>2 DEF TypeOK, process_input, Remember
<1>. QED
  BY <1>5, <1>6 DEF process_input

LEMMA OfferDefaultType ==
    ASSUME TypeOK, NEW c \in Copies, NEW sel \in {"office", "service"}, OfferDefault(c, sel)
    PROVE  TypeOK'
<1>. DEFINE s == StateOf(sel)
            st == mem[c].store
<1>1. st \in Store /\ db \in Database /\ s \in SessionStates /\ sel \in Selections
  BY StoreOf, SelectionTypes DEF TypeOK
<1>2. s # "none" /\ Thinking("session", c, s)
  BY <1>1 DEF SessionStates, OfferDefault, Selecting
<1>3. With(st, sel) \in Store
  BY <1>1, WithType
<1>4. /\ [st EXCEPT !.asked_to_change = @ \cup {sel}] \in Store
      /\ [st EXCEPT !.confirming = @ \cup {sel}] \in Store
  BY <1>1 DEF Store
<1>5. CASE advance(c, s, With(st, sel), db) /\ Calls(<<Advance(c)>>)
  <2>1. mem' \in [Copies -> Instance] /\ db' \in Database /\ disk' \in Database
    BY <1>1, <1>3, <1>5, AdvanceType
  <2>2. stack' \in Seq(Frame)
    BY <1>2, <1>5, AdvanceFrame, ThinkingCalls
  <2>3. clear_session_input \/ UNCHANGED req
    BY DEF OfferDefault
  <2>. QED  BY <2>1, <2>2, <2>3, ClearedInput DEF TypeOK, OfferDefault
<1>6. CASE /\ \/ Save(c, [st EXCEPT !.asked_to_change = @ \cup {sel}], db)
              \/ Save(c, [st EXCEPT !.confirming = @ \cup {sel}], db)
           /\ Calls(<<>>) /\ UNCHANGED req
  <2>1. mem' \in [Copies -> Instance] /\ db' \in Database /\ disk' \in Database
    BY <1>1, <1>4, <1>6, SaveType
  <2>2. stack' \in Seq(Frame)
    BY <1>2, <1>6, NoFrames, ThinkingCalls
  <2>. QED  BY <1>6, <2>1, <2>2 DEF TypeOK, OfferDefault
<1>. QED
  BY <1>5, <1>6 DEF OfferDefault

LEMMA ImposeDefaultType ==
    ASSUME TypeOK, NEW c \in Copies, NEW sel \in {"office", "service"}, ImposeDefault(c, sel)
    PROVE  TypeOK'
<1>. DEFINE s == StateOf(sel)
            st == [mem[c].store EXCEPT !.assumed = @ \cup {sel}]
<1>1. db \in Database /\ s \in SessionStates /\ sel \in Selections
  BY SelectionTypes DEF TypeOK
<1>2. st \in Store
  BY <1>1, StoreOf DEF Store
<1>3. s # "none" /\ Thinking("session", c, s)
  BY <1>1 DEF SessionStates, ImposeDefault, Selecting
<1>4. mem' \in [Copies -> Instance] /\ db' \in Database /\ disk' \in Database
  BY <1>1, <1>2, AdvanceType DEF ImposeDefault
<1>5. stack' \in Seq(Frame)
  BY <1>3, AdvanceFrame, ThinkingCalls DEF ImposeDefault
<1>. QED
  BY <1>4, <1>5, ClearedInput DEF TypeOK, ImposeDefault

LEMMA ProviderSelectionType ==
    ASSUME TypeOK, NEW c \in Copies, ProviderSelection(c)
    PROVE  TypeOK'
<1>. DEFINE rest == [op |-> "provider", c |-> c, input |-> req.input]
<1>1. mem[c].store \in Store /\ db \in Database
  BY StoreOf DEF TypeOK
<1>2. rest \in Frame
  BY FramesType DEF TypeOK
<1>3. <<rest>> \in Seq(Frame) /\ <<Advance(c), rest>> \in Seq(Frame)
  BY <1>2, AdvanceFrame
<1>4. mem' \in [Copies -> Instance] /\ db' \in Database /\ disk' \in Database
  BY <1>1, AdvanceType DEF TypeOK, ProviderSelection, SessionStates
<1>5. stack' \in Seq(Frame)
  BY <1>3, ThinkingCalls DEF ProviderSelection
<1>. QED
  BY <1>4, <1>5 DEF TypeOK, ProviderSelection

LEMMA ProviderSelectionRestType ==
    ASSUME TypeOK, ProviderSelectionRest
    PROVE  TypeOK'
<1>. DEFINE c == Head(stack).c
            st == Marked(With(mem[c].store, "provider"), "provider_selection")
<1>1. stack # <<>> /\ Head(stack) \in Frame
  BY HeadAndTail DEF TypeOK, ProviderSelectionRest, At
<1>2. c \in Copies /\ db \in Database
  BY <1>1, FrameFields DEF TypeOK, ProviderSelectionRest, At
<1>3. st \in Store
  BY <1>2, StoreOf, WithType, MarkedType DEF Selections, SessionStates
<1>4. /\ mem' \in [Copies -> Instance] /\ db' \in Database /\ disk' \in Database
      /\ Continues(<<Advance(c)>>) \/ Continues(<<>>)
  BY <1>2, <1>3, AdvanceType DEF TypeOK, ProviderSelectionRest, SessionStates
<1>5. stack' \in Seq(Frame)
  BY <1>1, <1>2, <1>4, AdvanceFrame, NoFrames, ContinuesType DEF TypeOK
<1>6. clear_session_input \/ UNCHANGED req
  BY DEF ProviderSelectionRest
<1>. QED
  BY <1>4, <1>5, <1>6, ClearedInput DEF TypeOK, ProviderSelectionRest

LEMMA AppointmentSelectionType ==
    ASSUME TypeOK, NEW c \in Copies, AppointmentSelection(c)
    PROVE  TypeOK'
<1>. DEFINE st == Marked(mem[c].store, "appointment_selection")
            d == [db EXCEPT !.apt = "handshake"]
<1>1. st \in Store
  BY StoreOf, MarkedType DEF SessionStates
<1>2. d \in Database
  BY DEF TypeOK, Database, AptStates
<1>3. <<Logic("apt", c)>> \in Seq(Frame)
  BY FramesType
<1>4. stack' \in Seq(Frame)
  BY <1>3, ThinkingCalls DEF AppointmentSelection
<1>5. CASE /\ mem' = [mem EXCEPT ![c].store = st,
                                 ![2] = [store |-> db.store, saved |-> db.store]]
           /\ Write(d) /\ req' = [req EXCEPT !.twin = TRUE]
  <2>1. db.store \in Store
    BY DEF TypeOK, Database
  <2>2. mem' \in [Copies -> Instance]
    BY <1>1, <1>5, <2>1 DEF TypeOK, Instance, Copies
  <2>3. db' \in Database /\ disk' \in Database
    BY <1>2, <1>5, WriteType
  <2>. QED  BY <1>4, <1>5, <2>2, <2>3 DEF TypeOK, AppointmentSelection
<1>6. CASE Remember(c, st) /\ UNCHANGED req
  BY <1>1, <1>4, <1>6, RememberType DEF TypeOK, AppointmentSelection, Remember
<1>. QED
  BY <1>5, <1>6 DEF AppointmentSelection

LEMMA FinishType ==
    ASSUME TypeOK, NEW c \in Copies, Finish(c)
    PROVE  TypeOK'
<1>. DEFINE d == [db EXCEPT !.finished = TRUE]
<1>1. mem[c].store \in Store /\ d \in Database
  BY StoreOf DEF TypeOK, Database
<1>2. CASE Save(c, mem[c].store, d) /\ Calls(<<>>) /\ UNCHANGED <<biz, req, thinked, free, announced, reply>>
  <2>1. mem' \in [Copies -> Instance] /\ db' \in Database /\ disk' \in Database
    BY <1>1, <1>2, SaveType
  <2>2. stack' \in Seq(Frame)
    BY <1>2, NoFrames, ThinkingCalls DEF Finish
  <2>. QED  BY <1>2, <2>1, <2>2 DEF TypeOK
<1>3. CASE RaiseAfter("setting", Saved(c, mem[c].store, d))
  BY <1>1, <1>3, SavedType, RaiseAfterType DEF Raised
<1>. QED
  BY <1>2, <1>3 DEF Finish

-------------------------------------------------------------------------------
(* The engines of the appointment machine keep the types.                   *)

LEMMA IType ==
    I \in Copies
BY DEF I, Copies

LEMMA NthType ==
    ASSUME NEW S \in SUBSET Slots, NEW k
    PROVE  Nth(S, k) \in Slots \cup {NoSlot}
BY DEF Nth

LEMMA RubyAtType ==
    ASSUME NEW S \in SUBSET Slots, NEW i
    PROVE  RubyAt(S, i) \in Slots \cup {NoSlot}
BY NthType DEF RubyAt

LEMMA OfferedType ==
    ASSUME TypeOK
    PROVE  Offered \in SUBSET Slots
BY DEF TypeOK, Offered

LEMMA AptHandshakeType ==
    ASSUME TypeOK, NEW c \in Copies, AptHandshake(c)
    PROVE  TypeOK'
<1>. DEFINE st == mem[I].store
            d == [db EXCEPT !.date = "date"]
            decodes == db.date # "date" /\ sms /\ st.decoded
            dated == db.date = "date" \/ decodes
            to == IF ~dated THEN "initial_input_date"
                  ELSE IF sms THEN "summary" ELSE "display_result"
<1>1. /\ st \in Store /\ d \in Database /\ I \in Copies
      /\ [st EXCEPT !.decoded = FALSE] \in Store
  BY IType, StoreOf DEF TypeOK, Database, DateValues, Store
<1>2. ToApt(I, to, Bang) \in Frame
  BY <1>1, FramesType DEF Bang, AptStates
<1>3. stack' \in Seq(Frame)
  BY <1>2, OneFrame, ThinkingCalls DEF AptHandshake
<1>4. CASE decodes
  <2>1. Write(d) /\ mem' = [mem EXCEPT ![I].store = [st EXCEPT !.decoded = FALSE]]
    BY <1>4 DEF AptHandshake
  <2>2. mem' \in [Copies -> Instance]
    BY <1>1, <2>1 DEF TypeOK, Instance
  <2>. QED  BY <1>1, <1>3, <2>1, <2>2, WriteType DEF TypeOK, AptHandshake
<1>5. CASE ~decodes
  BY <1>3, <1>5 DEF TypeOK, AptHandshake
<1>. QED
  BY <1>4, <1>5

LEMMA InitialInputDateType ==
    ASSUME TypeOK, NEW c \in Copies, InitialInputDate(c)
    PROVE  TypeOK'
<1>. DEFINE st == [mem[I].store EXCEPT !.decoded = FALSE]
            good == [op |-> "save_date", date |-> "date"]
            bad == [op |-> "save_date", date |-> ""]
<1>0. I \in Copies /\ db \in Database /\ mem[I].store \in Store
  BY IType, StoreOf DEF TypeOK
<1>1. st \in Store
  BY <1>0 DEF Store
<1>2. good \in Frame /\ bad \in Frame
  BY FramesType DEF DateValues
<1>3. <<good>> \in Seq(Frame) /\ <<bad>> \in Seq(Frame)
  BY <1>2, OneFrame
<1>4. Calls(<<good>>) \/ Calls(<<bad>>) \/ Calls(<<>>)
  BY DEF InitialInputDate
<1>5. stack' \in Seq(Frame)
  BY <1>3, <1>4, NoFrames, ThinkingCalls DEF InitialInputDate
<1>6. Save(I, st, db) \/ UNCHANGED <<db, disk, mem>>
  BY DEF InitialInputDate
<1>7. mem' \in [Copies -> Instance] /\ db' \in Database /\ disk' \in Database
  BY <1>0, <1>1, <1>6, SaveType DEF TypeOK
<1>. QED
  BY <1>5, <1>7 DEF TypeOK, InitialInputDate

LEMMA SaveDateType ==
    ASSUME TypeOK, SaveDate
    PROVE  TypeOK'
<1>. DEFINE d == [db EXCEPT !.date = Head(stack).date]
            to == IF sms THEN "summary" ELSE "display_result"
<1>1. stack # <<>> /\ Head(stack) \in Frame
  BY HeadAndTail DEF TypeOK, SaveDate, At
<1>2. d \in Database
  BY <1>1, FrameFields DEF TypeOK, SaveDate, At, Database
<1>3. ToApt(I, to, Bang) \in Frame
  BY IType, FramesType DEF Bang, AptStates
<1>4. stack' \in Seq(Frame)
  BY <1>1, <1>3, OneFrame, ContinuesType DEF TypeOK, SaveDate
<1>. QED
  BY <1>2, <1>4, WriteType, ClearedInput DEF TypeOK, SaveDate

LEMMA RepeatInputDateType ==
    ASSUME TypeOK, NEW c \in Copies, RepeatInputDate(c)
    PROVE  TypeOK'
<1>. DEFINE st == [mem[I].store EXCEPT !.decoded = FALSE]
<1>0. I \in Copies /\ db \in Database /\ mem[I].store \in Store
  BY IType, StoreOf DEF TypeOK
<1>1. st \in Store
  BY <1>0 DEF Store
<1>2. ToApt(I, "initial_input_date", Bang) \in Frame
  BY <1>0, FramesType DEF Bang, AptStates
<1>3. stack' \in Seq(Frame)
  BY <1>2, OneFrame, ThinkingCalls DEF RepeatInputDate
<1>4. mem' \in [Copies -> Instance] /\ db' \in Database /\ disk' \in Database
  BY <1>0, <1>1, SaveType DEF RepeatInputDate
<1>. QED
  BY <1>3, <1>4 DEF TypeOK, RepeatInputDate

LEMMA BooksType ==
    ASSUME NEW slot \in Slots, NEW n \in Nat
    PROVE  Books(slot, n) \in Seq(Frame)
<1>1. /\ [op |-> "book", slot |-> slot, n |-> n] \in Frame
      /\ [op |-> "choose", slot |-> slot] \in Frame
  BY FramesType
<1>. QED
  BY <1>1 DEF Books

LEMMA DisplayResultType ==
    ASSUME TypeOK, NEW c \in Copies, DisplayResult(c)
    PROVE  TypeOK'
<1>. DEFINE st == mem[I].store
            slot == RubyAt(Offered, req.input.n - 2)
            again == <<ToApt(I, "repeat_input_date", Bang)>>
            book == Books(slot, req.input.n) \o <<ToApt(I, "finish", Bang)>>
            shown == [st EXCEPT !.just_shown = TRUE]
            answered == [st EXCEPT !.just_shown = FALSE]
<1>1. I \in Copies /\ db \in Database /\ st \in Store
  BY IType, StoreOf DEF TypeOK
<1>2. shown \in Store /\ answered \in Store
  BY <1>1 DEF Store
<1>3. again \in Seq(Frame)
  BY <1>1, OneFrame, FramesType DEF Bang, AptStates
<1>4. slot # NoSlot => book \in Seq(Frame)
  <2>1. slot \in Slots \cup {NoSlot} /\ req.input.n \in Nat
    BY OfferedType, RubyAtType DEF TypeOK, Input
  <2>2. slot # NoSlot => Books(slot, req.input.n) \in Seq(Frame)
    BY <2>1, BooksType
  <2>3. <<ToApt(I, "finish", Bang)>> \in Seq(Frame)
    BY <1>1, OneFrame, FramesType DEF Bang, AptStates
  <2>. QED  BY <2>2, <2>3
<1>5. CASE RaiseAfter("nil_results", Saved(I, st, db))
  BY <1>1, <1>5, SavedType, RaiseAfterType DEF Raised
<1>6. ASSUME ~RaiseAfter("nil_results", Saved(I, st, db)) PROVE TypeOK'
  <2>1. Calls(again) \/ Calls(<<>>) \/ (slot # NoSlot /\ Calls(book))
    BY <1>6 DEF DisplayResult
  <2>2. stack' \in Seq(Frame)
    BY <1>3, <1>4, <2>1, NoFrames, ThinkingCalls DEF DisplayResult
  <2>3. \/ UNCHANGED <<db, disk, mem>> \/ Save(I, st, db) \/ Save(I, shown, db)
        \/ /\ mem' = [mem EXCEPT ![I] = [store |-> answered, saved |-> st]]
           /\ Write(Saved(I, st, db))
    BY <1>6 DEF DisplayResult
  <2>4. mem' \in [Copies -> Instance] /\ db' \in Database /\ disk' \in Database
    <3>1. CASE UNCHANGED <<db, disk, mem>>
      BY <3>1 DEF TypeOK
    <3>2. CASE Save(I, st, db) \/ Save(I, shown, db)
      BY <1>1, <1>2, <3>2, SaveType
    <3>3. CASE /\ mem' = [mem EXCEPT ![I] = [store |-> answered, saved |-> st]]
               /\ Write(Saved(I, st, db))
      <4>1. Saved(I, st, db) \in Database
        BY <1>1, SavedType
      <4>2. mem' \in [Copies -> Instance]
        BY <1>1, <1>2, <3>3 DEF TypeOK, Instance
      <4>. QED  BY <3>3, <4>1, <4>2, WriteType
    <3>. QED  BY <2>3, <3>1, <3>2, <3>3
  <2>5. thinked' \subseteq Engines
    <3>1. <<"apt", c, "display_result">> \in Engines
      BY DEF Engines, AptStates
    <3>2. thinked' = thinked \cup {<<"apt", c, "display_result">>}
      BY <1>6 DEF DisplayResult
    <3>. QED  BY <3>1, <3>2 DEF TypeOK
  <2>6. clear_session_input \/ UNCHANGED req
    BY <1>6 DEF DisplayResult
  <2>7. UNCHANGED <<biz, free, announced, reply>>
    BY <1>6 DEF DisplayResult
  <2>. QED  BY <2>2, <2>4, <2>5, <2>6, <2>7, ClearedInput DEF TypeOK
<1>. QED
  BY <1>5, <1>6

LEMMA BookingType ==
    ASSUME TypeOK, Book \/ Choose
    PROVE  TypeOK'
<1>1. stack # <<>> /\ Head(stack) \in Frame /\ Head(stack).slot \in Slots
  BY HeadAndTail, FrameFields DEF TypeOK, Book, Choose, At
<1>2. /\ [db EXCEPT !.booked = @ \cup {Head(stack).slot}] \in Database
      /\ [db EXCEPT !.chosen = Head(stack).slot] \in Database
  BY <1>1 DEF TypeOK, Database
<1>3. db' \in Database /\ disk' \in Database
  BY <1>2, WriteType DEF Book, Choose
<1>4. stack' \in Seq(Frame)
  BY <1>1, NoFrames, ContinuesType DEF TypeOK, Book, Choose
<1>. QED
  BY <1>3, <1>4 DEF TypeOK, Book, Choose

LEMMA SummaryType ==
    ASSUME TypeOK, NEW c \in Copies, Summary(c)
    PROVE  TypeOK'
<1>. DEFINE again == <<ToApt(I, "repeat_input_date", Bang)>>
            d == IF Offered = {} THEN [db EXCEPT !.date = NoDate] ELSE db
<1>1. I \in Copies /\ mem[I].store \in Store /\ d \in Database
  BY IType, StoreOf DEF TypeOK, Database, DateValues
<1>2. again \in Seq(Frame) /\ <<[op |-> "menu"], [op |-> "chosen"]>> \in Seq(Frame)
  BY <1>1, FramesType DEF Bang, AptStates
<1>3. CASE Calls(again) /\ UNCHANGED <<biz, db, disk, mem, req, thinked, free, announced, reply>>
  <2>1. stack' \in Seq(Frame)
    BY <1>2, <1>3, ThinkingCalls DEF Summary
  <2>. QED  BY <1>3, <2>1 DEF TypeOK
<1>4. CASE Raise("nil_results")
  BY <1>4, RaiseType DEF Raised
<1>5. CASE /\ Save(I, mem[I].store, d) /\ Calls(<<[op |-> "menu"], [op |-> "chosen"]>>)
           /\ UNCHANGED <<biz, req, thinked, free, announced, reply>>
  <2>1. stack' \in Seq(Frame)
    BY <1>2, <1>5, ThinkingCalls DEF Summary
  <2>2. mem' \in [Copies -> Instance] /\ db' \in Database /\ disk' \in Database
    BY <1>1, <1>5, SaveType
  <2>. QED  BY <1>5, <2>1, <2>2 DEF TypeOK
<1>. QED
  BY <1>3, <1>4, <1>5 DEF Summary

LEMMA MenuType ==
    /\ menu_options \in Seq({"service", "office", "provider", "date"})
    /\ Len(menu_options) \in Nat
<1>. DEFINE offer(sel) == IF can_change(sel) THEN <<sel>> ELSE <<>>
            Options == {"service", "office", "provider", "date"}
<1>0. <<>> \in Seq(Options) /\ \A o \in Options : <<o>> \in Seq(Options)
  OBVIOUS
<1>1. \A sel \in {"service", "office", "provider"} : offer(sel) \in Seq(Options)
  BY <1>0
<1>2. <<"date">> \in Seq(Options)
  OBVIOUS
<1>3. offer("service") \o offer("office") \in Seq(Options)
  BY <1>1
<1>4. offer("service") \o offer("office") \o offer("provider") \in Seq(Options)
  BY <1>1, <1>3
<1>5. menu_options \in Seq(Options)
  BY <1>2, <1>4 DEF menu_options
<1>. QED
  BY <1>5

LEMMA process_actionsType ==
    ASSUME TypeOK, process_actions
    PROVE  TypeOK'
<1>. DEFINE n == req.input.n
            options == Len(menu_options)
            slot == RubyAt(Offered, n - options - 1)
            book == Books(slot, n) \o <<[op |-> "finish"]>>
            again == <<ToApt(I, "repeat_input_date", Bang)>>
<1>1. stack # <<>> /\ I \in Copies /\ n \in Nat /\ db \in Database
  BY IType DEF TypeOK, process_actions, At, Input
<1>2. CASE slot # NoSlot /\ Continues(book) /\ UNCHANGED <<db, disk, mem>>
  <2>1. slot \in Slots
    BY <1>2, OfferedType, RubyAtType
  <2>2. Books(slot, n) \in Seq(Frame) /\ <<[op |-> "finish"]>> \in Seq(Frame)
    BY <1>1, <2>1, BooksType, FramesType
  <2>3. book \in Seq(Frame)
    BY <2>2
  <2>4. stack' \in Seq(Frame)
    BY <1>1, <1>2, <2>3, ContinuesType DEF TypeOK
  <2>. QED  BY <1>2, <2>4, ClearedInput DEF TypeOK, process_actions
<1>3. CASE n \in 1..options /\ menu_options[n] # "date" /\ Retry(menu_options[n])
  <2>. DEFINE sel == menu_options[n]
              st == [mem[I].store EXCEPT !.complete = @ \ {StateOf(sel)},
                                         !.retrying = @ \cup {sel}]
              go == <<ToSession(I, StateOf(sel), Bang)>>
  <2>1. sel \in {"office", "service", "provider"}
    BY <1>1, <1>3, MenuType
  <2>2. StateOf(sel) \in SessionStates /\ sel \in Selections
    BY <2>1, SelectionTypes
  <2>3. mem[I].store \in Store
    BY <1>1, StoreOf
  <2>4. st \in Store
    BY <2>2, <2>3 DEF Store
  <2>5. go \in Seq(Frame)
    BY <1>1, <2>2, FramesType, OneFrame DEF Bang
  <2>6. Save(I, st, db) /\ Continues(go)
    BY <1>3 DEF Retry
  <2>7. mem' \in [Copies -> Instance] /\ db' \in Database /\ disk' \in Database
    BY <1>1, <2>4, <2>6, SaveType
  <2>8. stack' \in Seq(Frame)
    BY <1>1, <2>5, <2>6, ContinuesType DEF TypeOK
  <2>. QED  BY <2>7, <2>8, ClearedInput DEF TypeOK, process_actions
<1>4. CASE (Continues(again) \/ Continues(<<>>)) /\ UNCHANGED <<db, disk, mem>>
  <2>1. again \in Seq(Frame)
    BY <1>1, OneFrame, FramesType DEF Bang, AptStates
  <2>2. stack' \in Seq(Frame)
    BY <1>1, <1>4, <2>1, NoFrames, ContinuesType DEF TypeOK
  <2>. QED  BY <1>4, <2>2, ClearedInput DEF TypeOK, process_actions
<1>. QED
  BY <1>2, <1>3, <1>4 DEF process_actions

LEMMA SummaryRestsType ==
    ASSUME TypeOK, SummaryRaises \/ SummaryRest \/ SummaryFinish
    PROVE  TypeOK'
<1>. DEFINE st == Marked(mem[I].store, "appointment_selection")
            end == <<ToApt(I, "finish", Soft)>>
            fs == IF db.chosen # NoSlot \/ ~sms THEN <<[op |-> "finish"]>> ELSE <<>>
<1>1. stack # <<>> /\ I \in Copies /\ db \in Database
  BY IType DEF TypeOK, SummaryRaises, SummaryRest, SummaryFinish, At
<1>2. CASE SummaryRaises
  BY <1>2, RaiseType DEF SummaryRaises, Raised
<1>3. CASE SummaryRest
  <2>1. fs \in Seq(Frame)
    BY FramesType, NoFrames
  <2>2. Continues(fs)
    BY <1>3 DEF SummaryRest
  <2>3. stack' \in Seq(Frame)
    BY <1>1, <2>1, <2>2, ContinuesType DEF TypeOK
  <2>. QED  BY <1>3, <2>3 DEF TypeOK, SummaryRest, vars_but_stack
<1>4. CASE SummaryFinish
  <2>1. st \in Store
    BY <1>1, StoreOf, MarkedType DEF SessionStates
  <2>2. mem' \in [Copies -> Instance] /\ db' \in Database /\ disk' \in Database
    BY <1>1, <1>4, <2>1, SaveType DEF SummaryFinish
  <2>3. end \in Seq(Frame)
    BY <1>1, OneFrame, FramesType DEF Soft, AptStates
  <2>4. stack' \in Seq(Frame)
    BY <1>1, <1>4, <2>3, ContinuesType DEF TypeOK, SummaryFinish
  <2>. QED  BY <1>4, <2>2, <2>4 DEF TypeOK, SummaryFinish
<1>. QED
  BY <1>2, <1>3, <1>4

LEMMA AptFinishType ==
    ASSUME TypeOK, NEW c \in Copies, AptFinish(c)
    PROVE  TypeOK'
<1>. DEFINE fs == IF db.state = "finish" THEN <<>> ELSE <<ToSession(I, "finish", Soft)>>
<1>1. ToSession(I, "finish", Soft) \in Frame
  BY IType, FramesType DEF Soft, SessionStates
<1>2. fs \in Seq(Frame)
  BY <1>1, OneFrame, NoFrames
<1>3. Calls(fs)
  BY DEF AptFinish
<1>4. stack' \in Seq(Frame)
  BY <1>2, <1>3, ThinkingCalls DEF AptFinish
<1>. QED
  BY <1>4 DEF TypeOK, AptFinish, vars_but_stack

-------------------------------------------------------------------------------
(* The answers keep the types.                                              *)

LEMMA ReplyingType ==
    ASSUME TypeOK, NEW r \in Replies,
           NEW list \in [first : Nat, slots : SUBSET Slots], Replying(r, list),
           db' \in Database, disk' \in Database, UNCHANGED biz
    PROVE  TypeOK'
BY AnswerType DEF TypeOK, Replying

LEMMA NoListType == NoList \in [first : Nat, slots : SUBSET Slots]
BY DEF NoList

LEMMA RespondType ==
    ASSUME TypeOK, Respond
    PROVE  TypeOK'
<1>. DEFINE st == [mem[1].store EXCEPT !.asked_name = TRUE]
            think == IF <<"apt", 1, db.apt>> \in thinked THEN <<>> ELSE <<Logic("apt", 1)>>
            render == <<[op |-> "render", at |-> db.apt]>>
<1>1. stack # <<>> /\ db \in Database /\ disk \in Database
  BY DEF TypeOK, Respond, At
<1>2. CASE Replying("ask_name", NoList) /\ Write(Saved(1, st, db))
  <2>1. mem[1].store \in Store
    BY StoreOf DEF Copies
  <2>2. st \in Store
    BY <2>1 DEF Store
  <2>3. db' \in Database /\ disk' \in Database
    BY <1>1, <1>2, <2>2, SavedType, WriteType
  <2>. QED  BY <1>2, <2>3, NoListType, ReplyingType DEF Respond, Replies, Views
<1>3. ASSUME NEW r \in Replies, Replying(r, NoList), UNCHANGED <<db, disk>>
      PROVE  TypeOK'
  BY <1>1, <1>3, NoListType, ReplyingType DEF Respond
<1>4. CASE /\ Continues(think \o render)
           /\ UNCHANGED <<db, disk, mem, req, thinked, free, announced, reply>>
  <2>1. db.apt \in AptStates \cup {"none"}
    BY <1>1 DEF Database
  <2>2. think \in Seq(Frame) /\ render \in Seq(Frame)
    BY <2>1, FramesType, OneFrame, NoFrames DEF Copies
  <2>3. think \o render \in Seq(Frame)
    BY <2>2
  <2>4. stack' \in Seq(Frame)
    BY <1>1, <1>4, <2>3, ContinuesType DEF TypeOK
  <2>. QED  BY <1>4, <2>4 DEF TypeOK, Respond
<1>5. \A r \in {"handshake", "no_view", "ask_office", "ask_service", "ask_provider",
               "start", "final_report"} : r \in Replies
  BY DEF Replies, Views, Raised
<1>. QED
  BY <1>2, <1>3, <1>4, <1>5 DEF Respond

LEMMA RenderType ==
    ASSUME TypeOK, Render
    PROVE  TypeOK'
<1>1. db \in Database /\ disk \in Database /\ Offered \in SUBSET Slots
  BY OfferedType DEF TypeOK
<1>2. Len(menu_options) + 1 \in Nat
  BY MenuType
<1>3. /\ NoList \in [first : Nat, slots : SUBSET Slots]
      /\ [first |-> 1, slots |-> Offered] \in [first : Nat, slots : SUBSET Slots]
      /\ [first |-> Len(menu_options) + 1, slots |-> Offered]
            \in [first : Nat, slots : SUBSET Slots]
  BY <1>1, <1>2, NoListType
<1>4. \A r \in {"welcome", "ask_date", "under_construction", "no_view", "no_results",
               "start", "results", "summary"} : r \in Replies
  BY DEF Replies, Views, Raised
<1>5. ASSUME NEW r \in Replies, NEW list \in [first : Nat, slots : SUBSET Slots],
             Replying(r, list)
      PROVE  TypeOK'
  BY <1>1, <1>5, ReplyingType DEF Render
<1>. QED
  BY <1>3, <1>4, <1>5 DEF Render

-------------------------------------------------------------------------------
(* Every state the program reaches is well typed.                           *)

LEMMA InitType == Init => TypeOK
<1>1. EmptyStore \in Store
  BY DEF EmptyStore, Store
<1>. SUFFICES ASSUME Init PROVE TypeOK
  OBVIOUS
<1>2. PICK named \in BOOLEAN :
         db = [state |-> "handshake", store |-> EmptyStore, finished |-> FALSE,
               apt |-> "none", date |-> NoDate, chosen |-> NoSlot,
               named |-> named, booked |-> {}]
  BY DEF Init
<1>3. db \in Database
  BY <1>1, <1>2 DEF Database, SessionStates, DateValues
<1>4. req \in [device : Devices \cup {"none"}, input : Input,
              twin : BOOLEAN, resets : 0..MaxResets]
  BY DEF Init, Idle, NoInput, Input, Kinds, MaxResets
<1>5. mem \in [Copies -> Instance] /\ stack \in Seq(Frame)
  BY <1>1 DEF Init, Blank, Instance
<1>. QED
  BY <1>3, <1>4, <1>5, BusinessAssumption, NoListType DEF Init, TypeOK, Replies

LEMMA SessionThinksType ==
    ASSUME TypeOK, NEW c \in Copies, SessionThinks(c)
    PROVE  TypeOK'
<1>1. CASE Handshake(c) \/ InitialDecoder(c) \/ CustomerRegistration(c)
  BY <1>1, HandshakeType, InitialDecoderType, CustomerRegistrationType
<1>2. ASSUME NEW sel \in {"office", "service"},
             \/ SkipSelection(c, sel) \/ process_input(c, sel)
             \/ OfferDefault(c, sel) \/ ImposeDefault(c, sel)
      PROVE  TypeOK'
  BY <1>2, SkipSelectionType, process_inputType, OfferDefaultType, ImposeDefaultType
<1>3. CASE ProviderSelection(c) \/ AppointmentSelection(c) \/ Finish(c)
  BY <1>3, ProviderSelectionType, AppointmentSelectionType, FinishType
<1>. QED
  BY <1>1, <1>2, <1>3 DEF SessionThinks

LEMMA AptThinksType ==
    ASSUME TypeOK, NEW c \in Copies, AptThinks(c)
    PROVE  TypeOK'
BY AptHandshakeType, InitialInputDateType, RepeatInputDateType, DisplayResultType,
   SummaryType, AptFinishType DEF AptThinks

LEMMA NextType == TypeOK /\ [Next]_vars => TypeOK'
<1>. SUFFICES ASSUME TypeOK, [Next]_vars PROVE TypeOK'
  OBVIOUS
<1>1. CASE \E d \in Devices, i \in SmsInputs \cup VoiceInputs : Request(d, i)
  BY <1>1, RequestType
<1>2. CASE \E c \in Copies : SessionThinks(c) \/ AptThinks(c)
  BY <1>2, SessionThinksType, AptThinksType
<1>3. CASE Transitions
  BY <1>3, TransitionsType
<1>4. CASE Resumes
  BY <1>4, ResumesType, ProviderSelectionRestType, SaveDateType, BookingType,
     process_actionsType, SummaryRestsType, RespondType, RenderType DEF Resumes
<1>5. CASE Abort
  BY <1>5, RaiseType DEF Abort, Raised
<1>6. CASE UNCHANGED vars
  BY <1>6 DEF TypeOK, vars
<1>. QED
  BY <1>1, <1>2, <1>3, <1>4, <1>5, <1>6 DEF Next, Work

(* Whatever the business, the calendar, the customer's messages and the     *)
(* failures of its worker, the rows, the two copies of the session and the  *)
(* nested calls keep the types the code gives them.                         *)
THEOREM TypeCorrect == Spec => []TypeOK
<1>1. Init => TypeOK
  BY InitType
<1>2. TypeOK /\ [Next]_vars => TypeOK'
  BY NextType
<1>. QED
  BY <1>1, <1>2, PTL DEF Spec

-------------------------------------------------------------------------------
(***************************************************************************)
(* What a conversation has chosen is booked, and its commits follow the     *)
(* ledger.  ChosenIsBooked is not inductive: the database as committed is   *)
(* the one the request sees at some commit, and that one is right only if   *)
(* each `choose' still to be done has its `book' done or just before it.    *)
(***************************************************************************)

(* A choose comes right after its book, or that one is done (in B) and the  *)
(* choose is next: a refusal never leaves one of them without the other.    *)
Ordered(s, B) ==
    \A i \in DOMAIN s : s[i].op = "choose" =>
        \/ i = 1 /\ s[1].slot \in B
        \/ i = 2 /\ s[1].op = "book" /\ s[1].slot = s[2].slot

(* Nothing of s chooses.                                                    *)
Plain(s) == \A i \in DOMAIN s : s[i].op # "choose"

Pointed(d) == d.chosen # NoSlot => d.chosen \in d.booked

(* What the running request has added to the committed rows.                *)
Ahead(d, e) ==
    /\ d.booked \subseteq e.booked
    /\ d.chosen # NoSlot => e.chosen # NoSlot
    /\ d.finished => e.finished

Booking ==
    /\ Ordered(stack, db.booked)
    /\ Pointed(db) /\ Pointed(disk)
    /\ Ahead(disk, db)

(* A step keeps the invariant, and what it commits withdraws nothing.       *)
Follows == Booking' /\ Ahead(disk, disk')

(* The same bookings in both rows.                                          *)
Same(d, e) == d.booked = e.booked /\ d.chosen = e.chosen
                 /\ (e.finished => d.finished)

(* A step that neither books nor chooses.                                   *)
Keeps == Same(db', db) /\ disk' \in {disk, db'}

-------------------------------------------------------------------------------
LEMMA OrderedTail ==
    ASSUME NEW s \in Seq(Frame), s # <<>>, NEW B, Ordered(s, B), Head(s).op # "book"
    PROVE  Plain(Tail(s))
<1>1. \A i \in DOMAIN Tail(s) : i + 1 \in DOMAIN s /\ Tail(s)[i] = s[i+1] /\ i + 1 # 1
  OBVIOUS
<1>2. s[1].op # "book"
  OBVIOUS
<1>. QED
  BY <1>1, <1>2 DEF Ordered, Plain

LEMMA OrderedAfterBook ==
    ASSUME NEW s \in Seq(Frame), s # <<>>, NEW B, Ordered(s, B), Head(s).op = "book"
    PROVE  Ordered(Tail(s), B \cup {Head(s).slot})
<1>1. \A i \in DOMAIN Tail(s) : i + 1 \in DOMAIN s /\ Tail(s)[i] = s[i+1] /\ i + 1 # 1
  OBVIOUS
<1>2. s[1] = Head(s)
  OBVIOUS
<1>. SUFFICES ASSUME NEW i \in DOMAIN Tail(s), Tail(s)[i].op = "choose"
              PROVE  i = 1 /\ Tail(s)[1].slot \in B \cup {Head(s).slot}
  BY DEF Ordered
<1>3. i + 1 = 2 /\ s[1].slot = s[2].slot
  BY <1>1 DEF Ordered
<1>4. i = 1
  BY <1>3
<1>. QED
  BY <1>1, <1>2, <1>3, <1>4

(* Whatever is called first, what is left below it chooses nothing.         *)
LEMMA OrderedConcat ==
    ASSUME NEW s \in Seq(Frame), NEW t \in Seq(Frame), NEW B, Ordered(s, B), Plain(t)
    PROVE  Ordered(s \o t, B)
<1>. SUFFICES ASSUME NEW i \in DOMAIN (s \o t), (s \o t)[i].op = "choose"
              PROVE  \/ i = 1 /\ (s \o t)[1].slot \in B
                     \/ /\ i = 2 /\ (s \o t)[1].op = "book"
                        /\ (s \o t)[1].slot = (s \o t)[2].slot
  BY DEF Ordered
<1>1. i \in 1..(Len(s) + Len(t)) /\ Len(s) \in Nat /\ Len(t) \in Nat
  OBVIOUS
<1>2. CASE i <= Len(s)
  <2>1. i \in DOMAIN s /\ \A j \in DOMAIN s : (s \o t)[j] = s[j]
    BY <1>1, <1>2
  <2>2. 1 \in DOMAIN s
    BY <1>1, <1>2
  <2>. QED  BY <2>1, <2>2 DEF Ordered
<1>3. CASE i > Len(s)
  <2>1. i - Len(s) \in DOMAIN t /\ (s \o t)[i] = t[i - Len(s)]
    BY <1>1, <1>3
  <2>. QED  BY <2>1 DEF Plain
<1>. QED
  BY <1>1, <1>2, <1>3

LEMMA PlainOrdered ==
    ASSUME NEW s, Plain(s), NEW B
    PROVE  Ordered(s, B)
BY DEF Plain, Ordered

(* Frames that choose nothing.                                              *)
LEMMA OrderedOne ==
    ASSUME NEW f \in Frame, f.op # "choose", NEW B
    PROVE  <<f>> \in Seq(Frame) /\ Plain(<<f>>) /\ Ordered(<<f>>, B)
BY DEF Plain, Ordered

LEMMA OrderedTwo ==
    ASSUME NEW f \in Frame, NEW g \in Frame, f.op # "choose", g.op # "choose", NEW B
    PROVE  <<f, g>> \in Seq(Frame) /\ Plain(<<f, g>>) /\ Ordered(<<f, g>>, B)
BY DEF Plain, Ordered

LEMMA OrderedNone ==
    ASSUME NEW B
    PROVE  Plain(<<>>) /\ Ordered(<<>>, B)
BY DEF Plain, Ordered

LEMMA OrderedBooks ==
    ASSUME NEW slot \in Slots, NEW n \in Nat, NEW B
    PROVE  Books(slot, n) \in Seq(Frame) /\ Ordered(Books(slot, n), B)
BY BooksType DEF Ordered, Books

-------------------------------------------------------------------------------
(* How steps change the stack.                                              *)

LEMMA ContinuesOrdered ==
    ASSUME stack \in Seq(Frame), stack # <<>>, Head(stack).op # "book",
           NEW B, Ordered(stack, B),
           NEW fs \in Seq(Frame), Ordered(fs, B), Continues(fs)
    PROVE  Ordered(stack', B)
<1>1. Tail(stack) \in Seq(Frame) /\ Plain(Tail(stack))
  BY OrderedTail, HeadAndTail
<1>. QED
  BY <1>1, OrderedConcat DEF Continues

LEMMA ThinkingOrdered ==
    ASSUME TypeOK, NEW m, NEW c, NEW s, s # "none", Thinking(m, c, s),
           NEW B, Ordered(stack, B),
           NEW fs \in Seq(Frame), Ordered(fs, B), Calls(fs)
    PROVE  Ordered(stack', B)
<1>1. stack \in Seq(Frame) /\ stack # <<>> /\ Head(stack) \in Frame /\ Head(stack).op = "logic"
  BY HeadAndTail DEF TypeOK, Thinking, At
<1>2. Tail(stack) \in Seq(Frame) /\ Plain(Tail(stack))
  BY <1>1, OrderedTail, HeadAndTail
<1>. DEFINE e == <<Head(stack).m, Head(stack).c, current_state(Head(stack).m)>>
            done == [op |-> "done", eng |-> e]
<1>3. e \in Engines
  BY <1>1, FrameFields DEF current_state, Engines, Database, TypeOK, Thinking
<1>4. done \in Frame
  BY <1>3 DEF Frame
<1>5. <<done>> \in Seq(Frame) /\ Plain(<<done>>)
  BY <1>4, OrderedOne
<1>6. fs \o <<done>> \in Seq(Frame)
  BY <1>5
<1>7. Ordered(fs \o <<done>>, B)
  <2>. HIDE DEF done
  <2>. QED  BY <1>5, OrderedConcat
<1>8. Ordered((fs \o <<done>>) \o Tail(stack), B)
  <2>. HIDE DEF done
  <2>. QED  BY <1>2, <1>6, <1>7, OrderedConcat
<1>9. stack' = (fs \o <<done>>) \o Tail(stack)
  BY DEF Calls
<1>. QED
  BY <1>8, <1>9

-------------------------------------------------------------------------------
(* How saves change the rows.                                               *)

LEMMA WriteKeeps ==
    ASSUME NEW d, Same(d, db), Write(d)
    PROVE  Keeps
BY DEF Write, Keeps

LEMMA SavedSame ==
    ASSUME NEW c, NEW st, NEW d \in Database
    PROVE  Same(Saved(c, st, d), d)
BY DEF Saved, Same, Database

LEMMA SaveKeeps ==
    ASSUME NEW c, NEW st, NEW d \in Database, Same(d, db), Save(c, st, d)
    PROVE  Keeps
<1>1. Same(Saved(c, st, d), db)
  BY SavedSame DEF Same
<1>. QED
  BY <1>1, WriteKeeps DEF Save

LEMMA AdvanceKeeps ==
    ASSUME NEW c, NEW s, NEW st, NEW d \in Database, Same(d, db), advance(c, s, st, d)
    PROVE  Keeps
<1>1. Same(Saved(c, st, d), db)
  BY SavedSame DEF Same
<1>. QED
  BY <1>1, WriteKeeps DEF advance

LEMMA UnchangedKeeps ==
    ASSUME UNCHANGED <<db, disk>>
    PROVE  Keeps
BY DEF Keeps, Same

LEMMA KeepsBooking ==
    ASSUME Booking, Keeps, Ordered(stack', db.booked)
    PROVE  Follows
<1>1. db'.booked = db.booked
  BY DEF Keeps, Same
<1>2. Ordered(stack, db.booked)'
  BY <1>1 DEF Ordered
<1>3. Pointed(db)' /\ Pointed(disk)' /\ Ahead(disk, db)' /\ Ahead(disk, disk')
  BY DEF Booking, Keeps, Same, Pointed, Ahead
<1>. QED
  BY <1>2, <1>3 DEF Booking, Follows

LEMMA RaiseBooking ==
    ASSUME Booking, NEW why, NEW d, Same(d, db) \/ d = disk, RaiseAfter(why, d)
    PROVE  Follows
<1>1. Ordered(stack', db'.booked)
  BY OrderedNone DEF RaiseAfter, Answer
<1>2. disk' \in {disk, d} /\ db' = disk'
  BY DEF RaiseAfter
<1>3. Pointed(disk') /\ Ahead(disk, disk') /\ Ahead(disk', disk')
  BY <1>2 DEF Booking, Same, Pointed, Ahead
<1>4. Ordered(stack, db.booked)'
  BY <1>1
<1>. QED
  BY <1>2, <1>3, <1>4 DEF Follows, Booking, Pointed, Ahead

(* A refusal is raised by a call that neither books nor chooses, so none of *)
(* the two is under way where it is rescued.                                *)
LEMMA RefuseBooking ==
    ASSUME TypeOK, Booking, stack # <<>>, Head(stack).op # "book",
           NEW why, Refuse(why)
    PROVE  Follows
<1>1. CASE Raise(why)
  BY <1>1, RaiseBooking DEF Raise
<1>2. ASSUME NEW i \in DOMAIN stack, Unwind(i) PROVE Follows
  <2>. DEFINE rest == SubSeq(stack, i + 1, Len(stack))
  <2>1. /\ stack \in Seq(Frame) /\ i \in Nat \ {0} /\ stack' = rest
        /\ \A j \in DOMAIN rest : j + i \in DOMAIN stack /\ rest[j] = stack[j + i]
        /\ rest \in Seq(Frame)
    <3>1. stack \in Seq(Frame) /\ stack' = rest
      BY <1>2 DEF TypeOK, Unwind
    <3>2. i \in Nat \ {0}
      BY <3>1
    <3>. QED  BY <3>1, <3>2, RestFrames
  <2>2. stack[1].op # "book"
    BY <2>1
  <2>3. Plain(rest)
    <3>. SUFFICES ASSUME NEW j \in DOMAIN rest PROVE rest[j].op # "choose"
      BY DEF Plain
    <3>1. j + i # 1
      BY <2>1
    <3>. QED  BY <2>1, <2>2, <3>1 DEF Booking, Ordered
  <2>4. Ordered(stack, db.booked)'
    BY <2>1, <2>3, PlainOrdered
  <2>5. db' \in {db, disk} /\ disk' = disk
    BY <1>2 DEF Unwind
  <2>6. Pointed(db)' /\ Pointed(disk)' /\ Ahead(disk, db)' /\ Ahead(disk, disk')
    BY <2>5 DEF Booking, Pointed, Ahead
  <2>. QED  BY <2>4, <2>6 DEF Follows, Booking
<1>. QED
  BY <1>1, <1>2 DEF Refuse

-------------------------------------------------------------------------------
(* Requests, returns, transitions and answers keep the bookings.            *)

LEMMA RequestBooking ==
    ASSUME TypeOK, Booking, NEW d \in Devices, NEW i, Request(d, i)
    PROVE  Follows
<1>1. Ordered(stack', db.booked)
  BY DEF Request, Logic, Ordered
<1>. QED
  BY <1>1, UnchangedKeeps, KeepsBooking DEF Request

LEMMA AnswerBooking ==
    ASSUME Booking, Keeps, NEW r, Answer(r)
    PROVE  Follows
<1>1. Ordered(stack', db.booked)
  BY OrderedNone DEF Answer
<1>. QED
  BY <1>1, KeepsBooking

LEMMA ReturnsBooking ==
    ASSUME TypeOK, Booking, AlreadyThinked \/ Done \/ Commit
    PROVE  Follows
<1>1. /\ stack \in Seq(Frame) /\ stack # <<>> /\ Head(stack).op # "book"
      /\ Continues(<<>>)
  BY DEF TypeOK, AlreadyThinked, Done, Commit, At
<1>2. Ordered(stack', db.booked)
  BY <1>1, NoFrames, OrderedNone, ContinuesOrdered DEF Booking
<1>3. Keeps
  BY DEF AlreadyThinked, Done, Commit, vars_but_stack, Keeps, Same
<1>. QED
  BY <1>2, <1>3, KeepsBooking

LEMMA TransitionsBooking ==
    ASSUME TypeOK, Booking, Transitions
    PROVE  Follows
<1>0. /\ stack \in Seq(Frame) /\ stack # <<>> /\ Head(stack) \in Frame
      /\ Head(stack).op # "book" /\ db \in Database
  BY HeadAndTail DEF TypeOK, Transitions, EnterSessionState, reset_appointment_selection,
     Reset, Guard, RefuseSession, EnterAptState, RefuseApt, At
<1>1. CASE EnterSessionState \/ EnterAptState
  <2>1. Head(stack).c \in Copies
    BY <1>0, <1>1, FrameFields DEF EnterSessionState, EnterAptState, At
  <2>2. PICK m \in {"session", "apt"} : Continues(<<Logic(m, Head(stack).c), Transaction>>)
    BY <1>1 DEF EnterSessionState, EnterAptState
  <2>. DEFINE fs == <<Logic(m, Head(stack).c), Transaction>>
  <2>5. Transaction \in Frame /\ Transaction.op # "choose"
    BY <1>0, <1>1, FrameFields, FramesType DEF EnterSessionState, EnterAptState, At, Transaction
  <2>3. fs \in Seq(Frame) /\ Ordered(fs, db.booked)
    <3>1. Logic(m, Head(stack).c) \in Frame /\ Logic(m, Head(stack).c).op # "choose"
      BY <2>1, FramesType DEF Logic
    <3>. QED  BY <2>5, <3>1, OrderedTwo
  <2>4. Ordered(stack', db.booked)
    <3>. HIDE DEF fs
    <3>1. Continues(fs)
      BY <2>2 DEF fs
    <3>. QED  BY <1>0, <2>3, <3>1, ContinuesOrdered DEF Booking
  <2>6. Keeps
    BY <1>0, <1>1 DEF EnterSessionState, EnterAptState, Keeps, Same, Database
  <2>. QED  BY <2>4, <2>6, KeepsBooking
<1>2. CASE reset_appointment_selection
  <2>. DEFINE c == Head(stack).c
              one == IF db.apt = "handshake" THEN <<>> ELSE <<ToApt(c, "handshake", Bang)>>
              guard == [op |-> "guard", rescues |-> Head(stack).rescues]
              two == <<[op |-> "reset", c |-> c], guard>>
  <2>1. c \in Copies /\ Head(stack).rescues \in SUBSET {"denied", "undeclared"}
    BY <1>0, <1>2, FrameFields DEF reset_appointment_selection, At
  <2>2. /\ ToApt(c, "handshake", Bang) \in Frame
        /\ [op |-> "reset", c |-> c] \in Frame /\ guard \in Frame
    BY <2>1, FramesType DEF Bang, AptStates
  <2>3. one \in Seq(Frame) /\ Ordered(one, db.booked)
    BY <2>2, NoFrames, OrderedNone, OrderedOne DEF ToApt
  <2>4. two \in Seq(Frame) /\ Plain(two)
    <3>. HIDE DEF guard
    <3>1. guard.op # "choose"
      BY DEF guard
    <3>. QED  BY <2>2, <3>1, OrderedTwo
  <2>5. Continues(one \o two)
    BY <1>2 DEF reset_appointment_selection
  <2>6. one \o two \in Seq(Frame)
    BY <2>3, <2>4
  <2>7. Ordered(stack', db.booked)
    <3>. HIDE DEF one, two
    <3>1. Ordered(one \o two, db.booked)
      BY <2>3, <2>4, OrderedConcat
    <3>. QED  BY <1>0, <2>5, <2>6, <3>1, ContinuesOrdered DEF Booking
  <2>8. Keeps
    BY <1>0, <1>2, SaveKeeps DEF reset_appointment_selection, Same
  <2>. QED  BY <2>7, <2>8, KeepsBooking
<1>3. CASE Reset
  <2>. DEFINE to == ToSession(Head(stack).c, "appointment_selection", Bang)
  <2>1. to \in Frame
    BY <1>0, <1>3, FrameFields, FramesType DEF Reset, At, Bang, SessionStates
  <2>2. <<to>> \in Seq(Frame) /\ Ordered(<<to>>, db.booked)
    BY <2>1, OrderedOne DEF ToSession
  <2>3. Continues(<<to>>) \/ Continues(<<>>)
    BY <1>3 DEF Reset
  <2>4. Ordered(stack', db.booked)
    <3>. HIDE DEF to
    <3>. QED  BY <1>0, <2>2, <2>3, NoFrames, OrderedNone, ContinuesOrdered DEF Booking
  <2>. QED  BY <1>3, <2>4, UnchangedKeeps, KeepsBooking DEF Reset, vars_but_stack
<1>4. CASE RefuseSession \/ RefuseApt \/ Guard
  BY <1>0, <1>4, RefuseBooking DEF RefuseSession, RefuseApt, Guard
<1>. QED
  BY <1>1, <1>2, <1>3, <1>4 DEF Transitions

LEMMA RespondBooking ==
    ASSUME TypeOK, Booking, Respond
    PROVE  Follows
<1>0. /\ stack \in Seq(Frame) /\ stack # <<>> /\ Head(stack).op # "book"
      /\ db \in Database
  BY DEF TypeOK, Respond, At
<1>1. CASE db.state = "customer_registration"
  <2>1. PICK st : Write(Saved(1, st, db))
    BY <1>1 DEF Respond
  <2>2. Keeps
    BY <1>0, <2>1, SavedSame, WriteKeeps
  <2>. QED  BY <1>1, <2>2, AnswerBooking DEF Respond, Replying
<1>2. CASE db.state # "customer_registration" /\ db.state # "appointment_selection"
  <2>1. UNCHANGED <<db, disk>> /\ \E r : Answer(r)
    BY <1>2 DEF Respond, Replying
  <2>. QED  BY <2>1, UnchangedKeeps, AnswerBooking
<1>3. CASE db.state = "appointment_selection"
  <2>. DEFINE think == IF <<"apt", 1, db.apt>> \in thinked THEN <<>> ELSE <<Logic("apt", 1)>>
              render == <<[op |-> "render", at |-> db.apt]>>
  <2>1. Logic("apt", 1) \in Frame /\ [op |-> "render", at |-> db.apt] \in Frame
    BY <1>0, FramesType DEF Copies, Database
  <2>2. think \in Seq(Frame) /\ Ordered(think, db.booked)
    BY <2>1, NoFrames, OrderedNone, OrderedOne DEF Logic
  <2>3. render \in Seq(Frame) /\ Plain(render)
    BY <2>1, OrderedOne
  <2>4. Continues(think \o render) /\ UNCHANGED <<db, disk>>
    BY <1>3 DEF Respond
  <2>5. Ordered(stack', db.booked)
    <3>1. think \o render \in Seq(Frame)
      BY <2>2, <2>3
    <3>. HIDE DEF think, render
    <3>2. Ordered(think \o render, db.booked)
      BY <2>2, <2>3, OrderedConcat
    <3>. QED  BY <1>0, <2>4, <3>1, <3>2, ContinuesOrdered DEF Booking
  <2>. QED  BY <2>4, <2>5, UnchangedKeeps, KeepsBooking
<1>. QED
  BY <1>1, <1>2, <1>3

LEMMA RenderBooking ==
    ASSUME TypeOK, Booking, Render
    PROVE  Follows
<1>1. UNCHANGED <<db, disk>> /\ \E r : Answer(r)
  BY DEF Render, Replying
<1>. QED
  BY <1>1, UnchangedKeeps, AnswerBooking

-------------------------------------------------------------------------------
(* The engines that neither book nor choose.                                *)

LEMMA ThinkingBooking ==
    ASSUME TypeOK, Booking, Keeps, NEW m, NEW c, NEW s, s # "none", Thinking(m, c, s),
           NEW fs \in Seq(Frame), Ordered(fs, db.booked), Calls(fs)
    PROVE  Follows
<1>1. Ordered(stack', db.booked)
  BY ThinkingOrdered DEF Booking
<1>. QED
  BY <1>1, KeepsBooking

LEMMA AdvanceOrdered ==
    ASSUME TypeOK, NEW c \in Copies
    PROVE  Advance(c) \in Frame /\ Advance(c).op = "to_session"
              /\ <<Advance(c)>> \in Seq(Frame) /\ Ordered(<<Advance(c)>>, db.booked)
<1>1. Advance(c) \in Frame /\ Advance(c).op = "to_session"
  BY AdvanceFrame DEF Advance, ToSession
<1>. QED
  BY <1>1, OrderedOne

LEMMA RegistrationBooking ==
    ASSUME TypeOK, Booking, NEW c \in Copies,
           Handshake(c) \/ InitialDecoder(c) \/ CustomerRegistration(c)
    PROVE  Follows
<1>. DEFINE d == [db EXCEPT !.named = TRUE]
<1>1. db \in Database /\ d \in Database /\ Same(d, db) /\ Same(db, db)
  BY DEF TypeOK, Database, Same
<1>2. PICK s \in SessionStates : Thinking("session", c, s)
  BY DEF Handshake, InitialDecoder, CustomerRegistration, SessionStates
<1>3. s # "none"
  BY DEF SessionStates
<1>4. Calls(<<Advance(c)>>) \/ Calls(<<>>)
  BY DEF Handshake, InitialDecoder, CustomerRegistration
<1>5. Keeps
  <2>1. CASE Handshake(c)
    BY <1>1, <2>1, AdvanceKeeps, SaveKeeps DEF Handshake
  <2>2. CASE InitialDecoder(c)
    BY <1>1, <2>2, AdvanceKeeps DEF InitialDecoder
  <2>3. CASE CustomerRegistration(c)
    BY <1>1, <2>3, AdvanceKeeps, UnchangedKeeps DEF CustomerRegistration
  <2>. QED  BY <2>1, <2>2, <2>3
<1>. QED
  BY <1>2, <1>3, <1>4, <1>5, NoFrames, OrderedNone, AdvanceOrdered, ThinkingBooking

LEMMA SelectionBooking ==
    ASSUME TypeOK, Booking, NEW c \in Copies, NEW sel \in {"office", "service"},
           \/ SkipSelection(c, sel) \/ process_input(c, sel)
           \/ OfferDefault(c, sel) \/ ImposeDefault(c, sel)
    PROVE  Follows
<1>1. db \in Database /\ Same(db, db)
  BY DEF TypeOK, Same
<1>2. Thinking("session", c, StateOf(sel))
  BY DEF SkipSelection, process_input, OfferDefault, ImposeDefault, Selecting
<1>3. StateOf(sel) # "none"
  BY DEF StateOf
<1>4. Calls(<<Advance(c)>>) \/ Calls(<<>>)
  BY DEF SkipSelection, process_input, OfferDefault, ImposeDefault
<1>5. Keeps
  <2>1. CASE SkipSelection(c, sel)
    BY <1>1, <2>1, AdvanceKeeps DEF SkipSelection
  <2>2. CASE process_input(c, sel)
    BY <1>1, <2>2, AdvanceKeeps, UnchangedKeeps DEF process_input, Remember
  <2>3. CASE OfferDefault(c, sel)
    BY <1>1, <2>3, AdvanceKeeps, SaveKeeps DEF OfferDefault
  <2>4. CASE ImposeDefault(c, sel)
    BY <1>1, <2>4, AdvanceKeeps DEF ImposeDefault
  <2>. QED  BY <2>1, <2>2, <2>3, <2>4
<1>. QED
  BY <1>2, <1>3, <1>4, <1>5, NoFrames, OrderedNone, AdvanceOrdered, ThinkingBooking

LEMMA ProviderBooking ==
    ASSUME TypeOK, Booking, NEW c \in Copies, ProviderSelection(c)
    PROVE  Follows
<1>. DEFINE rest == [op |-> "provider", c |-> c, input |-> req.input]
<1>1. db \in Database /\ Same(db, db)
  BY DEF TypeOK, Same
<1>2. rest \in Frame /\ rest.op # "choose"
  BY FramesType DEF TypeOK
<1>3. /\ <<rest>> \in Seq(Frame) /\ Ordered(<<rest>>, db.booked)
      /\ <<Advance(c), rest>> \in Seq(Frame) /\ Ordered(<<Advance(c), rest>>, db.booked)
  <2>. HIDE DEF rest
  <2>1. Advance(c) \in Frame /\ Advance(c).op # "choose"
    BY AdvanceOrdered
  <2>. QED  BY <1>2, <2>1, OrderedOne, OrderedTwo
<1>4. Keeps
  BY <1>1, AdvanceKeeps, UnchangedKeeps DEF ProviderSelection
<1>5. Calls(<<rest>>) \/ Calls(<<Advance(c), rest>>)
  BY DEF ProviderSelection
<1>6. Thinking("session", c, "provider_selection")
  BY DEF ProviderSelection
<1>. HIDE DEF rest
<1>. QED
  BY <1>3, <1>4, <1>5, <1>6, ThinkingBooking

LEMMA ProviderRestBooking ==
    ASSUME TypeOK, Booking, ProviderSelectionRest
    PROVE  Follows
<1>1. /\ stack \in Seq(Frame) /\ stack # <<>> /\ Head(stack) \in Frame
      /\ Head(stack).op # "book" /\ db \in Database /\ Same(db, db)
  BY HeadAndTail DEF TypeOK, ProviderSelectionRest, At, Same
<1>2. Head(stack).c \in Copies
  BY <1>1, FrameFields DEF ProviderSelectionRest, At
<1>3. Keeps
  BY <1>1, AdvanceKeeps, UnchangedKeeps DEF ProviderSelectionRest
<1>4. Continues(<<Advance(Head(stack).c)>>) \/ Continues(<<>>)
  BY DEF ProviderSelectionRest
<1>5. Ordered(stack', db.booked)
  BY <1>1, <1>2, <1>4, NoFrames, OrderedNone, AdvanceOrdered, ContinuesOrdered DEF Booking
<1>. QED
  BY <1>3, <1>5, KeepsBooking

LEMMA AppointmentSelectionBooking ==
    ASSUME TypeOK, Booking, NEW c \in Copies, AppointmentSelection(c)
    PROVE  Follows
<1>1. Same([db EXCEPT !.apt = "handshake"], db)
  BY DEF TypeOK, Database, Same
<1>2. Keeps
  BY <1>1, WriteKeeps, UnchangedKeeps DEF AppointmentSelection, Remember
<1>3. Logic("apt", c) \in Frame /\ Logic("apt", c).op # "choose"
  BY FramesType DEF Logic
<1>4. Thinking("session", c, "appointment_selection") /\ Calls(<<Logic("apt", c)>>)
  BY DEF AppointmentSelection
<1>. QED
  BY <1>2, <1>3, <1>4, OrderedOne, ThinkingBooking

LEMMA FinishBooking ==
    ASSUME TypeOK, Booking, NEW c \in Copies, Finish(c)
    PROVE  Follows
<1>1. [db EXCEPT !.finished = TRUE] \in Database /\ Same([db EXCEPT !.finished = TRUE], db)
  BY DEF TypeOK, Database, Same
<1>2. CASE RaiseAfter("setting", Saved(c, mem[c].store, [db EXCEPT !.finished = TRUE]))
  BY <1>1, <1>2, SavedSame, RaiseBooking DEF Same
<1>3. CASE Save(c, mem[c].store, [db EXCEPT !.finished = TRUE]) /\ Calls(<<>>)
  <2>1. Keeps
    BY <1>1, <1>3, SaveKeeps
  <2>. QED  BY <1>3, <2>1, NoFrames, OrderedNone, ThinkingBooking DEF Finish
<1>. QED
  BY <1>2, <1>3 DEF Finish

LEMMA AptTransition ==
    ASSUME NEW to \in AptStates, NEW r \in {Bang, Soft}, NEW B
    PROVE  /\ ToApt(I, to, r) \in Frame /\ ToApt(I, to, r).op = "to_apt"
           /\ <<ToApt(I, to, r)>> \in Seq(Frame) /\ Ordered(<<ToApt(I, to, r)>>, B)
<1>1. ToApt(I, to, r) \in Frame /\ ToApt(I, to, r).op = "to_apt"
  BY IType, FramesType DEF Bang, Soft, ToApt
<1>. QED
  BY <1>1, OrderedOne

LEMMA AptHandshakeBooking ==
    ASSUME TypeOK, Booking, NEW c \in Copies, AptHandshake(c)
    PROVE  Follows
<1>1. Same([db EXCEPT !.date = "date"], db)
  BY DEF TypeOK, Database, Same
<1>2. Keeps
  BY <1>1, WriteKeeps, UnchangedKeeps DEF AptHandshake
<1>3. PICK to \in {"initial_input_date", "summary", "display_result"} :
         Calls(<<ToApt(I, to, Bang)>>)
  BY DEF AptHandshake
<1>4. to \in AptStates
  BY DEF AptStates
<1>. QED
  BY <1>2, <1>3, <1>4, AptTransition, ThinkingBooking DEF AptHandshake

LEMMA InputDateBooking ==
    ASSUME TypeOK, Booking, NEW c \in Copies, InitialInputDate(c) \/ RepeatInputDate(c)
    PROVE  Follows
<1>1. db \in Database /\ Same(db, db)
  BY DEF TypeOK, Same
<1>2. Keeps
  BY <1>1, SaveKeeps, UnchangedKeeps DEF InitialInputDate, RepeatInputDate
<1>3. CASE InitialInputDate(c)
  <2>1. PICK fs \in {<<>>} \cup {<<[op |-> "save_date", date |-> d]>> : d \in DateValues} : Calls(fs)
    BY <1>3 DEF InitialInputDate, DateValues
  <2>2. fs \in Seq(Frame) /\ Ordered(fs, db.booked)
    BY NoFrames, OrderedNone, OrderedOne, FramesType
  <2>. QED  BY <1>2, <1>3, <2>1, <2>2, ThinkingBooking DEF InitialInputDate
<1>4. CASE RepeatInputDate(c)
  BY <1>2, <1>4, AptTransition, ThinkingBooking DEF RepeatInputDate, AptStates
<1>. QED
  BY <1>3, <1>4

LEMMA SaveDateBooking ==
    ASSUME TypeOK, Booking, SaveDate
    PROVE  Follows
<1>1. stack \in Seq(Frame) /\ stack # <<>> /\ Head(stack).op # "book"
  BY DEF TypeOK, SaveDate, At
<1>2. Same([db EXCEPT !.date = Head(stack).date], db)
  BY DEF TypeOK, Database, Same
<1>3. Keeps
  BY <1>2, WriteKeeps DEF SaveDate
<1>4. PICK to \in {"summary", "display_result"} : Continues(<<ToApt(I, to, Bang)>>)
  BY DEF SaveDate
<1>5. to \in AptStates
  BY DEF AptStates
<1>6. Ordered(stack', db.booked)
  BY <1>1, <1>4, <1>5, AptTransition, ContinuesOrdered DEF Booking
<1>. QED
  BY <1>3, <1>6, KeepsBooking

-------------------------------------------------------------------------------
(* The engines that book, and what is left of them when they have booked.   *)

LEMMA BooksThen ==
    ASSUME NEW slot \in Slots, NEW n \in Nat, NEW f \in Frame, f.op # "choose", NEW B
    PROVE  /\ Books(slot, n) \o <<f>> \in Seq(Frame)
           /\ Ordered(Books(slot, n) \o <<f>>, B)
<1>1. Books(slot, n) \in Seq(Frame) /\ Ordered(Books(slot, n), B)
  BY OrderedBooks
<1>2. <<f>> \in Seq(Frame) /\ Plain(<<f>>)
  BY OrderedOne
<1>3. Books(slot, n) \o <<f>> \in Seq(Frame)
  BY <1>1, <1>2
<1>. QED
  BY <1>1, <1>2, <1>3, OrderedConcat

LEMMA DisplayResultBooking ==
    ASSUME TypeOK, Booking, NEW c \in Copies, DisplayResult(c)
    PROVE  Follows
<1>. DEFINE slot == RubyAt(Offered, req.input.n - 2)
            n == req.input.n
            st == mem[I].store
<1>1. db \in Database /\ Same(db, db) /\ n \in Nat
  BY DEF TypeOK, Same, Input
<1>2. slot \in Slots \cup {NoSlot}
  BY OfferedType, RubyAtType
<1>3. CASE RaiseAfter("nil_results", Saved(I, st, db))
  BY <1>1, <1>3, SavedSame, RaiseBooking
<1>4. ASSUME ~RaiseAfter("nil_results", Saved(I, st, db)) PROVE Follows
  <2>1. \/ UNCHANGED <<db, disk>> \/ \E s : Save(I, s, db)
        \/ Write(Saved(I, st, db))
    BY <1>4 DEF DisplayResult
  <2>2. Keeps
    BY <1>1, <2>1, UnchangedKeeps, SaveKeeps, SavedSame, WriteKeeps
  <2>3. \/ Calls(<<>>)
        \/ Calls(<<ToApt(I, "repeat_input_date", Bang)>>)
        \/ slot # NoSlot /\ Calls(Books(slot, n) \o <<ToApt(I, "finish", Bang)>>)
    BY <1>4 DEF DisplayResult
  <2>4. /\ <<ToApt(I, "repeat_input_date", Bang)>> \in Seq(Frame)
        /\ Ordered(<<ToApt(I, "repeat_input_date", Bang)>>, db.booked)
    BY AptTransition DEF AptStates
  <2>5. ASSUME slot # NoSlot
        PROVE  /\ Books(slot, n) \o <<ToApt(I, "finish", Bang)>> \in Seq(Frame)
               /\ Ordered(Books(slot, n) \o <<ToApt(I, "finish", Bang)>>, db.booked)
    <3>1. ToApt(I, "finish", Bang) \in Frame /\ ToApt(I, "finish", Bang).op # "choose"
      BY AptTransition DEF AptStates
    <3>. QED  BY <1>1, <1>2, <2>5, <3>1, BooksThen
  <2>6. Thinking("apt", c, "display_result")
    BY DEF DisplayResult
  <2>. QED  BY <2>2, <2>3, <2>4, <2>5, <2>6, NoFrames, OrderedNone, ThinkingBooking
<1>. QED
  BY <1>3, <1>4

LEMMA SummaryBooking ==
    ASSUME TypeOK, Booking, NEW c \in Copies, Summary(c)
    PROVE  Follows
<1>. DEFINE d == IF Offered = {} THEN [db EXCEPT !.date = NoDate] ELSE db
<1>1. d \in Database /\ Same(d, db)
  BY DEF TypeOK, Database, DateValues, Same
<1>2. CASE Raise("nil_results")
  BY <1>2, RaiseBooking DEF Raise
<1>3. CASE Calls(<<ToApt(I, "repeat_input_date", Bang)>>) /\ UNCHANGED <<db, disk>>
  BY <1>3, UnchangedKeeps, AptTransition, ThinkingBooking DEF Summary, AptStates
<1>4. CASE Save(I, mem[I].store, d) /\ Calls(<<[op |-> "menu"], [op |-> "chosen"]>>)
  <2>1. Keeps
    BY <1>1, <1>4, SaveKeeps
  <2>2. [op |-> "menu"] \in Frame /\ [op |-> "chosen"] \in Frame
    BY FramesType
  <2>3. /\ <<[op |-> "menu"], [op |-> "chosen"]>> \in Seq(Frame)
        /\ Ordered(<<[op |-> "menu"], [op |-> "chosen"]>>, db.booked)
    BY <2>2, OrderedTwo
  <2>. QED  BY <1>4, <2>1, <2>3, ThinkingBooking DEF Summary
<1>. QED
  BY <1>2, <1>3, <1>4 DEF Summary

LEMMA process_actionsBooking ==
    ASSUME TypeOK, Booking, process_actions
    PROVE  Follows
<1>. DEFINE n == req.input.n
            slot == RubyAt(Offered, n - Len(menu_options) - 1)
            fin == [op |-> "finish"]
<1>1. /\ stack \in Seq(Frame) /\ stack # <<>> /\ Head(stack).op # "book"
      /\ db \in Database /\ Same(db, db) /\ n \in Nat
  BY DEF TypeOK, process_actions, At, Same, Input
<1>2. slot \in Slots \cup {NoSlot}
  BY OfferedType, RubyAtType
<1>3. CASE slot # NoSlot /\ Continues(Books(slot, n) \o <<fin>>) /\ UNCHANGED <<db, disk>>
  <2>1. fin \in Frame /\ fin.op # "choose"
    BY FramesType
  <2>2. /\ Books(slot, n) \o <<fin>> \in Seq(Frame)
        /\ Ordered(Books(slot, n) \o <<fin>>, db.booked)
    <3>. HIDE DEF fin
    <3>. QED  BY <1>1, <1>2, <1>3, <2>1, BooksThen
  <2>3. Ordered(stack', db.booked)
    <3>. HIDE DEF fin
    <3>. QED  BY <1>1, <1>3, <2>2, ContinuesOrdered DEF Booking
  <2>. QED  BY <1>3, <2>3, UnchangedKeeps, KeepsBooking
<1>4. CASE n \in 1..Len(menu_options) /\ menu_options[n] # "date" /\ Retry(menu_options[n])
  <2>. DEFINE sel == menu_options[n]
              to == ToSession(I, StateOf(sel), Bang)
  <2>1. sel \in {"office", "service", "provider"}
    BY <1>4, MenuType
  <2>2. to \in Frame /\ to.op # "choose"
    BY <2>1, IType, SelectionTypes, FramesType DEF Bang, ToSession
  <2>3. Continues(<<to>>) /\ \E st : Save(I, st, db)
    BY <1>4 DEF Retry
  <2>4. Keeps
    BY <1>1, <2>3, SaveKeeps
  <2>5. Ordered(stack', db.booked)
    <3>. HIDE DEF to
    <3>. QED  BY <1>1, <2>2, <2>3, OrderedOne, ContinuesOrdered DEF Booking
  <2>. QED  BY <2>4, <2>5, KeepsBooking
<1>5. CASE /\ Continues(<<ToApt(I, "repeat_input_date", Bang)>>) \/ Continues(<<>>)
           /\ UNCHANGED <<db, disk>>
  <2>1. Ordered(stack', db.booked)
    BY <1>1, <1>5, NoFrames, OrderedNone, AptTransition, ContinuesOrdered
       DEF Booking, AptStates
  <2>. QED  BY <1>5, <2>1, UnchangedKeeps, KeepsBooking
<1>. QED
  BY <1>3, <1>4, <1>5 DEF process_actions

LEMMA SummaryRestsBooking ==
    ASSUME TypeOK, Booking, SummaryRaises \/ SummaryRest \/ SummaryFinish
    PROVE  Follows
<1>1. /\ stack \in Seq(Frame) /\ stack # <<>> /\ Head(stack).op # "book"
      /\ db \in Database /\ Same(db, db)
  BY DEF TypeOK, SummaryRaises, SummaryRest, SummaryFinish, At, Same
<1>2. CASE SummaryRaises
  BY <1>2, RaiseBooking DEF SummaryRaises, Raise
<1>3. CASE SummaryRest
  <2>1. [op |-> "finish"] \in Frame
    BY FramesType
  <2>2. Continues(<<[op |-> "finish"]>>) \/ Continues(<<>>)
    BY <1>3 DEF SummaryRest
  <2>3. Ordered(stack', db.booked)
    BY <1>1, <2>1, <2>2, NoFrames, OrderedNone, OrderedOne, ContinuesOrdered DEF Booking
  <2>. QED  BY <1>3, <2>3, UnchangedKeeps, KeepsBooking DEF SummaryRest, vars_but_stack
<1>4. CASE SummaryFinish
  <2>1. Keeps
    BY <1>1, <1>4, SaveKeeps DEF SummaryFinish
  <2>2. Ordered(stack', db.booked)
    BY <1>1, <1>4, AptTransition, ContinuesOrdered DEF Booking, SummaryFinish, AptStates
  <2>. QED  BY <2>1, <2>2, KeepsBooking
<1>. QED
  BY <1>2, <1>3, <1>4

LEMMA AptFinishBooking ==
    ASSUME TypeOK, Booking, NEW c \in Copies, AptFinish(c)
    PROVE  Follows
<1>. DEFINE to == ToSession(I, "finish", Soft)
<1>1. to \in Frame /\ to.op # "choose"
  BY IType, FramesType DEF Soft, SessionStates, ToSession
<1>2. Calls(<<to>>) \/ Calls(<<>>)
  BY DEF AptFinish
<1>3. Keeps /\ Thinking("apt", c, "finish")
  BY UnchangedKeeps DEF AptFinish, vars_but_stack
<1>. HIDE DEF to
<1>. QED
  BY <1>1, <1>2, <1>3, NoFrames, OrderedNone, OrderedOne, ThinkingBooking

LEMMA BookBooking ==
    ASSUME TypeOK, Booking, Book
    PROVE  Follows
<1>. DEFINE B == db.booked \cup {Head(stack).slot}
<1>1. stack \in Seq(Frame) /\ stack # <<>> /\ Head(stack).op = "book" /\ db \in Database
  BY DEF TypeOK, Book, At
<1>2. db' = [db EXCEPT !.booked = B] /\ disk' \in {disk, db'}
  BY DEF Book, Write
<1>3. db'.booked = B /\ db'.chosen = db.chosen /\ db'.finished = db.finished
  BY <1>1, <1>2 DEF Database
<1>4. Tail(stack) \in Seq(Frame) /\ stack' = Tail(stack)
  BY <1>1, HeadAndTail DEF Book, Continues
<1>5. Ordered(Tail(stack), B)
  BY <1>1, OrderedAfterBook DEF Booking
<1>6. Ordered(stack, db.booked)'
  BY <1>3, <1>4, <1>5 DEF Ordered
<1>7. Pointed(db)' /\ Pointed(disk)' /\ Ahead(disk, db)' /\ Ahead(disk, disk')
  BY <1>2, <1>3 DEF Booking, Pointed, Ahead
<1>. QED
  BY <1>6, <1>7 DEF Booking, Follows

(* A choose at the head has no frame before it: its book is done.           *)
LEMMA ChooseBooking ==
    ASSUME TypeOK, Booking, Choose
    PROVE  Follows
<1>1. /\ stack \in Seq(Frame) /\ stack # <<>> /\ Head(stack).op = "choose"
      /\ db \in Database
  BY DEF TypeOK, Choose, At
<1>2. Head(stack).slot \in db.booked
  <2>1. 1 \in DOMAIN stack /\ stack[1] = Head(stack) /\ ~(1 > 1)
    BY <1>1
  <2>. QED  BY <1>1, <2>1 DEF Booking, Ordered
<1>3. db' = [db EXCEPT !.chosen = Head(stack).slot] /\ disk' \in {disk, db'}
  BY DEF Choose, Write
<1>4. /\ db'.booked = db.booked /\ db'.chosen = Head(stack).slot
      /\ db'.finished = db.finished
  BY <1>1, <1>3 DEF Database
<1>5. Ordered(stack', db.booked)
  BY <1>1, OrderedTail, PlainOrdered, HeadAndTail DEF Booking, Choose, Continues
<1>6. Ordered(stack, db.booked)'
  BY <1>4, <1>5 DEF Ordered
<1>7. Head(stack).slot # NoSlot
  <2>1. Head(stack).slot \in Slots
    BY <1>1, HeadAndTail, FrameFields
  <2>. QED  BY <2>1, SlotsAssumption DEF NoSlot
<1>8. Pointed(db)' /\ Pointed(disk)' /\ Ahead(disk, db)' /\ Ahead(disk, disk')
  BY <1>2, <1>3, <1>4, <1>7 DEF Booking, Pointed, Ahead
<1>. QED
  BY <1>6, <1>8 DEF Booking, Follows

-------------------------------------------------------------------------------
LEMMA InitBooking == Init => Booking
BY DEF Init, Booking, Ordered, Pointed, Ahead

LEMMA NextBooking == TypeOK /\ Booking /\ [Next]_vars => Follows
<1>. SUFFICES ASSUME TypeOK, Booking, [Next]_vars PROVE Follows
  OBVIOUS
<1>1. CASE \E d \in Devices, i \in SmsInputs \cup VoiceInputs : Request(d, i)
  BY <1>1, RequestBooking
<1>2. CASE \E c \in Copies : SessionThinks(c)
  BY <1>2, RegistrationBooking, SelectionBooking, ProviderBooking,
     AppointmentSelectionBooking, FinishBooking DEF SessionThinks
<1>3. CASE \E c \in Copies : AptThinks(c)
  BY <1>3, AptHandshakeBooking, InputDateBooking, DisplayResultBooking,
     SummaryBooking, AptFinishBooking DEF AptThinks
<1>4. CASE Transitions
  BY <1>4, TransitionsBooking
<1>5. CASE Resumes
  BY <1>5, ReturnsBooking, ProviderRestBooking, SaveDateBooking, BookBooking,
     ChooseBooking, process_actionsBooking, SummaryRestsBooking, RespondBooking,
     RenderBooking DEF Resumes
<1>6. CASE Abort
  BY <1>6, RaiseBooking DEF Abort, Raise
<1>7. CASE UNCHANGED vars
  <2>1. UNCHANGED <<stack, db, disk>>
    BY <1>7 DEF vars
  <2>. QED  BY <2>1 DEF Follows, Booking, Ordered, Pointed, Ahead
<1>. QED
  BY <1>1, <1>2, <1>3, <1>4, <1>5, <1>6, <1>7 DEF Next, Work

(* The inductive invariant: the booking invariant with the types.           *)
THEOREM BookingInvariant == Spec => [](TypeOK /\ Booking)
<1>1. Init => TypeOK /\ Booking
  BY InitType, InitBooking
<1>2. TypeOK /\ Booking /\ [Next]_vars => TypeOK' /\ Booking'
  BY NextType, NextBooking DEF Follows
<1>. QED
  BY <1>1, <1>2, PTL DEF Spec

(* The id a conversation keeps is that of a stored appointment, whatever is *)
(* aborted between commit! and store! (display_result.rb:93-96).            *)
THEOREM ChosenCorrect == Spec => []ChosenIsBooked
<1>1. TypeOK /\ Booking => ChosenIsBooked
  BY DEF Booking, Pointed, ChosenIsBooked
<1>. QED
  BY <1>1, BookingInvariant, PTL

(* Every commit of a conversation is one the ledger allows: a booking stays, *)
(* its own appointment is one of them, and what is finished stays finished,  *)
(* although requests nest transactions, roll back and crash.                 *)
THEOREM LedgerKept == Spec => KeepsLedger
<1>1. Init => Kept!Init
  BY DEF Init, Kept!Init, NoSlot, Kept!NoSlot
<1>2. /\ TypeOK /\ Booking /\ TypeOK' /\ Booking' /\ [Next]_vars
      => [Kept!Commit]_Kept!vars
  <2>. SUFFICES ASSUME TypeOK, Booking, TypeOK', Booking', [Next]_vars
                PROVE  Kept!Commit
    OBVIOUS
  <2>1. disk' \in Database
    BY DEF TypeOK
  <2>2. disk'.booked \in SUBSET Slots /\ disk'.finished \in BOOLEAN
    BY <2>1 DEF Database
  <2>3. Ahead(disk, disk') /\ Pointed(disk')
    BY NextBooking DEF Follows, Booking, Pointed
  <2>4. disk'.chosen = disk.chosen \/ disk'.chosen \in disk'.booked
    BY <2>3 DEF Ahead, Pointed
  <2>. QED  BY <2>2, <2>3, <2>4 DEF Kept!Commit, Ahead
<1>. QED
  BY <1>1, <1>2, BookingInvariant, PTL DEF Spec, KeepsLedger, Kept!Spec
===============================================================================
