----------------------------- MODULE FinishProofs -----------------------------
(***************************************************************************)
(* A finished session has a stored appointment, as long as the guard of    *)
(* finish is never waved through (FinishGuardHolds, which TLC checks).     *)
(* Only three steps matter: the transition the guard allows, the choice,   *)
(* and the finish engine.  None of the ways back undoes one of them alone: *)
(* what a refusal or an exception leaves is the row of the transaction     *)
(* still open, or the committed one.                                       *)
(***************************************************************************)
EXTENDS ConversationProofs

Ended(d) == d.state = "finish" \/ d.finished => d.chosen # NoSlot

FInv == Ended(db) /\ Ended(disk)

(* A step that neither moves the session, finishes it, nor chooses.        *)
Alike(d, e) == d.state = e.state /\ d.finished = e.finished /\ d.chosen = e.chosen
Still == Alike(db', db) /\ disk' \in {disk, db'}

LEMMA StillEnded ==
    ASSUME FInv, Still
    PROVE  FInv'
BY DEF FInv, Ended, Still, Alike

LEMMA RaiseAfterEnded ==
    ASSUME FInv, NEW why, NEW d, Ended(d), RaiseAfter(why, d)
    PROVE  FInv'
BY DEF FInv, Ended, RaiseAfter

LEMMA RaiseEnded ==
    ASSUME FInv, NEW why, Raise(why)
    PROVE  FInv'
BY RaiseAfterEnded DEF FInv, Raise

LEMMA RefuseEnded ==
    ASSUME FInv, NEW why, Refuse(why)
    PROVE  FInv'
<1>1. ASSUME NEW i, Unwind(i) PROVE FInv'
  BY <1>1 DEF FInv, Ended, Unwind
<1>. QED BY <1>1, RaiseEnded DEF Refuse

LEMMA UnchangedStill ==
    ASSUME UNCHANGED <<db, disk>>
    PROVE  Still
BY DEF Still, Alike

LEMMA WriteStill ==
    ASSUME NEW d, Alike(d, db), Write(d)
    PROVE  Still
BY DEF Write, Still

LEMMA SavedAlike ==
    ASSUME NEW c, NEW st, NEW d \in Database
    PROVE  Alike(Saved(c, st, d), d)
BY DEF Saved, Alike, Database

LEMMA SaveStill ==
    ASSUME NEW c, NEW st, NEW d \in Database, Alike(d, db), Save(c, st, d)
    PROVE  Still
<1>1. Alike(Saved(c, st, d), db)
  BY SavedAlike DEF Alike
<1>. QED
  BY <1>1, WriteStill DEF Save

LEMMA AdvanceStill ==
    ASSUME NEW c, NEW s, NEW st, NEW d \in Database, Alike(d, db), advance(c, s, st, d)
    PROVE  Still
<1>1. Alike(Saved(c, st, d), db)
  BY SavedAlike DEF Alike
<1>. QED
  BY <1>1, WriteStill DEF advance

-------------------------------------------------------------------------------
(* The three steps that matter.                                            *)

LEMMA EnterSessionStateEnded ==
    ASSUME TypeOK, FInv, FinishGuardHolds, EnterSessionState
    PROVE  FInv'
<1>1. db \in Database /\ db' = [db EXCEPT !.state = Head(stack).to] /\ UNCHANGED disk
  BY DEF TypeOK, EnterSessionState
<1>2. /\ db'.state = Head(stack).to /\ db'.finished = db.finished
      /\ db'.chosen = db.chosen
  BY <1>1 DEF Database
<1>3. Head(stack).to = "finish" => db.chosen # NoSlot
  BY DEF EnterSessionState, SentBack, FinishGuardHolds
<1>. QED
  BY <1>1, <1>2, <1>3 DEF FInv, Ended

LEMMA ChooseEnded ==
    ASSUME TypeOK, FInv, Choose
    PROVE  FInv'
<1>. DEFINE d == [db EXCEPT !.chosen = Head(stack).slot]
<1>1. Head(stack).slot \in Slots
  BY HeadAndTail, FrameFields DEF TypeOK, Choose, At
<1>2. db \in Database
  BY DEF TypeOK
<1>3. d.chosen # NoSlot
  BY <1>1, <1>2, SlotsAssumption DEF Database, NoSlot
<1>. HIDE DEF d
<1>4. db' = d /\ disk' \in {disk, d}
  BY DEF Choose, Write, d
<1>. QED
  BY <1>3, <1>4 DEF FInv, Ended

LEMMA FinishEnded ==
    ASSUME TypeOK, FInv, NEW c \in Copies, Finish(c)
    PROVE  FInv'
<1>. DEFINE d == [db EXCEPT !.finished = TRUE]
            e == Saved(c, mem[c].store, d)
<1>1. db \in Database /\ db.state = "finish"
  BY DEF TypeOK, Finish, Thinking, current_state
<1>2. d \in Database /\ d.chosen = db.chosen
  BY <1>1 DEF Database
<1>3. Save(c, mem[c].store, d) \/ RaiseAfter("setting", e)
  BY DEF Finish
<1>. HIDE DEF d
<1>4. e.chosen = db.chosen
  BY <1>2, SavedAlike DEF Alike
<1>5. Ended(e)
  BY <1>1, <1>4 DEF FInv, Ended
<1>6. CASE RaiseAfter("setting", e)
  BY <1>5, <1>6, RaiseAfterEnded
<1>7. CASE Save(c, mem[c].store, d)
  <2>1. db' = e /\ disk' \in {disk, e}
    BY <1>7 DEF Save, Write
  <2>. HIDE DEF e
  <2>. QED  BY <1>5, <2>1 DEF FInv, Ended
<1>. QED
  BY <1>3, <1>6, <1>7

LEMMA CommitEnded ==
    ASSUME FInv, Commit
    PROVE  FInv'
BY DEF Commit, FInv, Ended

-------------------------------------------------------------------------------
(* The others.                                                             *)

LEMMA EngineStill ==
    ASSUME TypeOK, NEW c \in Copies,
           \/ Handshake(c) \/ InitialDecoder(c) \/ CustomerRegistration(c)
           \/ \E sel \in {"office", "service"} :
                 \/ SkipSelection(c, sel) \/ process_input(c, sel)
                 \/ OfferDefault(c, sel) \/ ImposeDefault(c, sel)
           \/ ProviderSelection(c) \/ AppointmentSelection(c)
    PROVE  Still
<1>. DEFINE named == [db EXCEPT !.named = TRUE]
            asked == [db EXCEPT !.apt = "handshake"]
<1>1. /\ db \in Database /\ Alike(db, db)
      /\ named \in Database /\ Alike(named, db) /\ Alike(asked, db)
  BY DEF TypeOK, Database, Alike
<1>2. CASE Handshake(c) \/ InitialDecoder(c)
  BY <1>1, <1>2, AdvanceStill, SaveStill DEF Handshake, InitialDecoder
<1>3. CASE CustomerRegistration(c)
  BY <1>1, <1>3, AdvanceStill, UnchangedStill DEF CustomerRegistration
<1>4. ASSUME NEW sel \in {"office", "service"},
             SkipSelection(c, sel) \/ process_input(c, sel)
      PROVE  Still
  BY <1>1, <1>4, AdvanceStill, UnchangedStill DEF SkipSelection, process_input, Remember
<1>5. ASSUME NEW sel \in {"office", "service"},
             OfferDefault(c, sel) \/ ImposeDefault(c, sel)
      PROVE  Still
  BY <1>1, <1>5, AdvanceStill, SaveStill DEF OfferDefault, ImposeDefault
<1>6. CASE ProviderSelection(c)
  BY <1>1, <1>6, AdvanceStill, UnchangedStill DEF ProviderSelection
<1>7. CASE AppointmentSelection(c)
  BY <1>1, <1>7, WriteStill, UnchangedStill DEF AppointmentSelection, Remember
<1>. QED
  BY <1>2, <1>3, <1>4, <1>5, <1>6, <1>7

LEMMA AptEngineEnded ==
    ASSUME TypeOK, FInv, NEW c \in Copies, AptThinks(c)
    PROVE  FInv'
<1>. DEFINE dated == [db EXCEPT !.date = "date"]
            undated == [db EXCEPT !.date = NoDate]
<1>1. /\ db \in Database /\ Alike(db, db) /\ Alike(dated, db)
      /\ undated \in Database /\ Alike(undated, db)
  BY DEF TypeOK, Database, Alike, DateValues
<1>2. CASE AptHandshake(c)
  <2>1. Still
    BY <1>1, <1>2, WriteStill, UnchangedStill DEF AptHandshake
  <2>. QED  BY <2>1, StillEnded
<1>3. CASE InitialInputDate(c) \/ RepeatInputDate(c)
  <2>1. Still
    BY <1>1, <1>3, SaveStill, UnchangedStill DEF InitialInputDate, RepeatInputDate
  <2>. QED  BY <2>1, StillEnded
<1>4. CASE DisplayResult(c)
  <2>1. \/ UNCHANGED <<db, disk>>
        \/ \E st : \/ Save(I, st, db) \/ Write(Saved(I, st, db))
                  \/ RaiseAfter("nil_results", Saved(I, st, db))
    BY <1>4 DEF DisplayResult
  <2>2. ASSUME NEW st PROVE Ended(Saved(I, st, db))
    BY <1>1, SavedAlike DEF FInv, Ended, Alike
  <2>3. Still \/ \E st : RaiseAfter("nil_results", Saved(I, st, db))
    BY <1>1, <2>1, UnchangedStill, SaveStill, SavedAlike, WriteStill
  <2>. QED  BY <2>2, <2>3, StillEnded, RaiseAfterEnded
<1>5. CASE Summary(c)
  <2>1. \/ UNCHANGED <<db, disk>> \/ Raise("nil_results")
        \/ Save(I, mem[I].store, undated) \/ Save(I, mem[I].store, db)
    BY <1>5 DEF Summary
  <2>2. Still \/ Raise("nil_results")
    <3>. HIDE DEF undated
    <3>. QED  BY <1>1, <2>1, UnchangedStill, SaveStill
  <2>. QED  BY <2>2, StillEnded, RaiseEnded
<1>6. CASE AptFinish(c)
  BY <1>6, UnchangedStill, StillEnded DEF AptFinish, vars_but_stack
<1>. QED
  BY <1>2, <1>3, <1>4, <1>5, <1>6 DEF AptThinks

LEMMA TransitionsEnded ==
    ASSUME TypeOK, FInv, FinishGuardHolds, Transitions
    PROVE  FInv'
<1>1. db \in Database /\ Alike(db, db)
  BY DEF TypeOK, Alike
<1>2. CASE EnterSessionState
  BY <1>2, EnterSessionStateEnded
<1>3. CASE reset_appointment_selection
  BY <1>1, <1>3, SaveStill, StillEnded DEF reset_appointment_selection
<1>4. CASE Reset
  BY <1>4, UnchangedStill, StillEnded DEF Reset, vars_but_stack
<1>5. CASE EnterAptState
  <2>1. Still
    BY <1>1, <1>5 DEF EnterAptState, Still, Alike, Database
  <2>. QED  BY <2>1, StillEnded
<1>6. CASE RefuseSession \/ RefuseApt \/ Guard
  BY <1>6, RefuseEnded DEF RefuseSession, RefuseApt, Guard
<1>. QED
  BY <1>2, <1>3, <1>4, <1>5, <1>6 DEF Transitions

LEMMA ResumesEnded ==
    ASSUME TypeOK, FInv, Resumes
    PROVE  FInv'
<1>1. db \in Database /\ Alike(db, db)
  BY DEF TypeOK, Alike
<1>2. CASE AlreadyThinked \/ Done \/ SummaryRest
  BY <1>2, UnchangedStill, StillEnded DEF AlreadyThinked, Done, SummaryRest, vars_but_stack
<1>3. CASE Commit
  BY <1>3, CommitEnded
<1>4. CASE ProviderSelectionRest
  BY <1>1, <1>4, AdvanceStill, UnchangedStill, StillEnded DEF ProviderSelectionRest
<1>5. CASE SaveDate \/ Book
  <2>1. PICK d : Write(d) /\ Alike(d, db)
    BY <1>1, <1>5 DEF SaveDate, Book, Alike, Database
  <2>. QED  BY <2>1, WriteStill, StillEnded
<1>6. CASE Choose
  BY <1>6, ChooseEnded
<1>7. CASE process_actions
  <2>1. UNCHANGED <<db, disk>> \/ \E st : Save(I, st, db)
    BY <1>7 DEF process_actions, Retry
  <2>. QED  BY <1>1, <2>1, UnchangedStill, SaveStill, StillEnded
<1>8. CASE SummaryRaises
  BY <1>8, RaiseEnded DEF SummaryRaises
<1>9. CASE SummaryFinish
  BY <1>1, <1>9, SaveStill, StillEnded DEF SummaryFinish
<1>10. CASE Respond
  <2>1. UNCHANGED <<db, disk>> \/ \E st : Write(Saved(1, st, db))
    BY <1>10 DEF Respond
  <2>2. Still
    BY <1>1, <2>1, UnchangedStill, SavedAlike, WriteStill
  <2>. QED  BY <2>2, StillEnded
<1>11. CASE Render
  BY <1>11, UnchangedStill, StillEnded DEF Render
<1>. QED
  BY <1>2, <1>3, <1>4, <1>5, <1>6, <1>7, <1>8, <1>9, <1>10, <1>11 DEF Resumes

LEMMA NextEnded == TypeOK /\ FinishGuardHolds /\ FInv /\ [Next]_vars => FInv'
<1>. SUFFICES ASSUME TypeOK, FinishGuardHolds, FInv, [Next]_vars
              PROVE  FInv'
  OBVIOUS
<1>1. ASSUME NEW c \in Copies, SessionThinks(c) PROVE FInv'
  BY <1>1, EngineStill, StillEnded, FinishEnded DEF SessionThinks
<1>2. ASSUME NEW c \in Copies, AptThinks(c) PROVE FInv'
  BY <1>2, AptEngineEnded
<1>3. ASSUME NEW d, NEW i, Request(d, i) PROVE FInv'
  BY <1>3, UnchangedStill, StillEnded DEF Request
<1>4. CASE Abort
  BY <1>4, RaiseEnded DEF Abort
<1>5. CASE UNCHANGED vars
  BY <1>5, UnchangedStill, StillEnded DEF vars
<1>. QED
  BY <1>1, <1>2, <1>3, <1>4, <1>5, TransitionsEnded, ResumesEnded DEF Next, Work

(* A finished session has an appointment, and it is stored, on every path  *)
(* to finish and after every refusal, exception and crash, unless the      *)
(* guard of finish has sent the conversation back so often that it lets it *)
(* pass: nothing but the guard keeps a session without a choice from       *)
(* finish, and nothing after it takes the choice away.                     *)
THEOREM FinishedWhileGuarded == Spec /\ []FinishGuardHolds => []FinishedIsBooked
<1>1. Init => FInv
  BY DEF Init, FInv, Ended
<1>2. FInv /\ Booking => FinishedIsBooked
  BY DEF FInv, Ended, Booking, Pointed, FinishedIsBooked
<1>. QED
  BY <1>1, <1>2, NextEnded, BookingInvariant, PTL DEF Spec
===============================================================================
