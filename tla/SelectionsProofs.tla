--------------------------- MODULE SelectionsProofs ---------------------------
(***************************************************************************)
(* No conversation looks for an appointment with a selection missing, and  *)
(* no commit forgets a choice.  A request advances on the strength of a    *)
(* mark in one copy of the store, while SelectionsMade speaks of the       *)
(* committed column, which the other copy may have written last.  So each  *)
(* copy in use owes the row what its marks promise, and once there are     *)
(* two, both hold every selection.  The same tells that a save of one copy *)
(* loses no choice of the other: what is imposed is never chosen, and all  *)
(* else is.  A refusal may leave the memory ahead of the row it undid; by  *)
(* then only calls are left that save nothing the row does not owe.        *)
(***************************************************************************)
EXTENDS UnwindingProofs

Made(st) == st.chosen \cup st.assumed

(* What the business assumes for its customers is under the other key.      *)
Imposed == {sel \in {"office", "service"} : count(sel) >= 2 /\ mode(sel) = "assume"}

(* A store's marks are earned, and its selections are where they belong.    *)
Sound(st, named) ==
    /\ \A sel \in Selections : StateOf(sel) \in st.complete => sel \in Made(st)
    /\ "customer_registration" \in st.complete => named
    /\ st.assumed \subseteq Imposed
    /\ \A sel \in Imposed : sel \notin st.chosen /\ sel \notin st.asked_to_change

Needed(s) ==
    CASE s = "service_selection" -> {"office"}
      [] s = "provider_selection" -> {"office", "service"}
      [] s \in {"appointment_selection", "finish"} -> Selections
      [] OTHER -> {}

Registered == {"office_selection", "service_selection", "provider_selection",
               "appointment_selection", "finish"}

(* What a row has by the state it is in.                                    *)
Owed(d) ==
    /\ Needed(d.state) \subseteq Made(d.store)
    /\ d.state \in Registered => d.named
    /\ Sound(d.store, d.named)

(* The copies of the store this request works on.                           *)
Live(c) == c = 1 \/ req.twin

(* What a copy in use has in memory differs from what it last saved in      *)
(* marks and flags only.                                                    *)
Agrees(c) ==
    /\ mem[c].store.chosen = mem[c].saved.chosen
    /\ mem[c].store.assumed = mem[c].saved.assumed
    /\ Sound(mem[c].store, db.named) /\ Sound(mem[c].saved, db.named)

(* One copy is the row's; of two, or once something was undone, each has    *)
(* every selection, as the row has.                                         *)
Held(c) ==
    \/ Selections \subseteq Made(mem[c].store) /\ Selections \subseteq Made(db.store)
    \/ ~req.twin /\ mem[1].saved = db.store

(* Nothing of a row is missing any more.                                    *)
Full(d) == Selections \subseteq Made(d.store) /\ d.named

(* The frames that work on a copy work on one in use.                       *)
LiveFrame ==
    {f \in Frame : f.op \in {"logic", "to_session", "to_apt", "reset", "provider"}
                      => Live(f.c)}

SInv ==
    /\ Owed(db) /\ Owed(disk)
    /\ disk.store.chosen \subseteq db.store.chosen
    /\ Full(disk) => Full(db)
    /\ Running => \A c \in Copies : Live(c) => Agrees(c) /\ Held(c)
    /\ stack \in Seq(LiveFrame)

(* What a step commits forgets no choice, and takes nothing back.           *)
Forward ==
    /\ disk.store.chosen \subseteq disk'.store.chosen
    /\ Full(disk) => Full(disk')

Keeping == SInv' /\ Forward

-------------------------------------------------------------------------------
(* Marks, choices and flags.                                                *)

LEMMA SoundNamed ==
    ASSUME NEW st, NEW m \in BOOLEAN, NEW n \in BOOLEAN, Sound(st, m), m => n
    PROVE  Sound(st, n)
BY DEF Sound

LEMMA SoundAlike ==
    ASSUME NEW st, NEW t, NEW n, Sound(st, n), t.complete \subseteq st.complete,
           t.chosen = st.chosen, t.assumed = st.assumed,
           t.asked_to_change = st.asked_to_change
    PROVE  Sound(t, n)
BY DEF Sound, Made

LEMMA StateOfInjective ==
    ASSUME NEW a \in Selections, NEW b \in Selections, StateOf(a) = StateOf(b)
    PROVE  a = b
BY DEF Selections, StateOf

LEMMA SoundMarked ==
    ASSUME NEW st \in Store, NEW n, Sound(st, n), NEW s,
           \A sel \in Selections : StateOf(sel) = s => sel \in Made(st),
           s = "customer_registration" => n
    PROVE  /\ Sound(Marked(st, s), n)
           /\ Marked(st, s).chosen = st.chosen /\ Marked(st, s).assumed = st.assumed
<1>. DEFINE t == Marked(st, s)
<1>1. /\ t.complete = st.complete \cup {s} /\ t.chosen = st.chosen
      /\ t.assumed = st.assumed /\ t.asked_to_change = st.asked_to_change
  BY DEF Marked, Store
<1>. HIDE DEF t
<1>2. Sound(t, n)
  BY <1>1 DEF Sound, Made
<1>. QED BY <1>1, <1>2 DEF t

LEMMA SoundWith ==
    ASSUME NEW st \in Store, NEW n, Sound(st, n), NEW sel \in Selections, sel \notin Imposed
    PROVE  /\ Sound(With(st, sel), n) /\ With(st, sel) \in Store
           /\ sel \in With(st, sel).chosen /\ With(st, sel).assumed = st.assumed
           /\ st.chosen \subseteq With(st, sel).chosen
           /\ With(st, sel).complete = st.complete
<1>. DEFINE t == With(st, sel)
<1>1. /\ t.complete = st.complete /\ t.chosen = st.chosen \cup {sel}
      /\ t.assumed = st.assumed /\ t.asked_to_change = st.asked_to_change
  BY DEF With, Store
<1>2. t \in Store
  BY WithType
<1>. HIDE DEF t
<1>3. Sound(t, n)
  BY <1>1 DEF Sound, Made
<1>. QED BY <1>1, <1>2, <1>3 DEF t

(* A selection's own choice, marked: of the other marks nothing changes.    *)
LEMMA SoundChosen ==
    ASSUME NEW st \in Store, NEW n, Sound(st, n), NEW sel \in Selections, sel \notin Imposed
    PROVE  LET t == Marked(With(st, sel), StateOf(sel)) IN
           /\ Sound(t, n) /\ t \in Store
           /\ st.chosen \subseteq t.chosen /\ st.assumed \subseteq t.assumed
           /\ sel \in Made(t)
<1>. DEFINE w == With(st, sel)
            t == Marked(w, StateOf(sel))
<1>1. /\ Sound(w, n) /\ w \in Store /\ sel \in w.chosen /\ w.assumed = st.assumed
      /\ st.chosen \subseteq w.chosen
  BY SoundWith
<1>2. \A k \in Selections : StateOf(k) = StateOf(sel) => k \in Made(w)
  BY <1>1, StateOfInjective DEF Made
<1>3. StateOf(sel) # "customer_registration" /\ StateOf(sel) \in SessionStates
  BY DEF StateOf, Selections, SessionStates
<1>. HIDE DEF w
<1>4. Sound(t, n) /\ t.chosen = w.chosen /\ t.assumed = w.assumed
  BY <1>1, <1>2, <1>3, SoundMarked
<1>5. t \in Store
  BY <1>1, <1>3, MarkedType
<1>. QED BY <1>1, <1>4, <1>5 DEF Made, w

-------------------------------------------------------------------------------
(* How saves change a copy and the rows.                                    *)

(* Copy c becomes st in memory and sv as last saved; n is whether there is  *)
(* a name then.                                                             *)
Shift(c, st, sv, n) ==
    /\ mem'[c].store = st /\ mem'[c].saved = sv
    /\ \A k \in Copies \ {c} : mem'[k] = mem[k]
    /\ db'.state = db.state /\ db'.named = n
    /\ db'.store = IF sv = mem[c].saved THEN db.store ELSE sv
    /\ disk' \in {disk, db'}

(* The same but for columns the selections have nothing to do with.         *)
Beside(d) == d \in Database /\ d.state = db.state /\ d.store = db.store

LEMMA SavedShift ==
    ASSUME TypeOK, NEW c \in Copies, NEW st, NEW sv, NEW d, Beside(d),
           mem' = [mem EXCEPT ![c] = [store |-> st, saved |-> sv]],
           Write(Saved(c, sv, d))
    PROVE  Shift(c, st, sv, d.named)
<1>1. mem'[c] = [store |-> st, saved |-> sv] /\ \A k \in Copies \ {c} : mem'[k] = mem[k]
  BY DEF TypeOK
<1>. DEFINE e == Saved(c, sv, d)
<1>2. /\ e.state = db.state /\ e.named = d.named
      /\ e.store = IF sv = mem[c].saved THEN db.store ELSE sv
  BY DEF Saved, Beside, Database
<1>. HIDE DEF e
<1>3. db' = e /\ disk' \in {disk, e}
  BY DEF Write, e
<1>. QED BY <1>1, <1>2, <1>3 DEF Shift

LEMMA SaveShift ==
    ASSUME TypeOK, NEW c \in Copies, NEW st, NEW d, Beside(d), Save(c, st, d)
    PROVE  Shift(c, st, st, d.named)
BY SavedShift DEF Save

LEMMA AdvanceShift ==
    ASSUME TypeOK, NEW c \in Copies, NEW s, NEW st, NEW d, Beside(d), advance(c, s, st, d)
    PROVE  Shift(c, Marked(st, s), st, d.named)
BY SavedShift DEF advance

(* A copy changed in memory, and a write of other columns.                  *)
LEMMA MemoryShift ==
    ASSUME TypeOK, NEW c \in Copies, NEW st, NEW d, Beside(d), d.named = db.named,
           mem' = [mem EXCEPT ![c].store = st],
           Write(d) \/ (d = db /\ UNCHANGED <<db, disk>>)
    PROVE  Shift(c, st, mem[c].saved, db.named)
<1>1. mem[c] \in Instance
  BY DEF TypeOK
<1>2. mem'[c].store = st /\ mem'[c].saved = mem[c].saved
  BY <1>1 DEF TypeOK, Instance
<1>3. \A k \in Copies \ {c} : mem'[k] = mem[k]
  BY DEF TypeOK
<1>. QED BY <1>2, <1>3 DEF Shift, Beside, Write

LEMMA StillShift ==
    ASSUME TypeOK, NEW c \in Copies, NEW d, Beside(d), d.named = db.named, UNCHANGED mem,
           Write(d) \/ (d = db /\ UNCHANGED <<db, disk>>)
    PROVE  Shift(c, mem[c].store, mem[c].saved, db.named)
BY DEF Shift, Beside, Write

(* What a step may make of a copy.                                          *)
Better(c, st, sv, n) ==
    /\ Sound(st, n) /\ Sound(sv, n)
    /\ st.chosen = sv.chosen /\ st.assumed = sv.assumed
    /\ mem[c].store.chosen \subseteq sv.chosen /\ mem[c].store.assumed \subseteq sv.assumed

LEMMA EveryChoice ==
    ASSUME NEW a, NEW b, NEW m, NEW n, Sound(a, m), Sound(b, n), a.chosen \subseteq Selections,
           Selections \subseteq Made(b)
    PROVE  a.chosen \subseteq b.chosen
BY DEF Sound, Made

(* The row a copy is saved to has as much as before, whichever copy it is.  *)
LEMMA RowBetter ==
    ASSUME TypeOK, SInv, Running, NEW c \in Copies, Live(c),
           NEW st, NEW sv, NEW n \in BOOLEAN, db.named => n, Better(c, st, sv, n)
    PROVE  LET row == IF sv = mem[c].saved THEN db.store ELSE sv IN
           /\ Made(db.store) \subseteq Made(row) /\ Sound(row, n)
           /\ db.store.chosen \subseteq row.chosen
           /\ \/ Selections \subseteq Made(row) /\ Selections \subseteq Made(st)
                 /\ Selections \subseteq Made(db.store)
              \/ ~req.twin /\ c = 1 /\ sv = row
<1>. DEFINE row == IF sv = mem[c].saved THEN db.store ELSE sv
<1>1. db.named \in BOOLEAN /\ db.store.chosen \subseteq Selections
      /\ Made(db.store) \subseteq Selections
  BY DEF TypeOK, Database, Store, Made
<1>2. Agrees(c) /\ Held(c) /\ Owed(db)
  BY DEF SInv
<1>3. Made(mem[c].store) \subseteq Made(st) /\ Made(st) = Made(sv)
  BY DEF Better, Made
<1>4. Sound(row, n)
  BY <1>1, <1>2, SoundNamed DEF Owed, Better
<1>5. CASE Selections \subseteq Made(mem[c].store) /\ Selections \subseteq Made(db.store)
  <2>1. Selections \subseteq Made(row) /\ Selections \subseteq Made(st)
    BY <1>3, <1>5
  <2>2. db.store.chosen \subseteq row.chosen
    BY <1>1, <1>2, <1>4, <2>1, EveryChoice DEF Owed
  <2>. QED BY <1>1, <1>4, <1>5, <2>1, <2>2
<1>6. CASE ~req.twin /\ mem[1].saved = db.store
  <2>1. c = 1 /\ sv = row
    BY <1>6 DEF Live
  <2>2. mem[1].store.chosen = db.store.chosen /\ mem[1].store.assumed = db.store.assumed
    BY <1>2, <1>6, <2>1 DEF Agrees
  <2>. QED BY <1>3, <1>4, <1>6, <2>1, <2>2 DEF Better, Made
<1>. QED BY <1>2, <1>5, <1>6 DEF Held

(* Such a step keeps the invariant, whichever copy saves over which.        *)
LEMMA ShiftKeeping ==
    ASSUME TypeOK, TypeOK', SInv, Running, NEW c \in Copies, Live(c),
           NEW st, NEW sv, NEW n, Shift(c, st, sv, n), db.named => n, Better(c, st, sv, n),
           biz' = biz, req'.twin = req.twin, stack' \in Seq(LiveFrame)
    PROVE  Keeping
<1>1. /\ db \in Database /\ db' \in Database /\ disk' \in {disk, db'}
      /\ db'.state = db.state /\ db'.named = n
      /\ n \in BOOLEAN /\ db.named \in BOOLEAN /\ db.store.chosen \subseteq Selections
  BY DEF TypeOK, Shift, Database, Store
<1>2. \A t, m : Sound(t, m)' <=> Sound(t', m')
  BY DEF Sound, Imposed, count, mode
<1>3. \A k : Live(k)' <=> Live(k)
  BY DEF Live
<1>4. LiveFrame' = LiveFrame
  BY <1>3 DEF LiveFrame
<1>5. Agrees(c) /\ Held(c) /\ Owed(db) /\ Owed(disk)
  BY DEF SInv
<1>6. /\ Made(db.store) \subseteq Made(db'.store) /\ Sound(db'.store, n)
      /\ db.store.chosen \subseteq db'.store.chosen
      /\ \/ Selections \subseteq Made(db'.store) /\ Selections \subseteq Made(st)
            /\ Selections \subseteq Made(db.store)
         \/ ~req.twin /\ c = 1 /\ mem'[1].saved = db'.store
  BY <1>1, RowBetter DEF Shift
<1>7. Owed(db)'
  <2>1. Owed(db') <=> Owed(db)'
    BY <1>2 DEF Owed
  <2>2. Owed(db')
    BY <1>1, <1>5, <1>6 DEF Owed
  <2>. QED BY <2>1, <2>2
<1>8. Owed(disk)'
  <2>1. Owed(disk') <=> Owed(disk)'
    BY <1>2 DEF Owed
  <2>2. Owed(db') <=> Owed(db)'
    BY <1>2 DEF Owed
  <2>. QED BY <2>1, <2>2, <1>1, <1>5, <1>7
<1>9. ASSUME NEW k \in Copies, Live(k) PROVE Agrees(k)' /\ Held(k)'
  <2>1. CASE k = c
    <3>1. Agrees(c)'
      BY <1>1, <1>2 DEF Agrees, Better, Shift
    <3>3. Held(c)'
      BY <1>6 DEF Held, Shift, Made
    <3>. QED BY <2>1, <3>1, <3>3
  <2>2. CASE k # c
    <3>1. Agrees(k) /\ Held(k) /\ mem'[k] = mem[k]
      BY <1>9, <2>2 DEF SInv, Shift
    <3>2. Sound(mem[k].store, n) /\ Sound(mem[k].saved, n)
      BY <1>1, <3>1, SoundNamed DEF Agrees
    <3>3. Agrees(k)'
      BY <1>1, <1>2, <3>1, <3>2 DEF Agrees
    <3>5. Selections \subseteq Made(mem[k].store) /\ Selections \subseteq Made(db'.store)
      <4>1. (k = 2 /\ c = 1) \/ (k = 1 /\ c = 2)
        BY <2>2 DEF Copies
      <4>2. req.twin
        BY <1>9, <4>1 DEF Live
      <4>. QED BY <1>6, <3>1, <4>2 DEF Held
    <3>6. Held(k)'
      BY <3>1, <3>5 DEF Held, Made
    <3>. QED BY <3>3, <3>6
  <2>. QED BY <2>1, <2>2
<1>10. disk'.store.chosen \subseteq db'.store.chosen /\ disk.store.chosen \subseteq disk'.store.chosen
  BY <1>1, <1>6 DEF SInv
<1>11. (Full(disk) => Full(disk')) /\ (Full(disk') => Full(db'))
  <2>1. Full(db) => Full(db')
    BY <1>1, <1>6 DEF Full
  <2>. QED BY <1>1, <2>1 DEF SInv
<1>12. (Full(disk) => Full(db))'
  BY <1>11 DEF Full, Made
<1>. QED
  BY <1>3, <1>4, <1>7, <1>8, <1>9, <1>10, <1>11, <1>12 DEF SInv, Keeping, Forward

(* The selections have nothing to do with the end of a request.             *)
LEMMA AnswerKeeping ==
    ASSUME SInv, NEW r, Answer(r), biz' = biz, disk' \in {disk, db'},
           Owed(db)', db.store.chosen \subseteq db'.store.chosen, Full(db) => Full(db')
    PROVE  Keeping
<1>1. stack' = <<>> /\ stack' \in Seq(LiveFrame)'
  BY DEF Answer
<1>2. Owed(disk)'
  BY DEF SInv, Owed, Sound, Imposed, count, mode
<1>3. (Full(disk) => Full(disk')) /\ (Full(disk') => Full(db'))
  BY DEF SInv
<1>4. (Full(disk) => Full(db))'
  BY <1>3 DEF Full, Made
<1>. QED BY <1>1, <1>2, <1>3, <1>4 DEF SInv, Keeping, Forward, Running

LEMMA StayKeeping ==
    ASSUME SInv, NEW r, Answer(r), biz' = biz, UNCHANGED <<db, disk>>
    PROVE  Keeping
<1>1. Owed(db)'
  BY DEF SInv, Owed, Sound, Imposed, count, mode
<1>. QED BY <1>1, AnswerKeeping

LEMMA RaiseAfterKeeping ==
    ASSUME SInv, NEW why, NEW d, RaiseAfter(why, d),
           \/ d = disk
           \/ Owed(d) /\ db.store.chosen \subseteq d.store.chosen /\ (Full(db) => Full(d))
    PROVE  Keeping
<1>1. /\ stack' = <<>> /\ stack' \in Seq(LiveFrame)' /\ biz' = biz
      /\ db' = disk' /\ disk' \in {disk, d}
  BY DEF Answer, RaiseAfter
<1>2. Owed(disk') /\ disk.store.chosen \subseteq disk'.store.chosen
         /\ (Full(disk) => Full(disk'))
  BY <1>1 DEF SInv
<1>3. Owed(disk)' /\ Owed(db)'
  BY <1>1, <1>2 DEF Owed, Sound, Imposed, count, mode
<1>4. (Full(disk) => Full(db))'
  BY <1>1 DEF Full, Made
<1>. QED BY <1>1, <1>2, <1>3, <1>4 DEF SInv, Keeping, Forward, Running

LEMMA RaiseKeeping ==
    ASSUME SInv, NEW why, Raise(why)
    PROVE  Keeping
BY RaiseAfterKeeping DEF Raise

(* What the row is when a copy in use was saved just before an exception.   *)
LEMMA SavedOwed ==
    ASSUME TypeOK, SInv, Running, NEW c \in Copies, Live(c),
           NEW d, Beside(d), d.named = db.named
    PROVE  LET row == Saved(c, mem[c].store, d) IN
           /\ Owed(row) /\ db.store.chosen \subseteq row.store.chosen
           /\ Full(db) => Full(row)
<1>. DEFINE st == mem[c].store
            row == Saved(c, st, d)
<1>1. /\ row.state = db.state /\ row.named = db.named /\ db.named \in BOOLEAN
      /\ row.store = IF st = mem[c].saved THEN db.store ELSE st
  BY DEF Saved, Beside, Database, TypeOK
<1>2. Better(c, st, st, db.named)
  BY <1>1 DEF SInv, Agrees, Better
<1>3. /\ Made(db.store) \subseteq Made(row.store) /\ Sound(row.store, db.named)
      /\ db.store.chosen \subseteq row.store.chosen
  BY <1>1, <1>2, RowBetter
<1>. HIDE DEF row
<1>4. Owed(row) /\ (Full(db) => Full(row))
  BY <1>1, <1>3 DEF SInv, Owed, Full
<1>. QED BY <1>3, <1>4 DEF row

-------------------------------------------------------------------------------
(* The frames of a step.                                                    *)

LEMMA FrameLive ==
    ASSUME SInv, TypeOK, stack # <<>>
    PROVE  /\ Head(stack) \in LiveFrame /\ Tail(stack) \in Seq(LiveFrame)
           /\ Head(stack) \in Frame
           /\ Head(stack).op \in {"logic", "to_session", "to_apt", "reset", "provider"}
                 => Live(Head(stack).c) /\ Head(stack).c \in Copies
<1>1. Head(stack) \in LiveFrame /\ Tail(stack) \in Seq(LiveFrame)
  BY DEF SInv
<1>2. Head(stack) \in Frame
  BY <1>1 DEF LiveFrame
<1>. QED BY <1>1, <1>2, FrameFields DEF LiveFrame

LEMMA ContinuesLive ==
    ASSUME SInv, TypeOK, stack # <<>>, NEW fs \in Seq(LiveFrame), Continues(fs)
    PROVE  stack' \in Seq(LiveFrame)
BY FrameLive DEF Continues

LEMMA ThinkingLive ==
    ASSUME SInv, TypeOK, NEW m, NEW c, NEW s, s # "none", Thinking(m, c, s)
    PROVE  stack # <<>> /\ Live(c)
BY FrameLive DEF Thinking, At

LEMMA CallsLive ==
    ASSUME SInv, TypeOK, NEW m, NEW c, NEW s, s # "none", Thinking(m, c, s),
           NEW fs \in Seq(LiveFrame), Calls(fs)
    PROVE  stack' \in Seq(LiveFrame)
<1>. DEFINE e == <<Head(stack).m, Head(stack).c, current_state(Head(stack).m)>>
            done == [op |-> "done", eng |-> e]
<1>1. stack # <<>> /\ Tail(stack) \in Seq(LiveFrame) /\ Head(stack) \in Frame
      /\ Head(stack).op = "logic"
  BY FrameLive DEF Thinking, At
<1>2. e \in Engines
  BY <1>1, FrameFields DEF current_state, Engines, Database, TypeOK, Thinking
<1>3. done \in LiveFrame
  BY <1>2 DEF Frame, LiveFrame
<1>. HIDE DEF done
<1>4. fs \o <<done>> \in Seq(LiveFrame)
  BY <1>3
<1>5. stack' = (fs \o <<done>>) \o Tail(stack)
  BY DEF Calls, done
<1>. QED BY <1>1, <1>4, <1>5

LEMMA OtherFrame ==
    ASSUME NEW f \in Frame,
           f.op \notin {"logic", "to_session", "to_apt", "reset", "provider"}
    PROVE  f \in LiveFrame
BY DEF LiveFrame

LEMMA CopyFrame ==
    ASSUME NEW f \in Frame, Live(f.c)
    PROVE  f \in LiveFrame
BY DEF LiveFrame

LEMMA NoLiveFrames == <<>> \in Seq(LiveFrame)
OBVIOUS

LEMMA OneLiveFrame ==
    ASSUME NEW f \in LiveFrame
    PROVE  <<f>> \in Seq(LiveFrame)
OBVIOUS

LEMMA AdvanceLive ==
    ASSUME TypeOK, NEW c \in Copies, Live(c)
    PROVE  Advance(c) \in LiveFrame /\ <<Advance(c)>> \in Seq(LiveFrame)
<1>1. Advance(c) \in Frame /\ Advance(c).c = c
  BY AdvanceFrame DEF Advance, ToSession
<1>2. Advance(c) \in LiveFrame
  BY <1>1, CopyFrame
<1>. QED BY <1>2, OneLiveFrame

LEMMA ILive == I \in Copies /\ Live(I)
BY DEF I, Live, Copies

LEMMA AptLive ==
    ASSUME NEW to \in AptStates, NEW r \in {Bang, Soft}
    PROVE  ToApt(I, to, r) \in LiveFrame /\ <<ToApt(I, to, r)>> \in Seq(LiveFrame)
<1>1. ToApt(I, to, r) \in Frame /\ ToApt(I, to, r).c = I
  BY IType, FramesType DEF Bang, Soft, ToApt
<1>2. ToApt(I, to, r) \in LiveFrame
  BY <1>1, ILive, CopyFrame
<1>. QED BY <1>2, OneLiveFrame

(* A step that leaves the copies and the rows' stores alone.                *)
LEMMA QuietKeeping ==
    ASSUME TypeOK, TypeOK', SInv, Running,
           Shift(1, mem[1].store, mem[1].saved, db.named),
           biz' = biz, req'.twin = req.twin, stack' \in Seq(LiveFrame)
    PROVE  Keeping
<1>1. 1 \in Copies /\ Live(1) /\ db.named \in BOOLEAN
  BY DEF Copies, Live, TypeOK, Database
<1>2. Better(1, mem[1].store, mem[1].saved, db.named)
  BY <1>1 DEF SInv, Agrees, Better
<1>. QED BY <1>1, <1>2, ShiftKeeping

LEMMA AsideKeeping ==
    ASSUME TypeOK, TypeOK', SInv, Running, NEW d, Beside(d), d.named = db.named,
           UNCHANGED mem, Write(d) \/ (d = db /\ UNCHANGED <<db, disk>>),
           biz' = biz, req'.twin = req.twin, stack' \in Seq(LiveFrame)
    PROVE  Keeping
<1>1. 1 \in Copies
  BY DEF Copies
<1>2. Shift(1, mem[1].store, mem[1].saved, db.named)
  BY <1>1, StillShift
<1>. QED BY <1>2, QuietKeeping

LEMMA SameKeeping ==
    ASSUME TypeOK, TypeOK', SInv, Running, UNCHANGED <<db, disk, mem>>,
           biz' = biz, req'.twin = req.twin, stack' \in Seq(LiveFrame)
    PROVE  Keeping
<1>1. Beside(db) /\ db.named = db.named
  BY DEF Beside, TypeOK
<1>. QED BY <1>1, AsideKeeping

LEMMA SameTwin ==
    ASSUME TypeOK, clear_session_input \/ UNCHANGED req
    PROVE  req'.twin = req.twin
BY DEF TypeOK, clear_session_input

-------------------------------------------------------------------------------
(* Requests and returns.                                                    *)

LEMMA RequestKeeping ==
    ASSUME TypeOK, TypeOK', SInv, NEW d, NEW i, Request(d, i)
    PROVE  Keeping
<1>1. /\ UNCHANGED <<db, disk, biz>> /\ req'.twin = FALSE
      /\ mem'[1] = [store |-> db.store, saved |-> db.store]
  BY DEF Request, TypeOK, Copies
<1>2. Owed(db)' /\ Owed(disk)' /\ Sound(db.store, db.named)'
  BY <1>1 DEF SInv, Owed, Sound, Imposed, count, mode
<1>3. \A k \in Copies : Live(k)' => k = 1
  BY <1>1 DEF Live, Copies
<1>4. Agrees(1)' /\ Held(1)'
  BY <1>1, <1>2 DEF Agrees, Held, Sound
<1>8. Full(disk)' <=> Full(disk)
  BY <1>1 DEF Full, Made
<1>9. Full(db)' <=> Full(db)
  BY <1>1 DEF Full, Made
<1>5. Logic("session", 1) \in Frame /\ [op |-> "respond"] \in Frame /\ Live(1)'
  BY FramesType DEF Copies, Live
<1>6. Logic("session", 1) \in LiveFrame' /\ [op |-> "respond"] \in LiveFrame'
  BY <1>5 DEF LiveFrame, Logic
<1>7. stack' \in Seq(LiveFrame)'
  <2>1. stack' = <<Logic("session", 1), Logic("session", 1), [op |-> "respond"]>>
    BY DEF Request
  <2>. QED BY <1>6, <2>1
<1>. QED BY <1>1, <1>2, <1>3, <1>4, <1>7, <1>8, <1>9 DEF SInv, Keeping, Forward

LEMMA ReturnsKeeping ==
    ASSUME TypeOK, TypeOK', SInv, AlreadyThinked \/ Done \/ Commit
    PROVE  Keeping
<1>1. /\ stack # <<>> /\ Running /\ Continues(<<>>) /\ biz' = biz /\ req'.twin = req.twin
      /\ UNCHANGED <<db, mem>> /\ disk' \in {disk, db}
  BY DEF AlreadyThinked, Done, Commit, At, Running, vars_but_stack
<1>2. stack' \in Seq(LiveFrame)
  BY <1>1, NoLiveFrames, ContinuesLive
<1>3. Shift(1, mem[1].store, mem[1].saved, db.named)
  BY <1>1 DEF Shift
<1>. QED BY <1>1, <1>2, <1>3, QuietKeeping

-------------------------------------------------------------------------------
(* Transitions of the session machine: the only steps that ask for more.    *)

LEMMA NextOf ==
    /\ next_state_by_priority("handshake") = "initial_decoder"
    /\ next_state_by_priority("initial_decoder") = "customer_registration"
    /\ next_state_by_priority("customer_registration") = "office_selection"
    /\ next_state_by_priority("office_selection") = "service_selection"
    /\ next_state_by_priority("service_selection") = "provider_selection"
    /\ next_state_by_priority("provider_selection") = "appointment_selection"
    /\ next_state_by_priority("appointment_selection") = "finish"
<1>1. DOMAIN linear_states = 1..8
  BY DEF linear_states
<1>2. \A i, j \in 1..8 : linear_states[i] = linear_states[j] => i = j
  BY DEF linear_states
<1>3. \A i \in 1..8 : IndexOf(linear_states[i]) = i
  BY <1>1, <1>2 DEF IndexOf
<1>4. /\ IndexOf("handshake") = 1 /\ IndexOf("initial_decoder") = 2
      /\ IndexOf("customer_registration") = 3 /\ IndexOf("office_selection") = 4
      /\ IndexOf("service_selection") = 5 /\ IndexOf("provider_selection") = 6
      /\ IndexOf("appointment_selection") = 7
  BY <1>3 DEF linear_states
<1>. QED BY <1>4 DEF next_state_by_priority, linear_states

(* What the guard's mark stands for is in the row, in whichever copy the    *)
(* mark was found.                                                          *)
LEMMA ApprovedOwed ==
    ASSUME TypeOK, SInv, Running, NEW c \in Copies, Live(c),
           db.state = "handshake" \/ db.state \in mem[c].store.complete,
           NEW to, to \in successors(db.state)
    PROVE  Needed(to) \subseteq Made(db.store) /\ (to \in Registered => db.named)
<1>1. Agrees(c) /\ Held(c) /\ Owed(db) /\ db.state \in SessionStates
  BY DEF SInv, TypeOK, Database
<1>2. \A sel \in Selections : StateOf(sel) = db.state => sel \in Made(db.store)
  <2>1. SUFFICES ASSUME NEW sel \in Selections, StateOf(sel) = db.state
                 PROVE  sel \in Made(db.store)
    OBVIOUS
  <2>2. sel \in Made(mem[c].store)
    BY <1>1, <2>1 DEF Agrees, Sound, StateOf, Selections
  <2>3. CASE Selections \subseteq Made(db.store)
    BY <2>3
  <2>4. CASE ~req.twin /\ mem[1].saved = db.store
    BY <1>1, <2>2, <2>4 DEF Agrees, Live, Made
  <2>. QED BY <1>1, <2>3, <2>4 DEF Held
<1>3. db.state = "customer_registration" => db.named
  BY <1>1 DEF Agrees, Sound
<1>4. /\ db.state = "office_selection" => "office" \in Made(db.store)
      /\ db.state = "service_selection" => "service" \in Made(db.store)
      /\ db.state = "provider_selection" => "provider" \in Made(db.store)
  BY <1>2 DEF Selections, StateOf
<1>5. Needed(db.state) \subseteq Made(db.store) /\ (db.state \in Registered => db.named)
  BY <1>1 DEF Owed
<1>6. CASE db.state = "finish"
  <2>1. to = "appointment_selection"
    BY <1>6 DEF successors
  <2>. QED BY <1>5, <1>6, <2>1 DEF Needed, Registered
<1>7. CASE to = "handshake" \/ to = db.state
  BY <1>5, <1>7 DEF Needed, Registered
<1>8. CASE db.state = "appointment_selection" /\ to \in {"office_selection",
              "service_selection", "provider_selection", "finish"}
  BY <1>5, <1>8 DEF Needed, Registered, Selections
<1>9. CASE to = next_state_by_priority(db.state)
           /\ db.state \notin {"finish", "appointment_selection"}
  BY <1>1, <1>3, <1>4, <1>5, <1>9, NextOf DEF Needed, Registered, Selections, SessionStates
<1>. QED BY <1>6, <1>7, <1>8, <1>9, NextOf DEF successors

LEMMA EnterSessionKeeping ==
    ASSUME TypeOK, TypeOK', SInv, EnterSessionState
    PROVE  Keeping
<1>. DEFINE c == Head(stack).c
            to == Head(stack).to
            fs == <<Logic("session", c), Transaction>>
<1>1. stack # <<>> /\ Running /\ Live(c) /\ c \in Copies
  BY FrameLive DEF EnterSessionState, At, Running
<1>2. /\ UNCHANGED <<biz, disk, mem, req>> /\ db'.state = to /\ db'.store = db.store
      /\ db'.named = db.named
  BY DEF EnterSessionState, TypeOK, Database
<1>3. Needed(to) \subseteq Made(db.store) /\ (to \in Registered => db.named)
  BY <1>1, ApprovedOwed DEF EnterSessionState, Declared, Approved
<1>4. Owed(db)' /\ Owed(disk)'
  BY <1>2, <1>3 DEF SInv, Owed, Sound, Imposed, count, mode
<1>5. \A k \in Copies : Live(k)' => Agrees(k)' /\ Held(k)'
  BY <1>1, <1>2 DEF SInv, Live, Agrees, Held, Made, Sound, Imposed, count, mode
<1>6. stack' \in Seq(LiveFrame)'
  <2>1. Logic("session", c) \in LiveFrame /\ Transaction \in LiveFrame
    <3>1. Head(stack).rescues \in SUBSET {"denied", "undeclared"}
      BY <1>1, FrameLive, FrameFields DEF EnterSessionState, At
    <3>2. Transaction \in Frame /\ Transaction.op = "commit"
      BY <3>1, FramesType DEF Transaction
    <3>. QED BY <1>1, <3>2, FramesType, OtherFrame, CopyFrame DEF Logic
  <2>2. fs \in Seq(LiveFrame)
    BY <2>1
  <2>3. Continues(fs)
    BY DEF EnterSessionState
  <2>4. stack' \in Seq(LiveFrame)
    BY <1>1, <2>2, <2>3, ContinuesLive
  <2>5. LiveFrame' = LiveFrame
    BY <1>2 DEF LiveFrame, Live
  <2>. QED BY <2>4, <2>5
<1>7. (Full(disk)' <=> Full(disk)) /\ (Full(db)' <=> Full(db)) /\ (Full(disk') <=> Full(disk))
  BY <1>2 DEF Full, Made
<1>. QED BY <1>2, <1>4, <1>5, <1>6, <1>7 DEF SInv, Keeping, Forward

(* Calls that end take nothing from the copies; nor, once every selection   *)
(* is committed, from what the row is taken back to.                        *)
LEMMA UnwindKeeping ==
    ASSUME TypeOK, TypeOK', SInv, Running, NEW i \in DOMAIN stack, Unwind(i),
           db' = db \/ (db' = disk /\ Full(disk))
    PROVE  Keeping
<1>1. /\ UNCHANGED <<biz, disk, mem, req>> /\ stack \in Seq(Frame)
      /\ stack' = SubSeq(stack, i + 1, Len(stack))
  BY DEF Unwind, TypeOK
<1>2. stack' \in Seq(LiveFrame)
  <2>1. /\ stack' \in Seq(Frame)
        /\ \A j \in DOMAIN stack' : j + i \in DOMAIN stack /\ stack'[j] = stack[j + i]
    BY <1>1, RestFrames
  <2>2. \A j \in DOMAIN stack : stack[j] \in LiveFrame
    BY DEF SInv
  <2>3. \A j \in 1..Len(stack') : stack'[j] \in LiveFrame
    BY <2>1, <2>2
  <2>. QED BY <2>1, <2>3
<1>3. CASE db' = db
  BY <1>1, <1>2, <1>3, SameKeeping
<1>4. CASE db' = disk /\ Full(disk)
  <2>1. /\ Full(db) /\ Owed(disk)
        /\ db.named = disk.named
    BY <1>4 DEF SInv, Full, TypeOK, Database
  <2>2. ASSUME NEW k \in Copies, Live(k)
        PROVE  Agrees(k) /\ Selections \subseteq Made(mem[k].store)
    BY <2>1, <2>2 DEF SInv, Agrees, Held, Full, Made, Live
  <2>3. \A t, n : Sound(t, n)' <=> Sound(t', n')
    BY <1>1 DEF Sound, Imposed, count, mode
  <2>4. \A k \in Copies : Live(k)' => Agrees(k)' /\ Held(k)'
    BY <1>1, <1>4, <2>1, <2>2, <2>3 DEF Live, Agrees, Held, Full, Made
  <2>5. Owed(disk)' /\ Owed(db)'
    BY <1>1, <1>4, <2>1 DEF Owed, Sound, Imposed, count, mode
  <2>6. stack' \in Seq(LiveFrame)'
    BY <1>1, <1>2 DEF LiveFrame, Live
  <2>7. (Full(disk) => Full(db))' /\ disk' = disk
    BY <1>1, <1>4 DEF Full, Made
  <2>. QED BY <1>1, <1>4, <2>4, <2>5, <2>6, <2>7 DEF SInv, Keeping, Forward
<1>. QED BY <1>3, <1>4

(* A refusal ends the transaction, whose selections are not all committed.  *)
Undone(i) ==
    /\ Unwind(i) /\ (i = 1 \/ stack[i].op \in {"commit", "guard"})
    /\ ~Full(disk) /\ InTransaction /\ ~InTransaction'

LEMMA RefuseKeeping ==
    ASSUME TypeOK, TypeOK', Settled, SInv, Running, NEW why, Refuse(why)
    PROVE  Keeping \/ \E i \in DOMAIN stack : Undone(i)
<1>1. CASE Raise(why)
  BY <1>1, RaiseKeeping
<1>2. ASSUME NEW i \in DOMAIN stack, Unwind(i), Catches(i, why), ~Undone(i) PROVE Keeping
  <2>1. (InTransaction' => db' = db) /\ (~InTransaction' => db' = disk)
    BY <1>2, UnwindSettled
  <2>2. db' = db \/ (db' = disk /\ Full(disk))
    BY <1>2, <2>1 DEF Undone, Settled, Catches
  <2>. QED BY <1>2, <2>2, UnwindKeeping
<1>. QED BY <1>1, <1>2 DEF Refuse

LEMMA TransitionsKeeping ==
    ASSUME TypeOK, TypeOK', SInv,
           EnterSessionState \/ reset_appointment_selection \/ Reset \/ EnterAptState
    PROVE  Keeping
<1>0. /\ stack # <<>> /\ Running /\ Live(Head(stack).c) /\ Head(stack).c \in Copies
      /\ Beside(db)
      /\ Head(stack).op \in {"to_session", "to_apt"}
            => Head(stack).rescues \in SUBSET {"denied", "undeclared"}
  BY FrameLive, FrameFields DEF EnterSessionState, reset_appointment_selection, Reset,
     EnterAptState, At, Running, Beside, TypeOK
<1>. DEFINE c == Head(stack).c
<1>1. CASE EnterSessionState
  BY <1>1, EnterSessionKeeping
<1>2. CASE reset_appointment_selection
  <2>. DEFINE guard == [op |-> "guard", rescues |-> Head(stack).rescues]
              one == IF db.apt = "handshake" THEN <<>> ELSE <<ToApt(c, "handshake", Bang)>>
              two == <<[op |-> "reset", c |-> c], guard>>
  <2>1. /\ ToApt(c, "handshake", Bang) \in Frame /\ ToApt(c, "handshake", Bang).c = c
        /\ [op |-> "reset", c |-> c] \in Frame /\ guard \in Frame
    BY <1>0, <1>2, FramesType DEF Bang, AptStates, ToApt, reset_appointment_selection, At
  <2>2. ToApt(c, "handshake", Bang) \in LiveFrame /\ [op |-> "reset", c |-> c] \in LiveFrame
        /\ guard \in LiveFrame
    BY <1>0, <2>1, CopyFrame, OtherFrame
  <2>3. one \in Seq(LiveFrame) /\ two \in Seq(LiveFrame)
    BY <2>2
  <2>4. one \o two \in Seq(LiveFrame) /\ Continues(one \o two)
    BY <1>2, <2>3 DEF reset_appointment_selection
  <2>5. stack' \in Seq(LiveFrame)
    <3>. HIDE DEF one, two
    <3>. QED BY <1>0, <2>4, ContinuesLive
  <2>6. Shift(c, mem[c].store, mem[c].store, db.named)
    BY <1>0, <1>2, SaveShift DEF reset_appointment_selection
  <2>7. Better(c, mem[c].store, mem[c].store, db.named)
    BY <1>0 DEF SInv, Agrees, Better
  <2>8. biz' = biz /\ req'.twin = req.twin /\ db.named \in BOOLEAN
    BY <1>2 DEF reset_appointment_selection, TypeOK, Database
  <2>. HIDE DEF c
  <2>. QED BY <1>0, <2>5, <2>6, <2>7, <2>8, ShiftKeeping DEF c
<1>3. CASE Reset
  <2>. DEFINE to == ToSession(c, "appointment_selection", Bang)
  <2>1. to \in Frame /\ to.c = c
    BY <1>0, FramesType DEF Bang, SessionStates, ToSession
  <2>2. <<to>> \in Seq(LiveFrame)
    BY <1>0, <2>1, CopyFrame, OneLiveFrame
  <2>3. Continues(<<to>>) \/ Continues(<<>>)
    BY <1>3 DEF Reset
  <2>4. stack' \in Seq(LiveFrame)
    <3>. HIDE DEF to
    <3>. QED BY <1>0, <2>2, <2>3, NoLiveFrames, ContinuesLive
  <2>. QED BY <1>0, <1>3, <2>4, SameKeeping DEF Reset, vars_but_stack
<1>4. CASE EnterAptState
  <2>. DEFINE fs == <<Logic("apt", c), Transaction>>
  <2>1. Logic("apt", c) \in LiveFrame /\ Transaction \in LiveFrame
    <3>1. Transaction \in Frame /\ Transaction.op = "commit"
      BY <1>0, <1>4, FramesType DEF EnterAptState, At, Transaction
    <3>. QED BY <1>0, <3>1, FramesType, OtherFrame, CopyFrame DEF Logic
  <2>2. fs \in Seq(LiveFrame) /\ Continues(fs)
    BY <1>4, <2>1 DEF EnterAptState
  <2>3. stack' \in Seq(LiveFrame)
    <3>. HIDE DEF fs
    <3>. QED BY <1>0, <2>2, ContinuesLive
  <2>4. Shift(1, mem[1].store, mem[1].saved, db.named)
    BY <1>4 DEF EnterAptState, Shift, TypeOK, Database
  <2>. QED BY <1>0, <1>4, <2>3, <2>4, QuietKeeping DEF EnterAptState
<1>. QED BY <1>1, <1>2, <1>3, <1>4

-------------------------------------------------------------------------------
(* The engines.                                                             *)

(* What an engine does to a copy in use, and the calls it ends with.        *)
LEMMA ThinkKeeping ==
    ASSUME TypeOK, TypeOK', SInv, NEW m, NEW c, NEW s, s # "none", Thinking(m, c, s),
           NEW k \in Copies, Live(k), NEW st, NEW sv, NEW n,
           Shift(k, st, sv, n), db.named => n, Better(k, st, sv, n),
           NEW fs \in Seq(LiveFrame), Calls(fs), biz' = biz, req'.twin = req.twin
    PROVE  Keeping
<1>1. Running /\ stack' \in Seq(LiveFrame)
  BY ThinkingLive, CallsLive DEF Running
<1>. QED BY <1>1, ShiftKeeping

LEMMA IdleKeeping ==
    ASSUME TypeOK, TypeOK', SInv, NEW m, NEW c, NEW s, s # "none", Thinking(m, c, s),
           NEW fs \in Seq(LiveFrame), Calls(fs), UNCHANGED <<db, disk, mem>>,
           biz' = biz, req'.twin = req.twin
    PROVE  Keeping
<1>1. Running /\ stack' \in Seq(LiveFrame)
  BY ThinkingLive, CallsLive DEF Running
<1>. QED BY <1>1, SameKeeping

(* A copy in use, and what saving more selections on it makes of it.        *)
LEMMA CopyOf ==
    ASSUME TypeOK, SInv, Running, NEW c \in Copies, Live(c)
    PROVE  /\ mem[c].store \in Store /\ db.named \in BOOLEAN /\ Beside(db)
           /\ Sound(mem[c].store, db.named)
           /\ Better(c, mem[c].store, mem[c].saved, db.named)
BY StoreOf DEF TypeOK, Database, SInv, Agrees, Better, Beside

(* Marks and flags only.                                                    *)
LEMMA FlagBetter ==
    ASSUME TypeOK, SInv, Running, NEW c \in Copies, Live(c), NEW st \in Store, NEW sv \in Store,
           \A t \in {st, sv} : /\ t.complete \subseteq mem[c].store.complete
                               /\ t.chosen = mem[c].store.chosen
                               /\ t.assumed = mem[c].store.assumed
                               /\ t.asked_to_change = mem[c].store.asked_to_change
    PROVE  Better(c, st, sv, db.named)
<1>1. Sound(mem[c].store, db.named)
  BY CopyOf
<1>2. Sound(st, db.named) /\ Sound(sv, db.named)
  BY <1>1, SoundAlike
<1>. QED BY <1>2 DEF Better

LEMMA AdvancesKeeping ==
    ASSUME TypeOK, TypeOK', SInv, NEW c \in Copies, NEW s \in SessionStates,
           Thinking("session", c, s), NEW st \in Store, NEW d, Beside(d), db.named => d.named,
           Sound(st, d.named), mem[c].store.chosen \subseteq st.chosen,
           mem[c].store.assumed \subseteq st.assumed,
           \A sel \in Selections : StateOf(sel) = s => sel \in Made(st),
           s = "customer_registration" => d.named,
           advance(c, s, st, d), Calls(<<Advance(c)>>), biz' = biz, req'.twin = req.twin
    PROVE  Keeping
<1>1. s # "none"
  BY DEF SessionStates
<1>2. Live(c)
  BY <1>1, ThinkingLive
<1>3. <<Advance(c)>> \in Seq(LiveFrame)
  BY <1>2, AdvanceLive
<1>4. Shift(c, Marked(st, s), st, d.named)
  BY AdvanceShift
<1>5. Better(c, Marked(st, s), st, d.named)
  BY SoundMarked DEF Better
<1>. QED BY <1>1, <1>2, <1>3, <1>4, <1>5, ThinkKeeping

LEMMA SavesKeeping ==
    ASSUME TypeOK, TypeOK', SInv, NEW m, NEW c, NEW s, s # "none", Thinking(m, c, s),
           NEW k \in Copies, Live(k), NEW st, Better(k, st, st, db.named), Save(k, st, db),
           NEW fs \in Seq(LiveFrame), Calls(fs), biz' = biz, req'.twin = req.twin
    PROVE  Keeping
<1>1. Beside(db)
  BY DEF Beside, TypeOK
<1>2. Shift(k, st, st, db.named)
  BY <1>1, SaveShift
<1>. QED BY <1>2, ThinkKeeping

LEMMA NoSelection ==
    \A sel \in Selections :
        /\ StateOf(sel) \in SessionStates
        /\ StateOf(sel) \notin {"handshake", "initial_decoder", "customer_registration",
                                "appointment_selection", "finish"}
BY DEF Selections, StateOf, SessionStates

LEMMA HandshakeKeeping ==
    ASSUME TypeOK, TypeOK', SInv, NEW c \in Copies, Handshake(c)
    PROVE  Keeping
<1>. DEFINE st == mem[c].store
            mk == Marked(st, "handshake")
            sh == [st EXCEPT !.shaked = TRUE]
<1>1. /\ "handshake" # "none" /\ Thinking("session", c, "handshake") /\ biz' = biz
      /\ req'.twin = req.twin
  BY DEF Handshake
<1>2. Running /\ Live(c)
  BY <1>1, ThinkingLive DEF Running
<1>3. st \in Store /\ Sound(st, db.named) /\ Beside(db)
  BY <1>2, CopyOf
<1>4. CASE advance(c, "handshake", mk, db) /\ Calls(<<Advance(c)>>)
  <2>1. /\ Sound(mk, db.named) /\ mk \in Store
        /\ mk.chosen = st.chosen /\ mk.assumed = st.assumed
    BY <1>3, SoundMarked, NoSelection, MarkedType DEF SessionStates
  <2>. QED BY <1>1, <1>3, <1>4, <2>1, NoSelection, AdvancesKeeping DEF SessionStates
<1>5. CASE Save(c, sh, db) /\ Calls(<<>>)
  <2>1. Better(c, sh, sh, db.named)
    <3>1. /\ sh \in Store /\ sh.complete = st.complete /\ sh.chosen = st.chosen
          /\ sh.assumed = st.assumed /\ sh.asked_to_change = st.asked_to_change
      BY <1>3 DEF Store
    <3>. QED BY <1>2, <3>1, FlagBetter
  <2>. QED BY <1>1, <1>2, <1>5, <2>1, NoLiveFrames, SavesKeeping
<1>. QED BY <1>4, <1>5 DEF Handshake

LEMMA InitialDecoderKeeping ==
    ASSUME TypeOK, TypeOK', SInv, NEW c \in Copies, InitialDecoder(c)
    PROVE  Keeping
<1>. DEFINE s == "initial_decoder"
            st == mem[c].store
            dated == sms /\ req.input.kind = "date"
            kept == [st EXCEPT !.decoded = @ \/ dated]
            mk == Marked(kept, s)
<1>1. /\ s # "none" /\ Thinking("session", c, s) /\ biz' = biz
      /\ Calls(<<Advance(c)>>) /\ advance(c, s, mk, db)
  BY DEF InitialDecoder
<1>2. Running /\ Live(c) /\ req'.twin = req.twin
  BY <1>1, ThinkingLive DEF Running, InitialDecoder, TypeOK
<1>3. st \in Store /\ Sound(st, db.named) /\ Beside(db)
  BY <1>2, CopyOf
<1>4. (st.decoded \/ dated) \in BOOLEAN
  OBVIOUS
<1>5. /\ kept \in Store /\ kept.complete = st.complete /\ kept.chosen = st.chosen
      /\ kept.assumed = st.assumed /\ kept.asked_to_change = st.asked_to_change
  BY <1>3, <1>4 DEF Store
<1>. HIDE DEF kept
<1>6. Sound(kept, db.named)
  BY <1>3, <1>5, SoundAlike
<1>7. /\ Sound(mk, db.named) /\ mk \in Store
      /\ mk.chosen = st.chosen /\ mk.assumed = st.assumed
  BY <1>5, <1>6, SoundMarked, NoSelection, MarkedType DEF SessionStates
<1>. HIDE DEF mk
<1>. QED BY <1>1, <1>2, <1>3, <1>7, NoSelection, AdvancesKeeping DEF SessionStates

LEMMA CustomerRegistrationKeeping ==
    ASSUME TypeOK, TypeOK', SInv, NEW c \in Copies, CustomerRegistration(c)
    PROVE  Keeping
<1>. DEFINE s == "customer_registration"
            st == mem[c].store
            mk == Marked(st, s)
            d == [db EXCEPT !.named = TRUE]
<1>1. s # "none" /\ Thinking("session", c, s) /\ biz' = biz
  BY DEF CustomerRegistration
<1>2. Running /\ Live(c)
  BY <1>1, ThinkingLive DEF Running
<1>3. st \in Store /\ Sound(st, db.named) /\ db.named \in BOOLEAN
  BY <1>2, CopyOf
<1>4. CASE advance(c, s, mk, d) /\ clear_session_input /\ Calls(<<Advance(c)>>)
  <2>1. Beside(d) /\ d.named = TRUE
    BY DEF TypeOK, Database, Beside
  <2>2. Sound(st, TRUE)
    BY <1>3, SoundNamed
  <2>3. /\ Sound(mk, TRUE) /\ mk \in Store
        /\ mk.chosen = st.chosen /\ mk.assumed = st.assumed
    BY <1>3, <2>2, SoundMarked, NoSelection, MarkedType DEF SessionStates
  <2>4. req'.twin = req.twin
    BY <1>4, SameTwin
  <2>. HIDE DEF mk, d
  <2>. QED BY <1>1, <1>4, <2>1, <2>3, <2>4, NoSelection, AdvancesKeeping DEF SessionStates
<1>5. CASE Calls(<<>>) /\ UNCHANGED <<db, disk, mem, req>>
  BY <1>1, <1>5, NoLiveFrames, IdleKeeping
<1>. QED BY <1>4, <1>5 DEF CustomerRegistration

(* A selection made, with or without its mark, moves on.                    *)
LEMMA ChosenKeeping ==
    ASSUME TypeOK, TypeOK', SInv, NEW c \in Copies, NEW sel \in Selections,
           Thinking("session", c, StateOf(sel)), sel \notin Imposed,
           NEW st \in Store, Sound(st, db.named), st.chosen = mem[c].store.chosen,
           st.assumed = mem[c].store.assumed,
           NEW to, to \in {With(st, sel), Marked(With(st, sel), StateOf(sel))},
           advance(c, StateOf(sel), to, db), Calls(<<Advance(c)>>),
           biz' = biz, req'.twin = req.twin
    PROVE  Keeping
<1>1. /\ StateOf(sel) \in SessionStates /\ StateOf(sel) # "customer_registration"
      /\ Beside(db)
  BY NoSelection DEF Beside, TypeOK
<1>2. /\ to \in Store /\ Sound(to, db.named) /\ sel \in Made(to)
      /\ st.chosen \subseteq to.chosen /\ st.assumed \subseteq to.assumed
  BY SoundWith, SoundChosen DEF Made
<1>3. \A k \in Selections : StateOf(k) = StateOf(sel) => k \in Made(to)
  BY <1>2, StateOfInjective
<1>. QED BY <1>1, <1>2, <1>3, AdvancesKeeping

LEMMA SkipSelectionKeeping ==
    ASSUME TypeOK, TypeOK', SInv, NEW c \in Copies, NEW sel \in {"office", "service"},
           SkipSelection(c, sel)
    PROVE  Keeping
<1>. DEFINE s == StateOf(sel)
            st == mem[c].store
<1>1. /\ sel \in Selections /\ s \in SessionStates /\ s # "none"
      /\ s # "customer_registration"
  BY NoSelection DEF Selections, SessionStates
<1>2. /\ Thinking("session", c, s) /\ biz' = biz /\ req'.twin = req.twin
      /\ Calls(<<Advance(c)>>)
  BY DEF SkipSelection
<1>3. Running /\ Live(c)
  BY <1>1, <1>2, ThinkingLive DEF Running
<1>4. st \in Store /\ Sound(st, db.named) /\ Beside(db)
  BY <1>3, CopyOf
<1>5. CASE ~(count(sel) >= 2) /\ advance(c, s, Marked(With(st, sel), s), db)
  <2>1. sel \notin Imposed
    BY <1>5 DEF Imposed
  <2>. QED BY <1>1, <1>2, <1>4, <1>5, <2>1, ChosenKeeping
<1>6. CASE sel \in st.chosen /\ advance(c, s, st, db)
  <2>1. \A k \in Selections : StateOf(k) = s => k \in Made(st)
    BY <1>1, <1>6, StateOfInjective DEF Made
  <2>. QED BY <1>1, <1>2, <1>4, <1>6, <2>1, AdvancesKeeping
<1>7. count(sel) \in 1..2
  BY DEF count, TypeOK, Business
<1>. QED BY <1>5, <1>6, <1>7 DEF SkipSelection

LEMMA process_inputKeeping ==
    ASSUME TypeOK, TypeOK', SInv, NEW c \in Copies, NEW sel \in {"office", "service"},
           process_input(c, sel)
    PROVE  Keeping
<1>. DEFINE s == StateOf(sel)
            st == IF Retrying(c, sel)
                  THEN [mem[c].store EXCEPT !.retrying = @ \ {sel}]
                  ELSE mem[c].store
<1>1. sel \in Selections /\ s \in SessionStates /\ s # "none"
  BY NoSelection DEF Selections, SessionStates
<1>2. Thinking("session", c, s) /\ biz' = biz
  BY DEF process_input, Selecting
<1>3. Running /\ Live(c)
  BY <1>1, <1>2, ThinkingLive DEF Running
<1>4. mem[c].store \in Store /\ mem[c].saved \in Store /\ Sound(mem[c].store, db.named)
      /\ Beside(db)
  BY <1>3, CopyOf, StoreOf
<1>5. /\ st \in Store /\ st.complete = mem[c].store.complete
      /\ st.chosen = mem[c].store.chosen /\ st.assumed = mem[c].store.assumed
      /\ st.asked_to_change = mem[c].store.asked_to_change
  BY <1>4 DEF Store
<1>6. sel \notin Imposed
  <2>1. mode(sel) = "ask" \/ sel \in mem[c].store.asked_to_change
           \/ mode(sel) = "ask_and_assume"
    BY DEF process_input, Asked, Retrying, Offering
  <2>. QED BY <1>4, <2>1 DEF Imposed, Sound
<1>. HIDE DEF st
<1>7. Sound(st, db.named)
  BY <1>4, <1>5, SoundAlike
<1>8. CASE /\ advance(c, s, Marked(With(st, sel), s), db)
           /\ clear_session_input /\ Calls(<<Advance(c)>>)
  <2>1. req'.twin = req.twin
    BY <1>8, SameTwin
  <2>. QED BY <1>1, <1>2, <1>4, <1>5, <1>6, <1>7, <1>8, <2>1, ChosenKeeping
<1>9. CASE Remember(c, st) /\ Calls(<<>>) /\ UNCHANGED req
  <2>1. Shift(c, st, mem[c].saved, db.named)
    BY <1>4, <1>9, MemoryShift DEF Remember
  <2>2. Better(c, st, mem[c].saved, db.named)
    BY <1>3, <1>5, <1>7, CopyOf DEF Better
  <2>. QED BY <1>1, <1>2, <1>3, <1>9, <2>1, <2>2, NoLiveFrames, ThinkKeeping
<1>. QED BY <1>8, <1>9 DEF process_input, st

LEMMA OfferDefaultKeeping ==
    ASSUME TypeOK, TypeOK', SInv, NEW c \in Copies, NEW sel \in {"office", "service"},
           OfferDefault(c, sel)
    PROVE  Keeping
<1>. DEFINE s == StateOf(sel)
            st == mem[c].store
            asks == [st EXCEPT !.asked_to_change = @ \cup {sel}]
            offers == [st EXCEPT !.confirming = @ \cup {sel}]
<1>1. sel \in Selections /\ s \in SessionStates /\ s # "none"
  BY NoSelection DEF Selections, SessionStates
<1>2. Thinking("session", c, s) /\ biz' = biz /\ req'.twin = req.twin
  BY SameTwin DEF OfferDefault, Selecting
<1>3. Running /\ Live(c)
  BY <1>1, <1>2, ThinkingLive DEF Running
<1>4. st \in Store /\ Sound(st, db.named) /\ Beside(db)
  BY <1>3, CopyOf
<1>5. sel \notin Imposed
  BY DEF OfferDefault, Offering, Imposed
<1>6. CASE advance(c, s, With(st, sel), db) /\ Calls(<<Advance(c)>>)
  BY <1>1, <1>2, <1>4, <1>5, <1>6, ChosenKeeping
<1>7. CASE Save(c, asks, db) /\ Calls(<<>>)
  <2>1. /\ asks.complete = st.complete /\ asks.chosen = st.chosen
        /\ asks.assumed = st.assumed /\ asks.asked_to_change = st.asked_to_change \cup {sel}
    BY <1>4 DEF Store
  <2>. HIDE DEF asks
  <2>2. Sound(asks, db.named)
    BY <1>4, <1>5, <2>1 DEF Sound, Made
  <2>3. Better(c, asks, asks, db.named)
    BY <2>1, <2>2 DEF Better
  <2>. QED BY <1>1, <1>2, <1>3, <1>7, <2>3, NoLiveFrames, SavesKeeping
<1>8. CASE Save(c, offers, db) /\ Calls(<<>>)
  <2>1. /\ offers.complete = st.complete /\ offers.chosen = st.chosen /\ offers \in Store
        /\ offers.assumed = st.assumed /\ offers.asked_to_change = st.asked_to_change
    BY <1>1, <1>4 DEF Store
  <2>. HIDE DEF offers
  <2>3. Better(c, offers, offers, db.named)
    BY <1>3, <2>1, FlagBetter
  <2>. QED BY <1>1, <1>2, <1>3, <1>8, <2>3, NoLiveFrames, SavesKeeping
<1>. QED BY <1>6, <1>7, <1>8 DEF OfferDefault

LEMMA ImposeDefaultKeeping ==
    ASSUME TypeOK, TypeOK', SInv, NEW c \in Copies, NEW sel \in {"office", "service"},
           ImposeDefault(c, sel)
    PROVE  Keeping
<1>. DEFINE s == StateOf(sel)
            old == mem[c].store
            st == [old EXCEPT !.assumed = @ \cup {sel}]
<1>1. sel \in Selections /\ s \in SessionStates /\ s # "none" /\ s # "customer_registration"
  BY NoSelection DEF Selections, SessionStates
<1>2. /\ Thinking("session", c, s) /\ biz' = biz /\ req'.twin = req.twin
      /\ advance(c, s, st, db) /\ Calls(<<Advance(c)>>)
  BY SameTwin DEF ImposeDefault, Selecting
<1>3. Running /\ Live(c)
  BY <1>1, <1>2, ThinkingLive DEF Running
<1>4. old \in Store /\ Sound(old, db.named) /\ Beside(db)
  BY <1>3, CopyOf
<1>5. sel \in Imposed
  BY DEF ImposeDefault, Selecting, Imposed
<1>6. /\ st.complete = old.complete /\ st.chosen = old.chosen /\ st \in Store
      /\ st.assumed = old.assumed \cup {sel} /\ st.asked_to_change = old.asked_to_change
  BY <1>1, <1>4 DEF Store
<1>. HIDE DEF st
<1>7. Sound(st, db.named)
  BY <1>4, <1>5, <1>6 DEF Sound, Made
<1>8. \A k \in Selections : StateOf(k) = s => k \in Made(st)
  BY <1>1, <1>6, StateOfInjective DEF Made
<1>. QED BY <1>1, <1>2, <1>4, <1>6, <1>7, <1>8, AdvancesKeeping

LEMMA ProviderSelectionKeeping ==
    ASSUME TypeOK, TypeOK', SInv, NEW c \in Copies, ProviderSelection(c)
    PROVE  Keeping
<1>. DEFINE s == "provider_selection"
            st == mem[c].store
            rest == [op |-> "provider", c |-> c, input |-> req.input]
<1>1. s # "none" /\ Thinking("session", c, s) /\ biz' = biz /\ req'.twin = req.twin
  BY DEF ProviderSelection
<1>2. Running /\ Live(c)
  BY <1>1, ThinkingLive DEF Running
<1>3. st \in Store /\ Sound(st, db.named) /\ Beside(db)
  BY <1>2, CopyOf
<1>4. rest \in LiveFrame
  <2>1. rest \in Frame /\ rest.c = c
    BY FramesType DEF TypeOK
  <2>. QED BY <1>2, <2>1, CopyFrame
<1>5. Advance(c) \in LiveFrame
  BY <1>2, AdvanceLive
<1>. HIDE DEF rest
<1>6. <<rest>> \in Seq(LiveFrame) /\ <<Advance(c), rest>> \in Seq(LiveFrame)
  BY <1>4, <1>5
<1>7. CASE /\ Complete(c, s) /\ advance(c, s, st, db)
           /\ Calls(<<Advance(c), rest>>)
  <2>1. Sound(Marked(st, s), db.named)
    <3>1. \A sel \in Selections : StateOf(sel) = s => sel \in Made(st)
      BY <1>3, <1>7 DEF Complete, Sound
    <3>. QED BY <1>3, <3>1, SoundMarked
  <2>2. Better(c, Marked(st, s), st, db.named)
    BY <1>3, <2>1 DEF Better, Marked, Store
  <2>3. Shift(c, Marked(st, s), st, db.named)
    BY <1>3, <1>7, AdvanceShift
  <2>. QED BY <1>1, <1>2, <1>6, <1>7, <2>2, <2>3, ThinkKeeping
<1>8. CASE Calls(<<rest>>) /\ UNCHANGED <<db, disk, mem>>
  BY <1>1, <1>6, <1>8, IdleKeeping
<1>. QED BY <1>7, <1>8 DEF ProviderSelection, rest

LEMMA ProviderSelectionRestKeeping ==
    ASSUME TypeOK, TypeOK', SInv, ProviderSelectionRest
    PROVE  Keeping
<1>. DEFINE c == Head(stack).c
            s == "provider_selection"
            w == Marked(With(mem[c].store, "provider"), s)
<1>1. /\ stack # <<>> /\ Running /\ Live(c) /\ c \in Copies /\ biz' = biz
      /\ Head(stack) \in LiveFrame
  BY FrameLive DEF ProviderSelectionRest, At, Running
<1>2. req'.twin = req.twin
  BY SameTwin DEF ProviderSelectionRest
<1>3. mem[c].store \in Store /\ Sound(mem[c].store, db.named) /\ Beside(db)
  BY <1>1, CopyOf
<1>4. CASE advance(c, s, w, db) /\ Continues(<<Advance(c)>>)
  <2>1. "provider" \in Selections /\ "provider" \notin Imposed /\ StateOf("provider") = s
    BY DEF Selections, Imposed, StateOf
  <2>2. /\ Sound(w, db.named) /\ w \in Store /\ "provider" \in Made(w)
        /\ mem[c].store.chosen \subseteq w.chosen
        /\ mem[c].store.assumed \subseteq w.assumed
    BY <1>3, <2>1, SoundChosen
  <2>. HIDE DEF w, c
  <2>3. \A k \in Selections : StateOf(k) = s => k \in Made(w)
    BY <2>1, <2>2, StateOfInjective
  <2>4. Better(c, Marked(w, s), w, db.named)
    BY <2>2, <2>3, SoundMarked DEF Better
  <2>5. Shift(c, Marked(w, s), w, db.named)
    BY <1>1, <1>3, <1>4, AdvanceShift
  <2>6. stack' \in Seq(LiveFrame)
    BY <1>1, <1>4, AdvanceLive, ContinuesLive
  <2>. QED BY <1>1, <1>2, <2>4, <2>5, <2>6, ShiftKeeping
<1>5. CASE Continues(<<>>) /\ UNCHANGED <<db, disk, mem>>
  <2>1. stack' \in Seq(LiveFrame)
    BY <1>1, <1>5, NoLiveFrames, ContinuesLive
  <2>. QED BY <1>1, <1>2, <1>5, <2>1, SameKeeping
<1>. QED BY <1>4, <1>5 DEF ProviderSelectionRest

(* The row's other copy appears when the row has every selection.           *)
LEMMA AppointmentSelectionKeeping ==
    ASSUME TypeOK, TypeOK', SInv, NEW c \in Copies, AppointmentSelection(c)
    PROVE  Keeping
<1>. DEFINE s == "appointment_selection"
            st == Marked(mem[c].store, s)
            d == [db EXCEPT !.apt = "handshake"]
            row == [store |-> db.store, saved |-> db.store]
<1>1. s # "none" /\ Thinking("session", c, s) /\ biz' = biz /\ Calls(<<Logic("apt", c)>>)
  BY DEF AppointmentSelection
<1>2. Running /\ Live(c)
  BY <1>1, ThinkingLive DEF Running
<1>3. mem[c].store \in Store /\ Sound(mem[c].store, db.named) /\ Beside(db)
  BY <1>2, CopyOf
<1>4. /\ Sound(st, db.named) /\ st \in Store
      /\ st.chosen = mem[c].store.chosen /\ st.assumed = mem[c].store.assumed
  BY <1>3, SoundMarked, NoSelection, MarkedType DEF SessionStates
<1>. HIDE DEF st
<1>5. CASE /\ mem' = [mem EXCEPT ![c].store = st, ![2] = row]
           /\ Write(d) /\ req' = [req EXCEPT !.twin = TRUE]
  <2>1. /\ Selections \subseteq Made(db.store) /\ Sound(db.store, db.named)
        /\ Owed(db) /\ Owed(disk)
    BY <1>1 DEF SInv, Owed, Needed, Thinking, current_state
  <2>2. Agrees(1) /\ Held(1) /\ Selections \subseteq Made(mem[1].store)
    <3>1. Agrees(1) /\ Held(1)
      BY <1>2 DEF SInv, Live, Copies
    <3>. QED BY <2>1, <3>1 DEF Held, Agrees, Made
  <2>3. /\ d.state = db.state /\ d.store = db.store /\ d.named = db.named
        /\ req'.twin = TRUE
    BY <1>5 DEF TypeOK, Database
  <2>. HIDE DEF d
  <2>4. /\ db'.state = db.state /\ db'.store = db.store /\ db'.named = db.named
        /\ disk' \in {disk, db'}
    BY <1>5, <2>3 DEF Write
  <2>5. /\ mem'[2] = row /\ mem'[1].saved = mem[1].saved
        /\ mem'[1].store = IF c = 1 THEN st ELSE mem[1].store
    BY <1>5 DEF TypeOK, Copies, Instance
  <2>6. \A t, n : Sound(t, n)' <=> Sound(t', n')
    BY <1>1 DEF Sound, Imposed, count, mode
  <2>7. Owed(db)' /\ Owed(disk)'
    BY <1>1, <2>1, <2>4 DEF Owed, Sound, Imposed, count, mode
  <2>8. Agrees(2)' /\ Held(2)'
    <3>1. mem'[2].store = db.store /\ mem'[2].saved = db.store
      BY <2>5
    <3>2. Sound(mem'[2].store, db'.named)
      BY <2>1, <2>4, <3>1
    <3>. QED BY <2>1, <2>3, <2>4, <2>6, <3>1, <3>2 DEF Agrees, Held, Made
  <2>9. Agrees(1)' /\ Held(1)'
    BY <1>4, <2>1, <2>2, <2>3, <2>4, <2>5, <2>6 DEF Agrees, Held, Made
  <2>10. \A k \in Copies : Agrees(k)' /\ Held(k)'
    BY <2>8, <2>9 DEF Copies
  <2>11. stack' \in Seq(LiveFrame)'
    <3>1. LiveFrame' = Frame
      BY <2>3 DEF LiveFrame, Live
    <3>. QED BY <3>1 DEF TypeOK
  <2>12. Full(db) /\ Full(db') /\ (Full(disk) => Full(disk')) /\ (Full(disk) => Full(db))'
    <3>1. Full(db)
      BY <1>1, <2>1 DEF Full, Owed, Registered, Thinking, current_state
    <3>. QED BY <2>4, <3>1 DEF Full, Made
  <2>13. /\ disk.store.chosen \subseteq disk'.store.chosen
         /\ disk'.store.chosen \subseteq db'.store.chosen
    BY <2>4 DEF SInv
  <2>. QED BY <2>7, <2>10, <2>11, <2>12, <2>13 DEF SInv, Keeping, Forward
<1>6. CASE Remember(c, st) /\ UNCHANGED req
  <2>1. Shift(c, st, mem[c].saved, db.named)
    BY <1>3, <1>6, MemoryShift DEF Remember
  <2>2. Better(c, st, mem[c].saved, db.named)
    BY <1>2, <1>4, CopyOf DEF Better
  <2>3. <<Logic("apt", c)>> \in Seq(LiveFrame)
    BY <1>2, FramesType, CopyFrame DEF Logic
  <2>. QED BY <1>1, <1>2, <1>6, <2>1, <2>2, <2>3, ThinkKeeping
<1>. QED BY <1>5, <1>6 DEF AppointmentSelection, st

LEMMA FinishKeeping ==
    ASSUME TypeOK, TypeOK', SInv, NEW c \in Copies, Finish(c)
    PROVE  Keeping
<1>. DEFINE d == [db EXCEPT !.finished = TRUE]
<1>0. "finish" # "none" /\ Thinking("session", c, "finish")
  BY DEF Finish
<1>3. Running /\ Live(c)
  BY <1>0, ThinkingLive DEF Running
<1>4. Beside(d) /\ d.named = db.named
  BY DEF Beside, TypeOK, Database
<1>1. CASE RaiseAfter("setting", Saved(c, mem[c].store, d))
  <2>. HIDE DEF d
  <2>. QED BY <1>1, <1>3, <1>4, SavedOwed, RaiseAfterKeeping
<1>2. CASE /\ Save(c, mem[c].store, d) /\ Calls(<<>>)
           /\ UNCHANGED <<biz, req, thinked, free, announced, reply>>
  <2>1. "finish" # "none" /\ Thinking("session", c, "finish")
    BY <1>0
  <2>2. Running /\ Live(c)
    BY <1>3
  <2>3. Beside(d) /\ d.named = db.named
    BY <1>4
  <2>4. mem[c].store \in Store /\ Better(c, mem[c].store, mem[c].store, db.named)
    BY <2>2, CopyOf DEF Better
  <2>. HIDE DEF d
  <2>5. Shift(c, mem[c].store, mem[c].store, db.named)
    BY <1>2, <2>3, SaveShift
  <2>. QED BY <1>2, <2>1, <2>2, <2>4, <2>5, NoLiveFrames, ThinkKeeping
<1>. QED BY <1>1, <1>2 DEF Finish

LEMMA ThinkingI ==
    ASSUME TypeOK, SInv, NEW m, NEW c, NEW s, s # "none", Thinking(m, c, s)
    PROVE  /\ Running /\ I \in Copies /\ Live(I) /\ Beside(db)
           /\ mem[I].store \in Store /\ mem[I].saved \in Store
           /\ Sound(mem[I].store, db.named)
           /\ Better(I, mem[I].store, mem[I].saved, db.named)
           /\ Better(I, mem[I].store, mem[I].store, db.named)
<1>1. Running /\ I \in Copies /\ Live(I)
  BY ThinkingLive, ILive DEF Running
<1>. QED BY <1>1, CopyOf, StoreOf DEF Better

LEMMA AptHandshakeKeeping ==
    ASSUME TypeOK, TypeOK', SInv, NEW c \in Copies, AptHandshake(c)
    PROVE  Keeping
<1>. DEFINE st == mem[I].store
            un == [st EXCEPT !.decoded = FALSE]
            d == [db EXCEPT !.date = "date"]
            decodes == db.date # "date" /\ sms /\ st.decoded
            dated == db.date = "date" \/ decodes
            to == IF ~dated THEN "initial_input_date"
                  ELSE IF sms THEN "summary" ELSE "display_result"
<1>1. /\ "handshake" # "none" /\ Thinking("apt", c, "handshake") /\ biz' = biz
      /\ req'.twin = req.twin /\ Calls(<<ToApt(I, to, Bang)>>)
  BY DEF AptHandshake
<1>2. <<ToApt(I, to, Bang)>> \in Seq(LiveFrame)
  BY AptLive DEF AptStates
<1>. HIDE DEF to
<1>3. CASE decodes
  <2>1. Write(d) /\ mem' = [mem EXCEPT ![I].store = un]
    BY <1>3 DEF AptHandshake
  <2>2. Beside(d) /\ d.named = db.named
    BY DEF Beside, TypeOK, Database, DateValues
  <2>. HIDE DEF d
  <2>3. /\ un \in Store /\ un.complete = st.complete /\ un.chosen = st.chosen
        /\ un.assumed = st.assumed /\ un.asked_to_change = st.asked_to_change
    BY <1>1, ThinkingI DEF Store
  <2>. HIDE DEF un
  <2>4. Shift(I, un, mem[I].saved, db.named)
    BY <2>1, <2>2, IType, MemoryShift
  <2>5. Better(I, un, mem[I].saved, db.named)
    BY <1>1, <2>3, ThinkingI, SoundAlike DEF Better
  <2>. QED BY <1>1, <1>2, <2>4, <2>5, ThinkingI, ThinkKeeping
<1>4. CASE ~decodes
  <2>1. UNCHANGED <<db, disk, mem>>
    BY <1>4 DEF AptHandshake
  <2>. QED BY <1>1, <1>2, <2>1, IdleKeeping
<1>. QED BY <1>3, <1>4

LEMMA InputDateKeeping ==
    ASSUME TypeOK, TypeOK', SInv, NEW c \in Copies, InitialInputDate(c) \/ RepeatInputDate(c)
    PROVE  Keeping
<1>. DEFINE un == [mem[I].store EXCEPT !.decoded = FALSE]
            good == [op |-> "save_date", date |-> "date"]
            bad == [op |-> "save_date", date |-> ""]
            first == <<ToApt(I, "initial_input_date", Bang)>>
<1>1. PICK s \in {"initial_input_date", "repeat_input_date"} : Thinking("apt", c, s)
  BY DEF InitialInputDate, RepeatInputDate
<1>2. s # "none" /\ biz' = biz /\ req'.twin = req.twin
  BY DEF InitialInputDate, RepeatInputDate
<1>3. Save(I, un, db) \/ UNCHANGED <<db, disk, mem>>
  BY DEF InitialInputDate, RepeatInputDate
<1>4. good \in LiveFrame /\ bad \in LiveFrame
  BY FramesType, OtherFrame DEF DateValues
<1>5. <<good>> \in Seq(LiveFrame) /\ <<bad>> \in Seq(LiveFrame) /\ first \in Seq(LiveFrame)
  BY <1>4, OneLiveFrame, AptLive DEF AptStates
<1>6. Calls(<<good>>) \/ Calls(<<bad>>) \/ Calls(<<>>) \/ Calls(first)
  BY DEF InitialInputDate, RepeatInputDate
<1>. HIDE DEF good, bad, first
<1>7. PICK fs \in Seq(LiveFrame) : Calls(fs)
  BY <1>5, <1>6, NoLiveFrames
<1>8. Better(I, un, un, db.named)
  <2>1. /\ un \in Store /\ un.complete = mem[I].store.complete
        /\ un.chosen = mem[I].store.chosen /\ un.assumed = mem[I].store.assumed
        /\ un.asked_to_change = mem[I].store.asked_to_change
    BY <1>1, <1>2, ThinkingI DEF Store
  <2>. HIDE DEF un
  <2>. QED BY <1>1, <1>2, <2>1, ThinkingI, FlagBetter
<1>. HIDE DEF un
<1>9. CASE Save(I, un, db)
  BY <1>1, <1>2, <1>7, <1>8, <1>9, ThinkingI, SavesKeeping
<1>10. CASE UNCHANGED <<db, disk, mem>>
  BY <1>1, <1>2, <1>7, <1>10, IdleKeeping
<1>. QED BY <1>3, <1>9, <1>10

LEMMA BooksLive ==
    ASSUME NEW slot \in Slots, NEW n \in Nat
    PROVE  Books(slot, n) \in Seq(LiveFrame)
<1>1. /\ [op |-> "book", slot |-> slot, n |-> n] \in LiveFrame
      /\ [op |-> "choose", slot |-> slot] \in LiveFrame
  BY FramesType, OtherFrame
<1>. QED BY <1>1 DEF Books

LEMMA DisplayResultKeeping ==
    ASSUME TypeOK, TypeOK', SInv, NEW c \in Copies, DisplayResult(c)
    PROVE  Keeping
<1>. DEFINE st == mem[I].store
            slot == RubyAt(Offered, req.input.n - 2)
            again == <<ToApt(I, "repeat_input_date", Bang)>>
            end == <<ToApt(I, "finish", Bang)>>
            book == Books(slot, req.input.n) \o end
            shown == [st EXCEPT !.just_shown = TRUE]
            answered == [st EXCEPT !.just_shown = FALSE]
            row == Saved(I, st, db)
<1>1. CASE RaiseAfter("nil_results", row)
  <2>1. "display_result" # "none" /\ Thinking("apt", c, "display_result")
    BY DEF DisplayResult
  <2>2. /\ Owed(row) /\ db.store.chosen \subseteq row.store.chosen
        /\ Full(db) => Full(row)
    BY <2>1, ThinkingI, SavedOwed
  <2>. HIDE DEF row
  <2>. QED BY <1>1, <2>2, RaiseAfterKeeping
<1>2. CASE ~RaiseAfter("nil_results", row)
  <2>1. "display_result" # "none" /\ Thinking("apt", c, "display_result") /\ biz' = biz
    BY <1>2 DEF DisplayResult
  <2>2. req'.twin = req.twin
    BY <1>2, SameTwin DEF DisplayResult
  <2>3. Calls(again) \/ Calls(<<>>) \/ (slot # NoSlot /\ Calls(book))
    BY <1>2 DEF DisplayResult
  <2>4. again \in Seq(LiveFrame) /\ end \in Seq(LiveFrame)
    BY AptLive DEF AptStates
  <2>5. slot # NoSlot => book \in Seq(LiveFrame)
    <3>1. slot \in Slots \cup {NoSlot} /\ req.input.n \in Nat
      BY OfferedType, RubyAtType DEF TypeOK, Input
    <3>2. slot # NoSlot => Books(slot, req.input.n) \in Seq(LiveFrame)
      BY <3>1, BooksLive
    <3>. HIDE DEF end
    <3>. QED BY <2>4, <3>2
  <2>. HIDE DEF again, book
  <2>6. PICK fs \in Seq(LiveFrame) : Calls(fs)
    BY <2>3, <2>4, <2>5, NoLiveFrames
  <2>7. \/ UNCHANGED <<db, disk, mem>> \/ Save(I, st, db) \/ Save(I, shown, db)
        \/ /\ mem' = [mem EXCEPT ![I] = [store |-> answered, saved |-> st]]
           /\ Write(Saved(I, st, db))
    BY <1>2 DEF DisplayResult
  <2>8. \A t \in {shown, answered} :
           /\ t \in Store /\ t.complete = st.complete /\ t.chosen = st.chosen
           /\ t.assumed = st.assumed /\ t.asked_to_change = st.asked_to_change
    BY <2>1, ThinkingI DEF Store
  <2>. HIDE DEF shown, answered
  <2>9. Better(I, shown, shown, db.named) /\ Better(I, answered, st, db.named)
    BY <2>1, <2>8, ThinkingI, FlagBetter
  <2>10. CASE UNCHANGED <<db, disk, mem>>
    BY <2>1, <2>2, <2>6, <2>10, IdleKeeping
  <2>11. CASE Save(I, st, db) \/ Save(I, shown, db)
    BY <2>1, <2>2, <2>6, <2>9, <2>11, ThinkingI, SavesKeeping
  <2>12. CASE /\ mem' = [mem EXCEPT ![I] = [store |-> answered, saved |-> st]]
              /\ Write(Saved(I, st, db))
    <3>1. Shift(I, answered, st, db.named)
      BY <2>1, <2>12, ThinkingI, SavedShift
    <3>. QED BY <2>1, <2>2, <2>6, <2>9, <3>1, ThinkingI, ThinkKeeping
  <2>. QED BY <2>7, <2>10, <2>11, <2>12
<1>. QED BY <1>1, <1>2

LEMMA SummaryKeeping ==
    ASSUME TypeOK, TypeOK', SInv, NEW c \in Copies, Summary(c)
    PROVE  Keeping
<1>. DEFINE again == <<ToApt(I, "repeat_input_date", Bang)>>
            menu == <<[op |-> "menu"], [op |-> "chosen"]>>
            d == IF Offered = {} THEN [db EXCEPT !.date = NoDate] ELSE db
<1>1. "summary" # "none" /\ Thinking("apt", c, "summary")
  BY DEF Summary
<1>2. again \in Seq(LiveFrame) /\ menu \in Seq(LiveFrame)
  <2>1. [op |-> "menu"] \in LiveFrame /\ [op |-> "chosen"] \in LiveFrame
    BY FramesType, OtherFrame
  <2>. QED BY <2>1, AptLive DEF AptStates
<1>3. CASE Calls(again) /\ UNCHANGED <<biz, db, disk, mem, req, thinked, free, announced, reply>>
  <2>. HIDE DEF again
  <2>. QED BY <1>1, <1>2, <1>3, IdleKeeping
<1>4. CASE Raise("nil_results")
  BY <1>4, RaiseKeeping
<1>5. CASE /\ Save(I, mem[I].store, d) /\ Calls(menu)
           /\ UNCHANGED <<biz, req, thinked, free, announced, reply>>
  <2>1. Beside(d) /\ d.named = db.named
    BY DEF Beside, TypeOK, Database, DateValues
  <2>. HIDE DEF d, menu
  <2>2. Shift(I, mem[I].store, mem[I].store, db.named)
    BY <1>5, <2>1, IType, SaveShift
  <2>. QED BY <1>1, <1>2, <1>5, <2>2, ThinkingI, ThinkKeeping
<1>. QED BY <1>3, <1>4, <1>5 DEF Summary

LEMMA AptFinishKeeping ==
    ASSUME TypeOK, TypeOK', SInv, NEW c \in Copies, AptFinish(c)
    PROVE  Keeping
<1>. DEFINE to == ToSession(I, "finish", Soft)
            fs == IF db.state = "finish" THEN <<>> ELSE <<to>>
<1>1. "finish" # "none" /\ Thinking("apt", c, "finish") /\ Calls(fs)
  BY DEF AptFinish
<1>2. to \in Frame /\ to.c = I
  BY IType, FramesType DEF Soft, SessionStates, ToSession
<1>3. fs \in Seq(LiveFrame)
  BY <1>2, ILive, CopyFrame, OneLiveFrame, NoLiveFrames
<1>. HIDE DEF fs
<1>. QED BY <1>1, <1>3, IdleKeeping DEF AptFinish, vars_but_stack

-------------------------------------------------------------------------------
(* What the engines leave to be done, and the answers.                      *)

LEMMA AsideResumes ==
    ASSUME TypeOK, TypeOK', SInv, SaveDate \/ Book \/ Choose \/ SummaryRest
    PROVE  Keeping
<1>. DEFINE dated == [db EXCEPT !.date = Head(stack).date]
            booked == [db EXCEPT !.booked = @ \cup {Head(stack).slot}]
            chosen == [db EXCEPT !.chosen = Head(stack).slot]
            fin == [op |-> "finish"]
            to == IF sms THEN "summary" ELSE "display_result"
            apt == <<ToApt(I, to, Bang)>>
<1>1. stack # <<>> /\ Running /\ Head(stack) \in Frame
  BY FrameLive DEF SaveDate, Book, Choose, SummaryRest, At, Running
<1>2. UNCHANGED <<mem, biz>> /\ req'.twin = req.twin
  BY SameTwin DEF SaveDate, Book, Choose, SummaryRest, vars_but_stack
<1>3. \/ (\E d \in {dated, booked, chosen} : d \in Database /\ Write(d))
      \/ UNCHANGED <<db, disk>>
  <2>1. SaveDate => dated \in Database
    BY <1>1, FrameFields DEF SaveDate, At, TypeOK, Database
  <2>2. Head(stack).slot \in Slots => booked \in Database /\ chosen \in Database
    BY DEF TypeOK, Database
  <2>3. Book \/ Choose => Head(stack).slot \in Slots
    BY <1>1, FrameFields DEF Book, Choose, At
  <2>. QED BY <2>1, <2>2, <2>3 DEF SaveDate, Book, Choose, SummaryRest, vars_but_stack
<1>4. \A d \in {dated, booked, chosen} :
         d.state = db.state /\ d.store = db.store /\ d.named = db.named
  BY DEF TypeOK, Database
<1>. HIDE DEF dated, booked, chosen
<1>5. apt \in Seq(LiveFrame)
  BY AptLive DEF AptStates
<1>6. <<fin>> \in Seq(LiveFrame)
  BY FramesType, OtherFrame, OneLiveFrame
<1>7. Continues(apt) \/ Continues(<<fin>>) \/ Continues(<<>>)
  BY DEF SaveDate, Book, Choose, SummaryRest
<1>. HIDE DEF apt, fin
<1>8. stack' \in Seq(LiveFrame)
  BY <1>1, <1>5, <1>6, <1>7, NoLiveFrames, ContinuesLive
<1>9. CASE UNCHANGED <<db, disk>>
  BY <1>1, <1>2, <1>8, <1>9, SameKeeping
<1>10. CASE \E d \in {dated, booked, chosen} : d \in Database /\ Write(d)
  <2>1. PICK d \in {dated, booked, chosen} : d \in Database /\ Write(d)
    BY <1>10
  <2>2. Beside(d) /\ d.named = db.named
    BY <1>4, <2>1 DEF Beside
  <2>. QED BY <1>1, <1>2, <1>8, <2>1, <2>2, AsideKeeping
<1>. QED BY <1>3, <1>9, <1>10

LEMMA process_actionsKeeping ==
    ASSUME TypeOK, TypeOK', SInv, process_actions
    PROVE  Keeping
<1>. DEFINE n == req.input.n
            options == Len(menu_options)
            slot == RubyAt(Offered, n - options - 1)
            fin == <<[op |-> "finish"]>>
            book == Books(slot, n) \o fin
            again == <<ToApt(I, "repeat_input_date", Bang)>>
<1>1. stack # <<>> /\ Running /\ I \in Copies /\ Live(I) /\ biz' = biz
  BY ILive DEF process_actions, At, Running
<1>2. req'.twin = req.twin /\ n \in Nat
  BY SameTwin DEF process_actions, TypeOK, Input
<1>3. CASE /\ (slot # NoSlot /\ Continues(book)) \/ Continues(again) \/ Continues(<<>>)
           /\ UNCHANGED <<db, disk, mem>>
  <2>1. again \in Seq(LiveFrame)
    BY AptLive DEF AptStates
  <2>2. fin \in Seq(LiveFrame)
    BY FramesType, OtherFrame, OneLiveFrame
  <2>3. slot # NoSlot => book \in Seq(LiveFrame)
    <3>1. slot \in Slots \cup {NoSlot}
      BY OfferedType, RubyAtType
    <3>2. slot # NoSlot => Books(slot, n) \in Seq(LiveFrame)
      BY <1>2, <3>1, BooksLive
    <3>. HIDE DEF fin
    <3>. QED BY <2>2, <3>2
  <2>. HIDE DEF again, book
  <2>4. stack' \in Seq(LiveFrame)
    BY <1>1, <1>3, <2>1, <2>3, NoLiveFrames, ContinuesLive
  <2>. QED BY <1>1, <1>2, <1>3, <2>4, SameKeeping
<1>4. CASE n \in 1..options /\ menu_options[n] # "date" /\ Retry(menu_options[n])
  <2>. DEFINE sel == menu_options[n]
              old == mem[I].store
              st == [old EXCEPT !.complete = @ \ {StateOf(sel)},
                                !.retrying = @ \cup {sel}]
              go == ToSession(I, StateOf(sel), Bang)
  <2>1. sel \in Selections
    <3>1. sel \in {"office", "service", "provider"}
      BY <1>2, <1>4, MenuType
    <3>. QED BY <3>1 DEF Selections
  <2>2. old \in Store /\ Beside(db)
    BY <1>1, CopyOf
  <2>3. /\ st \in Store /\ st.complete \subseteq old.complete /\ st.chosen = old.chosen
        /\ st.assumed = old.assumed /\ st.asked_to_change = old.asked_to_change
    BY <2>1, <2>2 DEF Store
  <2>4. Save(I, st, db) /\ Continues(<<go>>)
    BY <1>4 DEF Retry
  <2>5. go \in Frame /\ go.c = I
    BY <1>1, <2>1, NoSelection, FramesType DEF Bang, ToSession
  <2>. HIDE DEF st, sel, go
  <2>6. stack' \in Seq(LiveFrame)
    BY <1>1, <2>4, <2>5, CopyFrame, OneLiveFrame, ContinuesLive
  <2>7. Better(I, st, st, db.named)
    BY <1>1, <2>3, FlagBetter
  <2>8. Shift(I, st, st, db.named)
    BY <1>1, <2>2, <2>4, SaveShift
  <2>. QED BY <1>1, <1>2, <2>6, <2>7, <2>8, ShiftKeeping
<1>. QED BY <1>3, <1>4 DEF process_actions

LEMMA SummaryFinishKeeping ==
    ASSUME TypeOK, TypeOK', SInv, SummaryFinish
    PROVE  Keeping
<1>. DEFINE s == "appointment_selection"
            st == Marked(mem[I].store, s)
<1>1. stack # <<>> /\ Running /\ I \in Copies /\ Live(I) /\ biz' = biz /\ req'.twin = req.twin
  BY ILive DEF SummaryFinish, At, Running
<1>2. mem[I].store \in Store /\ Beside(db) /\ Sound(mem[I].store, db.named)
  BY <1>1, CopyOf
<1>3. Better(I, st, st, db.named)
  BY <1>2, SoundMarked, NoSelection DEF Better
<1>4. Shift(I, st, st, db.named)
  BY <1>1, <1>2, SaveShift DEF SummaryFinish
<1>5. stack' \in Seq(LiveFrame)
  <2>1. <<ToApt(I, "finish", Soft)>> \in Seq(LiveFrame)
    BY AptLive DEF AptStates
  <2>. QED BY <1>1, <2>1, ContinuesLive DEF SummaryFinish
<1>. QED BY <1>1, <1>3, <1>4, <1>5, ShiftKeeping

(* The question for the name saves the first copy, whoever saved last.      *)
LEMMA RespondKeeping ==
    ASSUME TypeOK, TypeOK', SInv, Respond
    PROVE  Keeping
<1>. DEFINE old == mem[1].store
            st == [old EXCEPT !.asked_name = TRUE]
            think == IF <<"apt", 1, db.apt>> \in thinked THEN <<>> ELSE <<Logic("apt", 1)>>
            render == <<[op |-> "render", at |-> db.apt]>>
<1>1. /\ stack # <<>> /\ Running /\ 1 \in Copies /\ Live(1) /\ biz' = biz
      /\ db \in Database /\ db.named \in BOOLEAN
  BY DEF Respond, At, Running, Copies, Live, TypeOK, Database
<1>2. CASE Answer("ask_name") /\ Write(Saved(1, st, db))
  <2>1. old \in Store
    BY <1>1, CopyOf
  <2>2. /\ st \in Store /\ st.complete = old.complete /\ st.chosen = old.chosen
        /\ st.assumed = old.assumed /\ st.asked_to_change = old.asked_to_change
    BY <2>1 DEF Store
  <2>. HIDE DEF st
  <2>3. Better(1, st, st, db.named)
    BY <1>1, <2>2, FlagBetter
  <2>4. /\ db'.state = db.state /\ db'.named = db.named /\ disk' \in {disk, db'}
        /\ db'.store = IF st = mem[1].saved THEN db.store ELSE st
    BY <1>1, <1>2 DEF Write, Saved, Database
  <2>5. /\ Made(db.store) \subseteq Made(db'.store) /\ Sound(db'.store, db.named)
        /\ db.store.chosen \subseteq db'.store.chosen
    BY <1>1, <2>3, <2>4, RowBetter
  <2>7. Full(db) => Full(db')
    BY <2>4, <2>5 DEF Full
  <2>6. Owed(db)'
    <3>1. Owed(db') <=> Owed(db)'
      BY <1>1 DEF Owed, Sound, Imposed, count, mode
    <3>2. Owed(db')
      BY <2>4, <2>5 DEF SInv, Owed
    <3>. QED BY <3>1, <3>2
  <2>. QED BY <1>1, <1>2, <2>4, <2>5, <2>6, <2>7, AnswerKeeping
<1>3. CASE (\E r : Answer(r)) /\ UNCHANGED <<db, disk>>
  BY <1>1, <1>3, StayKeeping
<1>4. CASE /\ Continues(think \o render)
           /\ UNCHANGED <<db, disk, mem, req, thinked, free, announced, reply>>
  <2>1. Logic("apt", 1) \in LiveFrame
    BY <1>1, FramesType, CopyFrame DEF Logic
  <2>2. [op |-> "render", at |-> db.apt] \in LiveFrame
    BY <1>1, FramesType, OtherFrame DEF Database
  <2>3. think \in Seq(LiveFrame) /\ render \in Seq(LiveFrame)
    BY <2>1, <2>2
  <2>. HIDE DEF think, render
  <2>4. think \o render \in Seq(LiveFrame)
    BY <2>3
  <2>5. stack' \in Seq(LiveFrame)
    BY <1>1, <1>4, <2>4, ContinuesLive
  <2>. QED BY <1>1, <1>4, <2>5, SameKeeping
<1>. QED BY <1>2, <1>3, <1>4 DEF Respond, Replying

LEMMA ResumesKeeping ==
    ASSUME TypeOK, TypeOK', SInv, Resumes
    PROVE  Keeping
<1>1. CASE AlreadyThinked \/ Done \/ Commit
  BY <1>1, ReturnsKeeping
<1>2. CASE ProviderSelectionRest
  BY <1>2, ProviderSelectionRestKeeping
<1>3. CASE SaveDate \/ Book \/ Choose \/ SummaryRest
  BY <1>3, AsideResumes
<1>4. CASE process_actions
  BY <1>4, process_actionsKeeping
<1>5. CASE SummaryRaises
  BY <1>5, RaiseKeeping DEF SummaryRaises
<1>6. CASE SummaryFinish
  BY <1>6, SummaryFinishKeeping
<1>7. CASE Respond
  BY <1>7, RespondKeeping
<1>8. CASE Render
  <2>1. (\E r : Answer(r)) /\ UNCHANGED <<biz, db, disk>>
    BY <1>8 DEF Render, Replying
  <2>. QED BY <2>1, StayKeeping
<1>. QED BY <1>1, <1>2, <1>3, <1>4, <1>5, <1>6, <1>7, <1>8 DEF Resumes

LEMMA SessionThinksKeeping ==
    ASSUME TypeOK, TypeOK', SInv, NEW c \in Copies, SessionThinks(c)
    PROVE  Keeping
<1>1. CASE Handshake(c) \/ InitialDecoder(c) \/ CustomerRegistration(c)
  BY <1>1, HandshakeKeeping, InitialDecoderKeeping, CustomerRegistrationKeeping
<1>2. ASSUME NEW sel \in {"office", "service"},
             \/ SkipSelection(c, sel) \/ process_input(c, sel)
             \/ OfferDefault(c, sel) \/ ImposeDefault(c, sel)
      PROVE  Keeping
  BY <1>2, SkipSelectionKeeping, process_inputKeeping, OfferDefaultKeeping, ImposeDefaultKeeping
<1>3. CASE ProviderSelection(c) \/ AppointmentSelection(c) \/ Finish(c)
  BY <1>3, ProviderSelectionKeeping, AppointmentSelectionKeeping, FinishKeeping
<1>. QED BY <1>1, <1>2, <1>3 DEF SessionThinks

LEMMA AptThinksKeeping ==
    ASSUME TypeOK, TypeOK', SInv, NEW c \in Copies, AptThinks(c)
    PROVE  Keeping
BY AptHandshakeKeeping, InputDateKeeping, DisplayResultKeeping, SummaryKeeping,
   AptFinishKeeping DEF AptThinks

LEMMA NextKeeping ==
    TypeOK /\ Settled /\ SInv /\ [Next]_vars
        => Keeping \/ \E i \in DOMAIN stack : Undone(i)
<1>. SUFFICES ASSUME TypeOK, Settled, SInv, [Next]_vars
              PROVE  Keeping \/ \E i \in DOMAIN stack : Undone(i)
  OBVIOUS
<1>0. TypeOK'
  BY NextType
<1>1. ASSUME NEW d, NEW i, Request(d, i) PROVE Keeping
  BY <1>0, <1>1, RequestKeeping
<1>2. ASSUME NEW c \in Copies, SessionThinks(c) \/ AptThinks(c) PROVE Keeping
  BY <1>0, <1>2, SessionThinksKeeping, AptThinksKeeping
<1>3. CASE Transitions
  <2>1. CASE RefuseSession \/ RefuseApt \/ Guard
    <3>1. Running /\ \E why : Refuse(why)
      BY <2>1 DEF RefuseSession, RefuseApt, Guard, At, Running
    <3>. QED BY <1>0, <3>1, RefuseKeeping
  <2>. QED BY <1>0, <1>3, <2>1, TransitionsKeeping DEF Transitions
<1>4. CASE Resumes
  BY <1>0, <1>4, ResumesKeeping
<1>5. CASE Abort
  BY <1>5, RaiseKeeping DEF Abort
<1>6. CASE UNCHANGED vars
  <2>1. SInv'
    BY <1>6 DEF SInv, vars, Owed, Sound, Imposed, count, mode, Running, Live, Agrees, Held,
       LiveFrame, Full, Made
  <2>. QED BY <1>6, <2>1 DEF vars, Keeping, Forward
<1>. QED BY <1>1, <1>2, <1>3, <1>4, <1>5, <1>6 DEF Next, Work

-------------------------------------------------------------------------------
(* The calls under way while a selection is missing from the committed row: *)
(* the innermost ones within a transaction, or about to begin one, and      *)
(* below them only the request's own, which ask the engine of the committed *)
(* state once more than it will answer.                                     *)

Rest == {f \in Frame : f.op \in {"respond", "done"} \/ f = Logic("session", 1)}

Called(s) == [op |-> "done", eng |-> <<"session", 1, s>>]

Answering(base, s) ==
    \A j \in DOMAIN base : base[j].op = "logic" => \E k \in 1..(j - 1) : base[k] = Called(s)

Open(top) == top # <<>> /\ top[Len(top)].op = "commit"

Opening(top) == Len(top) = 1 /\ top[1].op \in {"to_session", "provider"}

Split(top, base) ==
    /\ top \in Seq(Frame) /\ base \in Seq(Rest) /\ stack = top \o base
    /\ top # <<>> =>
          /\ Answering(base, disk.state)
          /\ \/ Open(top) /\ (disk.state = "customer_registration" => disk.named)
             \/ Opening(top)

Calm == ~Full(disk) => \E top, base : Split(top, base)

LEMMA RestFrame ==
    /\ Rest \subseteq Frame
    /\ \A s \in Seq(Rest) : s \in Seq(Frame)
    /\ \A f \in Rest : f.op \in {"respond", "done", "logic"}
BY DEF Rest, Logic

LEMMA EmptyCalm ==
    ASSUME stack' = <<>>
    PROVE  Calm'
<1>1. Split(<<>>, <<>>)'
  BY DEF Split
<1>. QED BY <1>1 DEF Calm

(* What is below the open calls stays, whatever they are replaced by.       *)
LEMMA TopReplaced ==
    ASSUME NEW top \in Seq(Frame), NEW base \in Seq(Rest), stack = top \o base, top # <<>>,
           NEW fs \in Seq(Frame)
    PROVE  /\ stack # <<>> /\ Head(stack) = top[1]
           /\ fs \o Tail(top) \in Seq(Frame)
           /\ fs \o Tail(stack) = (fs \o Tail(top)) \o base
           /\ Open(top) /\ Len(top) # 1 => Open(fs \o Tail(top))
           /\ Len(top) = 1 => fs \o Tail(top) = fs
<1>1. base \in Seq(Frame) /\ Len(top) \in Nat \ {0} /\ Len(base) \in Nat /\ Len(fs) \in Nat
  BY RestFrame, EmptySeq
<1>2. /\ stack \in Seq(Frame) /\ Len(stack) = Len(top) + Len(base)
      /\ \A j \in 1..(Len(top) + Len(base)) :
            stack[j] = IF j <= Len(top) THEN top[j] ELSE base[j - Len(top)]
  BY <1>1, ConcatProperties
<1>3. stack # <<>> /\ Head(stack) = top[1]
  <2>1. stack # <<>>
    BY <1>1, <1>2
  <2>. QED BY <1>1, <1>2, <2>1
<1>4. /\ Tail(top) \in Seq(Frame) /\ Len(Tail(top)) = Len(top) - 1
      /\ \A j \in 1..(Len(top) - 1) : Tail(top)[j] = top[j + 1]
  BY HeadTailProperties
<1>5. /\ Tail(stack) \in Seq(Frame) /\ Len(Tail(stack)) = Len(stack) - 1
      /\ \A j \in 1..(Len(stack) - 1) : Tail(stack)[j] = stack[j + 1]
  BY <1>2, <1>3, HeadTailProperties
<1>6. Tail(stack) = Tail(top) \o base
  <2>. DEFINE u == Tail(top) \o base
  <2>1. /\ u \in Seq(Frame) /\ Len(u) = Len(top) - 1 + Len(base)
        /\ \A j \in 1..(Len(top) - 1 + Len(base)) :
              u[j] = IF j <= Len(top) - 1 THEN Tail(top)[j] ELSE base[j - (Len(top) - 1)]
    BY <1>1, <1>4, ConcatProperties
  <2>. HIDE DEF u
  <2>2. \A j \in 1..Len(u) : u[j] = Tail(stack)[j]
    <3>. SUFFICES ASSUME NEW j \in 1..Len(u) PROVE u[j] = Tail(stack)[j]
      OBVIOUS
    <3>1. j \in 1..(Len(stack) - 1) /\ j + 1 \in 1..(Len(top) + Len(base))
      BY <1>1, <1>2, <2>1
    <3>2. Tail(stack)[j] = IF j + 1 <= Len(top) THEN top[j + 1] ELSE base[j + 1 - Len(top)]
      BY <1>2, <1>5, <3>1
    <3>3. CASE j + 1 <= Len(top)
      BY <1>1, <1>4, <2>1, <3>2, <3>3
    <3>4. CASE ~(j + 1 <= Len(top))
      <4>1. j - (Len(top) - 1) = j + 1 - Len(top) /\ ~(j <= Len(top) - 1)
        BY <1>1, <3>4
      <4>. QED BY <2>1, <3>2, <3>4, <4>1
    <3>. QED BY <3>3, <3>4
  <2>3. Len(u) = Len(Tail(stack))
    BY <1>1, <1>2, <1>5, <2>1
  <2>4. u = Tail(stack)
    BY <1>5, <2>1, <2>2, <2>3, SeqEqual
  <2>. QED BY <2>4 DEF u
<1>7. fs \o Tail(top) \in Seq(Frame) /\ fs \o Tail(stack) = (fs \o Tail(top)) \o base
  BY <1>1, <1>4, <1>6, ConcatProperties, ConcatAssociative
<1>8. Open(top) /\ Len(top) # 1 => Open(fs \o Tail(top))
  <2>. DEFINE u == fs \o Tail(top)
  <2>. SUFFICES ASSUME Open(top), Len(top) # 1 PROVE Open(u)
    OBVIOUS
  <2>1. /\ Len(u) = Len(fs) + (Len(top) - 1)
        /\ \A j \in 1..(Len(fs) + (Len(top) - 1)) :
              u[j] = IF j <= Len(fs) THEN fs[j] ELSE Tail(top)[j - Len(fs)]
    BY <1>4, ConcatProperties
  <2>. HIDE DEF u
  <2>2. u[Len(u)] = Tail(top)[Len(top) - 1] /\ Len(u) # 0
    <3>. DEFINE n == Len(top) - 1
    <3>1. n \in Nat \ {0} /\ Len(fs) \in Nat
      BY <1>1
    <3>2. /\ Len(u) = Len(fs) + n
          /\ \A j \in 1..(Len(fs) + n) :
                u[j] = IF j <= Len(fs) THEN fs[j] ELSE Tail(top)[j - Len(fs)]
      BY <2>1
    <3>. HIDE DEF n
    <3>3. /\ Len(fs) + n \in 1..(Len(fs) + n) /\ ~(Len(fs) + n <= Len(fs))
          /\ Len(fs) + n - Len(fs) = n /\ Len(fs) + n # 0
      BY <3>1
    <3>4. ASSUME NEW k, k = Len(fs) + n PROVE u[k] = Tail(top)[k - Len(fs)]
      <4>1. k \in 1..(Len(fs) + n) /\ ~(k <= Len(fs))
        BY <3>3, <3>4
      <4>. QED BY <3>2, <4>1
    <3>5. u[Len(u)] = Tail(top)[n]
      <4>. DEFINE k == Len(u)
      <4>1. k = Len(fs) + n /\ k - Len(fs) = n
        BY <3>1, <3>2
      <4>. HIDE DEF k
      <4>2. u[k] = Tail(top)[k - Len(fs)]
        BY <3>4, <4>1
      <4>3. u[k] = Tail(top)[n]
        BY <4>1, <4>2
      <4>. QED BY <4>3 DEF k
    <3>. QED BY <3>2, <3>3, <3>5 DEF n
  <2>3. u[Len(u)] = top[Len(top)] /\ u # <<>>
    BY <1>1, <1>4, <2>2
  <2>. QED BY <2>3 DEF Open
<1>9. ASSUME Len(top) = 1 PROVE fs \o Tail(top) = fs
  <2>1. Tail(top) = <<>>
    <3>1. Len(Tail(top)) = 0
      BY <1>4, <1>9
    <3>. QED BY <1>4, <3>1, EmptySeq
  <2>. QED BY <2>1, ConcatEmptySeq
<1>. QED BY <1>3, <1>7, <1>8, <1>9

LEMMA CallsLeft ==
    ASSUME NEW s \in Seq(Frame), NEW i \in DOMAIN s
    PROVE  LET over == SubSeq(s, i + 1, Len(s)) IN
           /\ over \in Seq(Frame) /\ Len(over) = Len(s) - i
           /\ \A j \in 1..(Len(s) - i) : over[j] = s[i + j]
<1>. DEFINE m == Len(s)
            over == SubSeq(s, i + 1, m)
<1>1. m \in Nat /\ i \in 1..m
  OBVIOUS
<1>2. \A k \in i+1..m : s[k] \in Frame
  BY <1>1
<1>3. /\ over \in Seq(Frame)
      /\ Len(over) = IF i + 1 <= m THEN m - (i + 1) + 1 ELSE 0
      /\ \A j \in 1..m - (i + 1) + 1 : over[j] = s[i + 1 + j - 1]
  <2>1. i + 1 \in Int /\ m \in Int
    BY <1>1
  <2>. HIDE DEF m
  <2>. QED BY <1>2, <2>1, SubSeqProperties
<1>. HIDE DEF m, over
<1>4. Len(over) = m - i
  BY <1>1, <1>3
<1>5. ASSUME NEW j \in 1..(m - i) PROVE over[j] = s[i + j]
  <2>1. j \in 1..m - (i + 1) + 1 /\ i + 1 + j - 1 = i + j
    BY <1>1
  <2>. QED BY <1>3, <2>1
<1>. QED BY <1>3, <1>4, <1>5 DEF m, over

(* A refusal ends calls of the top only.                                    *)
LEMMA TopUnwound ==
    ASSUME NEW top \in Seq(Frame), NEW base \in Seq(Rest), stack = top \o base, top # <<>>,
           NEW i \in DOMAIN stack, i = 1 \/ stack[i].op \in {"commit", "guard"}
    PROVE  LET over == SubSeq(top, i + 1, Len(top)) IN
           /\ i \in 1..Len(top)
           /\ over \in Seq(Frame)
           /\ SubSeq(stack, i + 1, Len(stack)) = over \o base
           /\ i = Len(top) => over = <<>>
           /\ Open(top) /\ i # Len(top) => Open(over)
<1>. DEFINE over == SubSeq(top, i + 1, Len(top))
            rest == SubSeq(stack, i + 1, Len(stack))
            m == Len(top)
            n == Len(base)
<1>1. base \in Seq(Frame) /\ m \in Nat \ {0} /\ n \in Nat
  BY RestFrame, EmptySeq
<1>2. /\ stack \in Seq(Frame) /\ Len(stack) = m + n
      /\ \A j \in 1..(m + n) : stack[j] = IF j <= m THEN top[j] ELSE base[j - m]
  BY <1>1, ConcatProperties
<1>3. i \in 1..(m + n)
  BY <1>2
<1>4. i \in 1..m
  <2>1. CASE i = 1
    BY <1>1, <2>1
  <2>2. ASSUME i > m, stack[i].op \in {"commit", "guard"} PROVE FALSE
    <3>1. i - m \in 1..n /\ ~(i <= m)
      BY <1>1, <1>3, <2>2
    <3>2. stack[i] = base[i - m]
      BY <1>2, <1>3, <3>1
    <3>3. base[i - m] \in Rest
      BY <3>1
    <3>. QED BY <2>2, <3>2, <3>3, RestFrame
  <2>. QED BY <1>1, <1>3, <2>1, <2>2
<1>5. /\ over \in Seq(Frame) /\ Len(over) = m - i
      /\ \A j \in 1..(m - i) : over[j] = top[i + j]
  <2>1. i \in DOMAIN top
    BY <1>1, <1>4
  <2>. QED BY <2>1, CallsLeft
<1>6. /\ rest \in Seq(Frame) /\ Len(rest) = (m + n) - i
      /\ \A j \in 1..((m + n) - i) : rest[j] = stack[i + j]
  <2>1. /\ rest \in Seq(Frame) /\ Len(rest) = Len(stack) - i
        /\ \A j \in 1..(Len(stack) - i) : rest[j] = stack[i + j]
    BY <1>2, CallsLeft
  <2>2. Len(stack) = m + n
    BY <1>2
  <2>. HIDE DEF m, n, rest
  <2>. QED BY <2>1, <2>2
<1>7. /\ over \o base \in Seq(Frame) /\ Len(over \o base) = m - i + n
      /\ \A j \in 1..(m - i + n) :
            (over \o base)[j] = IF j <= m - i THEN over[j] ELSE base[j - (m - i)]
  BY <1>1, <1>5, ConcatProperties
<1>. HIDE DEF m, n, over, rest
<1>8. rest = over \o base
  <2>. DEFINE u == over \o base
  <2>. HIDE DEF u
  <2>1. /\ u \in Seq(Frame) /\ Len(u) = m - i + n
        /\ \A j \in 1..(m - i + n) : u[j] = IF j <= m - i THEN over[j] ELSE base[j - (m - i)]
    BY <1>7 DEF u
  <2>2. Len(rest) = Len(u)
    BY <1>1, <1>4, <1>6, <2>1
  <2>3. ASSUME NEW j \in 1..Len(rest) PROVE rest[j] = u[j]
    <3>1. j \in 1..((m + n) - i) /\ j \in 1..(m - i + n) /\ i + j \in 1..(m + n)
      BY <1>1, <1>4, <1>6, <2>3
    <3>2. rest[j] = stack[i + j]
      BY <1>6, <3>1
    <3>3. CASE j <= m - i
      <4>1. i + j <= m /\ j \in 1..(m - i)
        BY <1>1, <1>4, <3>1, <3>3
      <4>2. stack[i + j] = top[i + j]
        BY <1>2, <3>1, <4>1
      <4>3. u[j] = over[j] /\ over[j] = top[i + j]
        BY <1>5, <2>1, <3>1, <3>3, <4>1
      <4>. QED BY <3>2, <4>2, <4>3
    <3>4. CASE ~(j <= m - i)
      <4>1. ~(i + j <= m) /\ (i + j) - m = j - (m - i)
        BY <1>1, <1>4, <3>1, <3>4
      <4>2. stack[i + j] = base[(i + j) - m]
        <5>. DEFINE k == i + j
        <5>1. k \in 1..(m + n) /\ ~(k <= m)
          BY <3>1, <4>1
        <5>. HIDE DEF k
        <5>2. stack[k] = base[k - m]
          BY <1>2, <5>1
        <5>. QED BY <5>2 DEF k
      <4>3. u[j] = base[j - (m - i)]
        BY <2>1, <3>1, <3>4
      <4>. QED BY <3>2, <4>1, <4>2, <4>3
    <3>. QED BY <3>3, <3>4
  <2>4. rest = u
    BY <1>6, <2>1, <2>2, <2>3, SeqEqual
  <2>. QED BY <2>4 DEF u
<1>9. ASSUME i = m PROVE over = <<>>
  <2>1. Len(over) = 0
    BY <1>1, <1>5, <1>9
  <2>. QED BY <1>5, <2>1, EmptySeq
<1>10. ASSUME Open(top), i # m PROVE Open(over)
  <2>1. Len(over) = m - i /\ m - i \in 1..(m - i) /\ i + (m - i) = m /\ m - i # 0
    BY <1>1, <1>4, <1>5, <1>10
  <2>2. over[m - i] = top[i + (m - i)]
    BY <1>5, <2>1
  <2>3. over[Len(over)] = top[m] /\ over # <<>>
    BY <2>1, <2>2, <1>5, EmptySeq
  <2>. QED BY <1>10, <2>3 DEF Open, m
<1>. QED BY <1>4, <1>5, <1>8, <1>9, <1>10 DEF m, over, rest

LEMMA CalmFrom ==
    ASSUME NEW top \in Seq(Frame), NEW base \in Seq(Rest), stack' = top \o base,
           top # <<>> =>
              /\ Answering(base, disk'.state)
              /\ \/ Open(top) /\ (disk'.state = "customer_registration" => disk'.named)
                 \/ Opening(top)
    PROVE  Calm'
<1>1. Split(top, base)'
  BY DEF Split
<1>. QED BY <1>1 DEF Calm

LEMMA BaseCalm ==
    ASSUME NEW base \in Seq(Rest), stack' = base
    PROVE  Calm'
<1>1. base \in Seq(Frame) /\ <<>> \o base = base /\ <<>> \in Seq(Frame)
  BY RestFrame, ConcatEmptySeq
<1>. QED BY <1>1, CalmFrom

LEMMA SessionThinksAt ==
    ASSUME NEW c, SessionThinks(c)
    PROVE  At("logic") /\ Head(stack).c = c /\ <<"session", c, db.state>> \notin thinked
BY DEF current_state, SessionThinks, Handshake, InitialDecoder, CustomerRegistration, SkipSelection,
   process_input, OfferDefault, ImposeDefault, Selecting, ProviderSelection,
   AppointmentSelection, Finish, Thinking

LEMMA WorkHeads ==
    ASSUME Work
    PROVE  \/ AlreadyThinked \/ Done \/ Respond \/ ProviderSelectionRest
           \/ EnterSessionState \/ reset_appointment_selection \/ RefuseSession
           \/ \E c \in Copies : SessionThinks(c)
           \/ At("logic") /\ Head(stack).m = "apt"
           \/ /\ stack # <<>>
              /\ Head(stack).op \notin {"logic", "done", "respond", "provider", "to_session"}
<1>1. ASSUME NEW c, AptThinks(c) PROVE At("logic") /\ Head(stack).m = "apt"
  BY <1>1 DEF AptThinks, AptHandshake, InitialInputDate, RepeatInputDate, DisplayResult,
     Summary, AptFinish, Thinking
<1>2. CASE Transitions
  BY <1>2 DEF Transitions, Reset, Guard, EnterAptState, RefuseApt, At
<1>3. CASE Resumes
  BY <1>3 DEF Resumes, Commit, SaveDate, Book, Choose, process_actions, SummaryRaises,
     SummaryRest, SummaryFinish, Render, At
<1>. QED BY <1>1, <1>2, <1>3 DEF Work

LEMMA OpenCalm ==
    ASSUME TypeOK, Settled, NEW top \in Seq(Frame), NEW base \in Seq(Rest),
           stack = top \o base, Open(top), Answering(base, disk.state),
           disk.state = "customer_registration" => disk.named, Work \/ Abort
    PROVE  Calm'
<1>1. /\ top # <<>> /\ stack # <<>> /\ Head(stack) = top[1]
      /\ Head(stack).op # "commit" => Len(top) # 1
  <2>1. top # <<>> /\ <<>> \in Seq(Frame)
    BY DEF Open
  <2>. QED BY <2>1, TopReplaced DEF Open
<1>2. InTransaction /\ Tail(stack) \in Seq(Frame)
  <2>1. Len(top) \in DOMAIN stack /\ stack[Len(top)] = top[Len(top)]
    BY <1>1, RestFrame, ConcatProperties, EmptySeq
  <2>. QED BY <1>1, <2>1, HeadAndTail DEF InTransaction, Open, TypeOK
<1>3. ASSUME NEW fs \in Seq(Frame), stack' = fs \o Tail(stack), Len(top) # 1, disk' = disk
      PROVE  Calm'
  <2>1. /\ fs \o Tail(top) \in Seq(Frame) /\ stack' = (fs \o Tail(top)) \o base
        /\ Open(fs \o Tail(top))
    BY <1>1, <1>3, TopReplaced
  <2>. QED BY <1>3, <2>1, CalmFrom
<1>4. CASE Goes
  <2>1. PICK fs \in Seq(Call) : stack' = fs \o Tail(stack)
    BY <1>4 DEF Goes
  <2>2. disk' = disk /\ Head(stack).op # "commit"
    BY <1>2, <1>4 DEF Goes, Writes, Write, Call
  <2>. QED BY <1>1, <1>3, <2>1, <2>2, CallFrames
<1>5. CASE Raises
  BY <1>5, EmptyCalm DEF Raises, RaiseAfter, Answer
<1>6. CASE Refuses
  <2>1. PICK why : Refuse(why)
    BY <1>6 DEF Refuses
  <2>2. CASE Raise(why)
    BY <2>2, EmptyCalm DEF Raise, RaiseAfter, Answer
  <2>3. ASSUME NEW i \in DOMAIN stack, Catches(i, why), Unwind(i) PROVE Calm'
    <3>. DEFINE over == SubSeq(top, i + 1, Len(top))
    <3>1. i = 1 \/ stack[i].op \in {"commit", "guard"}
      BY <2>3 DEF Catches
    <3>2. /\ over \in Seq(Frame) /\ SubSeq(stack, i + 1, Len(stack)) = over \o base
          /\ i = Len(top) => over = <<>>
          /\ i # Len(top) => Open(over)
      BY <1>1, <3>1, TopUnwound
    <3>3. stack' = over \o base /\ disk' = disk
      BY <2>3, <3>2 DEF Unwind
    <3>. HIDE DEF over
    <3>. QED BY <3>2, <3>3, CalmFrom
  <2>. QED BY <2>1, <2>2, <2>3 DEF Refuse
<1>7. CASE EnterSessionState \/ EnterAptState
  <2>. DEFINE fs == <<Logic(IF At("to_session") THEN "session" ELSE "apt", Head(stack).c),
                      Transaction>>
  <2>1. stack' = fs \o Tail(stack) /\ disk' = disk /\ Head(stack).op # "commit"
    BY <1>7 DEF EnterSessionState, EnterAptState, At, Continues
  <2>2. fs \in Seq(Frame)
    <3>1. /\ Head(stack).c \in Copies
          /\ Head(stack).rescues \in SUBSET {"denied", "undeclared"}
      BY <1>1, <1>7, HeadAndTail, FrameFields DEF TypeOK, EnterSessionState, EnterAptState, At
    <3>2. /\ Transaction \in Frame
          /\ Logic(IF At("to_session") THEN "session" ELSE "apt", Head(stack).c) \in Frame
      BY <3>1, FramesType DEF Transaction
    <3>3. \A f, g \in Frame : <<f, g>> \in Seq(Frame)
      OBVIOUS
    <3>. QED BY <3>2, <3>3
  <2>. HIDE DEF fs
  <2>. QED BY <1>1, <1>3, <2>1, <2>2
<1>8. CASE Commit
  <2>1. stack' = Tail(stack) /\ <<>> \o Tail(stack) = Tail(stack) /\ <<>> \in Seq(Frame)
    BY <1>2, <1>8, ConcatEmptySeq DEF Commit, Continues
  <2>2. CASE Len(top) = 1
    <3>1. stack' = <<>> \o base
      <4>1. <<>> \o Tail(top) = <<>> /\ <<>> \o Tail(stack) = (<<>> \o Tail(top)) \o base
        BY <1>1, <2>1, <2>2, TopReplaced
      <4>. QED BY <2>1, <4>1
    <3>. QED BY <2>1, <3>1, CalmFrom
  <2>3. CASE Len(top) # 1
    <3>1. InTransaction'
      <4>0. Tail(top) \in Seq(Frame) /\ <<>> \o Tail(top) = Tail(top)
        <5>1. Tail(top) \in Seq(Frame)
          BY <1>1
        <5>. QED BY <5>1, ConcatEmptySeq
      <4>1. /\ Tail(stack) = Tail(top) \o base /\ Tail(top) \in Seq(Frame)
            /\ Open(Tail(top))
        <5>1. /\ <<>> \o Tail(stack) = (<<>> \o Tail(top)) \o base
              /\ Open(<<>> \o Tail(top))
          BY <1>1, <2>1, <2>3, TopReplaced
        <5>. QED BY <2>1, <4>0, <5>1
      <4>2. stack' = Tail(top) \o base /\ Open(Tail(top))
        BY <2>1, <4>1
      <4>3. Len(Tail(top)) \in DOMAIN stack' /\ stack'[Len(Tail(top))] = Tail(top)[Len(Tail(top))]
        BY <4>1, <4>2, RestFrame, ConcatProperties, EmptySeq DEF Open
      <4>. QED BY <4>2, <4>3 DEF InTransaction, Open
    <3>2. disk' = disk
      BY <1>8, <2>1, <3>1 DEF Commit, InTransaction
    <3>. QED BY <1>3, <2>1, <2>3, <3>2
  <2>. QED BY <2>2, <2>3
<1>9. CASE Respond \/ Render
  <2>1. ~InTransaction
    BY <1>9, LastCall DEF Respond, Render, At, Answers
  <2>. QED BY <1>2, <2>1
<1>. QED BY <1>4, <1>5, <1>6, <1>7, <1>8, <1>9, WorkSteps

(* A row that finishes, or may finish next, has every selection.            *)
LEMMA FullRow ==
    ASSUME TypeOK, NEW d \in Database, Owed(d), ~Full(d)
    PROVE  d.state \notin {"appointment_selection", "finish"}
BY DEF Owed, Needed, Full, Registered

LEMMA OpeningCalm ==
    ASSUME TypeOK, TypeOK', Settled, SInv, NEW top \in Seq(Frame), NEW base \in Seq(Rest),
           stack = top \o base, Opening(top), Answering(base, disk.state), ~Full(disk),
           Work \/ Abort
    PROVE  Calm'
<1>1. /\ top # <<>> /\ stack # <<>> /\ Head(stack) = top[1] /\ Tail(stack) = base
      /\ Running
  <2>1. top # <<>> /\ <<>> \in Seq(Frame)
    <3>1. Len(<<>>) # 1 /\ <<>> \in Seq(Frame)
      OBVIOUS
    <3>2. Len(top) = 1
      BY DEF Opening
    <3>. QED BY <3>1, <3>2, Zenon
  <2>2. /\ stack # <<>> /\ Head(stack) = top[1] /\ <<>> \o Tail(top) = <<>>
        /\ <<>> \o Tail(stack) = (<<>> \o Tail(top)) \o base
    BY <2>1, TopReplaced DEF Opening
  <2>3. <<>> \o Tail(stack) = Tail(stack) /\ <<>> \o base = base
    BY <2>2, RestFrame, HeadAndTail, ConcatEmptySeq DEF TypeOK
  <2>. QED BY <2>1, <2>2, <2>3 DEF Running
<1>2. ~InTransaction /\ db = disk /\ db \in Database /\ Owed(db)
  <2>1. ~InTransaction
    <3>. SUFFICES ASSUME NEW i \in DOMAIN stack, stack[i].op = "commit" PROVE FALSE
      BY DEF InTransaction
    <3>1. i \in 1..Len(top)
      BY <1>1, TopUnwound
    <3>2. i = 1 /\ stack[i] = Head(stack)
      BY <1>1, <3>1 DEF Opening, TypeOK
    <3>. QED BY <1>1, <3>2 DEF Opening
  <2>. QED BY <2>1 DEF Settled, SInv, TypeOK
<1>3. db.state \notin {"appointment_selection", "finish"}
  BY <1>2, FullRow
<1>4. ASSUME Abort \/ Raises PROVE Calm'
  BY <1>4, EmptyCalm DEF Abort, Raise, Raises, RaiseAfter, Answer
<1>5. CASE ProviderSelectionRest
  <2>1. PICK fs \in Seq(Call) : stack' = fs \o Tail(stack) /\ Shallow(fs)
    BY <1>5, ProviderRestGoes
  <2>2. fs \in Seq(Frame) /\ stack' = fs \o base /\ (fs # <<>> => Opening(fs))
    BY <1>1, <2>1, CallFrames DEF Shallow, Opening
  <2>3. disk'.state = disk.state
    BY <1>2, <1>5, ProviderRestGoes, GoesSettled DEF Settled
  <2>. QED BY <2>2, <2>3, CalmFrom
<1>6. CASE EnterSessionState
  <2>. DEFINE fs == <<Logic("session", Head(stack).c), Transaction>>
  <2>1. /\ stack' = fs \o base /\ disk' = disk
        /\ Live(Head(stack).c) /\ Head(stack).c \in Copies
    BY <1>1, <1>6, FrameLive DEF EnterSessionState, Continues, At
  <2>2. /\ Transaction \in Frame /\ Transaction.op = "commit"
        /\ Logic("session", Head(stack).c) \in Frame
    <3>1. /\ Head(stack).rescues \in SUBSET {"denied", "undeclared"}
      BY <1>1, <1>6, FrameLive, FrameFields DEF EnterSessionState, At
    <3>. QED BY <2>1, <3>1, FramesType DEF Transaction
  <2>3. \A f, g \in Frame : /\ <<f, g>> \in Seq(Frame) /\ Len(<<f, g>>) = 2
                            /\ <<f, g>>[2] = g
    OBVIOUS
  <2>4. fs \in Seq(Frame) /\ fs # <<>> /\ Open(fs)
    BY <2>2, <2>3 DEF Open
  <2>5. disk'.state = "customer_registration" => disk'.named
    BY <1>1, <1>2, <1>6, <2>1 DEF EnterSessionState, Approved, SInv, Agrees, Sound
  <2>. HIDE DEF fs
  <2>. QED BY <2>1, <2>4, <2>5, CalmFrom
<1>7. CASE reset_appointment_selection
  <2>1. "finish" \in successors(db.state)
    BY <1>7 DEF reset_appointment_selection, Declared, SentBack
  <2>2. db.state \in SessionStates \ {"appointment_selection", "finish"}
    BY <1>2, <1>3 DEF Database
  <2>. QED BY <2>1, <2>2, NextOf DEF successors, SessionStates
<1>8. CASE RefuseSession
  <2>1. PICK why : Refuse(why)
    BY <1>8 DEF RefuseSession
  <2>2. CASE Raise(why)
    BY <1>4, <2>2 DEF Raise, Raises
  <2>3. ASSUME NEW i \in DOMAIN stack, Catches(i, why), Unwind(i) PROVE Calm'
    <3>. DEFINE over == SubSeq(top, i + 1, Len(top))
    <3>1. i = 1 \/ stack[i].op \in {"commit", "guard"}
      BY <2>3 DEF Catches
    <3>2. /\ i \in 1..Len(top) /\ SubSeq(stack, i + 1, Len(stack)) = over \o base
          /\ i = Len(top) => over = <<>>
      BY <1>1, <3>1, TopUnwound
    <3>3. i = Len(top)
      BY <3>2 DEF Opening
    <3>4. stack' = <<>> \o base /\ <<>> \o base = base
      BY <2>3, <3>2, <3>3, RestFrame, ConcatEmptySeq DEF Unwind
    <3>. HIDE DEF over
    <3>. QED BY <3>4, BaseCalm
  <2>. QED BY <2>1, <2>2, <2>3 DEF Refuse
<1>9. ASSUME Work, ~ProviderSelectionRest, ~EnterSessionState, ~reset_appointment_selection,
             ~RefuseSession
      PROVE  FALSE
  <2>1. Head(stack).op \in {"to_session", "provider"}
    BY <1>1 DEF Opening
  <2>2. ASSUME NEW c, SessionThinks(c) PROVE At("logic")
    BY <2>2, SessionThinksAt
  <2>. QED BY <1>9, <2>1, <2>2, WorkHeads DEF AlreadyThinked, Done, Respond, At
<1>. QED BY <1>4, <1>5, <1>6, <1>7, <1>8, <1>9

LEMMA RestCalm ==
    ASSUME TypeOK, TypeOK', Settled, SInv, stack \in Seq(Rest), stack # <<>>, ~Full(disk),
           Work \/ Abort
    PROVE  Calm'
<1>1. /\ Head(stack) \in Rest /\ Tail(stack) \in Seq(Rest) /\ Running
      /\ \A i \in DOMAIN stack : stack[i] \in Rest
  BY DEF Running
<1>2. ~InTransaction /\ db = disk /\ db \in Database /\ Owed(db)
  <2>1. ~InTransaction
    BY <1>1, RestFrame DEF InTransaction
  <2>. QED BY <2>1 DEF Settled, SInv, TypeOK
<1>3. db.state \notin {"appointment_selection", "finish"}
  BY <1>2, FullRow
<1>4. CASE AlreadyThinked \/ Done
  <2>1. stack' = Tail(stack)
    BY <1>1, <1>4, ConcatEmptySeq DEF AlreadyThinked, Done, Continues
  <2>. QED BY <1>1, <2>1, BaseCalm
<1>5. CASE Respond
  BY <1>3, <1>5, EmptyCalm DEF Respond, Replying, Answer
<1>6. ASSUME NEW s, Thinks(1, s) PROVE Calm'
  <2>. DEFINE base == <<Called(db.state)>> \o Tail(stack)
  <2>1. PICK fs \in Seq(Call) : Calls(fs) /\ Shallow(fs)
    BY <1>6 DEF Thinks
  <2>2. /\ Head(stack).m = "session" /\ Head(stack).c = 1
        /\ current_state("session") = db.state
    BY <1>6 DEF Thinks, Thinking, current_state
  <2>3. stack' = fs \o base
    <3>1. stack' = fs \o <<Called(db.state)>> \o Tail(stack)
      BY <2>1, <2>2 DEF Calls, Called
    <3>2. Called(db.state) \in Rest
      BY <1>2 DEF Called, Rest, Frame, Engines, Database, Copies
    <3>3. /\ fs \in Seq(Frame) /\ <<Called(db.state)>> \in Seq(Frame)
          /\ Tail(stack) \in Seq(Frame)
      BY <1>1, <3>2, RestFrame, CallFrames
    <3>. HIDE DEF Called
    <3>. QED BY <3>1, <3>3, ConcatAssociative
  <2>4. Called(db.state) \in Rest
    BY <1>2 DEF Called, Rest, Frame, Engines, Database, Copies
  <2>5. base \in Seq(Rest) /\ base[1] = Called(db.state) /\ DOMAIN base \subseteq Nat \ {0}
    BY <1>1, <2>4
  <2>6. disk'.state = db.state
    <3>1. Goes /\ db'.state = db.state
      BY <1>6, ThinksGoes DEF Thinks, Copies
    <3>. QED BY <1>2, <3>1, GoesSettled DEF Settled
  <2>. HIDE DEF base
  <2>7. Answering(base, disk'.state)
    <3>. SUFFICES ASSUME NEW j \in DOMAIN base, base[j].op = "logic"
                  PROVE  \E k \in 1..(j - 1) : base[k] = Called(disk'.state)
      BY DEF Answering
    <3>1. j # 1 /\ j \in Nat \ {0}
      BY <2>5 DEF Called
    <3>2. 1 \in 1..(j - 1)
      BY <3>1
    <3>. QED BY <2>5, <2>6, <3>2
  <2>8. fs \in Seq(Frame) /\ (fs # <<>> => Opening(fs))
    BY <2>1, CallFrames DEF Shallow, Opening
  <2>. QED BY <2>3, <2>5, <2>7, <2>8, CalmFrom
<1>7. ASSUME NEW c \in Copies, SessionThinks(c) PROVE Calm'
  <2>1. At("logic") /\ Head(stack).c = c
    BY <1>7, SessionThinksAt
  <2>2. c = 1
    BY <1>1, <2>1 DEF At, Rest, Logic
  <2>3. CASE Handshake(c) \/ InitialDecoder(c) \/ CustomerRegistration(c)
    BY <1>6, <2>2, <2>3, LinearThinks
  <2>4. ASSUME NEW sel \in {"office", "service"},
               \/ SkipSelection(c, sel) \/ process_input(c, sel)
               \/ OfferDefault(c, sel) \/ ImposeDefault(c, sel)
        PROVE  Calm'
    BY <1>6, <2>2, <2>4, SelectionThinks
  <2>5. CASE ProviderSelection(c)
    <3>1. db.state = "provider_selection"
      BY <2>5 DEF ProviderSelection, Thinking, current_state
    <3>2. ASSUME Complete(c, "provider_selection") PROVE FALSE
      <4>1. "appointment_selection" \in successors(db.state)
        BY <3>1, NextOf DEF successors
      <4>2. Needed("appointment_selection") \subseteq Made(db.store) /\ db.named
        <5>1. Live(c) /\ db.state \in mem[c].store.complete
          BY <2>2, <3>1, <3>2 DEF Live, Complete
        <5>. QED BY <1>1, <4>1, <5>1, ApprovedOwed DEF Registered
      <4>. QED BY <1>2, <4>2 DEF Needed, Full
    <3>. QED BY <1>6, <2>2, <2>5, <3>2, ProviderGoes
  <2>6. CASE AppointmentSelection(c) \/ Finish(c)
    BY <1>3, <2>6 DEF AppointmentSelection, Finish, Thinking, current_state
  <2>. QED BY <1>7, <2>3, <2>4, <2>5, <2>6 DEF SessionThinks
<1>8. CASE Abort
  BY <1>8, EmptyCalm DEF Abort, Raise, RaiseAfter, Answer
<1>9. ASSUME Work, ~AlreadyThinked, ~Done, ~Respond, ~\E c \in Copies : SessionThinks(c)
      PROVE  FALSE
  <2>1. Head(stack).op \in {"respond", "done", "logic"} /\ (At("logic") => Head(stack).m # "apt")
    BY <1>1, RestFrame DEF At, Rest, Logic
  <2>. QED BY <1>9, <2>1, WorkHeads DEF ProviderSelectionRest, EnterSessionState,
              reset_appointment_selection, RefuseSession, At
<1>. QED BY <1>4, <1>5, <1>7, <1>8, <1>9

LEMMA CalmNext ==
    ASSUME TypeOK, TypeOK', Settled, SInv, Calm, [Next]_vars, Full(disk) => Full(disk')
    PROVE  Calm'
<1>. SUFFICES ASSUME ~Full(disk) PROVE Calm'
  BY DEF Calm, Full, Made
<1>1. PICK top, base : Split(top, base)
  BY DEF Calm
<1>2. top \in Seq(Frame) /\ base \in Seq(Rest) /\ stack = top \o base
  BY <1>1 DEF Split
<1>3. CASE UNCHANGED vars
  BY <1>1, <1>2, <1>3, CalmFrom DEF vars, Split
<1>4. ASSUME NEW d, NEW i, Request(d, i) PROVE Calm'
  <2>1. [op |-> "respond"] \in Frame /\ Logic("session", 1) \in Frame
    BY FramesType DEF Copies
  <2>2. [op |-> "respond"] \in Rest /\ Logic("session", 1) \in Rest
    BY <2>1 DEF Rest
  <2>3. stack' \in Seq(Rest)
    BY <1>4, <2>2 DEF Request
  <2>. QED BY <2>3, BaseCalm
<1>5. CASE Work \/ Abort
  <2>1. CASE top = <<>>
    <3>1. stack = base
      BY <1>2, <2>1, RestFrame, ConcatEmptySeq
    <3>2. stack # <<>>
      <4>1. ASSUME NEW c, SessionThinks(c) PROVE At("logic")
        BY <4>1, SessionThinksAt
      <4>. QED BY <1>5, <4>1, WorkHeads DEF Abort, Running, At, AlreadyThinked, Done,
                  Respond, ProviderSelectionRest, EnterSessionState,
                  reset_appointment_selection, RefuseSession
    <3>. QED BY <1>2, <1>5, <3>1, <3>2, RestCalm
  <2>2. CASE top # <<>>
    BY <1>1, <1>2, <1>5, <2>2, OpenCalm, OpeningCalm DEF Split
  <2>. QED BY <2>1, <2>2
<1>. QED BY <1>3, <1>4, <1>5 DEF Next

-------------------------------------------------------------------------------
(* After a refusal that undid the selections of its transaction the memory  *)
(* is ahead of the row, and nobody but the view of the committed state will *)
(* save it.                                                                 *)

Undoing ==
    /\ Owed(disk) /\ ~Full(disk) /\ db = disk
    /\ Running /\ stack \in Seq(Rest)
    /\ \A j \in DOMAIN stack : stack[j].op = "logic" =>
          \/ <<"session", 1, disk.state>> \in thinked
          \/ \E k \in 1..(j - 1) : stack[k] = Called(disk.state)
    /\ Sound(mem[1].store, TRUE) /\ disk.store.chosen \subseteq mem[1].store.chosen
    /\ disk.state = "customer_registration" => disk.named

LEMMA AnsweredSelections ==
    ASSUME stack' = <<>>, db' = disk', Owed(disk)'
    PROVE  SInv' /\ Calm'
BY EmptyCalm DEF SInv, Running, Owed, Full

LEMMA UndoneUndoing ==
    ASSUME TypeOK, TypeOK', Settled, SInv, Calm, NEW i \in DOMAIN stack, Undone(i)
    PROVE  (Undoing' \/ (SInv' /\ Calm')) /\ Forward
<1>0. /\ UNCHANGED <<biz, disk, mem, thinked>> /\ stack' = SubSeq(stack, i + 1, Len(stack))
      /\ ~Full(disk) /\ Running /\ (i = 1 \/ stack[i].op \in {"commit", "guard"})
  BY DEF Undone, Unwind, InTransaction, Running
<1>1. PICK top, base : Split(top, base)
  BY <1>0 DEF Calm
<1>2. /\ top \in Seq(Frame) /\ base \in Seq(Rest) /\ stack = top \o base
      /\ \A j \in DOMAIN base : base[j].op # "commit"
  <2>1. top \in Seq(Frame) /\ base \in Seq(Rest) /\ stack = top \o base
    BY <1>1 DEF Split
  <2>2. \A j \in DOMAIN base : base[j] \in Rest
    BY <2>1
  <2>. QED BY <2>1, <2>2, RestFrame
<1>3. top # <<>> /\ ~Opening(top)
  <2>1. PICK j \in DOMAIN stack : stack[j].op = "commit"
    BY DEF Undone, InTransaction
  <2>2. CASE top = <<>>
    <3>1. stack = base
      BY <1>2, <2>2, RestFrame, ConcatEmptySeq
    <3>. QED BY <1>2, <2>1, <3>1
  <2>3. CASE top # <<>> /\ Opening(top)
    <3>1. j \in 1..Len(top)
      BY <1>2, <2>1, <2>3, TopUnwound
    <3>2. j = 1 /\ stack[1] = top[1]
      BY <1>2, <2>3, <3>1, RestFrame, ConcatProperties DEF Opening
    <3>. QED BY <2>1, <2>3, <3>2 DEF Opening
  <2>. QED BY <2>2, <2>3
<1>4. /\ Open(top) /\ Answering(base, disk.state)
      /\ disk.state = "customer_registration" => disk.named
  BY <1>1, <1>3 DEF Split
<1>5. stack' = base
  <2>. DEFINE over == SubSeq(top, i + 1, Len(top))
  <2>1. /\ over \in Seq(Frame) /\ stack' = over \o base
        /\ i = Len(top) => over = <<>>
        /\ i # Len(top) => Open(over)
    BY <1>0, <1>2, <1>3, <1>4, TopUnwound
  <2>. HIDE DEF over
  <2>2. ASSUME Open(over) PROVE FALSE
    <3>1. Len(over) \in DOMAIN stack' /\ stack'[Len(over)] = over[Len(over)]
      BY <1>2, <2>1, <2>2, RestFrame, ConcatProperties, EmptySeq DEF Open
    <3>. QED BY <2>2, <3>1 DEF Open, Undone, InTransaction
  <2>. QED BY <1>2, <2>1, <2>2, RestFrame, ConcatEmptySeq
<1>6. db' = disk /\ Owed(disk)'
  <2>1. db' = disk
    BY UnwindSettled DEF Undone
  <2>. QED BY <1>0, <2>1 DEF SInv, Owed, Sound, Imposed, count, mode
<1>7. Forward
  BY <1>0 DEF Forward
<1>8. CASE base = <<>>
  BY <1>0, <1>5, <1>6, <1>7, <1>8, AnsweredSelections
<1>9. CASE base # <<>>
  <2>1. Agrees(1) /\ Held(1) /\ Owed(disk) /\ disk.store.chosen \subseteq db.store.chosen
    BY <1>0 DEF SInv, Live, Copies
  <2>2. disk.store.chosen \subseteq mem[1].store.chosen
    <3>1. CASE Selections \subseteq Made(mem[1].store)
      <4>1. disk.store.chosen \subseteq Selections
        BY DEF TypeOK, Database, Store
      <4>. QED BY <2>1, <3>1, <4>1, EveryChoice DEF Agrees, Owed
    <3>2. CASE mem[1].saved = db.store
      BY <2>1, <3>2 DEF Agrees
    <3>. QED BY <2>1, <3>1, <3>2 DEF Held
  <2>3. Sound(mem[1].store, TRUE)
    BY <2>1 DEF Agrees, Sound
  <2>4. Sound(mem[1].store, TRUE)'
    BY <1>0, <2>3 DEF Sound, Imposed, count, mode
  <2>5. /\ Running' /\ stack' \in Seq(Rest)'
        /\ \A j \in DOMAIN stack' : stack'[j].op = "logic" =>
              \E k \in 1..(j - 1) : stack'[k] = Called(disk'.state)
    BY <1>0, <1>2, <1>4, <1>5, <1>9 DEF Running, Answering, Rest
  <2>6. ~Full(disk)' /\ (disk'.state = "customer_registration" => disk'.named)
    BY <1>0, <1>4 DEF Full, Made
  <2>7. disk'.store.chosen \subseteq mem'[1].store.chosen
    BY <1>0, <2>2
  <2>8. db' = disk'
    BY <1>0, <1>6
  <2>. HIDE DEF Called
  <2>9. Undoing'
    BY <1>6, <2>4, <2>5, <2>6, <2>7, <2>8 DEF Undoing
  <2>. QED BY <1>7, <2>9
<1>. QED BY <1>8, <1>9

LEMMA UndoingNext ==
    ASSUME TypeOK, TypeOK', Settled, Undoing, [Next]_vars
    PROVE  (Undoing' \/ (SInv' /\ Calm')) /\ Forward
<1>1. /\ Head(stack) \in Rest /\ Tail(stack) \in Seq(Rest) /\ stack # <<>>
      /\ db = disk /\ db \in Database /\ Owed(db) /\ ~Full(db) /\ Running
  BY DEF Undoing, Running, TypeOK
<1>2. db.state \notin {"appointment_selection", "finish"}
  BY <1>1, FullRow
<1>4. CASE UNCHANGED vars
  BY <1>4 DEF vars, Undoing, Running, Owed, Sound, Imposed, count, mode, Full, Made, Forward
<1>5. ASSUME NEW d, NEW i, Request(d, i) PROVE FALSE
  BY <1>1, <1>5 DEF Request
<1>6. CASE Abort
  <2>1. stack' = <<>> /\ db' = disk' /\ disk' = disk /\ biz' = biz
    BY <1>6 DEF Abort, Raise, RaiseAfter, Answer
  <2>2. Owed(disk)' /\ Forward
    BY <2>1 DEF Undoing, Owed, Sound, Imposed, count, mode, Forward
  <2>. QED BY <2>1, <2>2, AnsweredSelections
<1>7. CASE AlreadyThinked \/ Done
  <2>1. /\ stack' = Tail(stack) /\ UNCHANGED <<biz, db, disk, mem>>
        /\ thinked \subseteq thinked'
        /\ Head(stack) = Called(disk.state) => <<"session", 1, disk.state>> \in thinked'
    <3>1. stack' = Tail(stack)
      BY <1>1, <1>7, ConcatEmptySeq DEF AlreadyThinked, Done, Continues
    <3>. QED BY <1>7, <3>1 DEF AlreadyThinked, Done, vars_but_stack, At, Called
  <2>2. Owed(disk)' /\ ~Full(disk)' /\ db' = disk' /\ Forward /\ Sound(mem[1].store, TRUE)'
    BY <2>1 DEF Undoing, Owed, Sound, Imposed, count, mode, Full, Made, Forward
  <2>3. CASE stack' = <<>>
    BY <2>2, <2>3, AnsweredSelections
  <2>4. CASE stack' # <<>>
    <3>1. ASSUME NEW j \in DOMAIN stack', stack'[j].op = "logic"
          PROVE  \/ <<"session", 1, disk'.state>> \in thinked'
                 \/ \E k \in 1..(j - 1) : stack'[k] = Called(disk'.state)
      <4>. HIDE DEF Called
      <4>1. /\ j \in Nat \ {0} /\ j + 1 \in DOMAIN stack /\ stack'[j] = stack[j + 1]
            /\ Head(stack) = stack[1] /\ j < Len(stack) /\ Len(stack) \in Nat
        BY <1>1, <2>1, <3>1, StackTail
      <4>2. CASE <<"session", 1, disk.state>> \in thinked
        BY <2>1, <4>2
      <4>3. ASSUME NEW k \in 1..j, stack[k] = Called(disk.state)
            PROVE  \/ <<"session", 1, disk'.state>> \in thinked'
                   \/ \E l \in 1..(j - 1) : stack'[l] = Called(disk'.state)
        <5>1. CASE k = 1
          BY <2>1, <4>1, <4>3, <5>1
        <5>2. CASE k # 1
          <6>1. k - 1 \in 1..(j - 1) /\ k - 1 \in DOMAIN Tail(stack) /\ k - 1 + 1 = k
            BY <1>1, <4>1, <5>2, StackTail
          <6>2. stack'[k - 1] = stack[k]
            BY <1>1, <2>1, <6>1, StackTail
          <6>. QED BY <2>1, <4>3, <6>1, <6>2
        <5>. QED BY <5>1, <5>2
      <4>4. \/ <<"session", 1, disk.state>> \in thinked
            \/ \E k \in 1..j : stack[k] = Called(disk.state)
        <5>1. \/ <<"session", 1, disk.state>> \in thinked
              \/ \E k \in 1..((j + 1) - 1) : stack[k] = Called(disk.state)
          BY <3>1, <4>1 DEF Undoing
        <5>. QED BY <4>1, <5>1
      <4>. QED BY <4>2, <4>3, <4>4
    <3>2. Running' /\ stack' \in Seq(Rest)' /\ disk'.store.chosen \subseteq mem'[1].store.chosen
          /\ (disk'.state = "customer_registration" => disk'.named)
      BY <1>1, <2>1, <2>4 DEF Running, Undoing, Rest
    <3>. HIDE DEF Called
    <3>3. Undoing'
      BY <2>2, <3>1, <3>2 DEF Undoing
    <3>. QED BY <2>2, <3>3
  <2>. QED BY <2>3, <2>4
<1>8. CASE Respond
  <2>1. stack' = <<>> /\ biz' = biz
    BY <1>2, <1>8 DEF Respond, Replying, Answer
  <2>2. CASE UNCHANGED <<db, disk>>
    <3>1. Owed(disk)' /\ Forward
      BY <2>1, <2>2 DEF Undoing, Owed, Sound, Imposed, count, mode, Forward
    <3>. QED BY <1>1, <2>1, <2>2, <3>1, AnsweredSelections
  <2>3. CASE /\ db.state = "customer_registration"
             /\ Write(Saved(1, [mem[1].store EXCEPT !.asked_name = TRUE], db))
    <3>. DEFINE st == [mem[1].store EXCEPT !.asked_name = TRUE]
    <3>1. /\ mem[1].store \in Store
          /\ st.complete = mem[1].store.complete /\ st.chosen = mem[1].store.chosen
          /\ st.assumed = mem[1].store.assumed
          /\ st.asked_to_change = mem[1].store.asked_to_change
      BY DEF TypeOK, Instance, Store, Copies
    <3>2. Sound(st, TRUE) /\ disk.store.chosen \subseteq st.chosen
      BY <3>1, SoundAlike DEF Undoing
    <3>. HIDE DEF st
    <3>3. db' = Saved(1, st, db) /\ disk' = db'
      <4>1. ~InTransaction
        BY RestFrame DEF InTransaction, Undoing
      <4>. QED BY <2>3, <4>1 DEF Write, st
    <3>4. /\ disk'.state = "customer_registration" /\ disk'.named = TRUE
          /\ disk'.store \in {db.store, st}
      BY <1>1, <2>3, <3>3 DEF Saved, Database, Undoing
    <3>5. Sound(disk'.store, TRUE) /\ disk.store.chosen \subseteq disk'.store.chosen
      <4>1. Sound(db.store, TRUE)
        BY <1>1 DEF Owed, Sound
      <4>. QED BY <1>1, <3>2, <3>4, <4>1
    <3>6. Owed(disk)' /\ Forward
      BY <1>1, <2>1, <3>4, <3>5 DEF Owed, Needed, Registered, Sound, Imposed, count, mode,
         Forward
    <3>. QED BY <2>1, <3>3, <3>6, AnsweredSelections
  <2>. QED BY <1>2, <1>8, <2>2, <2>3 DEF Respond
<1>9. ASSUME Work, ~AlreadyThinked, ~Done, ~Respond PROVE FALSE
  <2>1. /\ Head(stack).op \in {"respond", "done", "logic"}
        /\ At("logic") => Head(stack).m # "apt" /\ Head(stack).c = 1
    BY <1>1, RestFrame DEF At, Rest, Logic
  <2>2. At("logic") => <<"session", 1, db.state>> \in thinked
    <3>1. 1 \in DOMAIN stack /\ Head(stack) = stack[1]
      BY <1>1, StackTail DEF TypeOK
    <3>. QED BY <1>1, <3>1 DEF At, Undoing
  <2>3. ASSUME NEW c, SessionThinks(c) PROVE FALSE
    BY <2>1, <2>2, <2>3, SessionThinksAt
  <2>. QED BY <1>9, <2>1, <2>3, WorkHeads DEF ProviderSelectionRest, EnterSessionState,
              reset_appointment_selection, RefuseSession, At
<1>. QED BY <1>4, <1>5, <1>6, <1>7, <1>8, <1>9 DEF Next

-------------------------------------------------------------------------------
(* The theorems.                                                            *)

LEMMA InitSelections == Init => SInv
<1>. SUFFICES ASSUME Init PROVE SInv
  OBVIOUS
<1>1. /\ db.state = "handshake" /\ db.store = EmptyStore /\ disk = db /\ stack = <<>>
  BY DEF Init
<1>2. Owed(db)
  BY <1>1 DEF Owed, Needed, Registered, Sound, EmptyStore, StateOf
<1>. QED BY <1>1, <1>2 DEF SInv, Running, Full

SelectionsInv == (SInv /\ Calm) \/ Undoing

LEMMA NextSelections ==
    ASSUME TypeOK, Settled, SelectionsInv, [Next]_vars
    PROVE  SelectionsInv' /\ Forward
<1>0. TypeOK'
  BY NextType
<1>1. CASE SInv /\ Calm
  <2>1. CASE Keeping
    BY <1>0, <1>1, <2>1, CalmNext DEF Keeping, Forward, SelectionsInv
  <2>2. ASSUME NEW i \in DOMAIN stack, Undone(i) PROVE SelectionsInv' /\ Forward
    BY <1>0, <1>1, <2>2, UndoneUndoing DEF SelectionsInv
  <2>. QED BY <1>1, <2>1, <2>2, NextKeeping
<1>2. CASE Undoing
  BY <1>0, <1>2, UndoingNext DEF SelectionsInv
<1>. QED BY <1>1, <1>2 DEF SelectionsInv

(* In every reachable state the committed selections are what the row's     *)
(* state and marks promise, and so are both copies of the store in use;     *)
(* where a refusal undid what they stand for, nothing will be made of it.   *)
THEOREM SelectionsInvariant == Spec => [](TypeOK /\ Settled /\ SelectionsInv)
<1>1. Init => SelectionsInv
  <2>1. Init => Calm
    <3>1. Init => Split(<<>>, <<>>)
      BY DEF Init, Split
    <3>. QED BY <3>1 DEF Calm
  <2>. QED BY <2>1, InitSelections DEF SelectionsInv
<1>2. TypeOK /\ Settled /\ SelectionsInv /\ [Next]_vars => SelectionsInv'
  BY NextSelections
<1>. QED
  BY <1>1, <1>2, SettledInvariant, PTL DEF Spec

(* No appointment is looked for before the row as committed has a name, an  *)
(* office, a service and a provider: no crash, no refusal that undoes a     *)
(* choice, no second instance of the session saving over the first, and no  *)
(* way back from the summary lets a conversation through without them.      *)
THEOREM SelectionsCorrect == Spec => []SelectionsMade
<1>1. TypeOK /\ SelectionsInv => SelectionsMade
  <2>. SUFFICES ASSUME TypeOK, SelectionsInv,
                       disk.state \in {"appointment_selection", "finish"}
                PROVE  disk.named /\ Made(disk.store) = Selections
    BY DEF SelectionsMade, Made
  <2>1. Made(disk.store) \subseteq Selections
    BY DEF TypeOK, Database, Store, Made
  <2>2. Owed(disk)
    BY DEF SelectionsInv, SInv, Undoing
  <2>. QED BY <2>1, <2>2 DEF Owed, Needed, Registered
<1>. QED
  BY <1>1, SelectionsInvariant, PTL

(* No commit forgets a choice: of the two copies a request may save in      *)
(* turn, the older one has it too, what a refusal undid is the row's again, *)
(* and an exception restores the row.                                       *)
THEOREM ChoicesCorrect == Spec => ChoicesKept
<1>1. TypeOK /\ Settled /\ SelectionsInv /\ [Next]_vars
        => [disk.store.chosen \subseteq disk'.store.chosen]_vars
  BY NextSelections DEF Forward
<1>. QED
  BY <1>1, SelectionsInvariant, PTL DEF Spec, ChoicesKept
===============================================================================
