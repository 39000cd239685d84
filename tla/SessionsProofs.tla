---------------------------- MODULE SessionsProofs ----------------------------
(***************************************************************************)
(* What holds of overlapping requests for every number of workers and      *)
(* requests: types, rows that are made twice by overlap alone, no session   *)
(* past its registration without a name; the marks and the selection of a  *)
(* session to itself; and no exception before requests overlap.            *)
(***************************************************************************)
EXTENDS Sessions, SequenceTheorems, TLAPS

Registered == "customer_registration"
Past(s) == s \in {"appointment_selection", "finish"}

(* Before a request has its customer, and before it has its session.       *)
Unknown == {"idle", "find", "validate", "create"}
Unloaded == Unknown \cup {"load", "draw", "unique", "insert"}

(* What a request m relies on of the customers C and sessions S: that the  *)
(* rows it has loaded are there; that a mark it holds, or a state it has   *)
(* gone on to, comes with a name it can see; and that what it found absent *)
(* was absent when it began.                                               *)
HasName(m, C) == m.writes.named \/ C[m.customer].named

Linked(m, C, S) ==
    /\ m.step \notin Unknown => m.customer \in DOMAIN C
    /\ m.step \notin Unloaded =>
           m.session \in DOMAIN S /\ S[m.session].customer = m.customer
    /\ m.step \in Unloaded => m.store = {} /\ m.saved = {} /\ m.writes = NoWrites
    /\ ~m.transaction => ~m.writes.named

Honest(m, C) ==
    m.step \notin Unloaded =>
        /\ Registered \in m.store \cup m.saved => HasName(m, C)
        /\ \A t \in m.writes.transitions : Past(t.to) => HasName(m, C)

Open(S, c, i) == S[i].customer = c /\ S[i].recent /\ ~S[i].is_finished

Remembered(m, C, S) ==
    /\ m.step # "idle" => m.had[1] <= Len(C) /\ m.had[2] <= Len(S)
    /\ m.step \in {"validate", "create"} => m.had[1] = 0
    /\ m.step \in {"draw", "unique", "insert"} /\ m.kind # "ringing" =>
           \A i \in 1..m.had[2] : ~Open(S, m.customer, i)
    /\ m.step \in {"unique", "insert"} =>
           m.uuid \in Uuids /\ \A i \in 1..m.had[2] : S[i].uuid # m.uuid

Good(m, C, S) == Linked(m, C, S) /\ Honest(m, C) /\ Remembered(m, C, S)

(* What holds of a committed session.                                      *)
RowOK(r, C) ==
    /\ r.customer \in DOMAIN C
    /\ Registered \in r.meta => C[r.customer].named
    /\ \A t \in r.transitions : Past(t.to) => C[r.customer].named

Once == CustomerOnce /\ OpenOnce /\ UuidOnce

IInv ==
    /\ TypeOK /\ Once
    /\ \A j \in DOMAIN sessions : RowOK(sessions[j], customers)
    /\ \A w \in Workers : Good(worker[w], customers, sessions)

(* Rows are never removed, and what others rely on in them only settles.   *)
Grows ==
    /\ Len(customers) <= Len(customers') /\ Len(sessions) <= Len(sessions')
    /\ \A c \in DOMAIN customers :
           /\ customers'[c].before = customers[c].before
           /\ customers[c].named => customers'[c].named
    /\ \A j \in DOMAIN sessions :
           /\ sessions'[j].customer = sessions[j].customer
           /\ sessions'[j].uuid = sessions[j].uuid
           /\ sessions'[j].before = sessions[j].before
           /\ sessions'[j].by = sessions[j].by
           /\ sessions'[j].recent => sessions[j].recent
           /\ sessions[j].is_finished => sessions'[j].is_finished

-------------------------------------------------------------------------------
(* The order of the states.                                                *)

LEMMA Indices ==
    /\ States = {"handshake", "initial_decoder", "customer_registration",
                 "appointment_selection", "finish"}
    /\ IndexOf("handshake") = 1 /\ IndexOf("initial_decoder") = 2
    /\ IndexOf("customer_registration") = 3
    /\ IndexOf("appointment_selection") = 4 /\ IndexOf("finish") = 5
<1>1. /\ DOMAIN linear_states = 1..5
      /\ linear_states[1] = "handshake" /\ linear_states[2] = "initial_decoder"
      /\ linear_states[3] = "customer_registration"
      /\ linear_states[4] = "appointment_selection" /\ linear_states[5] = "finish"
  BY DEF linear_states
<1>2. States = {"handshake", "initial_decoder", "customer_registration",
                "appointment_selection", "finish"}
  BY <1>1 DEF States, ToSet
<1>3. \A k, l \in 1..5 : linear_states[k] = linear_states[l] => k = l
  BY <1>1
<1>4. \A l \in 1..5 : IndexOf(linear_states[l]) = l
  <2>1. SUFFICES ASSUME NEW l \in 1..5 PROVE IndexOf(linear_states[l]) = l
    OBVIOUS
  <2>2. IndexOf(linear_states[l]) \in 1..5
        /\ linear_states[IndexOf(linear_states[l])] = linear_states[l]
    BY <1>1 DEF IndexOf
  <2> QED BY <1>3, <2>2
<1> QED BY <1>1, <1>2, <1>4

LEMMA PastIndex ==
    \A s \in States : IndexOf(s) > IndexOf("customer_registration") <=> Past(s)
BY Indices DEF Past

LEMMA NextStates ==
    ASSUME NEW s \in States
    PROVE  /\ next_state_by_priority(s) \in States
           /\ \A to \in successors(s) :
                  to \in States /\ (Past(to) => s = Registered \/ Past(s))
<1>1. linear_states[1] = "handshake" /\ linear_states[2] = "initial_decoder"
      /\ linear_states[3] = "customer_registration"
      /\ linear_states[4] = "appointment_selection" /\ linear_states[5] = "finish"
  BY DEF linear_states
<1>2. next_state_by_priority(s) = CASE s = "handshake" -> "initial_decoder"
                                    [] s = "initial_decoder" -> "customer_registration"
                                    [] s = "customer_registration" -> "appointment_selection"
                                    [] s = "appointment_selection" -> "finish"
                                    [] s = "finish" -> "initial_decoder"
  BY <1>1, Indices DEF next_state_by_priority
<1> QED BY <1>2, Indices DEF successors, Past, Registered

-------------------------------------------------------------------------------
(* Typing, and frames.                                                     *)

LEMMA IdleType == Idle \in Worker
BY Indices DEF Idle, Worker, Steps, Kinds, Store, Writes, NoWrites

LEMMA GoesOn ==
    ASSUME NEW w \in Workers, NEW n \in Worker, worker \in [Workers -> Worker],
           Goes(w, n)
    PROVE  /\ worker' \in [Workers -> Worker] /\ worker'[w] = n
           /\ \A v \in Workers \ {w} : worker'[v] = worker[v]
BY DEF Goes

(* What a request relies on, the others leave alone.                       *)
LEMMA GoodStays ==
    ASSUME IInv, Grows, NEW m \in Worker,
           customers' \in Seq(CustomerRow), sessions' \in Seq(SessionRow),
           Good(m, customers, sessions)
    PROVE  Good(m, customers', sessions')
<1>1. /\ customers \in Seq(CustomerRow) /\ sessions \in Seq(SessionRow)
      /\ DOMAIN customers = 1..Len(customers) /\ DOMAIN sessions = 1..Len(sessions)
      /\ Len(customers) \in Nat /\ Len(sessions) \in Nat
      /\ DOMAIN customers' = 1..Len(customers') /\ DOMAIN sessions' = 1..Len(sessions')
      /\ Len(customers') \in Nat /\ Len(sessions') \in Nat
  BY DEF IInv, TypeOK
<1>2. /\ DOMAIN customers \subseteq DOMAIN customers'
      /\ DOMAIN sessions \subseteq DOMAIN sessions'
  BY <1>1 DEF Grows
<1>3. m.had[1] \in Nat /\ m.had[2] \in Nat
  BY DEF Worker
<1>4. Linked(m, customers', sessions')
  BY <1>1, <1>2 DEF Good, Linked, Grows, Unloaded
<1>5. m.step \notin Unloaded => (HasName(m, customers) => HasName(m, customers'))
  BY <1>1, <1>2 DEF Good, Linked, HasName, Grows, Unloaded
<1>6. Honest(m, customers')
  BY <1>5 DEF Good, Honest
<1>7. m.step # "idle" => \A i \in 1..m.had[2] :
          /\ i \in DOMAIN sessions
          /\ Open(sessions', m.customer, i) => Open(sessions, m.customer, i)
          /\ sessions'[i].uuid = sessions[i].uuid
  <2>1. SUFFICES ASSUME m.step # "idle", NEW i \in 1..m.had[2]
                 PROVE  /\ i \in DOMAIN sessions
                        /\ Open(sessions', m.customer, i) => Open(sessions, m.customer, i)
                        /\ sessions'[i].uuid = sessions[i].uuid
    OBVIOUS
  <2>2. m.had[2] <= Len(sessions)
    BY <2>1 DEF Good, Remembered
  <2>3. i \in DOMAIN sessions
    BY <1>1, <1>3, <2>2
  <2> QED BY <2>3 DEF Open, Grows
<1>8. m.step # "idle" =>
          m.had[1] <= Len(customers') /\ m.had[2] <= Len(sessions')
  BY <1>1, <1>3 DEF Good, Remembered, Grows
<1>9. Remembered(m, customers', sessions')
  <2>1. m.step \in {"draw", "unique", "insert"} => m.step # "idle"
    OBVIOUS
  <2>2. m.step \in {"unique", "insert"} => m.step # "idle"
    OBVIOUS
  <2>3. m.step \in {"validate", "create"} => m.had[1] = 0
    BY DEF Good, Remembered
  <2>4. m.step \in {"draw", "unique", "insert"} /\ m.kind # "ringing" =>
            \A i \in 1..m.had[2] : ~Open(sessions', m.customer, i)
    BY <1>7, <2>1 DEF Good, Remembered
  <2>5. m.step \in {"unique", "insert"} =>
            m.uuid \in Uuids /\ \A i \in 1..m.had[2] : sessions'[i].uuid # m.uuid
    BY <1>7, <2>2 DEF Good, Remembered
  <2> QED BY <1>8, <2>3, <2>4, <2>5 DEF Remembered
<1> QED BY <1>4, <1>6, <1>9 DEF Good

(* With no row added, nothing is made twice.                               *)
LEMMA OnceStays ==
    ASSUME IInv, Grows, Len(customers') = Len(customers), Len(sessions') = Len(sessions),
           customers' \in Seq(CustomerRow), sessions' \in Seq(SessionRow)
    PROVE  Once'
<1>1. /\ DOMAIN customers' = DOMAIN customers /\ DOMAIN sessions' = DOMAIN sessions
  BY DEF IInv, TypeOK
<1>2. CustomerOnce'
  BY <1>1 DEF IInv, Once, CustomerOnce, Grows
<1>3. \A c : Unfinished(c)' \subseteq Unfinished(c)
  BY <1>1 DEF Unfinished, Grows
<1>4. OpenOnce'
  BY <1>1, <1>3 DEF IInv, Once, OpenOnce, Grows
<1>5. UuidOnce'
  BY <1>1 DEF IInv, Once, UuidOnce, Grows
<1> QED BY <1>2, <1>4, <1>5 DEF Once

(* The step of one request, from what it does to its own record and rows.  *)
LEMMA Moves ==
    ASSUME IInv, NEW w \in Workers, NEW n \in Worker, Goes(w, n), Grows,
           customers' \in Seq(CustomerRow), sessions' \in Seq(SessionRow), Once',
           \A j \in DOMAIN sessions' : RowOK(sessions'[j], customers'),
           Good(n, customers, sessions) \/ Good(n, customers', sessions'),
           taken' \in Nat, overlapped' \in BOOLEAN
    PROVE  IInv'
<1>1. worker \in [Workers -> Worker]
  BY DEF IInv, TypeOK
<1>2. Good(n, customers', sessions')
  BY GoodStays
<1>3. \A v \in Workers : Good(worker[v], customers', sessions')
  <2>1. SUFFICES ASSUME NEW v \in Workers PROVE Good(worker[v], customers', sessions')
    OBVIOUS
  <2>2. worker[v] \in Worker /\ Good(worker[v], customers, sessions)
    BY <1>1 DEF IInv
  <2> QED BY <2>2, GoodStays
<1>4. \A v \in Workers : Good(worker'[v], customers', sessions')
  BY <1>1, <1>2, <1>3, GoesOn
<1>5. worker' \in [Workers -> Worker]
  BY <1>1, GoesOn
<1> QED BY <1>4, <1>5 DEF IInv, TypeOK

LEMMA Reads ==
    ASSUME IInv, NEW w \in Workers, NEW n \in Worker, Goes(w, n),
           Good(n, customers, sessions), UNCHANGED <<customers, sessions>>,
           taken' \in Nat, overlapped' \in BOOLEAN
    PROVE  IInv'
<1>1. Grows
  <2>1. Len(customers) \in Nat /\ Len(sessions) \in Nat
    BY DEF IInv, TypeOK
  <2> QED BY <2>1 DEF Grows
<1>2. customers' \in Seq(CustomerRow) /\ sessions' \in Seq(SessionRow)
  BY DEF IInv, TypeOK
<1>3. Once'
  BY <1>1, <1>2, OnceStays
<1>4. \A j \in DOMAIN sessions' : RowOK(sessions'[j], customers')
  BY DEF IInv
<1> QED BY <1>1, <1>2, <1>3, <1>4, Moves

(* A row that is rewritten.                                                *)
LEMMA SessionRewritten ==
    ASSUME IInv, NEW j \in DOMAIN sessions, NEW r \in SessionRow,
           sessions' = [sessions EXCEPT ![j] = r],
           r.customer = sessions[j].customer, r.uuid = sessions[j].uuid,
           r.before = sessions[j].before, r.by = sessions[j].by,
           r.recent => sessions[j].recent,
           sessions[j].is_finished => r.is_finished
    PROVE  /\ sessions' \in Seq(SessionRow) /\ Len(sessions') = Len(sessions)
           /\ DOMAIN sessions' = DOMAIN sessions
           /\ \A k \in DOMAIN sessions :
                  /\ sessions'[k].customer = sessions[k].customer
                  /\ sessions'[k].uuid = sessions[k].uuid
                  /\ sessions'[k].before = sessions[k].before
                  /\ sessions'[k].by = sessions[k].by
                  /\ sessions'[k].recent => sessions[k].recent
                  /\ sessions[k].is_finished => sessions'[k].is_finished
           /\ sessions'[j] = r /\ \A k \in DOMAIN sessions \ {j} : sessions'[k] = sessions[k]
<1>1. sessions \in Seq(SessionRow)
  BY DEF IInv, TypeOK
<1>2. sessions' \in Seq(SessionRow) /\ Len(sessions') = Len(sessions)
      /\ DOMAIN sessions' = DOMAIN sessions
  BY <1>1
<1>3. sessions'[j] = r /\ \A k \in DOMAIN sessions \ {j} : sessions'[k] = sessions[k]
  BY <1>1
<1> QED BY <1>2, <1>3

LEMMA CustomerRewritten ==
    ASSUME IInv, NEW c \in DOMAIN customers, NEW r \in CustomerRow,
           customers' = [customers EXCEPT ![c] = r],
           r.before = customers[c].before, customers[c].named => r.named
    PROVE  /\ customers' \in Seq(CustomerRow) /\ Len(customers') = Len(customers)
           /\ DOMAIN customers' = DOMAIN customers
           /\ \A k \in DOMAIN customers :
                  /\ customers'[k].before = customers[k].before
                  /\ customers[k].named => customers'[k].named
           /\ customers'[c] = r
<1>1. customers \in Seq(CustomerRow)
  BY DEF IInv, TypeOK
<1>2. customers' \in Seq(CustomerRow) /\ Len(customers') = Len(customers)
      /\ DOMAIN customers' = DOMAIN customers
  BY <1>1
<1>3. customers'[c] = r /\ \A k \in DOMAIN customers \ {c} : customers'[k] = customers[k]
  BY <1>1
<1> QED BY <1>2, <1>3

(* Where nobody gains a name or loses one, a session is all that changes.  *)
LEMMA Writes1 ==
    ASSUME IInv, NEW w \in Workers, NEW n \in Worker, Goes(w, n),
           Good(n, customers, sessions), UNCHANGED customers,
           NEW j \in DOMAIN sessions, NEW r \in SessionRow,
           sessions' = [sessions EXCEPT ![j] = r],
           r.customer = sessions[j].customer, r.uuid = sessions[j].uuid,
           r.before = sessions[j].before, r.by = sessions[j].by,
           r.recent => sessions[j].recent,
           sessions[j].is_finished => r.is_finished,
           RowOK(r, customers),
           taken' \in Nat, overlapped' \in BOOLEAN
    PROVE  IInv'
<1>1. /\ customers' \in Seq(CustomerRow) /\ Len(customers) \in Nat /\ Len(sessions) \in Nat
  BY DEF IInv, TypeOK
<1>2. /\ sessions' \in Seq(SessionRow) /\ Len(sessions') = Len(sessions)
      /\ DOMAIN sessions' = DOMAIN sessions
      /\ sessions'[j] = r /\ \A k \in DOMAIN sessions \ {j} : sessions'[k] = sessions[k]
  BY SessionRewritten
<1>3. Grows
  BY <1>1, <1>2 DEF Grows
<1>4. Once'
  BY <1>1, <1>2, <1>3, OnceStays
<1>5. \A k \in DOMAIN sessions' : RowOK(sessions'[k], customers')
  BY <1>2 DEF IInv
<1> QED BY <1>1, <1>2, <1>3, <1>4, <1>5, Moves

-------------------------------------------------------------------------------
(* What a request relies on, from one step to its next.                    *)

LEMMA Quits ==
    ASSUME IInv, NEW w \in Workers, NEW raised \in BOOLEAN, Ends(w, raised),
           UNCHANGED <<customers, sessions, taken, overlapped>>
    PROVE  IInv'
<1> DEFINE n == [Idle EXCEPT !.raised = raised]
<1>1. n \in Worker
  BY IdleType DEF Worker
<1>2. Good(n, customers, sessions)
  BY DEF Good, Linked, Honest, Remembered, Idle, Unknown, Unloaded, NoWrites
<1>3. Goes(w, n)
  BY DEF Ends, Goes
<1>4. taken' \in Nat /\ overlapped' \in BOOLEAN
  BY DEF IInv, TypeOK
<1> HIDE DEF n
<1> QED BY <1>1, <1>2, <1>3, <1>4, Reads

LEMMA Mine ==
    ASSUME IInv, NEW w \in Workers
    PROVE  /\ worker[w] \in Worker /\ Good(worker[w], customers, sessions)
           /\ taken \in Nat /\ overlapped \in BOOLEAN
BY DEF IInv, TypeOK

LEMMA Carries ==
    ASSUME IInv, NEW w \in Workers, NEW n \in Worker,
           worker[w].step \notin Unloaded, n.step \notin Unloaded,
           n.customer = worker[w].customer, n.session = worker[w].session,
           n.writes.named = worker[w].writes.named,
           n.writes.transitions = worker[w].writes.transitions,
           n.transaction = worker[w].transaction, n.had = worker[w].had,
           Registered \in n.store \cup n.saved =>
               \/ Registered \in worker[w].store \cup worker[w].saved
               \/ HasName(worker[w], customers)
    PROVE  Good(n, customers, sessions)
<1>1. Good(worker[w], customers, sessions)
  BY Mine
<1>2. Linked(n, customers, sessions)
  BY <1>1 DEF Good, Linked, Unloaded
<1>3. Honest(n, customers)
  BY <1>1 DEF Good, Honest, HasName
<1>4. Remembered(n, customers, sessions)
  BY <1>1 DEF Good, Remembered, Unloaded, Unknown
<1> QED BY <1>2, <1>3, <1>4 DEF Good

(* The row of a request that has its session.                              *)
LEMMA Loaded ==
    ASSUME IInv, NEW w \in Workers, worker[w].step \notin Unloaded
    PROVE  /\ worker[w].customer \in DOMAIN customers
           /\ worker[w].session \in DOMAIN sessions
           /\ Row(w) \in SessionRow /\ Row(w).customer = worker[w].customer
           /\ RowOK(Row(w), customers)
           /\ customers[worker[w].customer] \in CustomerRow
           /\ Honest(worker[w], customers)
           /\ ~worker[w].transaction => ~worker[w].writes.named
<1>1. worker[w] \in Worker /\ Good(worker[w], customers, sessions)
  BY Mine
<1>2. customers \in Seq(CustomerRow) /\ sessions \in Seq(SessionRow)
  BY DEF IInv, TypeOK
<1>3. /\ worker[w].customer \in DOMAIN customers
      /\ worker[w].session \in DOMAIN sessions
      /\ Row(w).customer = worker[w].customer
  BY <1>1 DEF Good, Linked, Row, Unloaded
<1>4. Row(w) \in SessionRow /\ customers[worker[w].customer] \in CustomerRow
  BY <1>2, <1>3 DEF Row
<1>5. RowOK(Row(w), customers)
  BY <1>3 DEF IInv, Row
<1> QED BY <1>1, <1>3, <1>4, <1>5 DEF Good, Linked

LEMMA Saves ==
    ASSUME IInv, NEW w \in Workers, NEW new \in Worker, Save(w, new),
           worker[w].step \notin Unloaded, new.step \notin Unloaded,
           new.customer = worker[w].customer, new.session = worker[w].session,
           new.writes = worker[w].writes, new.transaction = worker[w].transaction,
           new.had = worker[w].had, new.saved = worker[w].saved,
           Registered \in new.store =>
               Registered \in worker[w].store \/ HasName(worker[w], customers),
           UNCHANGED <<taken, overlapped>>
    PROVE  IInv'
<1> DEFINE written == new.store # worker[w].saved
           n == [new EXCEPT !.saved = new.store,
                            !.writes.meta = @ \/ (written /\ worker[w].transaction)]
           j == worker[w].session
           r == [Row(w) EXCEPT !.meta = new.store]
<1>1. taken' \in Nat /\ overlapped' \in BOOLEAN
  BY Mine
<1>2. CASE Invalid(w)
  <2>1. Ends(w, TRUE) /\ UNCHANGED <<customers, sessions>>
    BY <1>2 DEF Save, Raise
  <2> QED BY <2>1, Quits
<1>3. CASE ~Invalid(w)
  <2>1. worker[w] \in Worker
    BY Mine
  <2>2. n \in Worker
    <3>1. new.writes.meta \in BOOLEAN /\ worker[w].transaction \in BOOLEAN
      BY <2>1 DEF Worker, Writes
    <3>2. (new.writes.meta \/ (written /\ worker[w].transaction)) \in BOOLEAN
      BY <3>1
    <3> HIDE DEF written
    <3> QED BY <3>2 DEF Worker, Writes
  <2>3. /\ n.step = new.step /\ n.customer = new.customer /\ n.session = new.session
        /\ n.writes.named = new.writes.named
        /\ n.writes.transitions = new.writes.transitions
        /\ n.transaction = new.transaction /\ n.had = new.had
        /\ n.store = new.store /\ n.saved = new.store
    BY DEF Worker, Writes
  <2> HIDE DEF n
  <2>4. Good(n, customers, sessions)
    BY <2>2, <2>3, Carries
  <2>5. /\ Goes(w, n) /\ UNCHANGED customers
        /\ sessions' = IF written /\ ~worker[w].transaction
                       THEN [sessions EXCEPT ![worker[w].session].meta = new.store]
                       ELSE sessions
    BY <1>3 DEF Save, n
  <2>6. CASE written /\ ~worker[w].transaction
    <3>1. j \in DOMAIN sessions /\ Row(w) \in SessionRow /\ Row(w) = sessions[j]
          /\ RowOK(Row(w), customers) /\ Row(w).customer = worker[w].customer
          /\ Honest(worker[w], customers) /\ ~worker[w].writes.named
      BY <2>6, Loaded DEF Row
    <3>2. new.store \in Store
      BY DEF Worker
    <3>3. /\ r \in SessionRow /\ r.customer = Row(w).customer /\ r.uuid = Row(w).uuid
          /\ r.before = Row(w).before /\ r.by = Row(w).by /\ r.recent = Row(w).recent
          /\ r.is_finished = Row(w).is_finished
          /\ r.meta = new.store /\ r.transitions = Row(w).transitions
      BY <3>1, <3>2 DEF SessionRow
    <3>4. RowOK(r, customers)
      BY <3>1, <3>3 DEF RowOK, Honest, HasName
    <3>5. sessions' = [sessions EXCEPT ![j] = r]
      BY <2>5, <2>6, <3>1
    <3> HIDE DEF r, j
    <3> QED BY <1>1, <2>2, <2>4, <2>5, <3>1, <3>3, <3>4, <3>5, Writes1, ZenonT(30)
  <2>7. CASE ~(written /\ ~worker[w].transaction)
    <3>1. UNCHANGED <<customers, sessions>>
      BY <2>5, <2>7
    <3> QED BY <1>1, <2>2, <2>4, <2>5, <3>1, Reads
  <2> QED BY <2>6, <2>7
<1> QED BY <1>2, <1>3

-------------------------------------------------------------------------------
(* Customer and session.                                                   *)

LEMMA StepFields ==
    ASSUME IInv, NEW w \in Workers, NEW s \in Steps
    PROVE  /\ Step(w, s) \in Worker /\ Step(w, s).step = s
           /\ Step(w, s).customer = worker[w].customer
           /\ Step(w, s).session = worker[w].session
           /\ Step(w, s).store = worker[w].store /\ Step(w, s).saved = worker[w].saved
           /\ Step(w, s).writes = worker[w].writes
           /\ Step(w, s).transaction = worker[w].transaction
           /\ Step(w, s).had = worker[w].had /\ Step(w, s).kind = worker[w].kind
           /\ Step(w, s).uuid = worker[w].uuid
           /\ Step(w, s).thinked = worker[w].thinked
           /\ Step(w, s).begun = worker[w].begun
<1>1. worker[w] \in Worker
  BY Mine
<1> QED BY <1>1 DEF Step, Worker

LEMMA RequestKept ==
    ASSUME IInv, NEW w \in Workers, NEW kind \in Kinds, NEW answer \in BOOLEAN,
           Request(w, kind, answer)
    PROVE  IInv'
<1> DEFINE n == [Idle EXCEPT !.step = "find", !.kind = kind, !.answer = answer,
                             !.had = <<Len(customers), Len(sessions)>>]
<1>1. Len(customers) \in Nat /\ Len(sessions) \in Nat
  BY DEF IInv, TypeOK
<1>2. n \in Worker
  BY <1>1, IdleType, ZenonT(30) DEF Worker, Steps
<1>3. /\ n.step = "find" /\ n.had = <<Len(customers), Len(sessions)>>
      /\ n.store = {} /\ n.saved = {} /\ n.writes = NoWrites /\ ~n.transaction
  BY DEF Idle
<1> HIDE DEF n
<1>4. Good(n, customers, sessions)
  BY <1>1, <1>3 DEF Good, Linked, Honest, Remembered, Unknown, Unloaded, NoWrites
<1>5. Goes(w, n) /\ UNCHANGED <<customers, sessions>>
  BY DEF Request, Goes, n
<1>6. taken' \in Nat /\ overlapped' \in BOOLEAN
  BY Mine DEF Request, IInv, TypeOK
<1> QED BY <1>2, <1>4, <1>5, <1>6, Reads

LEMMA FindCustomerKept ==
    ASSUME IInv, NEW w \in Workers, FindCustomer(w), UNCHANGED <<taken, overlapped>>
    PROVE  IInv'
<1>1. worker[w] \in Worker /\ Good(worker[w], customers, sessions)
      /\ taken' \in Nat /\ overlapped' \in BOOLEAN
  BY Mine
<1>2. customers \in Seq(CustomerRow)
  BY DEF IInv, TypeOK
<1>3. CASE customers # <<>>
  <2> DEFINE n == [Step(w, "load") EXCEPT !.customer = 1]
  <2>1. Step(w, "load") \in Worker
    BY StepFields DEF Steps
  <2>2. n \in Worker
    BY <2>1 DEF Worker
  <2>3. /\ n.step = "load" /\ n.customer = 1 /\ n.had = worker[w].had
        /\ n.store = worker[w].store /\ n.saved = worker[w].saved
        /\ n.writes = worker[w].writes /\ n.transaction = worker[w].transaction
    BY <1>1 DEF Step, Worker
  <2>4. Goes(w, n) /\ UNCHANGED <<customers, sessions>>
    BY <1>3 DEF FindCustomer
  <2> HIDE DEF n
  <2>5. 1 \in DOMAIN customers
    BY <1>2, <1>3
  <2>6. Good(n, customers, sessions)
    BY <1>1, <2>3, <2>5
       DEF FindCustomer, At, Good, Linked, Honest, Remembered, Unknown, Unloaded
  <2> QED BY <1>1, <2>2, <2>4, <2>6, Reads
<1>4. CASE customers = <<>>
  <2> DEFINE n == Step(w, "validate")
  <2>1. n \in Worker
    BY StepFields DEF Steps
  <2>2. /\ n.step = "validate" /\ n.had = worker[w].had
        /\ n.store = worker[w].store /\ n.saved = worker[w].saved
        /\ n.writes = worker[w].writes /\ n.transaction = worker[w].transaction
    BY <1>1 DEF Step, Worker
  <2>3. Goes(w, n) /\ UNCHANGED <<customers, sessions>>
    BY <1>4 DEF FindCustomer
  <2>4. n.had[1] = 0
    BY <1>1, <1>4, <2>2 DEF FindCustomer, At, Good, Remembered, Worker
  <2> HIDE DEF n
  <2>5. Good(n, customers, sessions)
    BY <1>1, <2>2, <2>4
       DEF FindCustomer, At, Good, Linked, Honest, Remembered, Unknown, Unloaded
  <2> QED BY <1>1, <2>1, <2>3, <2>5, Reads
<1> QED BY <1>3, <1>4

LEMMA ValidateCustomerKept ==
    ASSUME IInv, NEW w \in Workers, ValidateCustomer(w), UNCHANGED <<taken, overlapped>>
    PROVE  IInv'
<1>1. worker[w] \in Worker /\ Good(worker[w], customers, sessions)
      /\ taken' \in Nat /\ overlapped' \in BOOLEAN
  BY Mine
<1>2. CASE customers # <<>>
  <2>1. Ends(w, TRUE) /\ UNCHANGED <<customers, sessions>>
    BY <1>2 DEF ValidateCustomer, Raise
  <2> QED BY <2>1, Quits
<1>3. CASE customers = <<>>
  <2> DEFINE n == Step(w, "create")
  <2>1. n \in Worker /\ n.step = "create" /\ n.had = worker[w].had
        /\ n.store = worker[w].store /\ n.saved = worker[w].saved
        /\ n.writes = worker[w].writes /\ n.transaction = worker[w].transaction
    BY StepFields DEF Steps
  <2>2. Goes(w, n) /\ UNCHANGED <<customers, sessions>>
    BY <1>3 DEF ValidateCustomer
  <2> HIDE DEF n
  <2>3. Good(n, customers, sessions)
    BY <1>1, <2>1
       DEF ValidateCustomer, At, Good, Linked, Honest, Remembered, Unknown, Unloaded
  <2> QED BY <1>1, <2>1, <2>2, <2>3, Reads
<1> QED BY <1>2, <1>3

LEMMA CreateCustomerKept ==
    ASSUME IInv, NEW w \in Workers, CreateCustomer(w), UNCHANGED <<taken, overlapped>>
    PROVE  IInv'
<1> DEFINE n == [Step(w, "load") EXCEPT !.customer = Len(customers) + 1]
           r == [named |-> FALSE, before |-> worker[w].had[1]]
<1>1. worker[w] \in Worker /\ Good(worker[w], customers, sessions)
      /\ taken' \in Nat /\ overlapped' \in BOOLEAN
  BY Mine
<1>2. /\ customers \in Seq(CustomerRow) /\ sessions \in Seq(SessionRow)
      /\ Len(customers) \in Nat /\ Len(sessions) \in Nat
  BY DEF IInv, TypeOK
<1>3. /\ worker[w].had \in Nat \X Nat
      /\ worker[w].had[1] = 0 /\ worker[w].had[1] <= Len(customers)
      /\ worker[w].had[2] <= Len(sessions)
      /\ worker[w].store = {} /\ worker[w].saved = {} /\ worker[w].writes = NoWrites
  BY <1>1 DEF CreateCustomer, At, Good, Linked, Remembered, Unknown, Unloaded, Worker
<1>4. n \in Worker
  <2>1. Step(w, "load") \in Worker
    BY StepFields DEF Steps
  <2>2. Len(customers) + 1 \in Nat
    BY <1>2
  <2> QED BY <2>1, <2>2 DEF Worker
<1>5. /\ n.step = "load" /\ n.customer = Len(customers) + 1 /\ n.had = worker[w].had
      /\ n.store = {} /\ n.saved = {} /\ n.writes = NoWrites
  BY <1>1, <1>3 DEF Step, Worker
<1>6. Goes(w, n) /\ customers' = Append(customers, r) /\ UNCHANGED sessions
  BY DEF CreateCustomer
<1>7. r \in CustomerRow /\ r.before = 0
  BY <1>3 DEF CustomerRow
<1> HIDE DEF n, r
<1>8. /\ customers' \in Seq(CustomerRow) /\ Len(customers') = Len(customers) + 1
      /\ DOMAIN customers' = 1..Len(customers) + 1 /\ DOMAIN customers = 1..Len(customers)
      /\ \A c \in DOMAIN customers : customers'[c] = customers[c]
      /\ customers'[Len(customers) + 1] = r
  BY <1>2, <1>6, <1>7
<1>9. Grows
  BY <1>2, <1>6, <1>8 DEF Grows
<1>10. Once'
  <2>1. CustomerOnce'
    BY <1>2, <1>7, <1>8 DEF IInv, Once, CustomerOnce
  <2>2. OpenOnce' /\ UuidOnce'
    BY <1>6 DEF IInv, Once, OpenOnce, UuidOnce, Unfinished
  <2> QED BY <2>1, <2>2 DEF Once
<1>11. \A j \in DOMAIN sessions' : RowOK(sessions'[j], customers')
  <2>1. DOMAIN customers \subseteq DOMAIN customers'
    BY <1>2, <1>8
  <2>2. \A j \in DOMAIN sessions : RowOK(sessions[j], customers)
    BY DEF IInv
  <2>3. \A j \in DOMAIN sessions : RowOK(sessions[j], customers')
    BY <1>8, <2>1, <2>2 DEF RowOK
  <2> QED BY <1>6, <2>3
<1>12. Good(n, customers', sessions')
  BY <1>2, <1>3, <1>5, <1>6, <1>8
     DEF Good, Linked, Honest, Remembered, Unknown, Unloaded, NoWrites
<1>13. sessions' \in Seq(SessionRow)
  BY <1>2, <1>6
<1> QED BY <1>1, <1>4, <1>6, <1>8, <1>9, <1>10, <1>11, <1>12, <1>13, Moves

LEMMA LoadSessionKept ==
    ASSUME IInv, NEW w \in Workers, LoadSession(w), UNCHANGED <<taken, overlapped>>
    PROVE  IInv'
<1>1. worker[w] \in Worker /\ Good(worker[w], customers, sessions)
      /\ taken' \in Nat /\ overlapped' \in BOOLEAN /\ worker[w].step = "load"
  BY Mine DEF LoadSession, At
<1>2. sessions \in Seq(SessionRow) /\ DOMAIN sessions = 1..Len(sessions)
      /\ Len(sessions) \in Nat
  BY DEF IInv, TypeOK
<1>3. /\ worker[w].customer \in DOMAIN customers /\ worker[w].writes = NoWrites
      /\ ~worker[w].writes.named /\ worker[w].had \in Nat \X Nat
      /\ worker[w].had[1] <= Len(customers) /\ worker[w].had[2] <= Len(sessions)
      /\ worker[w].store = {} /\ worker[w].saved = {}
  BY <1>1 DEF Good, Linked, Remembered, Unknown, Unloaded, NoWrites, Worker
<1>4. CASE /\ Fresh(w) \/ Unfinished(worker[w].customer) = {}
           /\ Goes(w, Step(w, "draw")) /\ UNCHANGED <<customers, sessions>>
  <2> DEFINE n == Step(w, "draw")
  <2>1. n \in Worker /\ n.step = "draw" /\ n.had = worker[w].had
        /\ n.store = worker[w].store /\ n.saved = worker[w].saved
        /\ n.writes = worker[w].writes /\ n.customer = worker[w].customer
        /\ n.kind = worker[w].kind
    BY StepFields DEF Steps
  <2> HIDE DEF n
  <2>2. n.kind # "ringing" => \A i \in 1..n.had[2] : ~Open(sessions, n.customer, i)
    BY <1>2, <1>3, <1>4, <2>1 DEF Fresh, Unfinished, Open
  <2>3. Good(n, customers, sessions)
    BY <1>3, <2>1, <2>2 DEF Good, Linked, Honest, Remembered, Unknown, Unloaded, NoWrites
  <2> QED BY <1>1, <1>4, <2>1, <2>3, Reads DEF n
<1>5. ASSUME NEW j \in Unfinished(worker[w].customer),
             Goes(w, [Step(w, "touch") EXCEPT !.session = j, !.store = sessions[j].meta,
                                              !.saved = sessions[j].meta]),
             sessions' = [sessions EXCEPT ![j].shared =
                            @ \/ \E v \in Workers \ {w} : worker[v].session = j],
             UNCHANGED customers
      PROVE  IInv'
  <2> DEFINE n == [Step(w, "touch") EXCEPT !.session = j, !.store = sessions[j].meta,
                                           !.saved = sessions[j].meta]
             b == sessions[j].shared \/ \E v \in Workers \ {w} : worker[v].session = j
             r == [sessions[j] EXCEPT !.shared = b]
  <2>1. j \in DOMAIN sessions /\ sessions[j].customer = worker[w].customer
        /\ sessions[j] \in SessionRow /\ j \in Nat /\ sessions[j].meta \in Store
    <3>1. j \in DOMAIN sessions /\ sessions[j].customer = worker[w].customer
      BY DEF Unfinished
    <3>2. j \in Nat /\ sessions[j] \in SessionRow
      BY <1>2, <3>1
    <3> QED BY <3>1, <3>2 DEF SessionRow
  <2>2. RowOK(sessions[j], customers)
    BY <2>1 DEF IInv
  <2>3. n \in Worker
    <3>1. Step(w, "touch") \in Worker
      BY StepFields DEF Steps
    <3> QED BY <2>1, <3>1 DEF Worker
  <2>4. /\ n.step = "touch" /\ n.session = j /\ n.store = sessions[j].meta
        /\ n.saved = sessions[j].meta /\ n.customer = worker[w].customer
        /\ n.writes = NoWrites /\ n.had = worker[w].had
    BY <1>1, <1>3 DEF Step, Worker
  <2>5. b \in BOOLEAN
    BY <2>1 DEF SessionRow
  <2>6. sessions' = [sessions EXCEPT ![j] = r]
    BY <1>5
  <2> HIDE DEF b
  <2>7. /\ r \in SessionRow /\ r.customer = sessions[j].customer
        /\ r.uuid = sessions[j].uuid /\ r.before = sessions[j].before
        /\ r.by = sessions[j].by /\ r.recent = sessions[j].recent
        /\ r.is_finished = sessions[j].is_finished /\ r.meta = sessions[j].meta
        /\ r.transitions = sessions[j].transitions
    BY <2>1, <2>5 DEF SessionRow
  <2>8. Goes(w, n)
    BY <1>5
  <2> HIDE DEF n, r
  <2>9. RowOK(r, customers)
    BY <2>2, <2>7 DEF RowOK
  <2>10. Good(n, customers, sessions)
    BY <1>3, <2>1, <2>2, <2>4
       DEF Good, Linked, Honest, Remembered, HasName, RowOK, Unknown, Unloaded, NoWrites
  <2> QED BY <1>1, <1>5, <2>1, <2>3, <2>6, <2>7, <2>8, <2>9, <2>10, Writes1
<1> QED BY <1>4, <1>5 DEF LoadSession

LEMMA FindUuidKept ==
    ASSUME IInv, NEW w \in Workers, find_unique_uuid(w), UNCHANGED <<taken, overlapped>>
    PROVE  IInv'
<1>1. worker[w] \in Worker /\ Good(worker[w], customers, sessions)
      /\ taken' \in Nat /\ overlapped' \in BOOLEAN /\ worker[w].step = "draw"
  BY Mine DEF find_unique_uuid, At
<1>2. PICK u \in Uuids : ~UuidTaken(u) /\ Goes(w, [Step(w, "unique") EXCEPT !.uuid = u])
  BY DEF find_unique_uuid
<1> DEFINE n == [Step(w, "unique") EXCEPT !.uuid = u]
<1>3. n \in Worker
  <2>1. Step(w, "unique") \in Worker
    BY StepFields DEF Steps
  <2> QED BY <2>1 DEF Worker
<1>4. /\ n.step = "unique" /\ n.uuid = u /\ n.had = worker[w].had
      /\ n.store = worker[w].store /\ n.saved = worker[w].saved
      /\ n.writes = worker[w].writes /\ n.customer = worker[w].customer
      /\ n.kind = worker[w].kind /\ n.transaction = worker[w].transaction
  BY <1>1 DEF Step, Worker
<1>5. \A i \in 1..n.had[2] : sessions[i].uuid # u
  <2>1. sessions \in Seq(SessionRow) /\ worker[w].had[2] \in Nat
    BY <1>1 DEF IInv, TypeOK, Worker
  <2>2. worker[w].had[2] <= Len(sessions)
    BY <1>1 DEF Good, Remembered
  <2> QED BY <1>2, <1>4, <2>1, <2>2 DEF UuidTaken
<1>6. Goes(w, n) /\ UNCHANGED <<customers, sessions>>
  BY <1>2 DEF find_unique_uuid
<1> HIDE DEF n
<1>7. Good(n, customers, sessions)
  BY <1>1, <1>2, <1>4, <1>5 DEF Good, Linked, Honest, Remembered, Unknown, Unloaded
<1> QED BY <1>1, <1>3, <1>6, <1>7, Reads

LEMMA ValidateUuidKept ==
    ASSUME IInv, NEW w \in Workers, ValidateUuid(w), UNCHANGED <<taken, overlapped>>
    PROVE  IInv'
<1>1. worker[w] \in Worker /\ Good(worker[w], customers, sessions)
      /\ taken' \in Nat /\ overlapped' \in BOOLEAN /\ worker[w].step = "unique"
  BY Mine DEF ValidateUuid, At
<1>2. CASE UuidTaken(worker[w].uuid)
  BY <1>2, Quits DEF ValidateUuid, Raise
<1>3. CASE ~UuidTaken(worker[w].uuid)
  <2> DEFINE n == Step(w, "insert")
  <2>1. n \in Worker /\ n.step = "insert" /\ n.had = worker[w].had
        /\ n.store = worker[w].store /\ n.saved = worker[w].saved
        /\ n.writes = worker[w].writes /\ n.customer = worker[w].customer
        /\ n.kind = worker[w].kind /\ n.uuid = worker[w].uuid
        /\ n.transaction = worker[w].transaction
    BY StepFields DEF Steps
  <2>2. Goes(w, n) /\ UNCHANGED <<customers, sessions>>
    BY <1>3 DEF ValidateUuid
  <2> HIDE DEF n
  <2>3. Good(n, customers, sessions)
    BY <1>1, <2>1 DEF Good, Linked, Honest, Remembered, Unknown, Unloaded
  <2> QED BY <1>1, <2>1, <2>2, <2>3, Reads
<1> QED BY <1>2, <1>3

LEMMA CreateSessionKept ==
    ASSUME IInv, NEW w \in Workers, CreateSession(w), UNCHANGED <<taken, overlapped>>
    PROVE  IInv'
<1> DEFINE n == [Step(w, "touch") EXCEPT !.session = Len(sessions) + 1]
           r == [customer |-> worker[w].customer, uuid |-> worker[w].uuid, meta |-> {},
                 transitions |-> {}, is_finished |-> FALSE, recent |-> TRUE,
                 selections |-> 0, before |-> worker[w].had[2],
                 by |-> worker[w].kind, shared |-> FALSE]
           new == Len(sessions) + 1
<1>1. worker[w] \in Worker /\ Good(worker[w], customers, sessions)
      /\ taken' \in Nat /\ overlapped' \in BOOLEAN /\ worker[w].step = "insert"
  BY Mine DEF CreateSession, At
<1>2. /\ customers \in Seq(CustomerRow) /\ sessions \in Seq(SessionRow)
      /\ Len(customers) \in Nat /\ Len(sessions) \in Nat
      /\ DOMAIN sessions = 1..Len(sessions)
  BY DEF IInv, TypeOK
<1>3. /\ worker[w].customer \in DOMAIN customers /\ worker[w].writes = NoWrites
      /\ worker[w].had \in Nat \X Nat /\ worker[w].kind \in Kinds
      /\ worker[w].had[1] <= Len(customers) /\ worker[w].had[2] <= Len(sessions)
      /\ worker[w].store = {} /\ worker[w].saved = {} /\ worker[w].uuid \in Uuids
      /\ \A i \in 1..worker[w].had[2] : sessions[i].uuid # worker[w].uuid
      /\ worker[w].kind # "ringing" =>
             \A i \in 1..worker[w].had[2] : ~Open(sessions, worker[w].customer, i)
  BY <1>1 DEF Good, Linked, Remembered, Unknown, Unloaded, Worker
<1>4. n \in Worker
  <2>1. Step(w, "touch") \in Worker
    BY StepFields DEF Steps
  <2>2. Len(sessions) + 1 \in Nat
    BY <1>2
  <2> QED BY <2>1, <2>2 DEF Worker
<1>5. /\ n.step = "touch" /\ n.session = new /\ n.had = worker[w].had
      /\ n.customer = worker[w].customer /\ n.store = {} /\ n.saved = {}
      /\ n.writes = NoWrites
  BY <1>1, <1>3 DEF Step, Worker
<1>6. Goes(w, n) /\ sessions' = Append(sessions, r) /\ UNCHANGED customers
  BY DEF CreateSession
<1>7. /\ r.customer = worker[w].customer /\ r.uuid = worker[w].uuid /\ r.meta = {}
      /\ r.transitions = {} /\ r.before = worker[w].had[2] /\ r.by = worker[w].kind
  OBVIOUS
<1>8. r \in SessionRow
  <2>1. worker[w].customer \in Nat
    BY <1>1 DEF Worker
  <2> QED BY <1>3, <2>1 DEF SessionRow, Store
<1> HIDE DEF n, r
<1>9. /\ sessions' \in Seq(SessionRow) /\ Len(sessions') = new
      /\ DOMAIN sessions' = 1..new
      /\ \A j \in DOMAIN sessions : sessions'[j] = sessions[j]
      /\ sessions'[new] = r
  BY <1>2, <1>6, <1>8
<1>10. Grows
  BY <1>2, <1>6, <1>9 DEF Grows
<1>11. Once'
  <2>1. CustomerOnce'
    BY <1>6 DEF IInv, Once, CustomerOnce
  <2>2. ASSUME NEW i \in DOMAIN sessions', NEW j \in DOMAIN sessions', i < j, j # new
        PROVE  i \in DOMAIN sessions /\ j \in DOMAIN sessions
               /\ sessions'[i] = sessions[i] /\ sessions'[j] = sessions[j]
    BY <1>2, <1>9, <2>2
  <2>3. ASSUME NEW i \in DOMAIN sessions', i < new
        PROVE  /\ i \in DOMAIN sessions /\ sessions'[i] = sessions[i]
               /\ worker[w].had[2] < i \/ i \in 1..worker[w].had[2]
    BY <1>2, <1>3, <1>9, <2>3
  <2>4. OpenOnce'
    <3>1. SUFFICES ASSUME NEW i \in DOMAIN sessions', NEW j \in DOMAIN sessions', i < j,
                          i \in Unfinished(sessions[j].customer)',
                          sessions'[j].by # "ringing"
                   PROVE  sessions'[j].before < i
      BY DEF OpenOnce
    <3>2. Open(sessions', sessions'[j].customer, i)
      BY <3>1 DEF Unfinished, Open
    <3>3. CASE j # new
      <4>1. i \in DOMAIN sessions /\ j \in DOMAIN sessions
            /\ sessions'[i] = sessions[i] /\ sessions'[j] = sessions[j]
        BY <2>2, <3>1, <3>3
      <4>2. i \in Unfinished(sessions[j].customer)
        BY <3>2, <4>1 DEF Unfinished, Open
      <4> QED BY <3>1, <4>1, <4>2 DEF IInv, Once, OpenOnce
    <3>4. CASE j = new
      <4>1. i \in DOMAIN sessions /\ sessions'[i] = sessions[i]
            /\ (worker[w].had[2] < i \/ i \in 1..worker[w].had[2])
        BY <2>3, <3>1, <3>4
      <4>2. Open(sessions, worker[w].customer, i) /\ worker[w].kind # "ringing"
        BY <1>7, <1>9, <3>1, <3>2, <3>4, <4>1 DEF Open
      <4> QED BY <1>3, <1>7, <1>9, <3>4, <4>1, <4>2
    <3> QED BY <3>3, <3>4
  <2>5. UuidOnce'
    <3>1. SUFFICES ASSUME NEW i \in DOMAIN sessions', NEW j \in DOMAIN sessions', i < j,
                          sessions'[i].uuid = sessions'[j].uuid
                   PROVE  sessions'[j].before < i
      BY DEF UuidOnce
    <3>2. CASE j # new
      BY <2>2, <3>1, <3>2 DEF IInv, Once, UuidOnce
    <3>3. CASE j = new
      BY <1>3, <1>7, <1>9, <2>3, <3>1, <3>3
    <3> QED BY <3>2, <3>3
  <2> QED BY <2>1, <2>4, <2>5 DEF Once
<1>12. \A j \in DOMAIN sessions' : RowOK(sessions'[j], customers')
  <2>1. RowOK(r, customers')
    BY <1>3, <1>6, <1>7 DEF RowOK
  <2>2. \A j \in DOMAIN sessions : RowOK(sessions[j], customers')
    BY <1>6 DEF IInv
  <2> QED BY <1>2, <1>9, <2>1, <2>2
<1>13. Good(n, customers', sessions')
  BY <1>2, <1>3, <1>5, <1>6, <1>7, <1>9
     DEF Good, Linked, Honest, Remembered, Unknown, Unloaded, NoWrites
<1>14. customers' \in Seq(CustomerRow)
  BY <1>2, <1>6
<1> QED BY <1>1, <1>4, <1>6, <1>9, <1>10, <1>11, <1>12, <1>13, <1>14, Moves

LEMMA SaveDeviceKept ==
    ASSUME IInv, NEW w \in Workers, SaveDevice(w), UNCHANGED <<taken, overlapped>>
    PROVE  IInv'
<1>1. worker[w].step = "touch" /\ Save(w, Step(w, "think"))
  BY DEF SaveDevice, At
<1>2. worker[w].step \notin Unloaded
  BY <1>1 DEF Unloaded, Unknown
<1>3. /\ Step(w, "think") \in Worker /\ Step(w, "think").step = "think"
      /\ Step(w, "think").customer = worker[w].customer
      /\ Step(w, "think").session = worker[w].session
      /\ Step(w, "think").store = worker[w].store
      /\ Step(w, "think").saved = worker[w].saved
      /\ Step(w, "think").writes = worker[w].writes
      /\ Step(w, "think").transaction = worker[w].transaction
      /\ Step(w, "think").had = worker[w].had
  BY StepFields DEF Steps
<1> HIDE DEF Step
<1>4. Step(w, "think").step \notin Unloaded
  BY <1>3 DEF Unloaded, Unknown
<1> QED BY <1>1, <1>2, <1>3, <1>4, Saves

-------------------------------------------------------------------------------
(* The engines.                                                            *)

(* A request goes on with its rows as they are, and with no mark that does *)
(* not come with a name.                                                   *)
LEMMA Proceeds ==
    ASSUME IInv, NEW w \in Workers, NEW n \in Worker, Goes(w, n),
           worker[w].step \notin Unloaded, n.step \notin Unloaded,
           n.customer = worker[w].customer, n.session = worker[w].session,
           n.writes.named = worker[w].writes.named,
           n.writes.transitions = worker[w].writes.transitions,
           n.transaction = worker[w].transaction, n.had = worker[w].had,
           Registered \in n.store \cup n.saved =>
               \/ Registered \in worker[w].store \cup worker[w].saved
               \/ HasName(worker[w], customers),
           UNCHANGED <<customers, sessions, taken, overlapped>>
    PROVE  IInv'
<1>1. Good(n, customers, sessions)
  BY Carries
<1>2. taken' \in Nat /\ overlapped' \in BOOLEAN
  BY Mine
<1> QED BY <1>1, <1>2, Reads

(* The same for a step that changes none of these fields.                  *)
LEMMA Steps1 ==
    ASSUME IInv, NEW w \in Workers, NEW s \in Steps \ Unloaded, NEW n \in Worker,
           Goes(w, n), worker[w].step \notin Unloaded, n.step = s,
           n.customer = worker[w].customer, n.session = worker[w].session,
           n.writes = worker[w].writes, n.transaction = worker[w].transaction,
           n.had = worker[w].had, n.saved = worker[w].saved,
           Registered \in n.store =>
               Registered \in worker[w].store \/ HasName(worker[w], customers),
           UNCHANGED <<customers, sessions, taken, overlapped>>
    PROVE  IInv'
BY Proceeds

LEMMA ThinksFields ==
    ASSUME IInv, NEW w \in Workers, NEW s \in States, NEW step \in Steps
    PROVE  /\ Thinks(w, s, step) \in Worker /\ Thinks(w, s, step).step = step
           /\ Thinks(w, s, step).customer = worker[w].customer
           /\ Thinks(w, s, step).session = worker[w].session
           /\ Thinks(w, s, step).store = worker[w].store
           /\ Thinks(w, s, step).saved = worker[w].saved
           /\ Thinks(w, s, step).writes = worker[w].writes
           /\ Thinks(w, s, step).transaction = worker[w].transaction
           /\ Thinks(w, s, step).had = worker[w].had
<1>1. worker[w] \in Worker
  BY Mine
<1>2. (IF worker[w].transaction THEN worker[w].view ELSE s) \in States
  BY <1>1 DEF Worker
<1>3. worker[w].begun \cup {s} \in SUBSET States
  BY <1>1 DEF Worker
<1> QED BY <1>1, <1>2, <1>3 DEF Thinks, Worker

LEMMA CompletesFields ==
    ASSUME IInv, NEW w \in Workers, NEW s \in States
    PROVE  /\ Completes(w, s) \in Worker /\ Completes(w, s).step = "advance"
           /\ Completes(w, s).customer = worker[w].customer
           /\ Completes(w, s).session = worker[w].session
           /\ Completes(w, s).store = worker[w].store \cup {s}
           /\ Completes(w, s).saved = worker[w].saved
           /\ Completes(w, s).writes = worker[w].writes
           /\ Completes(w, s).transaction = worker[w].transaction
           /\ Completes(w, s).had = worker[w].had
<1>1. /\ Thinks(w, s, "advance") \in Worker /\ Thinks(w, s, "advance").step = "advance"
      /\ Thinks(w, s, "advance").customer = worker[w].customer
      /\ Thinks(w, s, "advance").session = worker[w].session
      /\ Thinks(w, s, "advance").store = worker[w].store
      /\ Thinks(w, s, "advance").saved = worker[w].saved
      /\ Thinks(w, s, "advance").writes = worker[w].writes
      /\ Thinks(w, s, "advance").transaction = worker[w].transaction
      /\ Thinks(w, s, "advance").had = worker[w].had
  BY ThinksFields DEF Steps
<1> HIDE DEF Thinks
<1>2. worker[w].store \cup {s} \in Store
  <2>1. worker[w].store \in Store
    BY Mine DEF Worker
  <2> QED BY <2>1 DEF Store
<1> QED BY <1>1, <1>2 DEF Completes, Worker

LEMMA CurrentState ==
    ASSUME IInv, NEW w \in Workers, NEW s \in current_state(w),
           worker[w].step \notin Unloaded
    PROVE  /\ s \in States
           /\ Past(s) => HasName(worker[w], customers)
           /\ next_sort_key(w) \in Nat
<1>1. worker[w] \in Worker /\ Row(w) \in SessionRow /\ RowOK(Row(w), customers)
      /\ Row(w).customer = worker[w].customer /\ Honest(worker[w], customers)
  BY Mine, Loaded
<1>2. Visible(w) \subseteq TransitionRow
  BY <1>1 DEF Visible, SessionRow, Worker, Writes
<1>3. \A t \in Visible(w) : Past(t.to) => HasName(worker[w], customers)
  BY <1>1 DEF Visible, RowOK, Honest, HasName
<1>4. CASE Visible(w) = {}
  <2>1. s = "handshake"
    BY <1>4 DEF current_state
  <2>2. next_sort_key(w) = 0
    BY <1>4 DEF next_sort_key
  <2> QED BY <2>1, <2>2, Indices DEF Past
<1>5. CASE Visible(w) # {}
  <2>1. PICK t \in Latest(Visible(w)) : s = t.to
    BY <1>5 DEF current_state
  <2>2. Latest(Visible(w)) \subseteq Visible(w)
    BY DEF Latest
  <2>3. (CHOOSE u \in Latest(Visible(w)) : TRUE) \in TransitionRow
    BY <1>2, <2>1, <2>2
  <2>4. next_sort_key(w) \in Nat
    BY <1>5, <2>3 DEF next_sort_key, TransitionRow
  <2>5. t \in TransitionRow /\ (Past(t.to) => HasName(worker[w], customers))
    BY <1>2, <1>3, <2>1, <2>2
  <2> QED BY <2>1, <2>4, <2>5 DEF TransitionRow
<1> QED BY <1>4, <1>5

LEMMA AlreadyThinkedKept ==
    ASSUME IInv, NEW w \in Workers, AlreadyThinked(w), UNCHANGED <<taken, overlapped>>
    PROVE  IInv'
<1>1. PICK s \in current_state(w) : Goes(w, Thinks(w, s, "return"))
  BY DEF AlreadyThinked
<1>2. worker[w].step \notin Unloaded
  BY DEF AlreadyThinked, At, Unloaded, Unknown
<1>3. s \in States
  BY <1>1, <1>2, CurrentState
<1> DEFINE n == Thinks(w, s, "return")
<1>4. n \in Worker /\ n.step = "return"
      /\ n.customer = worker[w].customer /\ n.session = worker[w].session
      /\ n.writes = worker[w].writes /\ n.transaction = worker[w].transaction
      /\ n.had = worker[w].had /\ n.saved = worker[w].saved /\ n.store = worker[w].store
  BY <1>3, ThinksFields DEF Steps
<1>5. Goes(w, n) /\ UNCHANGED <<customers, sessions>>
  BY <1>1 DEF AlreadyThinked
<1>6. "return" \in Steps \ Unloaded
  BY DEF Steps, Unloaded, Unknown
<1> HIDE DEF n
<1> QED BY <1>2, <1>4, <1>5, <1>6, Steps1

LEMMA ThinkingSteps ==
    ASSUME IInv, NEW w \in Workers, NEW s \in States, At(w, "think"),
           UNCHANGED <<customers, sessions, taken, overlapped>>
    PROVE  /\ \A step \in Steps \ Unloaded : Goes(w, Thinks(w, s, step)) => IInv'
           /\ (s = Registered => HasName(worker[w], customers))
              /\ Goes(w, Completes(w, s)) => IInv'
<1>1. worker[w].step \notin Unloaded
  BY DEF At, Unloaded, Unknown
<1>2. ASSUME NEW step \in Steps \ Unloaded, Goes(w, Thinks(w, s, step)) PROVE IInv'
  <2> DEFINE n == Thinks(w, s, step)
  <2>1. n \in Worker /\ n.step = step
        /\ n.customer = worker[w].customer /\ n.session = worker[w].session
        /\ n.writes = worker[w].writes /\ n.transaction = worker[w].transaction
        /\ n.had = worker[w].had /\ n.saved = worker[w].saved /\ n.store = worker[w].store
    BY ThinksFields
  <2>2. Goes(w, n)
    BY <1>2
  <2> HIDE DEF n
  <2> QED BY <1>1, <2>1, <2>2, Steps1
<1>3. ASSUME s = Registered => HasName(worker[w], customers), Goes(w, Completes(w, s))
      PROVE  IInv'
  <2> DEFINE n == Completes(w, s)
  <2>1. n \in Worker /\ n.step = "advance"
        /\ n.customer = worker[w].customer /\ n.session = worker[w].session
        /\ n.writes = worker[w].writes /\ n.transaction = worker[w].transaction
        /\ n.had = worker[w].had /\ n.saved = worker[w].saved
        /\ n.store = worker[w].store \cup {s}
    BY CompletesFields
  <2>2. Goes(w, n)
    BY <1>3
  <2>3. "advance" \in Steps \ Unloaded
    BY DEF Steps, Unloaded, Unknown
  <2> HIDE DEF n
  <2> QED BY <1>1, <1>3, <2>1, <2>2, <2>3, Steps1
<1> QED BY <1>2, <1>3

LEMMA HandshakeKept ==
    ASSUME IInv, NEW w \in Workers, Handshake(w), UNCHANGED <<taken, overlapped>>
    PROVE  IInv'
<1>1. At(w, "think") /\ UNCHANGED <<customers, sessions>>
      /\ \/ Goes(w, Completes(w, "handshake"))
         \/ Goes(w, Thinks(w, "handshake", "shake"))
  BY DEF Handshake, Thinking
<1>2. "handshake" \in States /\ "handshake" # Registered
  BY Indices DEF Registered
<1>3. "shake" \in Steps \ Unloaded
  BY DEF Steps, Unloaded, Unknown
<1> QED BY <1>1, <1>2, <1>3, ThinkingSteps

LEMMA ShakeKept ==
    ASSUME IInv, NEW w \in Workers, Shake(w), UNCHANGED <<taken, overlapped>>
    PROVE  IInv'
<1> DEFINE n == [Step(w, "return") EXCEPT !.store = @ \cup {"handshake_shaked_hands"}]
<1>1. worker[w].step \notin Unloaded /\ Save(w, n)
  BY DEF Shake, At, Unloaded, Unknown
<1>2. n \in Worker
  <2>1. worker[w].store \cup {"handshake_shaked_hands"} \in Store
    BY Mine DEF Worker, Store
  <2>2. Step(w, "return") \in Worker /\ Step(w, "return").store = worker[w].store
    BY StepFields DEF Steps
  <2> QED BY <2>1, <2>2 DEF Worker
<1>3. n.step = "return"
      /\ n.customer = worker[w].customer /\ n.session = worker[w].session
      /\ n.writes = worker[w].writes /\ n.transaction = worker[w].transaction
      /\ n.had = worker[w].had /\ n.saved = worker[w].saved
      /\ n.store = worker[w].store \cup {"handshake_shaked_hands"}
  BY Mine DEF Step, Worker
<1> HIDE DEF n
<1>4. n.step \notin Unloaded /\ (Registered \in n.store => Registered \in worker[w].store)
  BY <1>3 DEF Unloaded, Unknown, Registered
<1> QED BY <1>1, <1>2, <1>3, <1>4, Saves

LEMMA InitialDecoderKept ==
    ASSUME IInv, NEW w \in Workers, InitialDecoder(w), UNCHANGED <<taken, overlapped>>
    PROVE  IInv'
<1>1. At(w, "think") /\ UNCHANGED <<customers, sessions>>
      /\ Goes(w, Completes(w, "initial_decoder"))
  BY DEF InitialDecoder, Thinking
<1>2. "initial_decoder" \in States /\ "initial_decoder" # Registered
  BY Indices DEF Registered
<1> QED BY <1>1, <1>2, ThinkingSteps

LEMMA CustomerRegistrationKept ==
    ASSUME IInv, NEW w \in Workers, CustomerRegistration(w), UNCHANGED <<taken, overlapped>>
    PROVE  IInv'
<1>1. At(w, "think") /\ UNCHANGED <<customers, sessions>>
      /\ "customer_registration" \in States
  BY Indices DEF CustomerRegistration, Thinking
<1>2. CASE Named(w) /\ Goes(w, [Completes(w, "customer_registration") EXCEPT !.answer = FALSE])
  <2> DEFINE c == Completes(w, "customer_registration")
             n == [c EXCEPT !.answer = FALSE]
  <2>1. c \in Worker /\ c.step = "advance"
        /\ c.customer = worker[w].customer /\ c.session = worker[w].session
        /\ c.writes = worker[w].writes /\ c.transaction = worker[w].transaction
        /\ c.had = worker[w].had /\ c.saved = worker[w].saved
    BY <1>1, CompletesFields
  <2>2. Goes(w, n)
    BY <1>2
  <2> HIDE DEF c
  <2>3. n \in Worker /\ n.step = "advance"
        /\ n.customer = worker[w].customer /\ n.session = worker[w].session
        /\ n.writes = worker[w].writes /\ n.transaction = worker[w].transaction
        /\ n.had = worker[w].had /\ n.saved = worker[w].saved
    BY <2>1 DEF Worker
  <2>4. HasName(worker[w], customers)
    BY <1>2 DEF Named, HasName
  <2>5. "advance" \in Steps \ Unloaded /\ worker[w].step \notin Unloaded
    BY <1>1 DEF Steps, Unloaded, Unknown, At
  <2> HIDE DEF n
  <2> QED BY <1>1, <2>2, <2>3, <2>4, <2>5, Steps1
<1>3. CASE Goes(w, Thinks(w, "customer_registration", "name"))
           \/ Goes(w, Thinks(w, "customer_registration", "return"))
  <2>1. "name" \in Steps \ Unloaded /\ "return" \in Steps \ Unloaded
    BY DEF Steps, Unloaded, Unknown
  <2> QED BY <1>1, <1>3, <2>1, ThinkingSteps
<1> QED BY <1>2, <1>3 DEF CustomerRegistration

LEMMA UpdateCustomerKept ==
    ASSUME IInv, NEW w \in Workers, UpdateCustomer(w), UNCHANGED <<taken, overlapped>>
    PROVE  IInv'
<1>1. worker[w] \in Worker /\ worker[w].step = "name" /\ worker[w].step \notin Unloaded
      /\ taken' \in Nat /\ overlapped' \in BOOLEAN
  BY Mine DEF UpdateCustomer, At, Unloaded, Unknown
<1>2. CASE Raise(w)
  BY <1>2, Quits DEF Raise
<1>3. ASSUME Goes(w, [Step(w, "advance") EXCEPT !.answer = FALSE,
                         !.store = @ \cup {"customer_registration"},
                         !.writes.named = @ \/ worker[w].transaction]),
             customers' = IF worker[w].transaction THEN customers
                          ELSE [customers EXCEPT ![worker[w].customer].named = TRUE],
             UNCHANGED sessions
      PROVE  IInv'
  <2> DEFINE b == worker[w].writes.named \/ worker[w].transaction
             n == [Step(w, "advance") EXCEPT !.answer = FALSE,
                         !.store = @ \cup {"customer_registration"},
                         !.writes.named = @ \/ worker[w].transaction]
             c == worker[w].customer
             r == [customers[c] EXCEPT !.named = TRUE]
  <2>1. b \in BOOLEAN
    BY <1>1 DEF Worker, Writes
  <2>2. Step(w, "advance") \in Worker /\ Step(w, "advance").step = "advance"
        /\ Step(w, "advance").customer = worker[w].customer
        /\ Step(w, "advance").session = worker[w].session
        /\ Step(w, "advance").store = worker[w].store
        /\ Step(w, "advance").saved = worker[w].saved
        /\ Step(w, "advance").writes = worker[w].writes
        /\ Step(w, "advance").transaction = worker[w].transaction
        /\ Step(w, "advance").had = worker[w].had
    BY StepFields DEF Steps
  <2>3. worker[w].store \cup {"customer_registration"} \in Store
    BY <1>1, Indices DEF Worker, Store
  <2>4. n = [Step(w, "advance") EXCEPT !.answer = FALSE,
                   !.store = worker[w].store \cup {"customer_registration"},
                   !.writes = [worker[w].writes EXCEPT !.named = b]]
    BY <2>2 DEF Worker, Writes
  <2> HIDE DEF b
  <2>5. [worker[w].writes EXCEPT !.named = b] \in Writes
    BY <1>1, <2>1 DEF Worker, Writes
  <2>6. [worker[w].writes EXCEPT !.named = b].named = b
        /\ [worker[w].writes EXCEPT !.named = b].transitions = worker[w].writes.transitions
    BY <1>1 DEF Worker, Writes
  <2>7. n \in Worker /\ n.step = "advance"
        /\ n.customer = worker[w].customer /\ n.session = worker[w].session
        /\ n.writes.named = b /\ n.writes.transitions = worker[w].writes.transitions
        /\ n.transaction = worker[w].transaction /\ n.had = worker[w].had
    <3> HIDE DEF Step, n
    <3> QED BY <2>2, <2>3, <2>4, <2>5, <2>6 DEF Worker
  <2>8. Goes(w, n)
    BY <1>3
  <2> HIDE DEF n
  <2>9. c \in DOMAIN customers /\ customers[c] \in CustomerRow
        /\ (~worker[w].transaction => ~worker[w].writes.named)
        /\ Honest(worker[w], customers) /\ Good(worker[w], customers, sessions)
    BY <1>1, Loaded, Mine
  <2>10. /\ r \in CustomerRow /\ r.before = customers[c].before /\ r.named
    BY <2>9 DEF CustomerRow
  <2>11. CASE worker[w].transaction
    <3>1. b /\ UNCHANGED customers
      BY <1>3, <2>11 DEF b
    <3>2. Good(n, customers, sessions)
      <4>1. Linked(n, customers, sessions)
        BY <1>1, <2>7, <2>9, <2>11, <3>1 DEF Good, Linked, Unloaded, Unknown
      <4>2. Honest(n, customers)
        BY <2>7, <3>1 DEF Honest, HasName
      <4>3. Remembered(n, customers, sessions)
        BY <1>1, <2>7, <2>9 DEF Good, Remembered
      <4> QED BY <4>1, <4>2, <4>3 DEF Good
    <3> QED BY <1>1, <1>3, <2>7, <2>8, <3>1, <3>2, Reads
  <2>12. CASE ~worker[w].transaction
    <3>1. ~b /\ customers' = [customers EXCEPT ![c] = r]
      BY <1>3, <2>9, <2>12 DEF b
    <3> HIDE DEF r
    <3>2. /\ customers' \in Seq(CustomerRow) /\ Len(customers') = Len(customers)
          /\ DOMAIN customers' = DOMAIN customers
          /\ \A k \in DOMAIN customers :
                 /\ customers'[k].before = customers[k].before
                 /\ customers[k].named => customers'[k].named
          /\ customers'[c] = r
      BY <2>9, <2>10, <3>1, CustomerRewritten
    <3>3. sessions \in Seq(SessionRow) /\ Len(sessions) \in Nat /\ Len(customers) \in Nat
      BY DEF IInv, TypeOK
    <3>4. Grows
      BY <1>3, <3>2, <3>3 DEF Grows
    <3>5. Once'
      BY <1>3, <3>2, <3>3, <3>4, OnceStays
    <3>6. \A j \in DOMAIN sessions' : RowOK(sessions'[j], customers')
      <4>1. \A j \in DOMAIN sessions : RowOK(sessions[j], customers)
        BY DEF IInv
      <4>2. \A j \in DOMAIN sessions : RowOK(sessions[j], customers')
        BY <3>2, <4>1 DEF RowOK
      <4> QED BY <1>3, <4>2
    <3>7. Good(n, customers', sessions')
      <4>1. Linked(n, customers', sessions')
        BY <1>1, <1>3, <2>7, <2>9, <3>1, <3>2 DEF Good, Linked, Unloaded, Unknown
      <4>2. Honest(n, customers')
        BY <2>7, <2>10, <3>2 DEF Honest, HasName
      <4>3. Remembered(n, customers', sessions')
        BY <1>1, <1>3, <2>7, <2>9, <3>2 DEF Good, Remembered
      <4> QED BY <4>1, <4>2, <4>3 DEF Good
    <3>8. sessions' \in Seq(SessionRow)
      BY <1>3, <3>3
    <3> QED BY <1>1, <2>7, <2>8, <3>2, <3>4, <3>5, <3>6, <3>7, <3>8, Moves
  <2> QED BY <2>11, <2>12
<1> QED BY <1>2, <1>3 DEF UpdateCustomer

LEMMA AppointmentSelectionKept ==
    ASSUME IInv, NEW w \in Workers, AppointmentSelection(w), UNCHANGED <<taken, overlapped>>
    PROVE  IInv'
<1> DEFINE c == Completes(w, "appointment_selection")
           n == [c EXCEPT !.step = "select"]
<1>1. At(w, "think") /\ UNCHANGED <<customers, sessions>> /\ Goes(w, n)
  BY DEF AppointmentSelection, Thinking
<1>2. c \in Worker /\ c.step = "advance"
      /\ c.customer = worker[w].customer /\ c.session = worker[w].session
      /\ c.writes = worker[w].writes /\ c.transaction = worker[w].transaction
      /\ c.had = worker[w].had /\ c.saved = worker[w].saved
      /\ c.store = worker[w].store \cup {"appointment_selection"}
  BY Indices, CompletesFields
<1> HIDE DEF c
<1>3. n \in Worker /\ n.step = "select"
      /\ n.customer = worker[w].customer /\ n.session = worker[w].session
      /\ n.writes = worker[w].writes /\ n.transaction = worker[w].transaction
      /\ n.had = worker[w].had /\ n.saved = worker[w].saved
      /\ (Registered \in n.store => Registered \in worker[w].store)
  BY <1>2 DEF Worker, Steps, Registered
<1>4. "select" \in Steps \ Unloaded /\ worker[w].step \notin Unloaded
  BY <1>1 DEF Steps, Unloaded, Unknown, At
<1> HIDE DEF n
<1> QED BY <1>1, <1>3, <1>4, Steps1

LEMMA FindSelectionKept ==
    ASSUME IInv, NEW w \in Workers, FindSelection(w), UNCHANGED <<taken, overlapped>>
    PROVE  IInv'
<1>1. worker[w].step \notin Unloaded /\ UNCHANGED <<customers, sessions>>
  BY DEF FindSelection, At, Unloaded, Unknown
<1>2. ASSUME NEW s \in {"reserve", "return"}, Goes(w, Step(w, s)) PROVE IInv'
  <2> DEFINE n == Step(w, s)
  <2>1. s \in Steps \ Unloaded
    BY DEF Steps, Unloaded, Unknown
  <2>2. n \in Worker /\ n.step = s
        /\ n.customer = worker[w].customer /\ n.session = worker[w].session
        /\ n.writes = worker[w].writes /\ n.transaction = worker[w].transaction
        /\ n.had = worker[w].had /\ n.saved = worker[w].saved
        /\ n.store = worker[w].store
    BY <2>1, StepFields
  <2>3. Goes(w, n)
    BY <1>2
  <2> HIDE DEF n
  <2> QED BY <1>1, <2>1, <2>2, <2>3, Steps1
<1>3. CASE Goes(w, [Step(w, "choose") EXCEPT !.answer = FALSE])
  <2> DEFINE c == Step(w, "choose")
             n == [c EXCEPT !.answer = FALSE]
  <2>0. c \in Worker /\ c.step = "choose"
        /\ c.customer = worker[w].customer /\ c.session = worker[w].session
        /\ c.writes = worker[w].writes /\ c.transaction = worker[w].transaction
        /\ c.had = worker[w].had /\ c.saved = worker[w].saved
        /\ c.store = worker[w].store
    BY StepFields DEF Steps
  <2> HIDE DEF c
  <2>1. n \in Worker /\ n.step = "choose"
        /\ n.customer = worker[w].customer /\ n.session = worker[w].session
        /\ n.writes = worker[w].writes /\ n.transaction = worker[w].transaction
        /\ n.had = worker[w].had /\ n.saved = worker[w].saved
        /\ n.store = worker[w].store
    BY <2>0 DEF Worker
  <2>2. Goes(w, n) /\ "choose" \in Steps \ Unloaded
    BY <1>3 DEF Steps, Unloaded, Unknown, c
  <2> HIDE DEF n
  <2> QED BY <1>1, <2>1, <2>2, Steps1
<1> QED BY <1>2, <1>3 DEF FindSelection

LEMMA CreateSelectionKept ==
    ASSUME IInv, NEW w \in Workers, CreateSelection(w), UNCHANGED <<taken, overlapped>>
    PROVE  IInv'
<1> DEFINE n == [Step(w, "return") EXCEPT !.writes.selection = worker[w].transaction]
           j == worker[w].session
           r == [Row(w) EXCEPT !.selections = @ + 1]
<1>1. worker[w].step \notin Unloaded /\ UNCHANGED customers /\ Goes(w, n)
      /\ sessions' = IF worker[w].transaction THEN sessions
                     ELSE [sessions EXCEPT ![j].selections = @ + 1]
  BY DEF CreateSelection, At, Unloaded, Unknown
<1>2. worker[w] \in Worker /\ taken' \in Nat /\ overlapped' \in BOOLEAN
  BY Mine
<1>3. n \in Worker /\ n.step = "return"
      /\ n.customer = worker[w].customer /\ n.session = worker[w].session
      /\ n.writes.named = worker[w].writes.named
      /\ n.writes.transitions = worker[w].writes.transitions
      /\ n.transaction = worker[w].transaction /\ n.had = worker[w].had
      /\ n.saved = worker[w].saved /\ n.store = worker[w].store
  BY <1>2, ZenonT(30) DEF Step, Worker, Steps, Writes
<1> HIDE DEF n
<1>4. n.step \notin Unloaded
  BY <1>3 DEF Unloaded, Unknown
<1>5. CASE worker[w].transaction
  BY <1>1, <1>3, <1>4, <1>5, Proceeds
<1>6. CASE ~worker[w].transaction
  <2>1. j \in DOMAIN sessions /\ Row(w) = sessions[j] /\ Row(w) \in SessionRow
        /\ RowOK(Row(w), customers)
    BY <1>1, Loaded DEF Row
  <2>2. /\ r \in SessionRow /\ r.customer = Row(w).customer /\ r.uuid = Row(w).uuid
        /\ r.before = Row(w).before /\ r.by = Row(w).by /\ r.recent = Row(w).recent
        /\ r.is_finished = Row(w).is_finished /\ r.meta = Row(w).meta
        /\ r.transitions = Row(w).transitions
    BY <2>1 DEF SessionRow
  <2>3. sessions' = [sessions EXCEPT ![j] = r]
    BY <1>1, <1>6, <2>1
  <2> HIDE DEF r, j
  <2>4. RowOK(r, customers)
    BY <2>1, <2>2 DEF RowOK
  <2>5. Good(n, customers, sessions)
    BY <1>1, <1>3, <1>4, Carries
  <2> QED BY <1>1, <1>2, <1>3, <2>1, <2>2, <2>3, <2>4, <2>5, Writes1
<1> QED BY <1>5, <1>6

LEMMA ChooseKept ==
    ASSUME IInv, NEW w \in Workers, Choose(w), UNCHANGED <<taken, overlapped>>
    PROVE  IInv'
<1> DEFINE e == Step(w, "enter")
           n == [e EXCEPT !.to = "finish"]
<1>1. worker[w].step \notin Unloaded /\ Save(w, n)
  BY DEF Choose, At, Unloaded, Unknown
<1>0. e \in Worker /\ e.step = "enter"
      /\ e.customer = worker[w].customer /\ e.session = worker[w].session
      /\ e.writes = worker[w].writes /\ e.transaction = worker[w].transaction
      /\ e.had = worker[w].had /\ e.saved = worker[w].saved
      /\ e.store = worker[w].store
  BY StepFields DEF Steps
<1> HIDE DEF e
<1>2. n \in Worker /\ n.step = "enter"
      /\ n.customer = worker[w].customer /\ n.session = worker[w].session
      /\ n.writes = worker[w].writes /\ n.transaction = worker[w].transaction
      /\ n.had = worker[w].had /\ n.saved = worker[w].saved
      /\ n.store = worker[w].store
  BY <1>0, Indices DEF Worker
<1> HIDE DEF n
<1>3. n.step \notin Unloaded
  BY <1>2 DEF Unloaded, Unknown
<1> QED BY <1>1, <1>2, <1>3, Saves

LEMMA FinishKept ==
    ASSUME IInv, NEW w \in Workers, Finish(w), UNCHANGED <<taken, overlapped>>
    PROVE  IInv'
<1> DEFINE open == worker[w].transaction
           store == worker[w].store
           written == store # worker[w].saved
           m == worker[w].writes.meta \/ (written /\ open)
           t == Thinks(w, "finish", "return")
           n == [t EXCEPT !.saved = store, !.writes.is_finished = open,
                          !.writes.meta = @ \/ (written /\ open)]
           j == worker[w].session
           r == [Row(w) EXCEPT !.is_finished = TRUE,
                               !.meta = IF written THEN store ELSE @]
<1>1. worker[w].step \notin Unloaded
  BY DEF Finish, Thinking, At, Unloaded, Unknown
<1>2. worker[w] \in Worker /\ taken' \in Nat /\ overlapped' \in BOOLEAN
      /\ Honest(worker[w], customers)
  BY <1>1, Mine, Loaded
<1>3. CASE Raise(w)
  BY <1>3, Quits DEF Raise
<1>4. CASE ~Raise(w)
  <2>1. /\ Goes(w, n) /\ UNCHANGED customers
        /\ sessions' = IF open THEN sessions
                 ELSE [sessions EXCEPT ![j].is_finished = TRUE,
                                       ![j].meta = IF written THEN store ELSE @]
    BY <1>4 DEF Finish
  <2>2. t \in Worker /\ t.step = "return"
        /\ t.customer = worker[w].customer /\ t.session = worker[w].session
        /\ t.writes = worker[w].writes /\ t.transaction = worker[w].transaction
        /\ t.had = worker[w].had /\ t.store = worker[w].store
    BY Indices, ThinksFields, SMTT(30) DEF Steps
  <2> HIDE DEF t
  <2>3. m \in BOOLEAN /\ open \in BOOLEAN /\ store \in Store
    BY <1>2 DEF Worker, Writes
  <2>4. n = [t EXCEPT !.saved = store,
                !.writes = [worker[w].writes EXCEPT !.is_finished = open, !.meta = m]]
    BY <1>2, <2>2 DEF Worker, Writes
  <2> HIDE DEF m, n
  <2>5. LET x == [worker[w].writes EXCEPT !.is_finished = open, !.meta = m]
        IN  x \in Writes /\ x.named = worker[w].writes.named
            /\ x.transitions = worker[w].writes.transitions
    BY <1>2, <2>3 DEF Worker, Writes
  <2>6. n \in Worker /\ n.step = "return"
        /\ n.customer = worker[w].customer /\ n.session = worker[w].session
        /\ n.writes.named = worker[w].writes.named
        /\ n.writes.transitions = worker[w].writes.transitions
        /\ n.transaction = worker[w].transaction /\ n.had = worker[w].had
        /\ n.saved = worker[w].store /\ n.store = worker[w].store
    BY <2>2, <2>3, <2>4, <2>5 DEF Worker
  <2>7. n.step \notin Unloaded
    BY <2>6 DEF Unloaded, Unknown
  <2>8. CASE open
    <3>1. UNCHANGED <<customers, sessions>>
      BY <2>1, <2>8
    <3> QED BY <1>1, <2>1, <2>6, <2>7, <3>1, Proceeds
  <2>9. CASE ~open
    <3>1. j \in DOMAIN sessions /\ Row(w) = sessions[j] /\ Row(w) \in SessionRow
          /\ RowOK(Row(w), customers) /\ Row(w).customer = worker[w].customer
          /\ ~worker[w].writes.named
      BY <1>1, <2>9, Loaded DEF Row
    <3>2. /\ r \in SessionRow /\ r.customer = Row(w).customer /\ r.uuid = Row(w).uuid
          /\ r.before = Row(w).before /\ r.by = Row(w).by /\ r.recent = Row(w).recent
          /\ r.is_finished /\ r.meta \in {store, Row(w).meta}
          /\ r.transitions = Row(w).transitions
      BY <2>3, <3>1 DEF SessionRow
    <3>3. sessions' = [sessions EXCEPT ![j] = r]
      BY <2>1, <2>9, <3>1
    <3> HIDE DEF r, j
    <3>4. RowOK(r, customers)
      <4>1. Registered \in store => customers[worker[w].customer].named
        BY <1>1, <1>2, <3>1 DEF Honest, HasName
      <4>2. CASE r.meta = store
        BY <3>1, <3>2, <4>1, <4>2 DEF RowOK
      <4>3. CASE r.meta = Row(w).meta
        BY <3>1, <3>2, <4>3 DEF RowOK
      <4> QED BY <3>2, <4>2, <4>3
    <3>5. Good(n, customers, sessions)
      BY <1>1, <2>6, <2>7, Carries
    <3>6. /\ r.customer = sessions[j].customer /\ r.uuid = sessions[j].uuid
          /\ r.before = sessions[j].before /\ r.by = sessions[j].by
          /\ r.recent => sessions[j].recent
          /\ sessions[j].is_finished => r.is_finished
      BY <3>1, <3>2
    <3> HIDE DEF open, store, written
    <3> QED BY <1>2, <2>1, <2>6, <3>1, <3>2, <3>3, <3>4, <3>5, <3>6, Writes1
  <2> QED BY <2>8, <2>9
<1> QED BY <1>3, <1>4

LEMMA AdvanceKept ==
    ASSUME IInv, NEW w \in Workers, Advance(w), UNCHANGED <<taken, overlapped>>
    PROVE  IInv'
<1> DEFINE n == Step(w, "next")
<1>1. worker[w].step \notin Unloaded /\ Save(w, n)
  BY DEF Advance, At, Unloaded, Unknown
<1>2. n \in Worker /\ n.step = "next"
      /\ n.customer = worker[w].customer /\ n.session = worker[w].session
      /\ n.writes = worker[w].writes /\ n.transaction = worker[w].transaction
      /\ n.had = worker[w].had /\ n.saved = worker[w].saved
      /\ n.store = worker[w].store
  BY StepFields DEF Steps
<1> HIDE DEF n
<1>3. n.step \notin Unloaded
  BY <1>2 DEF Unloaded, Unknown
<1> QED BY <1>1, <1>2, <1>3, Saves

LEMMA NextStateKept ==
    ASSUME IInv, NEW w \in Workers, NextState(w), UNCHANGED <<taken, overlapped>>
    PROVE  IInv'
<1>1. worker[w].step \notin Unloaded /\ UNCHANGED <<customers, sessions>>
  BY DEF NextState, At, Unloaded, Unknown
<1>2. PICK s \in current_state(w) :
          Goes(w, [Step(w, "enter") EXCEPT !.to = next_state_by_priority(s)])
  BY DEF NextState
<1> DEFINE e == Step(w, "enter")
           to == next_state_by_priority(s)
           n == [e EXCEPT !.to = to]
<1>3. to \in States
  BY <1>1, <1>2, CurrentState, NextStates
<1>4. e \in Worker /\ e.step = "enter"
      /\ e.customer = worker[w].customer /\ e.session = worker[w].session
      /\ e.writes = worker[w].writes /\ e.transaction = worker[w].transaction
      /\ e.had = worker[w].had /\ e.saved = worker[w].saved
      /\ e.store = worker[w].store
  BY StepFields DEF Steps
<1>5. Goes(w, n) /\ "enter" \in Steps \ Unloaded
  BY <1>2 DEF Steps, Unloaded, Unknown
<1> HIDE DEF e, to
<1>6. n \in Worker /\ n.step = "enter"
      /\ n.customer = worker[w].customer /\ n.session = worker[w].session
      /\ n.writes = worker[w].writes /\ n.transaction = worker[w].transaction
      /\ n.had = worker[w].had /\ n.saved = worker[w].saved
      /\ n.store = worker[w].store
  BY <1>3, <1>4 DEF Worker
<1> HIDE DEF n
<1> QED BY <1>1, <1>5, <1>6, Steps1

(* A state past registration is entered from one, or with the mark of      *)
(* registration in the request's own store.                                *)
LEMMA TransitionToKept ==
    ASSUME IInv, NEW w \in Workers, TransitionTo(w), UNCHANGED <<taken, overlapped>>
    PROVE  IInv'
<1>1. worker[w] \in Worker /\ taken' \in Nat /\ overlapped' \in BOOLEAN
      /\ worker[w].step \notin Unloaded /\ Good(worker[w], customers, sessions)
      /\ worker[w].step # "idle"
  BY Mine DEF TransitionTo, At, Unloaded, Unknown
<1>2. CASE Raise(w)
  BY <1>2, Quits DEF Raise
<1>3. CASE Goes(w, Step(w, "return")) /\ UNCHANGED <<customers, sessions>>
  <2> DEFINE n == Step(w, "return")
  <2>1. n \in Worker /\ n.step = "return"
        /\ n.customer = worker[w].customer /\ n.session = worker[w].session
        /\ n.writes = worker[w].writes /\ n.transaction = worker[w].transaction
        /\ n.had = worker[w].had /\ n.saved = worker[w].saved
        /\ n.store = worker[w].store
    BY StepFields DEF Steps
  <2>2. Goes(w, n) /\ "return" \in Steps \ Unloaded
    BY <1>3 DEF Steps, Unloaded, Unknown
  <2> HIDE DEF n
  <2> QED BY <1>1, <1>3, <2>1, <2>2, Steps1
<1>4. ASSUME NEW s \in current_state(w), worker[w].to \in successors(s), Approved(w, s),
             Goes(w, [Step(w, "think") EXCEPT !.transaction = TRUE,
                  !.writes.transitions = @ \cup
                      {[to |-> worker[w].to, sort_key |-> next_sort_key(w)]}]),
             UNCHANGED <<customers, sessions>>
      PROVE  IInv'
  <2> DEFINE row == [to |-> worker[w].to, sort_key |-> next_sort_key(w)]
             x == [worker[w].writes EXCEPT !.transitions = @ \cup {row}]
             e == Step(w, "think")
             n == [e EXCEPT !.transaction = TRUE, !.writes.transitions = @ \cup {row}]
  <2>1. /\ s \in States /\ (Past(s) => HasName(worker[w], customers))
        /\ next_sort_key(w) \in Nat
    BY <1>1, CurrentState
  <2>2. worker[w].to \in States /\ (Past(worker[w].to) => s = Registered \/ Past(s))
    BY <1>4, <2>1, NextStates
  <2>3. Past(worker[w].to) => HasName(worker[w], customers)
    <3>1. s = Registered => s \in worker[w].store
      BY <1>4 DEF Approved, Registered
    <3>2. Honest(worker[w], customers)
      BY <1>1, Loaded
    <3> QED BY <1>1, <2>1, <2>2, <3>1, <3>2 DEF Honest
  <2>4. row \in TransitionRow
    BY <2>1, <2>2 DEF TransitionRow
  <2>5. e \in Worker /\ e.step = "think"
        /\ e.customer = worker[w].customer /\ e.session = worker[w].session
        /\ e.writes = worker[w].writes /\ e.transaction = worker[w].transaction
        /\ e.had = worker[w].had /\ e.saved = worker[w].saved
        /\ e.store = worker[w].store
    BY StepFields DEF Steps
  <2>6. Goes(w, n)
    BY <1>4
  <2> HIDE DEF e
  <2>7. n = [e EXCEPT !.transaction = TRUE, !.writes = x]
    BY <2>5 DEF Worker, Writes
  <2>8. row.to = worker[w].to
    OBVIOUS
  <2> HIDE DEF row, n
  <2>9. x \in Writes /\ x.named = worker[w].writes.named
        /\ x.transitions = worker[w].writes.transitions \cup {row}
    BY <1>1, <2>4 DEF Worker, Writes
  <2> HIDE DEF x
  <2>10. n \in Worker /\ n.step = "think" /\ n.transaction
         /\ n.customer = worker[w].customer /\ n.session = worker[w].session
         /\ n.writes = x /\ n.had = worker[w].had /\ n.saved = worker[w].saved
         /\ n.store = worker[w].store
    BY <2>5, <2>7, <2>9 DEF Worker
  <2>11. Linked(n, customers, sessions)
    BY <1>1, <2>10 DEF Good, Linked, Unloaded, Unknown
  <2>12. Honest(n, customers)
    <3>1. HasName(n, customers) <=> HasName(worker[w], customers)
      BY <2>9, <2>10 DEF HasName
    <3> QED BY <1>1, <2>3, <2>8, <2>9, <2>10, <3>1 DEF Good, Honest
  <2>13. Remembered(n, customers, sessions)
    BY <1>1, <2>10 DEF Good, Remembered
  <2>14. Good(n, customers, sessions)
    BY <2>11, <2>12, <2>13 DEF Good
  <2> QED BY <1>1, <1>4, <2>6, <2>10, <2>14, Reads
<1> QED BY <1>2, <1>3, <1>4 DEF TransitionTo

LEMMA ReturnKept ==
    ASSUME IInv, NEW w \in Workers, Return(w), UNCHANGED <<taken, overlapped>>
    PROVE  IInv'
<1> DEFINE me == worker[w]
           new == me.writes
           j == me.session
           c == me.customer
           r == [Row(w) EXCEPT !.transitions = @ \cup new.transitions,
                               !.meta = IF new.meta THEN me.saved ELSE @,
                               !.is_finished = @ \/ new.is_finished,
                               !.selections = IF new.selection THEN @ + 1 ELSE @]
           q == [customers[c] EXCEPT !.named = @ \/ new.named]
           to == IF me.round = 1 THEN "think" ELSE "render"
           n == [me EXCEPT !.step = to, !.round = 2, !.transaction = FALSE,
                           !.writes = NoWrites, !.thinked = @ \cup me.begun, !.begun = {}]
<1>1. worker[w] \in Worker /\ taken' \in Nat /\ overlapped' \in BOOLEAN
      /\ worker[w].step \notin Unloaded /\ Good(worker[w], customers, sessions)
      /\ worker[w].step # "idle"
  BY Mine DEF Return, At, Unloaded, Unknown
<1>2. /\ j \in DOMAIN sessions /\ Row(w) = sessions[j] /\ Row(w) \in SessionRow
      /\ RowOK(Row(w), customers) /\ Row(w).customer = c
      /\ c \in DOMAIN customers /\ customers[c] \in CustomerRow
      /\ Honest(worker[w], customers)
  BY <1>1, Loaded DEF Row
<1>3. /\ new \in Writes /\ me.saved \in Store /\ new.transitions \in SUBSET TransitionRow
      /\ new.is_finished \in BOOLEAN /\ new.named \in BOOLEAN
  BY <1>1 DEF Worker, Writes
<1>4. /\ customers' = [customers EXCEPT ![c] = q] /\ Goes(w, n)
      /\ sessions' = [sessions EXCEPT ![j] = r]
  <2>1. /\ sessions' = [sessions EXCEPT
              ![j].transitions = @ \cup new.transitions,
              ![j].meta = IF new.meta THEN me.saved ELSE @,
              ![j].is_finished = @ \/ new.is_finished,
              ![j].selections = IF new.selection THEN @ + 1 ELSE @]
        /\ customers' = [customers EXCEPT ![c].named = @ \/ new.named]
        /\ Goes(w, n)
    BY DEF Return
  <2> HIDE DEF n
  <2> QED BY <1>2, <2>1, ZenonT(30)
<1>5. /\ n \in Worker /\ n.step \in {"think", "render"} /\ ~n.transaction
      /\ n.customer = c /\ n.session = j /\ n.writes = NoWrites
      /\ n.had = worker[w].had /\ n.saved = worker[w].saved /\ n.store = worker[w].store
  <2>1. to \in {"think", "render"} /\ to \in Steps
    BY DEF Steps
  <2>2. NoWrites \in Writes
    BY DEF NoWrites, Writes
  <2>3. worker[w].thinked \cup worker[w].begun \in SUBSET States
    BY <1>1 DEF Worker
  <2> HIDE DEF to
  <2>4. n \in Worker
    <3>1. {} \in SUBSET States /\ 2 \in 1..2 /\ FALSE \in BOOLEAN
      OBVIOUS
    <3> QED BY <1>1, <2>1, <2>2, <2>3, <3>1 DEF Worker
  <2>5. /\ n.step = to /\ ~n.transaction /\ n.writes = NoWrites
        /\ n.customer = c /\ n.session = j
        /\ n.had = worker[w].had /\ n.saved = worker[w].saved /\ n.store = worker[w].store
    BY <1>1 DEF Worker
  <2> HIDE DEF n
  <2> QED BY <2>1, <2>4, <2>5
<1>6. n.step \notin Unloaded
  BY <1>5 DEF Unloaded, Unknown
<1>7. /\ q \in CustomerRow /\ q.before = customers[c].before
      /\ customers[c].named => q.named
      /\ HasName(worker[w], customers) => q.named
  <2>1. (customers[c].named \/ new.named) \in BOOLEAN
    BY <1>2, <1>3 DEF CustomerRow
  <2>2. q.named = (customers[c].named \/ new.named) /\ q.before = customers[c].before
        /\ q \in CustomerRow
    BY <1>2, <2>1 DEF CustomerRow
  <2> QED BY <2>2 DEF HasName
<1>8. /\ r \in SessionRow /\ r.customer = c /\ r.uuid = Row(w).uuid
      /\ r.before = Row(w).before /\ r.by = Row(w).by /\ r.recent = Row(w).recent
      /\ Row(w).is_finished => r.is_finished
      /\ r.meta \in {me.saved, Row(w).meta}
      /\ r.transitions = Row(w).transitions \cup new.transitions
  <2>1. /\ (Row(w).is_finished \/ new.is_finished) \in BOOLEAN
        /\ (IF new.meta THEN me.saved ELSE Row(w).meta) \in {me.saved, Row(w).meta}
        /\ (IF new.selection THEN Row(w).selections + 1 ELSE Row(w).selections) \in Nat
    BY <1>2, <1>3 DEF SessionRow
  <2> QED BY <1>2, <1>3, <2>1 DEF SessionRow
<1> HIDE DEF n, q, r, to
<1>9. /\ customers' \in Seq(CustomerRow) /\ Len(customers') = Len(customers)
      /\ DOMAIN customers' = DOMAIN customers
      /\ \A k \in DOMAIN customers :
             /\ customers'[k].before = customers[k].before
             /\ customers[k].named => customers'[k].named
      /\ customers'[c] = q
  BY <1>2, <1>4, <1>7, CustomerRewritten
<1>10. /\ r.customer = sessions[j].customer /\ r.uuid = sessions[j].uuid
       /\ r.before = sessions[j].before /\ r.by = sessions[j].by
       /\ r.recent => sessions[j].recent
       /\ sessions[j].is_finished => r.is_finished
  BY <1>2, <1>8
<1>11. /\ sessions' \in Seq(SessionRow) /\ Len(sessions') = Len(sessions)
       /\ DOMAIN sessions' = DOMAIN sessions
       /\ \A k \in DOMAIN sessions :
                  /\ sessions'[k].customer = sessions[k].customer
                  /\ sessions'[k].uuid = sessions[k].uuid
                  /\ sessions'[k].before = sessions[k].before
                  /\ sessions'[k].by = sessions[k].by
                  /\ sessions'[k].recent => sessions[k].recent
                  /\ sessions[k].is_finished => sessions'[k].is_finished
       /\ sessions'[j] = r /\ \A k \in DOMAIN sessions \ {j} : sessions'[k] = sessions[k]
  BY <1>2, <1>4, <1>8, <1>10, SessionRewritten
<1>12. Grows
  <2>1. Len(sessions) \in Nat /\ Len(customers) \in Nat
    BY DEF IInv, TypeOK
  <2> QED BY <1>9, <1>11, <2>1 DEF Grows
<1>13. Once'
  BY <1>9, <1>11, <1>12, OnceStays
<1>14. RowOK(r, customers')
  <2>1. c \in DOMAIN customers' /\ (HasName(worker[w], customers) => customers'[c].named)
        /\ (customers[c].named => customers'[c].named)
    BY <1>2, <1>7, <1>9
  <2>2. Registered \in r.meta => customers'[c].named
    BY <1>1, <1>2, <1>8, <2>1 DEF RowOK, Honest
  <2>3. \A t \in r.transitions : Past(t.to) => customers'[c].named
    BY <1>1, <1>2, <1>8, <2>1 DEF RowOK, Honest
  <2> QED BY <1>8, <2>1, <2>2, <2>3 DEF RowOK
<1>15. \A k \in DOMAIN sessions' : RowOK(sessions'[k], customers')
  <2>1. \A k \in DOMAIN sessions : RowOK(sessions[k], customers)
    BY DEF IInv
  <2>2. \A k \in DOMAIN sessions : RowOK(sessions[k], customers')
    BY <1>9, <2>1 DEF RowOK
  <2> QED BY <1>11, <1>14, <2>2
<1>16. Good(n, customers', sessions')
  <2>1. Linked(n, customers', sessions')
    BY <1>2, <1>5, <1>6, <1>8, <1>9, <1>11 DEF Linked, NoWrites, Unloaded
  <2>2. Honest(n, customers')
    BY <1>1, <1>2, <1>5, <1>7, <1>9 DEF Honest, HasName, NoWrites
  <2>3. Remembered(n, customers', sessions')
    BY <1>1, <1>5, <1>6, <1>9, <1>11 DEF Good, Remembered, Unloaded, Unknown
  <2> QED BY <2>1, <2>2, <2>3 DEF Good
<1> QED BY <1>1, <1>4, <1>5, <1>9, <1>11, <1>12, <1>13, <1>15, <1>16, Moves

LEMMA RenderKept ==
    ASSUME IInv, NEW w \in Workers, Render(w), UNCHANGED <<taken, overlapped>>
    PROVE  IInv'
<1> DEFINE e == Step(w, "answer")
           n == [e EXCEPT !.store = @ \cup {"user_registration_asked"}]
<1>1. worker[w].step \notin Unloaded
  BY DEF Render, At, Unloaded, Unknown
<1>2. e \in Worker /\ e.step = "answer"
      /\ e.customer = worker[w].customer /\ e.session = worker[w].session
      /\ e.writes = worker[w].writes /\ e.transaction = worker[w].transaction
      /\ e.had = worker[w].had /\ e.saved = worker[w].saved
      /\ e.store = worker[w].store
  BY StepFields DEF Steps
<1>3. worker[w].store \cup {"user_registration_asked"} \in Store
  BY Mine DEF Worker, Store
<1>4. \/ Save(w, n) \/ Raise(w)
      \/ Goes(w, e) /\ UNCHANGED <<customers, sessions>>
  BY DEF Render
<1> HIDE DEF e
<1>5. CASE Save(w, n)
  <2>1. n \in Worker /\ n.step = "answer"
        /\ n.customer = worker[w].customer /\ n.session = worker[w].session
        /\ n.writes = worker[w].writes /\ n.transaction = worker[w].transaction
        /\ n.had = worker[w].had /\ n.saved = worker[w].saved
        /\ n.store = worker[w].store \cup {"user_registration_asked"}
    BY <1>2, <1>3 DEF Worker
  <2> HIDE DEF n
  <2>2. n.step \notin Unloaded /\ (Registered \in n.store => Registered \in worker[w].store)
    BY <2>1 DEF Unloaded, Unknown, Registered
  <2> QED BY <1>1, <1>5, <2>1, <2>2, Saves
<1>6. CASE Raise(w)
  BY <1>6, Quits DEF Raise
<1>7. CASE Goes(w, e) /\ UNCHANGED <<customers, sessions>>
  <2>1. "answer" \in Steps \ Unloaded
    BY DEF Steps, Unloaded, Unknown
  <2> QED BY <1>1, <1>2, <1>7, <2>1, Steps1
<1> QED BY <1>4, <1>5, <1>6, <1>7

LEMMA ExpireKept ==
    ASSUME IInv, Expire
    PROVE  IInv'
<1>1. PICK j \in DOMAIN sessions : sessions' = [sessions EXCEPT ![j].recent = FALSE]
  BY DEF Expire
<1> DEFINE r == [sessions[j] EXCEPT !.recent = FALSE]
<1>2. customers \in Seq(CustomerRow) /\ sessions \in Seq(SessionRow)
      /\ Len(customers) \in Nat /\ Len(sessions) \in Nat
  BY DEF IInv, TypeOK
<1>3. sessions[j] \in SessionRow
  BY <1>2
<1>4. /\ r \in SessionRow /\ r.customer = sessions[j].customer /\ r.uuid = sessions[j].uuid
      /\ r.before = sessions[j].before /\ r.by = sessions[j].by /\ ~r.recent
      /\ r.is_finished = sessions[j].is_finished /\ r.meta = sessions[j].meta
      /\ r.transitions = sessions[j].transitions
  BY <1>3 DEF SessionRow
<1>5. sessions' = [sessions EXCEPT ![j] = r]
  BY <1>1
<1> HIDE DEF r
<1>6. /\ sessions' \in Seq(SessionRow) /\ Len(sessions') = Len(sessions)
      /\ DOMAIN sessions' = DOMAIN sessions
      /\ sessions'[j] = r /\ \A k \in DOMAIN sessions \ {j} : sessions'[k] = sessions[k]
  BY <1>4, <1>5, SessionRewritten
<1>7. UNCHANGED <<customers, worker, taken, overlapped>>
  BY DEF Expire
<1>8. Grows
  BY <1>2, <1>4, <1>6, <1>7 DEF Grows
<1>9. customers' \in Seq(CustomerRow) /\ Once'
  BY <1>2, <1>6, <1>7, <1>8, OnceStays
<1>10. \A k \in DOMAIN sessions' : RowOK(sessions'[k], customers')
  <2>1. \A k \in DOMAIN sessions : RowOK(sessions[k], customers)
    BY DEF IInv
  <2>2. RowOK(r, customers)
    BY <1>4, <2>1 DEF RowOK
  <2> QED BY <1>6, <1>7, <2>1, <2>2
<1>11. \A v \in Workers : Good(worker'[v], customers', sessions')
  <2>1. SUFFICES ASSUME NEW v \in Workers PROVE Good(worker[v], customers', sessions')
    BY <1>7
  <2>2. worker[v] \in Worker /\ Good(worker[v], customers, sessions)
    BY Mine
  <2> QED BY <1>6, <1>8, <1>9, <2>2, GoodStays
<1> QED BY <1>6, <1>7, <1>9, <1>10, <1>11 DEF IInv, TypeOK

-------------------------------------------------------------------------------
(* The invariant.                                                          *)

LEMMA InitKept == Init => IInv
<1>1. SUFFICES ASSUME Init PROVE IInv
  OBVIOUS
<1>2. PICK s \in Starts : customers = s.customers /\ sessions = s.sessions
  BY <1>1 DEF Init
<1>3. /\ customers \in Seq(CustomerRow) /\ Len(customers) <= 1 /\ Len(customers) \in Nat
      /\ sessions \in Seq(SessionRow) /\ Len(sessions) <= 1 /\ Len(sessions) \in Nat
      /\ \A c \in DOMAIN customers : customers[c].before = 0
      /\ \A j \in DOMAIN sessions :
             /\ sessions[j].customer \in DOMAIN customers
             /\ \/ customers[sessions[j].customer].named
                \/ /\ "customer_registration" \notin sessions[j].meta
                   /\ \A t \in sessions[j].transitions :
                          IndexOf(t.to) <= IndexOf("customer_registration")
  BY <1>2, StartsAssumption
<1>4. /\ worker = [w \in Workers |-> Idle] /\ taken = 0 /\ overlapped = FALSE
  BY <1>1 DEF Init
<1>5. TypeOK
  BY <1>3, <1>4, IdleType DEF TypeOK
<1>6. \A j \in DOMAIN sessions : RowOK(sessions[j], customers)
  <2>1. SUFFICES ASSUME NEW j \in DOMAIN sessions PROVE RowOK(sessions[j], customers)
    OBVIOUS
  <2>2. sessions[j] \in SessionRow
    BY <1>3
  <2>3. ASSUME NEW t \in sessions[j].transitions, Past(t.to)
        PROVE  ~(IndexOf(t.to) <= IndexOf("customer_registration"))
    BY <2>2, <2>3, Indices DEF Past, SessionRow, TransitionRow
  <2> QED BY <1>3, <2>3 DEF RowOK, Registered
<1>7. Once
  <2>1. \A i, j \in DOMAIN sessions : ~(i < j)
    BY <1>3
  <2> QED BY <1>3, <2>1 DEF Once, CustomerOnce, OpenOnce, UuidOnce
<1>8. \A w \in Workers : Good(worker[w], customers, sessions)
  BY <1>4 DEF Good, Linked, Honest, Remembered, Idle, Unknown, Unloaded, NoWrites
<1> QED BY <1>5, <1>6, <1>7, <1>8 DEF IInv

LEMMA WorksKept ==
    ASSUME IInv, NEW w \in Workers, Works(w) \/ Killed(w), UNCHANGED <<taken, overlapped>>
    PROVE  IInv'
<1>1. CASE \/ FindCustomer(w) \/ ValidateCustomer(w) \/ CreateCustomer(w)
           \/ LoadSession(w) \/ find_unique_uuid(w) \/ ValidateUuid(w)
           \/ CreateSession(w) \/ SaveDevice(w)
  BY <1>1, FindCustomerKept, ValidateCustomerKept, CreateCustomerKept, LoadSessionKept,
     FindUuidKept, ValidateUuidKept, CreateSessionKept, SaveDeviceKept
<1>2. CASE \/ AlreadyThinked(w) \/ Handshake(w) \/ Shake(w) \/ InitialDecoder(w)
           \/ CustomerRegistration(w) \/ UpdateCustomer(w)
  BY <1>2, AlreadyThinkedKept, HandshakeKept, ShakeKept, InitialDecoderKept,
     CustomerRegistrationKept, UpdateCustomerKept
<1>3. CASE \/ AppointmentSelection(w) \/ FindSelection(w) \/ CreateSelection(w)
           \/ Choose(w) \/ Finish(w)
  BY <1>3, AppointmentSelectionKept, FindSelectionKept, CreateSelectionKept, ChooseKept,
     FinishKept
<1>4. CASE Advance(w) \/ NextState(w) \/ TransitionTo(w) \/ Return(w) \/ Render(w)
  BY <1>4, AdvanceKept, NextStateKept, TransitionToKept, ReturnKept, RenderKept
<1>5. CASE Answer(w) \/ Killed(w)
  BY <1>5, Quits DEF Answer, Killed
<1> QED BY <1>1, <1>2, <1>3, <1>4, <1>5 DEF Works

LEMMA Inductive == IInv /\ [Next]_vars => IInv'
<1>1. SUFFICES ASSUME IInv, [Next]_vars PROVE IInv'
  OBVIOUS
<1>2. ASSUME NEW w \in Workers, NEW kind \in Kinds, NEW answer \in BOOLEAN,
             Request(w, kind, answer)
      PROVE  IInv'
  BY <1>1, <1>2, RequestKept
<1>3. ASSUME NEW w \in Workers, Works(w) \/ Killed(w), UNCHANGED <<taken, overlapped>>
      PROVE  IInv'
  BY <1>1, <1>3, WorksKept
<1>4. CASE Expire
  BY <1>1, <1>4, ExpireKept
<1>5. CASE UNCHANGED vars
  BY <1>1, <1>5 DEF vars, IInv, TypeOK, Once, CustomerOnce, OpenOnce, UuidOnce, Unfinished
<1> QED BY <1>1, <1>2, <1>3, <1>4, <1>5 DEF Next

(* Of every request under way and every row, however many overlap.         *)
THEOREM SessionsInvariant == Spec => []IInv
<1> QED BY InitKept, Inductive, PTL DEF Spec

(* The rows and the processes' records keep their shapes.                  *)
THEOREM TypeCorrect == Spec => []TypeOK
<1>1. IInv => TypeOK
  BY DEF IInv
<1> QED BY SessionsInvariant, <1>1, PTL

(* Customer.load makes a second customer by overlap alone.                 *)
THEOREM CustomersMadeOnce == Spec => []CustomerOnce
<1>1. IInv => CustomerOnce
  BY DEF IInv, Once
<1> QED BY SessionsInvariant, <1>1, PTL

(* BaseSession.load starts a second conversation by overlap alone.         *)
THEOREM ConversationsOpenOnce == Spec => []OpenOnce
<1>1. IInv => OpenOnce
  BY DEF IInv, Once
<1> QED BY SessionsInvariant, <1>1, PTL

(* find_unique_uuid gives a number twice by overlap alone.                 *)
THEOREM NumbersGivenOnce == Spec => []UuidOnce
<1>1. IInv => UuidOnce
  BY DEF IInv, Once
<1> QED BY SessionsInvariant, <1>1, PTL

(* No session gets past registration without a name, in whatever order the *)
(* steps of its requests fall: every mark of registration a request holds, *)
(* and every state past it that it sees, comes with a name it can see.     *)
THEOREM NameComesFirst == Spec => []NamedFirst
<1>1. IInv => NamedFirst
  <2>1. SUFFICES ASSUME IInv, NEW j \in DOMAIN sessions,
                        NEW t \in sessions[j].transitions,
                        IndexOf(t.to) > IndexOf("customer_registration")
                 PROVE  customers[sessions[j].customer].named
    BY DEF NamedFirst
  <2>2. sessions[j] \in SessionRow
    BY <2>1 DEF IInv, TypeOK
  <2>3. t.to \in States
    BY <2>2 DEF SessionRow, TransitionRow
  <2>4. Past(t.to)
    BY <2>1, <2>3, PastIndex
  <2> QED BY <2>1, <2>4 DEF IInv, RowOK
<1> QED BY SessionsInvariant, <1>1, PTL

-------------------------------------------------------------------------------
(* What holds of a session that no two requests ever had at once: the       *)
(* request that has it, if one does, sees in its memory what the row will   *)
(* be, and so no mark is lost and no second selection is made.              *)

(* Between an engine's end of thinking and the transition it asks for.     *)
Going == {"name", "select", "reserve", "choose", "advance", "next", "enter"}

(* What a request m that has the session r to itself relies on: its saved  *)
(* copy is the column, or will be when it commits; every state it sees was *)
(* passed with the marks in that copy; and a selection is made of a        *)
(* session that has none.                                                  *)
Sole(m, r) ==
    /\ ~m.writes.meta => r.meta = m.saved
    /\ m.saved \subseteq m.store
    /\ \A t \in r.transitions \cup m.writes.transitions : Passed(t.to) \subseteq m.saved
    /\ m.step \in Going => "handshake" \in m.store
    /\ m.step \in {"next", "enter"} => m.saved = m.store
    /\ m.step = "reserve" => r.selections = 0 /\ ~m.writes.selection
    /\ m.writes.selection => r.selections = 0

(* A session's row as committed.                                           *)
Kept(r) ==
    /\ \A t \in r.transitions : Passed(t.to) \subseteq r.meta
    /\ r.selections <= 1

Unshared(j) ==
    /\ Kept(sessions[j])
    /\ \A v, w \in Workers : worker[v].session = j /\ worker[w].session = j => v = w
    /\ \A w \in Workers : worker[w].session = j => Sole(worker[w], sessions[j])

Keeps ==
    /\ \A w \in Workers : worker[w].step \in Unloaded => worker[w].session = 0
    /\ \A j \in DOMAIN sessions : ~sessions[j].shared => Unshared(j)

KInv == IInv /\ Keeps

-------------------------------------------------------------------------------
(* The states that are passed.                                             *)

LEMMA PassedStates ==
    /\ Passed("handshake") = {} /\ Passed("initial_decoder") = {"handshake"}
    /\ Passed("customer_registration") = {"handshake", "initial_decoder"}
    /\ Passed("appointment_selection") =
           {"handshake", "initial_decoder", "customer_registration"}
    /\ Passed("finish") = {"handshake", "initial_decoder", "customer_registration",
                           "appointment_selection"}
<1>1. linear_states[1] = "handshake" /\ linear_states[2] = "initial_decoder"
      /\ linear_states[3] = "customer_registration"
      /\ linear_states[4] = "appointment_selection"
  BY DEF linear_states
<1>2. 1..0 = {} /\ 1..1 = {1} /\ 1..2 = {1, 2} /\ 1..3 = {1, 2, 3}
      /\ 1..4 = {1, 2, 3, 4}
  OBVIOUS
<1>3. 1 - 1 = 0 /\ 2 - 1 = 1 /\ 3 - 1 = 2 /\ 4 - 1 = 3 /\ 5 - 1 = 4
  OBVIOUS
<1> QED BY <1>1, <1>2, <1>3, Indices DEF Passed

(* What is passed by a transition is what its state had, and the state.    *)
LEMMA Successors ==
    ASSUME NEW s \in States, NEW to \in successors(s)
    PROVE  to \in States /\ Passed(to) \subseteq Passed(s) \cup {s}
<1>1. linear_states[2] = "initial_decoder"
      /\ linear_states[3] = "customer_registration"
      /\ linear_states[4] = "appointment_selection" /\ linear_states[5] = "finish"
  BY DEF linear_states
<1>2. s # "finish" => \/ s = "handshake" /\ next_state_by_priority(s) = "initial_decoder"
                      \/ s = "initial_decoder" /\ next_state_by_priority(s) = "customer_registration"
                      \/ s = "customer_registration"
                         /\ next_state_by_priority(s) = "appointment_selection"
                      \/ s = "appointment_selection" /\ next_state_by_priority(s) = "finish"
  BY <1>1, Indices DEF next_state_by_priority
<1>3. \/ s = "finish" /\ to = "appointment_selection"
      \/ s # "finish" /\ to \in {next_state_by_priority(s), "handshake", s}
  BY DEF successors
<1> QED BY <1>2, <1>3, Indices, PassedStates

-------------------------------------------------------------------------------
(* Frames.                                                                 *)

LEMMA Rows ==
    ASSUME IInv
    PROVE  /\ 0 \notin DOMAIN sessions
           /\ \A j \in DOMAIN sessions : sessions[j] \in SessionRow
           /\ Len(sessions) \in Nat /\ DOMAIN sessions = 1..Len(sessions)
BY DEF IInv, TypeOK

(* A request without a session, before its step and after, or after only.  *)
LEMMA Apart ==
    ASSUME KInv, NEW w \in Workers, NEW n \in Worker, Goes(w, n),
           n.session = 0, UNCHANGED sessions
    PROVE  Keeps'
<1>1. /\ worker' \in [Workers -> Worker] /\ worker'[w] = n
      /\ \A v \in Workers \ {w} : worker'[v] = worker[v]
  BY GoesOn DEF KInv, IInv, TypeOK
<1>2. \A v \in Workers : worker'[v].step \in Unloaded => worker'[v].session = 0
  BY <1>1 DEF KInv, Keeps
<1>3. \A v \in Workers, j \in DOMAIN sessions :
          worker'[v].session = j => worker'[v] = worker[v] /\ worker[v].session = j
  BY <1>1, Rows DEF KInv
<1>4. ASSUME NEW j \in DOMAIN sessions, Unshared(j) PROVE Unshared(j)'
  BY <1>3, <1>4 DEF Unshared
<1> QED BY <1>2, <1>4 DEF KInv, Keeps

(* A request that has its session, of which it may write the row.          *)
LEMMA Alone ==
    ASSUME KInv, NEW w \in Workers, NEW n \in Worker, Goes(w, n),
           worker[w].step \notin Unloaded, n.step \notin Unloaded,
           n.session = worker[w].session, DOMAIN sessions' = DOMAIN sessions,
           \A k \in DOMAIN sessions \ {worker[w].session} : sessions'[k] = sessions[k],
           sessions'[worker[w].session].shared = Row(w).shared,
           Kept(Row(w)) /\ Sole(worker[w], Row(w)) =>
               /\ Kept(sessions'[worker[w].session])
               /\ Sole(n, sessions'[worker[w].session])
    PROVE  Keeps'
<1> DEFINE i == worker[w].session
<1>1. /\ worker' \in [Workers -> Worker] /\ worker'[w] = n
      /\ \A v \in Workers \ {w} : worker'[v] = worker[v]
  BY GoesOn DEF KInv, IInv, TypeOK
<1>2. \A v \in Workers : worker'[v].step \in Unloaded => worker'[v].session = 0
  BY <1>1 DEF KInv, Keeps
<1>3. \A v \in Workers : worker'[v].session = worker[v].session
  BY <1>1
<1>4. i \in DOMAIN sessions /\ Row(w) = sessions[i]
  BY Loaded DEF KInv, Row
<1>5. ASSUME NEW j \in DOMAIN sessions \ {i}, Unshared(j) PROVE Unshared(j)'
  BY <1>1, <1>3, <1>5 DEF Unshared
<1>6. ASSUME NEW j \in DOMAIN sessions, j = i, Unshared(j) PROVE Unshared(j)'
  <2>1. Kept(sessions'[j]) /\ Sole(n, sessions'[j])
    BY <1>4, <1>6 DEF Unshared
  <2>2. \A v \in Workers : worker[v].session = j => v = w
    BY <1>6 DEF Unshared
  <2>3. \A v \in Workers : worker'[v].session = j => v = w
    BY <1>3, <2>2
  <2> QED BY <1>1, <2>1, <2>3 DEF Unshared
<1>7. ASSUME NEW j \in DOMAIN sessions', ~sessions'[j].shared PROVE Unshared(j)'
  <2>1. j \in DOMAIN sessions /\ ~sessions[j].shared
    BY <1>4, <1>7
  <2>2. Unshared(j)
    BY <2>1 DEF KInv, Keeps
  <2> QED BY <1>5, <1>6, <2>1, <2>2
<1> QED BY <1>2, <1>7 DEF Keeps

(* What a request that is alone finds was passed with the marks it has.    *)
LEMMA PassedFound ==
    ASSUME KInv, NEW w \in Workers, worker[w].step \notin Unloaded,
           Sole(worker[w], Row(w)), NEW s \in current_state(w)
    PROVE  /\ s \in States /\ Passed(s) \subseteq worker[w].saved
           /\ s = "handshake" \/ "handshake" \in worker[w].store
<1>1. s \in States
  BY CurrentState DEF KInv
<1>2. Passed(s) \subseteq worker[w].saved
  <2>1. CASE Visible(w) = {}
    BY <2>1, PassedStates DEF current_state
  <2>2. CASE Visible(w) # {}
    <3>1. PICK t \in Latest(Visible(w)) : s = t.to
      BY <2>2 DEF current_state
    <3>2. t \in Row(w).transitions \cup worker[w].writes.transitions
      BY <3>1 DEF Latest, Visible
    <3> QED BY <3>1, <3>2 DEF Sole
  <2> QED BY <2>1, <2>2
<1>3. s = "handshake" \/ "handshake" \in Passed(s)
  BY <1>1, Indices, PassedStates
<1>4. worker[w].saved \subseteq worker[w].store
  BY DEF Sole
<1> QED BY <1>1, <1>2, <1>3, <1>4

(* A step that writes nothing.                                             *)
LEMMA Eases ==
    ASSUME KInv, NEW w \in Workers, NEW n \in Worker, Goes(w, n), UNCHANGED sessions,
           worker[w].step \notin Unloaded, n.step \notin Unloaded,
           n.session = worker[w].session, n.saved = worker[w].saved,
           n.writes.meta = worker[w].writes.meta,
           n.writes.transitions = worker[w].writes.transitions,
           n.writes.selection = worker[w].writes.selection,
           worker[w].store \subseteq n.store,
           n.step \notin {"next", "enter", "reserve"},
           Sole(worker[w], Row(w)) /\ n.step \in Going => "handshake" \in n.store
    PROVE  Keeps'
<1>1. worker[w].session \in DOMAIN sessions /\ sessions[worker[w].session] = Row(w)
  BY Loaded DEF KInv, Row
<1>2. ASSUME Sole(worker[w], Row(w)) PROVE Sole(n, Row(w))
  BY <1>2 DEF Sole
<1> QED BY <1>1, <1>2, Alone

LEMMA Gone ==
    ASSUME KInv, NEW w \in Workers, NEW raised \in BOOLEAN, Ends(w, raised),
           UNCHANGED sessions
    PROVE  Keeps'
<1> DEFINE n == [Idle EXCEPT !.raised = raised]
<1>1. n \in Worker /\ n.session = 0
  BY IdleType, ZenonT(30) DEF Worker, Idle
<1>2. Goes(w, n)
  BY DEF Ends, Goes
<1> HIDE DEF n
<1> QED BY <1>1, <1>2, Apart

(* save!: what is stored is the column, or will be.                        *)
LEMMA Stores ==
    ASSUME KInv, NEW w \in Workers, NEW new \in Worker, Save(w, new),
           worker[w].step \notin Unloaded, new.step \notin Unloaded,
           new.session = worker[w].session, new.writes = worker[w].writes,
           worker[w].store \subseteq new.store, new.step # "reserve",
           Sole(worker[w], Row(w)) /\ new.step \in Going => "handshake" \in new.store
    PROVE  Keeps'
<1> DEFINE written == new.store # worker[w].saved
           b == new.writes.meta \/ (written /\ worker[w].transaction)
           n == [new EXCEPT !.saved = new.store,
                            !.writes.meta = @ \/ (written /\ worker[w].transaction)]
           j == worker[w].session
           r == [Row(w) EXCEPT !.meta = new.store]
<1>1. j \in DOMAIN sessions /\ sessions[j] = Row(w) /\ Row(w) \in SessionRow
      /\ worker[w] \in Worker /\ sessions \in Seq(SessionRow)
  BY Loaded, Mine DEF KInv, Row, IInv, TypeOK
<1>2. CASE Invalid(w)
  BY <1>2, Gone DEF Save, Raise
<1>3. CASE ~Invalid(w)
  <2>1. b \in BOOLEAN
    BY <1>1 DEF Worker, Writes
  <2>2. n = [new EXCEPT !.saved = new.store, !.writes = [new.writes EXCEPT !.meta = b]]
    BY DEF Worker, Writes
  <2> HIDE DEF n, b
  <2>3. /\ n \in Worker /\ n.step = new.step /\ n.session = j
        /\ n.store = new.store /\ n.saved = new.store
        /\ n.writes.meta = b
        /\ n.writes.transitions = worker[w].writes.transitions
        /\ n.writes.selection = worker[w].writes.selection
    BY <2>1, <2>2 DEF Worker, Writes
  <2>4. /\ Goes(w, n)
        /\ sessions' = IF written /\ ~worker[w].transaction
                       THEN [sessions EXCEPT ![j].meta = new.store]
                       ELSE sessions
    BY <1>3 DEF Save, n
  <2>5. /\ r \in SessionRow /\ r.meta = new.store /\ r.transitions = Row(w).transitions
        /\ r.selections = Row(w).selections /\ r.shared = Row(w).shared
    BY <1>1 DEF SessionRow, Worker
  <2>6. /\ DOMAIN sessions' = DOMAIN sessions
        /\ \A k \in DOMAIN sessions \ {j} : sessions'[k] = sessions[k]
        /\ sessions'[j] = IF written /\ ~worker[w].transaction THEN r ELSE Row(w)
    BY <1>1, <2>4
  <2> HIDE DEF r
  <2>7. ASSUME Kept(Row(w)), Sole(worker[w], Row(w))
        PROVE  Kept(sessions'[j]) /\ Sole(n, sessions'[j])
    <3>1. \A t \in Row(w).transitions \cup worker[w].writes.transitions :
              Passed(t.to) \subseteq new.store
      BY <2>7 DEF Sole
    <3>2. CASE written /\ ~worker[w].transaction
      <4>1. sessions'[j] = r
        BY <2>6, <3>2
      <4> HIDE DEF j, written
      <4>2. Kept(r)
        BY <2>5, <2>7, <3>1 DEF Kept
      <4>3. Sole(n, r)
        BY <2>3, <2>5, <2>7, <3>1 DEF Sole
      <4> QED BY <4>1, <4>2, <4>3
    <3>3. CASE written /\ worker[w].transaction
      <4>1. sessions'[j] = Row(w) /\ b
        BY <2>6, <3>3 DEF b
      <4> HIDE DEF j, written
      <4> QED BY <2>3, <2>7, <3>1, <4>1 DEF Sole
    <3>4. CASE ~written
      <4>1. sessions'[j] = Row(w) /\ (b <=> worker[w].writes.meta)
            /\ new.store = worker[w].saved
        BY <2>6, <3>4 DEF b
      <4> HIDE DEF j, written
      <4> QED BY <2>3, <2>7, <3>1, <4>1 DEF Sole
    <3> QED BY <3>2, <3>3, <3>4
  <2>8. sessions'[j].shared = Row(w).shared
    BY <2>5, <2>6
  <2> QED BY <2>3, <2>4, <2>6, <2>7, <2>8, Alone
<1> QED BY <1>2, <1>3

-------------------------------------------------------------------------------
(* Before a request has its session.                                       *)

LEMMA RequestAlone ==
    ASSUME KInv, NEW w \in Workers, NEW kind \in Kinds, NEW answer \in BOOLEAN,
           Request(w, kind, answer)
    PROVE  Keeps'
<1> DEFINE n == [Idle EXCEPT !.step = "find", !.kind = kind, !.answer = answer,
                             !.had = <<Len(customers), Len(sessions)>>]
<1>1. Len(customers) \in Nat /\ Len(sessions) \in Nat
  BY DEF KInv, IInv, TypeOK
<1>2. n \in Worker /\ n.session = 0
  <2>1. Idle.session = 0
    BY DEF Idle
  <2>2. "find" \in Steps
    BY DEF Steps
  <2>3. n \in Worker
    BY <1>1, <2>2, IdleType DEF Worker
  <2>4. n.session = 0
    BY <2>1, IdleType DEF Worker
  <2> QED BY <2>3, <2>4
<1>3. Goes(w, n) /\ UNCHANGED sessions
  BY DEF Request, Goes
<1> HIDE DEF n
<1> QED BY <1>2, <1>3, Apart

LEMMA LookingAlone ==
    ASSUME KInv, NEW w \in Workers,
           FindCustomer(w) \/ ValidateCustomer(w) \/ CreateCustomer(w)
               \/ find_unique_uuid(w) \/ ValidateUuid(w)
    PROVE  Keeps'
<1>1. worker[w] \in Worker /\ worker[w].step \in Unloaded
  BY Mine DEF KInv, FindCustomer, ValidateCustomer, CreateCustomer, find_unique_uuid,
     ValidateUuid, At, Unloaded, Unknown
<1>2. worker[w].session = 0
  BY <1>1 DEF KInv, Keeps
<1>3. \A s \in Steps : Step(w, s) \in Worker /\ Step(w, s).session = 0
  BY <1>2, StepFields DEF KInv
<1>4. CASE FindCustomer(w)
  <2> DEFINE n == [Step(w, "load") EXCEPT !.customer = 1]
  <2>1. Step(w, "load") \in Worker /\ Step(w, "load").session = 0
    BY <1>3 DEF Steps
  <2> HIDE DEF Step
  <2>2. n \in Worker /\ n.session = 0
    BY <2>1 DEF Worker
  <2>3. UNCHANGED sessions /\ (Goes(w, n) \/ Goes(w, Step(w, "validate")))
    BY <1>4 DEF FindCustomer
  <2>4. "validate" \in Steps
    BY DEF Steps
  <2> HIDE DEF n
  <2> QED BY <1>3, <2>2, <2>3, <2>4, Apart
<1>5. CASE ValidateCustomer(w)
  <2>1. UNCHANGED sessions /\ (Ends(w, TRUE) \/ Goes(w, Step(w, "create")))
    BY <1>5 DEF ValidateCustomer, Raise
  <2>2. "create" \in Steps
    BY DEF Steps
  <2> QED BY <1>3, <2>1, <2>2, Apart, Gone
<1>6. CASE CreateCustomer(w)
  <2> DEFINE n == [Step(w, "load") EXCEPT !.customer = Len(customers) + 1]
  <2>1. Step(w, "load") \in Worker /\ Step(w, "load").session = 0
    BY <1>3 DEF Steps
  <2>2. Len(customers) + 1 \in Nat
    BY DEF KInv, IInv, TypeOK
  <2> HIDE DEF Step
  <2>3. n \in Worker /\ n.session = 0
    BY <2>1, <2>2 DEF Worker
  <2>4. UNCHANGED sessions /\ Goes(w, n)
    BY <1>6 DEF CreateCustomer
  <2> HIDE DEF n
  <2> QED BY <2>3, <2>4, Apart
<1>7. CASE find_unique_uuid(w)
  <2>1. PICK u \in Uuids : Goes(w, [Step(w, "unique") EXCEPT !.uuid = u])
    BY <1>7 DEF find_unique_uuid
  <2> DEFINE n == [Step(w, "unique") EXCEPT !.uuid = u]
  <2>2. Step(w, "unique") \in Worker /\ Step(w, "unique").session = 0
    BY <1>3 DEF Steps
  <2> HIDE DEF Step
  <2>3. n \in Worker /\ n.session = 0
    BY <2>2 DEF Worker
  <2>4. UNCHANGED sessions
    BY <1>7 DEF find_unique_uuid
  <2> HIDE DEF n
  <2> QED BY <2>1, <2>3, <2>4, Apart DEF n
<1>8. CASE ValidateUuid(w)
  <2>1. UNCHANGED sessions /\ (Ends(w, TRUE) \/ Goes(w, Step(w, "insert")))
    BY <1>8 DEF ValidateUuid, Raise
  <2>2. "insert" \in Steps
    BY DEF Steps
  <2> QED BY <1>3, <2>1, <2>2, Apart, Gone
<1> QED BY <1>4, <1>5, <1>6, <1>7, <1>8

(* It takes a session that no other has, or marks it as shared.            *)
LEMMA LoadSessionAlone ==
    ASSUME KInv, NEW w \in Workers, LoadSession(w)
    PROVE  Keeps'
<1>1. /\ worker[w] \in Worker /\ worker[w].step \in Unloaded /\ worker[w].session = 0
      /\ worker[w].writes = NoWrites
  BY Mine DEF KInv, Keeps, LoadSession, At, Unloaded, Good, Linked
<1>2. CASE Goes(w, Step(w, "draw")) /\ UNCHANGED sessions
  <2>1. Step(w, "draw") \in Worker /\ Step(w, "draw").session = 0
    BY <1>1, StepFields DEF KInv, Steps
  <2> QED BY <1>2, <2>1, Apart
<1>3. ASSUME NEW j \in DOMAIN sessions,
             Goes(w, [Step(w, "touch") EXCEPT !.session = j,
                         !.store = sessions[j].meta, !.saved = sessions[j].meta]),
             sessions' = [sessions EXCEPT ![j].shared =
                             @ \/ \E v \in Workers \ {w} : worker[v].session = j]
      PROVE  Keeps'
  <2> DEFINE n == [Step(w, "touch") EXCEPT !.session = j,
                      !.store = sessions[j].meta, !.saved = sessions[j].meta]
             others == \E v \in Workers \ {w} : worker[v].session = j
             r == [sessions[j] EXCEPT !.shared = @ \/ others]
  <2>1. sessions[j] \in SessionRow /\ j # 0 /\ j \in Nat /\ sessions \in Seq(SessionRow)
    BY Rows DEF KInv, IInv, TypeOK
  <2>2. /\ Step(w, "touch") \in Worker /\ Step(w, "touch").step = "touch"
        /\ Step(w, "touch").writes = NoWrites
    BY <1>1, StepFields DEF KInv, Steps
  <2> HIDE DEF Step
  <2>3. /\ n \in Worker /\ n.step = "touch" /\ n.session = j /\ n.writes = NoWrites
        /\ n.store = sessions[j].meta /\ n.saved = sessions[j].meta
    BY <2>1, <2>2 DEF Worker, SessionRow
  <2>4. (sessions[j].shared \/ others) \in BOOLEAN
    BY <2>1 DEF SessionRow
  <2>5. /\ r.meta = sessions[j].meta /\ r.transitions = sessions[j].transitions
        /\ r.selections = sessions[j].selections
        /\ ~r.shared => ~sessions[j].shared /\ ~others
    BY <2>1, <2>4 DEF SessionRow
  <2>6. /\ DOMAIN sessions' = DOMAIN sessions /\ sessions'[j] = r
        /\ \A k \in DOMAIN sessions \ {j} : sessions'[k] = sessions[k]
    BY <1>3, <2>1
  <2>7. /\ worker' \in [Workers -> Worker] /\ worker'[w] = n
        /\ \A v \in Workers \ {w} : worker'[v] = worker[v]
    BY <1>3, <2>3, GoesOn DEF KInv, IInv, TypeOK
  <2> HIDE DEF n, r
  <2>8. \A v \in Workers : worker'[v].step \in Unloaded => worker'[v].session = 0
    BY <2>3, <2>7 DEF KInv, Keeps, Unloaded, Unknown
  <2>9. ASSUME ~r.shared PROVE Unshared(j)'
    <3>1. Kept(sessions[j]) /\ ~others
      BY <2>5, <2>9 DEF KInv, Keeps, Unshared
    <3>2. Kept(r)
      BY <2>5, <3>1 DEF Kept
    <3>3. Sole(n, r)
      BY <2>3, <2>5, <3>1 DEF Kept, Sole, NoWrites, Going
    <3> QED BY <2>6, <2>7, <3>1, <3>2, <3>3 DEF Unshared
  <2>10. ASSUME NEW k \in DOMAIN sessions \ {j}, Unshared(k) PROVE Unshared(k)'
    BY <2>3, <2>6, <2>7, <2>10 DEF Unshared
  <2> QED BY <2>6, <2>8, <2>9, <2>10 DEF KInv, Keeps
<1> QED BY <1>2, <1>3 DEF LoadSession, Unfinished

(* A new session is nobody else's.                                         *)
LEMMA CreateSessionAlone ==
    ASSUME KInv, NEW w \in Workers, CreateSession(w)
    PROVE  Keeps'
<1> DEFINE k == Len(sessions) + 1
           n == [Step(w, "touch") EXCEPT !.session = k]
           r == [customer |-> worker[w].customer, uuid |-> worker[w].uuid, meta |-> {},
                 transitions |-> {}, is_finished |-> FALSE, recent |-> TRUE,
                 selections |-> 0, before |-> worker[w].had[2], by |-> worker[w].kind,
                 shared |-> FALSE]
<1>1. /\ worker[w] \in Worker /\ worker[w].step \in Unloaded
      /\ worker[w].writes = NoWrites /\ worker[w].store = {} /\ worker[w].saved = {}
      /\ sessions \in Seq(SessionRow)
  BY Mine DEF KInv, IInv, TypeOK, CreateSession, At, Unloaded, Good, Linked
<1>2. k \in Nat /\ DOMAIN sessions = 1..Len(sessions) /\ k \notin DOMAIN sessions /\ k # 0
  BY <1>1
<1>3. /\ Step(w, "touch") \in Worker /\ Step(w, "touch").step = "touch"
      /\ Step(w, "touch").writes = NoWrites
      /\ Step(w, "touch").store = {} /\ Step(w, "touch").saved = {}
  BY <1>1, StepFields DEF KInv, Steps
<1>4. sessions' = Append(sessions, r) /\ Goes(w, n)
  BY DEF CreateSession
<1> HIDE DEF Step, k
<1>5. /\ n \in Worker /\ n.step = "touch" /\ n.session = k /\ n.writes = NoWrites
      /\ n.store = {} /\ n.saved = {}
  BY <1>2, <1>3 DEF Worker
<1>6. r.meta = {} /\ r.transitions = {} /\ r.selections = 0
  OBVIOUS
<1> HIDE DEF n, r
<1>7. /\ DOMAIN sessions' = DOMAIN sessions \cup {k} /\ sessions'[k] = r
      /\ \A j \in DOMAIN sessions : sessions'[j] = sessions[j]
  BY <1>1, <1>2, <1>4 DEF k
<1>8. /\ worker' \in [Workers -> Worker] /\ worker'[w] = n
      /\ \A v \in Workers \ {w} : worker'[v] = worker[v]
  BY <1>4, <1>5, GoesOn DEF KInv, IInv, TypeOK
<1>9. \A v \in Workers : worker'[v].step \in Unloaded => worker'[v].session = 0
  BY <1>5, <1>8 DEF KInv, Keeps, Unloaded, Unknown
<1>10. \A v \in Workers : worker[v].session # k
  BY <1>2, Loaded DEF KInv, Keeps
<1>11. ASSUME NEW i, i = k PROVE Unshared(i)'
  <2>1. Kept(r)
    BY <1>6 DEF Kept
  <2>2. Sole(n, r)
    BY <1>5, <1>6 DEF Sole, NoWrites, Going
  <2> QED BY <1>7, <1>8, <1>10, <1>11, <2>1, <2>2 DEF Unshared
<1>12. ASSUME NEW j \in DOMAIN sessions, Unshared(j) PROVE Unshared(j)'
  BY <1>2, <1>5, <1>7, <1>8, <1>12 DEF Unshared
<1>13. ASSUME NEW j \in DOMAIN sessions', ~sessions'[j].shared PROVE Unshared(j)'
  <2>1. CASE j \in DOMAIN sessions
    BY <1>7, <1>12, <1>13, <2>1 DEF KInv, Keeps
  <2>2. CASE j = k
    BY <1>11, <2>2
  <2> QED BY <1>7, <2>1, <2>2
<1> QED BY <1>9, <1>13 DEF Keeps

-------------------------------------------------------------------------------
(* The engines.                                                            *)

(* An engine that goes on marks its state, or has handshake behind it.     *)
LEMMA ThinksAlone ==
    ASSUME KInv, NEW w \in Workers, At(w, "think"), NEW s \in current_state(w),
           NEW n \in Worker, Goes(w, n), UNCHANGED sessions,
           n.step \in {"return", "shake", "name", "advance", "select"},
           n.session = worker[w].session, n.saved = worker[w].saved,
           n.writes = worker[w].writes, worker[w].store \subseteq n.store,
           n.step \in Going => s \in n.store \/ s # "handshake"
    PROVE  Keeps'
<1>1. worker[w].step \notin Unloaded /\ n.step \notin Unloaded
      /\ n.step \notin {"next", "enter", "reserve"}
  BY DEF At, Unloaded, Unknown
<1>2. Sole(worker[w], Row(w)) /\ n.step \in Going => "handshake" \in n.store
  BY <1>1, PassedFound
<1> QED BY <1>1, <1>2, Eases

LEMMA EngineAlone ==
    ASSUME KInv, NEW w \in Workers,
           AlreadyThinked(w) \/ Handshake(w) \/ InitialDecoder(w)
    PROVE  Keeps'
<1>1. PICK s \in current_state(w) :
          /\ At(w, "think") /\ UNCHANGED sessions
          /\ \/ Goes(w, Completes(w, s)) \/ Goes(w, Thinks(w, s, "return"))
             \/ Goes(w, Thinks(w, s, "shake"))
  BY DEF AlreadyThinked, Handshake, InitialDecoder, Thinking
<1>2. s \in States
  BY <1>1, CurrentState DEF KInv, At, Unloaded, Unknown
<1>3. CASE Goes(w, Completes(w, s))
  <2> DEFINE n == Completes(w, s)
  <2>1. /\ n \in Worker /\ n.step = "advance" /\ n.session = worker[w].session
        /\ n.saved = worker[w].saved /\ n.writes = worker[w].writes
        /\ n.store = worker[w].store \cup {s}
    BY <1>2, CompletesFields DEF KInv
  <2>2. Goes(w, n)
    BY <1>3
  <2> HIDE DEF n
  <2> QED BY <1>1, <2>1, <2>2, ThinksAlone
<1>4. ASSUME NEW step \in {"return", "shake"}, Goes(w, Thinks(w, s, step))
      PROVE  Keeps'
  <2> DEFINE n == Thinks(w, s, step)
  <2>1. step \in Steps /\ step \notin Going
    BY DEF Steps, Going
  <2>2. /\ n \in Worker /\ n.step = step /\ n.session = worker[w].session
        /\ n.saved = worker[w].saved /\ n.writes = worker[w].writes
        /\ n.store = worker[w].store
    BY <1>2, <2>1, ThinksFields DEF KInv
  <2>3. Goes(w, n)
    BY <1>4
  <2> HIDE DEF n
  <2> QED BY <1>1, <2>1, <2>2, <2>3, ThinksAlone
<1> QED BY <1>1, <1>3, <1>4

LEMMA CustomerRegistrationAlone ==
    ASSUME KInv, NEW w \in Workers, CustomerRegistration(w)
    PROVE  Keeps'
<1> DEFINE s == "customer_registration"
<1>1. /\ At(w, "think") /\ s \in current_state(w) /\ UNCHANGED sessions
      /\ \/ Goes(w, [Completes(w, s) EXCEPT !.answer = FALSE])
         \/ Goes(w, Thinks(w, s, "name")) \/ Goes(w, Thinks(w, s, "return"))
  BY DEF CustomerRegistration, Thinking
<1>2. s \in States /\ s # "handshake"
  BY Indices
<1> HIDE DEF s
<1>3. CASE Goes(w, [Completes(w, s) EXCEPT !.answer = FALSE])
  <2> DEFINE e == Completes(w, s)
             n == [e EXCEPT !.answer = FALSE]
  <2>1. /\ e \in Worker /\ e.step = "advance" /\ e.session = worker[w].session
        /\ e.saved = worker[w].saved /\ e.writes = worker[w].writes
        /\ e.store = worker[w].store \cup {s}
    BY <1>2, CompletesFields DEF KInv
  <2>2. Goes(w, n)
    BY <1>3
  <2> HIDE DEF e
  <2>3. /\ n \in Worker /\ n.step = "advance" /\ n.session = worker[w].session
        /\ n.saved = worker[w].saved /\ n.writes = worker[w].writes
        /\ n.store = worker[w].store \cup {s}
    BY <2>1 DEF Worker
  <2> HIDE DEF n
  <2> QED BY <1>1, <2>2, <2>3, ThinksAlone
<1>4. ASSUME NEW step \in {"name", "return"}, Goes(w, Thinks(w, s, step))
      PROVE  Keeps'
  <2> DEFINE n == Thinks(w, s, step)
  <2>1. step \in Steps
    BY DEF Steps
  <2>2. /\ n \in Worker /\ n.step = step /\ n.session = worker[w].session
        /\ n.saved = worker[w].saved /\ n.writes = worker[w].writes
        /\ n.store = worker[w].store
    BY <1>2, <2>1, ThinksFields DEF KInv
  <2>3. Goes(w, n)
    BY <1>4
  <2> HIDE DEF n
  <2> QED BY <1>1, <1>2, <2>2, <2>3, ThinksAlone
<1> QED BY <1>1, <1>3, <1>4

LEMMA UpdateCustomerAlone ==
    ASSUME KInv, NEW w \in Workers, UpdateCustomer(w)
    PROVE  Keeps'
<1>1. worker[w] \in Worker /\ worker[w].step = "name" /\ worker[w].step \notin Unloaded
  BY Mine DEF KInv, UpdateCustomer, At, Unloaded, Unknown
<1>2. CASE Raise(w)
  BY <1>2, Gone DEF Raise
<1>3. CASE ~Raise(w)
  <2> DEFINE b == worker[w].writes.named \/ worker[w].transaction
             e == Step(w, "advance")
             x == [worker[w].writes EXCEPT !.named = b]
             n == [e EXCEPT !.answer = FALSE,
                            !.store = @ \cup {"customer_registration"},
                            !.writes.named = @ \/ worker[w].transaction]
  <2>1. Goes(w, n) /\ UNCHANGED sessions
    BY <1>3 DEF UpdateCustomer
  <2>2. b \in BOOLEAN
    BY <1>1 DEF Worker, Writes
  <2>3. e \in Worker /\ e.step = "advance" /\ e.session = worker[w].session
        /\ e.store = worker[w].store /\ e.saved = worker[w].saved
        /\ e.writes = worker[w].writes
    BY StepFields DEF KInv, Steps
  <2>4. worker[w].store \cup {"customer_registration"} \in Store
    BY <1>1, Indices DEF Worker, Store
  <2> HIDE DEF e
  <2>5. n = [e EXCEPT !.answer = FALSE,
                !.store = worker[w].store \cup {"customer_registration"}, !.writes = x]
    BY <2>3 DEF Worker, Writes
  <2> HIDE DEF b, n
  <2>6. /\ x \in Writes /\ x.meta = worker[w].writes.meta
        /\ x.transitions = worker[w].writes.transitions
        /\ x.selection = worker[w].writes.selection
    BY <1>1, <2>2 DEF Worker, Writes
  <2> HIDE DEF x
  <2>7. /\ n \in Worker /\ n.step = "advance" /\ n.session = worker[w].session
        /\ n.saved = worker[w].saved /\ n.writes = x
        /\ worker[w].store \subseteq n.store
    BY <2>3, <2>4, <2>5, <2>6 DEF Worker
  <2>8. Sole(worker[w], Row(w)) => "handshake" \in worker[w].store
    BY <1>1 DEF Sole, Going
  <2>9. n.step \notin Unloaded /\ n.step \notin {"next", "enter", "reserve"}
    BY <2>7 DEF Unloaded, Unknown
  <2> QED BY <1>1, <2>1, <2>6, <2>7, <2>8, <2>9, Eases
<1> QED BY <1>2, <1>3

LEMMA AppointmentSelectionAlone ==
    ASSUME KInv, NEW w \in Workers, AppointmentSelection(w)
    PROVE  Keeps'
<1> DEFINE s == "appointment_selection"
           e == Completes(w, s)
           n == [e EXCEPT !.step = "select"]
<1>1. /\ At(w, "think") /\ s \in current_state(w) /\ UNCHANGED sessions /\ Goes(w, n)
  BY DEF AppointmentSelection, Thinking
<1>2. s \in States /\ "select" \in Steps
  BY Indices DEF Steps
<1>3. /\ e \in Worker /\ e.session = worker[w].session
      /\ e.saved = worker[w].saved /\ e.writes = worker[w].writes
      /\ e.store = worker[w].store \cup {s}
  BY <1>2, CompletesFields DEF KInv
<1> HIDE DEF e
<1>4. /\ n \in Worker /\ n.step = "select" /\ n.session = worker[w].session
      /\ n.saved = worker[w].saved /\ n.writes = worker[w].writes
      /\ n.store = worker[w].store \cup {s}
  BY <1>2, <1>3 DEF Worker
<1> HIDE DEF n, s
<1> QED BY <1>1, <1>4, ThinksAlone

-------------------------------------------------------------------------------
(* The appointment selection.                                              *)

LEMMA FindSelectionAlone ==
    ASSUME KInv, NEW w \in Workers, FindSelection(w)
    PROVE  Keeps'
<1>1. worker[w] \in Worker /\ worker[w].step = "select" /\ worker[w].step \notin Unloaded
      /\ UNCHANGED sessions
  BY Mine DEF KInv, FindSelection, At, Unloaded, Unknown
<1>2. Sole(worker[w], Row(w)) => "handshake" \in worker[w].store
  BY <1>1 DEF Sole, Going
<1>3. \A s \in Steps : /\ Step(w, s) \in Worker /\ Step(w, s).step = s
                       /\ Step(w, s).session = worker[w].session
                       /\ Step(w, s).store = worker[w].store
                       /\ Step(w, s).saved = worker[w].saved
                       /\ Step(w, s).writes = worker[w].writes
  BY StepFields DEF KInv
<1>4. "reserve" \in Steps \ Unloaded /\ "return" \in Steps \ Unloaded
      /\ "choose" \in Steps \ Unloaded
  BY DEF Steps, Unloaded, Unknown
<1>5. CASE ~Selected(w) /\ Goes(w, Step(w, "reserve"))
  <2> DEFINE n == Step(w, "reserve")
  <2>1. /\ n \in Worker /\ n.step = "reserve" /\ n.session = worker[w].session
        /\ n.store = worker[w].store /\ n.saved = worker[w].saved
        /\ n.writes = worker[w].writes
    BY <1>3, <1>4
  <2>2. Goes(w, n)
    BY <1>5
  <2> HIDE DEF n
  <2>3. /\ worker[w].session \in DOMAIN sessions /\ sessions[worker[w].session] = Row(w)
        /\ Row(w) \in SessionRow
    BY <1>1, Loaded DEF KInv, Row
  <2>4. Row(w).selections = 0 /\ ~worker[w].writes.selection
    BY <1>5, <2>3 DEF Selected, SessionRow
  <2>5. ASSUME Sole(worker[w], Row(w)) PROVE Sole(n, Row(w))
    BY <1>2, <2>1, <2>4, <2>5 DEF Sole, Going
  <2> QED BY <1>1, <1>4, <2>1, <2>2, <2>3, <2>5, Alone
<1>6. CASE Goes(w, Step(w, "return"))
  <2> DEFINE n == Step(w, "return")
  <2>1. /\ n \in Worker /\ n.step = "return" /\ n.session = worker[w].session
        /\ n.store = worker[w].store /\ n.saved = worker[w].saved
        /\ n.writes = worker[w].writes
    BY <1>3, <1>4
  <2>2. Goes(w, n)
    BY <1>6
  <2> HIDE DEF n
  <2> QED BY <1>1, <1>2, <1>4, <2>1, <2>2, Eases
<1>7. CASE Goes(w, [Step(w, "choose") EXCEPT !.answer = FALSE])
  <2> DEFINE e == Step(w, "choose")
             n == [e EXCEPT !.answer = FALSE]
  <2>1. /\ e \in Worker /\ e.step = "choose" /\ e.session = worker[w].session
        /\ e.store = worker[w].store /\ e.saved = worker[w].saved
        /\ e.writes = worker[w].writes
    BY <1>3, <1>4
  <2>2. Goes(w, n)
    BY <1>7
  <2> HIDE DEF e
  <2>3. /\ n \in Worker /\ n.step = "choose" /\ n.session = worker[w].session
        /\ n.store = worker[w].store /\ n.saved = worker[w].saved
        /\ n.writes = worker[w].writes
    BY <2>1 DEF Worker
  <2> HIDE DEF n
  <2> QED BY <1>1, <1>2, <1>4, <2>2, <2>3, Eases
<1> QED BY <1>5, <1>6, <1>7 DEF FindSelection

(* The row that was not found is made, now or with the transaction.        *)
LEMMA CreateSelectionAlone ==
    ASSUME KInv, NEW w \in Workers, CreateSelection(w)
    PROVE  Keeps'
<1> DEFINE open == worker[w].transaction
           e == Step(w, "return")
           x == [worker[w].writes EXCEPT !.selection = open]
           n == [e EXCEPT !.writes.selection = open]
           j == worker[w].session
           r == [Row(w) EXCEPT !.selections = @ + 1]
<1>1. /\ worker[w] \in Worker /\ worker[w].step = "reserve"
      /\ worker[w].step \notin Unloaded /\ Goes(w, n)
      /\ sessions' = IF open THEN sessions
                     ELSE [sessions EXCEPT ![j].selections = @ + 1]
  BY Mine DEF KInv, CreateSelection, At, Unloaded, Unknown
<1>2. e \in Worker /\ e.step = "return" /\ e.session = j
      /\ e.store = worker[w].store /\ e.saved = worker[w].saved
      /\ e.writes = worker[w].writes
  BY StepFields DEF KInv, Steps
<1>3. open \in BOOLEAN
  BY <1>1 DEF Worker
<1> HIDE DEF e
<1>4. n = [e EXCEPT !.writes = x]
  BY <1>2 DEF Worker, Writes
<1> HIDE DEF open
<1>5. /\ x \in Writes /\ x.meta = worker[w].writes.meta /\ x.selection = open
      /\ x.transitions = worker[w].writes.transitions
  BY <1>1, <1>3 DEF Worker, Writes
<1> HIDE DEF x, n
<1>6. /\ n \in Worker /\ n.step = "return" /\ n.session = j
      /\ n.store = worker[w].store /\ n.saved = worker[w].saved /\ n.writes = x
  BY <1>2, <1>4, <1>5 DEF Worker
<1>7. n.step \notin Unloaded
  BY <1>6 DEF Unloaded, Unknown
<1>8. j \in DOMAIN sessions /\ sessions[j] = Row(w) /\ Row(w) \in SessionRow
      /\ sessions \in Seq(SessionRow)
  BY <1>1, Loaded DEF KInv, Row, IInv, TypeOK
<1>9. /\ r.selections = Row(w).selections + 1 /\ r.shared = Row(w).shared
      /\ r.meta = Row(w).meta /\ r.transitions = Row(w).transitions
  BY <1>8 DEF SessionRow
<1>10. /\ DOMAIN sessions' = DOMAIN sessions
       /\ sessions'[j] = IF open THEN Row(w) ELSE r
       /\ \A k \in DOMAIN sessions \ {j} : sessions'[k] = sessions[k]
  BY <1>1, <1>8
<1> HIDE DEF r
<1>11. ASSUME Kept(Row(w)), Sole(worker[w], Row(w))
       PROVE  Kept(sessions'[j]) /\ Sole(n, sessions'[j])
  <2>1. Row(w).selections = 0
    BY <1>1, <1>11 DEF Sole
  <2>2. CASE open
    BY <1>5, <1>6, <1>10, <1>11, <2>1, <2>2 DEF Kept, Sole, Going
  <2>3. CASE ~open
    BY <1>5, <1>6, <1>9, <1>10, <1>11, <2>1, <2>3 DEF Kept, Sole, Going
  <2> QED BY <2>2, <2>3
<1>12. sessions'[j].shared = Row(w).shared
  BY <1>9, <1>10
<1> QED BY <1>1, <1>6, <1>7, <1>10, <1>11, <1>12, Alone

-------------------------------------------------------------------------------
(* What is saved.                                                          *)

LEMMA SavingAlone ==
    ASSUME KInv, NEW w \in Workers,
           SaveDevice(w) \/ Shake(w) \/ Choose(w) \/ Advance(w) \/ Render(w)
    PROVE  Keeps'
<1>1. worker[w] \in Worker /\ worker[w].step \notin Unloaded
      /\ worker[w].step \in {"touch", "shake", "choose", "advance", "render"}
  BY Mine DEF KInv, SaveDevice, Shake, Choose, Advance, Render, At, Unloaded, Unknown
<1>2. Sole(worker[w], Row(w)) /\ worker[w].step \in {"choose", "advance"} =>
          "handshake" \in worker[w].store
  BY DEF Sole, Going
<1>3. \A s \in Steps : /\ Step(w, s) \in Worker /\ Step(w, s).step = s
                       /\ Step(w, s).session = worker[w].session
                       /\ Step(w, s).store = worker[w].store
                       /\ Step(w, s).saved = worker[w].saved
                       /\ Step(w, s).writes = worker[w].writes
  BY StepFields DEF KInv
<1>4. {"think", "next", "enter", "return", "answer"} \subseteq Steps \ Unloaded
  BY DEF Steps, Unloaded, Unknown
<1>5. CASE SaveDevice(w) \/ Advance(w)
  <2>1. PICK s \in {"think", "next"} :
            /\ Save(w, Step(w, s))
            /\ s = "next" => worker[w].step = "advance"
    BY <1>5 DEF SaveDevice, Advance, At
  <2> DEFINE n == Step(w, s)
  <2>2. /\ n \in Worker /\ n.step = s /\ n.session = worker[w].session
        /\ n.store = worker[w].store /\ n.writes = worker[w].writes
        /\ Save(w, n)
    BY <1>3, <1>4, <2>1
  <2>3. s \notin Unloaded /\ s # "reserve" /\ (s \in Going => s = "next")
    BY DEF Going, Unloaded, Unknown
  <2> HIDE DEF n
  <2> QED BY <1>1, <1>2, <2>1, <2>2, <2>3, Stores
<1>6. CASE Choose(w)
  <2> DEFINE e == Step(w, "enter")
             n == [e EXCEPT !.to = "finish"]
  <2>1. /\ e \in Worker /\ e.step = "enter" /\ e.session = worker[w].session
        /\ e.store = worker[w].store /\ e.writes = worker[w].writes
    BY <1>3, <1>4
  <2>2. Save(w, n) /\ worker[w].step = "choose"
    BY <1>6 DEF Choose, At
  <2> HIDE DEF e
  <2>3. /\ n \in Worker /\ n.step = "enter" /\ n.session = worker[w].session
        /\ n.store = worker[w].store /\ n.writes = worker[w].writes
    BY <2>1, Indices DEF Worker
  <2> HIDE DEF n
  <2>4. n.step \notin Unloaded /\ n.step # "reserve"
    BY <2>3 DEF Unloaded, Unknown
  <2> QED BY <1>1, <1>2, <2>2, <2>3, <2>4, Stores
<1>7. ASSUME NEW s \in {"return", "answer"},
             NEW mark \in {"handshake_shaked_hands", "user_registration_asked"},
             Save(w, [Step(w, s) EXCEPT !.store = @ \cup {mark}])
      PROVE  Keeps'
  <2> DEFINE e == Step(w, s)
             n == [e EXCEPT !.store = @ \cup {mark}]
  <2>1. /\ e \in Worker /\ e.step = s /\ e.session = worker[w].session
        /\ e.store = worker[w].store /\ e.writes = worker[w].writes
    BY <1>3, <1>4
  <2>2. Save(w, n)
    BY <1>7
  <2> HIDE DEF e
  <2>3. worker[w].store \cup {mark} \in Store
    BY <1>1 DEF Worker, Store
  <2>4. /\ n \in Worker /\ n.step = s /\ n.session = worker[w].session
        /\ worker[w].store \subseteq n.store /\ n.writes = worker[w].writes
    BY <2>1, <2>3 DEF Worker
  <2> HIDE DEF n
  <2>5. n.step \notin Unloaded /\ n.step # "reserve" /\ n.step \notin Going
    BY <2>4 DEF Going, Unloaded, Unknown
  <2> QED BY <1>1, <2>2, <2>4, <2>5, Stores
<1>8. CASE Shake(w)
  BY <1>7, <1>8 DEF Shake
<1>9. CASE Render(w)
  <2>1. CASE Goes(w, Step(w, "answer")) /\ UNCHANGED sessions
    <3> DEFINE n == Step(w, "answer")
    <3>1. /\ n \in Worker /\ n.step = "answer" /\ n.session = worker[w].session
          /\ n.store = worker[w].store /\ n.saved = worker[w].saved
          /\ n.writes = worker[w].writes
      BY <1>3, <1>4
    <3>2. Goes(w, n)
      BY <2>1
    <3> HIDE DEF n
    <3>3. n.step \notin Unloaded /\ n.step \notin Going
          /\ n.step \notin {"next", "enter", "reserve"}
      BY <3>1 DEF Going, Unloaded, Unknown
    <3> QED BY <1>1, <2>1, <3>1, <3>2, <3>3, Eases
  <2>2. CASE Raise(w)
    BY <2>2, Gone DEF Raise
  <2>3. CASE Save(w, [Step(w, "answer") EXCEPT !.store = @ \cup {"user_registration_asked"}])
    BY <1>7, <2>3
  <2> QED BY <1>9, <2>1, <2>2, <2>3 DEF Render
<1> QED BY <1>5, <1>6, <1>8, <1>9

LEMMA FinishAlone ==
    ASSUME KInv, NEW w \in Workers, Finish(w)
    PROVE  Keeps'
<1> DEFINE open == worker[w].transaction
           store == worker[w].store
           written == store # worker[w].saved
           b == worker[w].writes.meta \/ (written /\ open)
           t == Thinks(w, "finish", "return")
           x == [worker[w].writes EXCEPT !.is_finished = open, !.meta = b]
           n == [t EXCEPT !.saved = store, !.writes.is_finished = open,
                          !.writes.meta = @ \/ (written /\ open)]
           j == worker[w].session
           r == [Row(w) EXCEPT !.is_finished = TRUE,
                               !.meta = IF written THEN store ELSE @]
<1>1. worker[w] \in Worker /\ worker[w].step \notin Unloaded
  BY Mine DEF KInv, Finish, Thinking, At, Unloaded, Unknown
<1>2. CASE Raise(w)
  BY <1>2, Gone DEF Raise
<1>3. CASE ~Raise(w)
  <2>1. /\ Goes(w, n)
        /\ sessions' = IF open THEN sessions
                 ELSE [sessions EXCEPT ![j].is_finished = TRUE,
                                       ![j].meta = IF written THEN store ELSE @]
    BY <1>3 DEF Finish
  <2>2. t \in Worker /\ t.step = "return" /\ t.session = j
        /\ t.writes = worker[w].writes /\ t.store = store
    BY Indices, ThinksFields, SMTT(30) DEF KInv, Steps
  <2>3. b \in BOOLEAN /\ open \in BOOLEAN /\ store \in Store
    BY <1>1 DEF Worker, Writes
  <2> HIDE DEF t
  <2>4. n = [t EXCEPT !.saved = store, !.writes = x]
    BY <1>1, <2>2 DEF Worker, Writes
  <2> HIDE DEF b, n
  <2>5. /\ x \in Writes /\ x.meta = b
        /\ x.transitions = worker[w].writes.transitions
        /\ x.selection = worker[w].writes.selection
    BY <1>1, <2>3 DEF Worker, Writes
  <2> HIDE DEF x
  <2>6. /\ n \in Worker /\ n.step = "return" /\ n.session = j
        /\ n.writes = x /\ n.saved = store /\ n.store = store
    BY <2>2, <2>3, <2>4, <2>5 DEF Worker
  <2>7. n.step \notin Unloaded
    BY <2>6 DEF Unloaded, Unknown
  <2>8. j \in DOMAIN sessions /\ sessions[j] = Row(w) /\ Row(w) \in SessionRow
        /\ sessions \in Seq(SessionRow)
    BY <1>1, Loaded DEF KInv, Row, IInv, TypeOK
  <2>9. /\ r.meta = (IF written THEN store ELSE Row(w).meta)
        /\ r.transitions = Row(w).transitions
        /\ r.selections = Row(w).selections /\ r.shared = Row(w).shared
    BY <2>8 DEF SessionRow
  <2>10. /\ DOMAIN sessions' = DOMAIN sessions
         /\ \A k \in DOMAIN sessions \ {j} : sessions'[k] = sessions[k]
         /\ sessions'[j] = IF open THEN Row(w) ELSE r
    BY <2>1, <2>8
  <2> HIDE DEF r, j
  <2>11. ASSUME Kept(Row(w)), Sole(worker[w], Row(w))
         PROVE  Kept(sessions'[j]) /\ Sole(n, sessions'[j])
    <3>1. \A u \in Row(w).transitions \cup worker[w].writes.transitions :
              Passed(u.to) \subseteq store
      BY <2>11 DEF Sole
    <3>2. CASE open
      <4>1. ~b => Row(w).meta = store
        BY <2>11, <3>2 DEF Sole, b
      <4> HIDE DEF store, written, open
      <4>2. sessions'[j] = Row(w)
        BY <2>10, <3>2
      <4> QED BY <2>5, <2>6, <2>11, <3>1, <4>1, <4>2 DEF Sole, Going
    <3>3. CASE ~open
      <4>1. sessions'[j] = r
        BY <2>10, <3>3
      <4>2. ~b => r.meta = store
        BY <2>9, <2>11 DEF Sole, b
      <4>3. \A u \in Row(w).transitions : Passed(u.to) \subseteq r.meta
        BY <2>9, <2>11, <3>1 DEF Kept
      <4> HIDE DEF store, written, open
      <4>4. Kept(r)
        BY <2>9, <2>11, <4>3 DEF Kept
      <4>5. Sole(n, r)
        BY <2>5, <2>6, <2>9, <2>11, <3>1, <4>2 DEF Sole, Going
      <4> QED BY <4>1, <4>4, <4>5
    <3> QED BY <3>2, <3>3
  <2>12. sessions'[j].shared = Row(w).shared
    BY <2>9, <2>10
  <2> QED BY <1>1, <2>1, <2>6, <2>7, <2>10, <2>11, <2>12, Alone DEF j
<1> QED BY <1>2, <1>3

-------------------------------------------------------------------------------
(* Transitions, and the commit.                                            *)

LEMMA NextStateAlone ==
    ASSUME KInv, NEW w \in Workers, NextState(w)
    PROVE  Keeps'
<1>1. worker[w] \in Worker /\ worker[w].step = "next" /\ worker[w].step \notin Unloaded
  BY Mine DEF KInv, NextState, At, Unloaded, Unknown
<1>2. PICK s \in current_state(w) :
          Goes(w, [Step(w, "enter") EXCEPT !.to = next_state_by_priority(s)])
  BY DEF NextState
<1> DEFINE e == Step(w, "enter")
           n == [e EXCEPT !.to = next_state_by_priority(s)]
<1>3. /\ e \in Worker /\ e.step = "enter" /\ e.session = worker[w].session
      /\ e.store = worker[w].store /\ e.saved = worker[w].saved
      /\ e.writes = worker[w].writes
  BY StepFields DEF KInv, Steps
<1>4. next_state_by_priority(s) \in States
  BY <1>1, CurrentState, NextStates DEF KInv
<1>5. Goes(w, n) /\ UNCHANGED sessions
  BY <1>2 DEF NextState
<1> HIDE DEF e
<1>6. /\ n \in Worker /\ n.step = "enter" /\ n.session = worker[w].session
      /\ n.store = worker[w].store /\ n.saved = worker[w].saved
      /\ n.writes = worker[w].writes
  BY <1>3, <1>4 DEF Worker
<1> HIDE DEF n
<1>7. n.step \notin Unloaded
  BY <1>6 DEF Unloaded, Unknown
<1>8. worker[w].session \in DOMAIN sessions /\ sessions[worker[w].session] = Row(w)
  BY <1>1, Loaded DEF KInv, Row
<1>9. ASSUME Sole(worker[w], Row(w)) PROVE Sole(n, Row(w))
  BY <1>1, <1>6, <1>9 DEF Sole, Going
<1> QED BY <1>1, <1>5, <1>6, <1>7, <1>8, <1>9, Alone

(* The guard approves of the state found, so that its mark is in the store *)
(* the request has saved, and with it those of what that state passed.     *)
LEMMA TransitionToAlone ==
    ASSUME KInv, NEW w \in Workers, TransitionTo(w)
    PROVE  Keeps'
<1>1. worker[w] \in Worker /\ worker[w].step = "enter" /\ worker[w].step \notin Unloaded
  BY Mine DEF KInv, TransitionTo, At, Unloaded, Unknown
<1>2. CASE Raise(w)
  BY <1>2, Gone DEF Raise
<1>3. CASE Goes(w, Step(w, "return")) /\ UNCHANGED sessions
  <2> DEFINE n == Step(w, "return")
  <2>1. /\ n \in Worker /\ n.step = "return" /\ n.session = worker[w].session
        /\ n.store = worker[w].store /\ n.saved = worker[w].saved
        /\ n.writes = worker[w].writes
    BY StepFields DEF KInv, Steps
  <2>2. Goes(w, n)
    BY <1>3
  <2> HIDE DEF n
  <2>3. n.step \notin Unloaded /\ n.step \notin Going
        /\ n.step \notin {"next", "enter", "reserve"}
    BY <2>1 DEF Going, Unloaded, Unknown
  <2> QED BY <1>1, <1>3, <2>1, <2>2, <2>3, Eases
<1>4. ASSUME NEW s \in current_state(w), worker[w].to \in successors(s), Approved(w, s),
             Goes(w, [Step(w, "think") EXCEPT !.transaction = TRUE,
                         !.writes.transitions = @ \cup
                            {[to |-> worker[w].to, sort_key |-> next_sort_key(w)]}]),
             UNCHANGED sessions
      PROVE  Keeps'
  <2> DEFINE row == [to |-> worker[w].to, sort_key |-> next_sort_key(w)]
             x == [worker[w].writes EXCEPT !.transitions = @ \cup {row}]
             e == Step(w, "think")
             n == [e EXCEPT !.transaction = TRUE, !.writes.transitions = @ \cup {row}]
  <2>1. s \in States /\ next_sort_key(w) \in Nat
    BY <1>1, <1>4, CurrentState DEF KInv
  <2>2. worker[w].to \in States /\ Passed(worker[w].to) \subseteq Passed(s) \cup {s}
    BY <1>4, <2>1, Successors
  <2>3. row \in TransitionRow /\ row.to = worker[w].to
    BY <2>1, <2>2 DEF TransitionRow
  <2>4. /\ e \in Worker /\ e.step = "think" /\ e.session = worker[w].session
        /\ e.store = worker[w].store /\ e.saved = worker[w].saved
        /\ e.writes = worker[w].writes
    BY StepFields DEF KInv, Steps
  <2>5. Goes(w, n)
    BY <1>4
  <2> HIDE DEF e, row
  <2>6. n = [e EXCEPT !.transaction = TRUE, !.writes = x]
    BY <2>4 DEF Worker, Writes
  <2> HIDE DEF n
  <2>7. /\ x \in Writes /\ x.meta = worker[w].writes.meta
        /\ x.selection = worker[w].writes.selection
        /\ x.transitions = worker[w].writes.transitions \cup {row}
    BY <1>1, <2>3 DEF Worker, Writes
  <2> HIDE DEF x
  <2>8. /\ n \in Worker /\ n.step = "think" /\ n.session = worker[w].session
        /\ n.store = worker[w].store /\ n.saved = worker[w].saved /\ n.writes = x
    BY <2>4, <2>6, <2>7 DEF Worker
  <2>9. n.step \notin Unloaded
    BY <2>8 DEF Unloaded, Unknown
  <2>10. worker[w].session \in DOMAIN sessions /\ sessions[worker[w].session] = Row(w)
    BY <1>1, Loaded DEF KInv, Row
  <2>11. ASSUME Sole(worker[w], Row(w)) PROVE Sole(n, Row(w))
    <3>1. Passed(s) \subseteq worker[w].saved
      BY <1>1, <1>4, <2>11, PassedFound
    <3>2. s \in worker[w].saved
      BY <1>1, <1>4, <2>11 DEF Approved, Sole, Going
    <3>3. Passed(row.to) \subseteq worker[w].saved
      BY <2>2, <2>3, <3>1, <3>2
    <3>4. \A t \in Row(w).transitions \cup x.transitions :
              Passed(t.to) \subseteq worker[w].saved
      BY <2>7, <2>11, <3>3 DEF Sole
    <3> QED BY <2>7, <2>8, <2>11, <3>4 DEF Sole, Going
  <2> QED BY <1>1, <1>4, <2>5, <2>8, <2>9, <2>10, <2>11, Alone
<1> QED BY <1>2, <1>3, <1>4 DEF TransitionTo

LEMMA ReturnAlone ==
    ASSUME KInv, NEW w \in Workers, Return(w)
    PROVE  Keeps'
<1> DEFINE me == worker[w]
           new == me.writes
           j == me.session
           r == [Row(w) EXCEPT !.transitions = @ \cup new.transitions,
                               !.meta = IF new.meta THEN me.saved ELSE @,
                               !.is_finished = @ \/ new.is_finished,
                               !.selections = IF new.selection THEN @ + 1 ELSE @]
           to == IF me.round = 1 THEN "think" ELSE "render"
           n == [me EXCEPT !.step = to, !.round = 2, !.transaction = FALSE,
                           !.writes = NoWrites, !.thinked = @ \cup me.begun, !.begun = {}]
<1>1. worker[w] \in Worker /\ worker[w].step \notin Unloaded
  BY Mine DEF KInv, Return, At, Unloaded, Unknown
<1>2. j \in DOMAIN sessions /\ Row(w) = sessions[j] /\ Row(w) \in SessionRow
      /\ sessions \in Seq(SessionRow)
  BY <1>1, Loaded DEF KInv, Row, IInv, TypeOK
<1>3. Goes(w, n) /\ sessions' = [sessions EXCEPT ![j] = r]
  <2>1. /\ sessions' = [sessions EXCEPT
              ![j].transitions = @ \cup new.transitions,
              ![j].meta = IF new.meta THEN me.saved ELSE @,
              ![j].is_finished = @ \/ new.is_finished,
              ![j].selections = IF new.selection THEN @ + 1 ELSE @]
        /\ Goes(w, n)
    BY DEF Return
  <2> HIDE DEF n
  <2> QED BY <1>2, <2>1, ZenonT(30)
<1>4. /\ n \in Worker /\ n.step \in {"think", "render"} /\ n.session = j
      /\ n.writes = NoWrites /\ n.saved = me.saved /\ n.store = me.store
  <2>1. to \in {"think", "render"} /\ to \in Steps
    BY DEF Steps
  <2>2. NoWrites \in Writes
    BY DEF NoWrites, Writes
  <2>3. me.thinked \cup me.begun \in SUBSET States /\ {} \in SUBSET States
    BY <1>1 DEF Worker
  <2> HIDE DEF to
  <2>4. 2 \in 1..2 /\ FALSE \in BOOLEAN
    OBVIOUS
  <2>5. n \in Worker
    BY <1>1, <2>1, <2>2, <2>3, <2>4 DEF Worker
  <2>6. n.step = to /\ n.session = j /\ n.writes = NoWrites
        /\ n.saved = me.saved /\ n.store = me.store
    BY <1>1 DEF Worker
  <2> HIDE DEF n
  <2> QED BY <2>1, <2>5, <2>6
<1>5. /\ r.transitions = Row(w).transitions \cup new.transitions
      /\ r.meta = (IF new.meta THEN me.saved ELSE Row(w).meta)
      /\ r.selections = (IF new.selection THEN Row(w).selections + 1 ELSE Row(w).selections)
      /\ r.shared = Row(w).shared
  BY <1>2 DEF SessionRow
<1> HIDE DEF n, r, to
<1>6. /\ DOMAIN sessions' = DOMAIN sessions /\ sessions'[j] = r
      /\ \A k \in DOMAIN sessions \ {j} : sessions'[k] = sessions[k]
  BY <1>2, <1>3
<1>7. n.step \notin Unloaded
  BY <1>4 DEF Unloaded, Unknown
<1>8. ASSUME Kept(Row(w)), Sole(me, Row(w)) PROVE Kept(r) /\ Sole(n, r)
  <2>1. r.meta = me.saved
    BY <1>5, <1>8 DEF Sole
  <2>2. \A t \in r.transitions : Passed(t.to) \subseteq me.saved
    BY <1>5, <1>8 DEF Sole
  <2>3. r.selections <= 1
    BY <1>2, <1>5, <1>8 DEF Sole, Kept, SessionRow
  <2>4. Kept(r)
    BY <2>1, <2>2, <2>3 DEF Kept
  <2>5. Sole(n, r)
    BY <1>4, <1>8, <2>1, <2>2 DEF Sole, Going, NoWrites
  <2> QED BY <2>4, <2>5
<1> QED BY <1>1, <1>3, <1>4, <1>5, <1>6, <1>7, <1>8, Alone

LEMMA ExpireAlone ==
    ASSUME KInv, Expire
    PROVE  Keeps'
<1>1. PICK j \in DOMAIN sessions : sessions' = [sessions EXCEPT ![j].recent = FALSE]
  BY DEF Expire
<1> DEFINE r == [sessions[j] EXCEPT !.recent = FALSE]
<1>2. sessions \in Seq(SessionRow) /\ UNCHANGED worker
  BY DEF KInv, IInv, TypeOK, Expire
<1>3. /\ r.meta = sessions[j].meta /\ r.transitions = sessions[j].transitions
      /\ r.selections = sessions[j].selections /\ r.shared = sessions[j].shared
  BY <1>2 DEF SessionRow
<1>4. /\ DOMAIN sessions' = DOMAIN sessions /\ sessions'[j] = r
      /\ \A k \in DOMAIN sessions \ {j} : sessions'[k] = sessions[k]
  BY <1>1, <1>2
<1> HIDE DEF r
<1>5. ASSUME Unshared(j) PROVE Unshared(j)'
  <2>1. Kept(r) /\ \A w \in Workers : worker[w].session = j => Sole(worker[w], r)
    BY <1>3, <1>5 DEF Unshared, Kept, Sole
  <2> QED BY <1>2, <1>4, <1>5, <2>1 DEF Unshared
<1>6. ASSUME NEW k \in DOMAIN sessions \ {j}, Unshared(k) PROVE Unshared(k)'
  BY <1>2, <1>4, <1>6 DEF Unshared
<1> QED BY <1>2, <1>3, <1>4, <1>5, <1>6 DEF KInv, Keeps

-------------------------------------------------------------------------------
(* The invariant.                                                          *)

LEMMA InitAlone == Init => Keeps
<1>1. SUFFICES ASSUME Init PROVE Keeps
  OBVIOUS
<1>2. PICK s \in Starts : sessions = s.sessions
  BY <1>1 DEF Init
<1>3. \A w \in Workers : worker[w].session = 0
  BY <1>1 DEF Init, Idle
<1>4. IInv
  BY <1>1, InitKept
<1>5. \A j \in DOMAIN sessions : Kept(sessions[j])
  BY <1>2, StartsAssumption DEF Kept
<1>6. \A j \in DOMAIN sessions : j # 0
  BY <1>4, Rows
<1> QED BY <1>3, <1>5, <1>6 DEF Keeps, Unshared

LEMMA WorksAlone ==
    ASSUME KInv, NEW w \in Workers, Works(w) \/ Killed(w)
    PROVE  Keeps'
<1>1. CASE \/ FindCustomer(w) \/ ValidateCustomer(w) \/ CreateCustomer(w)
           \/ LoadSession(w) \/ find_unique_uuid(w) \/ ValidateUuid(w) \/ CreateSession(w)
  BY <1>1, LookingAlone, LoadSessionAlone, CreateSessionAlone
<1>2. CASE \/ AlreadyThinked(w) \/ Handshake(w) \/ InitialDecoder(w)
           \/ CustomerRegistration(w) \/ UpdateCustomer(w) \/ AppointmentSelection(w)
  BY <1>2, EngineAlone, CustomerRegistrationAlone, UpdateCustomerAlone,
     AppointmentSelectionAlone
<1>3. CASE FindSelection(w) \/ CreateSelection(w) \/ Finish(w)
  BY <1>3, FindSelectionAlone, CreateSelectionAlone, FinishAlone
<1>4. CASE SaveDevice(w) \/ Shake(w) \/ Choose(w) \/ Advance(w) \/ Render(w)
  BY <1>4, SavingAlone
<1>5. CASE NextState(w) \/ TransitionTo(w) \/ Return(w)
  BY <1>5, NextStateAlone, TransitionToAlone, ReturnAlone
<1>6. CASE Answer(w) \/ Killed(w)
  BY <1>6, Gone DEF Answer, Killed
<1> QED BY <1>1, <1>2, <1>3, <1>4, <1>5, <1>6 DEF Works

LEMMA StaysAlone == KInv /\ [Next]_vars => KInv'
<1>1. SUFFICES ASSUME KInv, [Next]_vars PROVE KInv'
  OBVIOUS
<1>2. IInv'
  BY <1>1, Inductive DEF KInv
<1>3. ASSUME NEW w \in Workers, NEW kind \in Kinds, NEW answer \in BOOLEAN,
             Request(w, kind, answer)
      PROVE  Keeps'
  BY <1>1, <1>3, RequestAlone
<1>4. ASSUME NEW w \in Workers, Works(w) \/ Killed(w) PROVE Keeps'
  BY <1>1, <1>4, WorksAlone
<1>5. ASSUME Expire PROVE Keeps'
  BY <1>1, <1>5, ExpireAlone
<1>6. ASSUME UNCHANGED vars PROVE Keeps'
  BY <1>1, <1>6 DEF vars, KInv, Keeps, Unshared
<1>7. Keeps'
  BY <1>1, <1>3, <1>4, <1>5, <1>6 DEF Next
<1> QED BY <1>2, <1>7 DEF KInv

(* A request that has a session to itself relies on its copy of the row.   *)
THEOREM AloneInvariant == Spec => []KInv
<1>1. Init => KInv
  BY InitAlone, InitKept DEF KInv
<1> QED BY <1>1, StaysAlone, PTL DEF Spec

(* The meta column of a session no two requests ever had at once has the   *)
(* mark of every state passed, although it is written whole, from a copy   *)
(* read at the start of the request, and in part inside a transaction.     *)
THEOREM MarksAreKept == Spec => []MarksKept
<1>1. KInv => MarksKept
  <2>1. SUFFICES ASSUME KInv, NEW j \in DOMAIN sessions, ~sessions[j].shared,
                        NEW s \in StateOf(j)
                 PROVE  Passed(s) \subseteq sessions[j].meta
    BY DEF MarksKept
  <2>2. Kept(sessions[j])
    BY <2>1 DEF KInv, Keeps, Unshared
  <2>3. CASE sessions[j].transitions = {}
    BY <2>1, <2>3, PassedStates DEF StateOf
  <2>4. CASE sessions[j].transitions # {}
    BY <2>1, <2>2, <2>4 DEF StateOf, Latest, Kept
  <2> QED BY <2>3, <2>4
<1> QED BY AloneInvariant, <1>1, PTL

(* Its appointment selection is looked up and then created, without a      *)
(* unique index, and still it has one at most.                             *)
THEOREM SelectionMadeOnce == Spec => []SelectionOnce
<1>1. KInv => SelectionOnce
  BY DEF KInv, Keeps, Unshared, Kept, SelectionOnce
<1> QED BY AloneInvariant, <1>1, PTL

-------------------------------------------------------------------------------
(* Until two requests overlap, nothing raises: one request is under way,    *)
(* of the one customer, and it sees all the rows there are.                 *)

(* The transitions a request m sees of the session r, the states it may    *)
(* take for the current one, and what makes that one state.                *)
Seen(m, r) == r.transitions \cup m.writes.transitions
Found(T) == IF T = {} THEN {"handshake"} ELSE {t.to : t \in Latest(T)}
Numbered(T) == \A t, u \in T : t.sort_key = u.sort_key => t = u

(* Where a request has asked the engine of a state to think.               *)
Waiting == {"shake", "name", "select", "reserve", "choose", "advance", "next",
            "enter", "return"}

(* What m knows of the state found, one of F.  An engine that went on has  *)
(* its mark in the store the guard reads, and asks for a declared state;   *)
(* one that comes to rest is not the decoder; and the second process!      *)
(* finds an engine that has thought, so that it renders and nothing else.  *)
Knows(m, F) ==
    /\ m.step \in Waiting => F \subseteq m.begun \cup m.thinked
    /\ m.step \in {"shake", "return"} => "initial_decoder" \notin F
    /\ m.step = "name" => F \subseteq {"customer_registration"}
    /\ m.step \in {"select", "reserve", "choose"} =>
           F \subseteq {"appointment_selection"} \cap m.store
    /\ m.step \in {"advance", "next"} => "finish" \notin F
    /\ m.step \in {"advance", "next", "enter"} => F \subseteq m.store
    /\ m.step = "enter" => \A s \in F : m.to \in successors(s)
    /\ m.step = "render" => m.round = 2
    /\ m.round = 2 =>
           /\ ~m.transaction /\ F \subseteq m.thinked /\ "initial_decoder" \notin F
           /\ m.step \in {"return", "render"} => m.view # "initial_decoder"

(* A request that never raised, and is alone with what it looked up.       *)
Peaceful(m, C, S) ==
    /\ ~m.raised
    /\ m.round = 1 => m.thinked = {}
    /\ m.round = 2 => m.step \in {"think", "return", "render", "answer"}
    /\ m.step \in {"validate", "create"} => C = <<>>
    /\ m.step \in {"unique", "insert"} => \A j \in DOMAIN S : S[j].uuid # m.uuid
    /\ m.step \notin Unloaded =>
           LET T == Seen(m, S[m.session]) IN Numbered(T) /\ Knows(m, Found(T))

(* No save! and no update! can fail its validations of uniqueness.         *)
Settled ==
    /\ Len(customers) <= 1
    /\ \A i, j \in DOMAIN sessions : sessions[i].uuid = sessions[j].uuid => i = j
    /\ \A j \in DOMAIN sessions : Numbered(sessions[j].transitions)

Calm ==
    /\ Settled /\ \A w \in Workers : Peaceful(worker[w], customers, sessions)
    /\ \A v, w \in Busy : v = w

QInv == ~overlapped => Calm

-------------------------------------------------------------------------------
(* One step of the one request.                                            *)

LEMMA ReadyFor ==
    ASSUME IInv, Calm, NEW w \in Workers, worker[w].step \notin Unloaded
    PROVE  /\ worker[w] \in Worker /\ ~worker[w].raised
           /\ worker[w].session \in DOMAIN sessions /\ Row(w) = sessions[worker[w].session]
           /\ Numbered(Visible(w)) /\ Knows(worker[w], current_state(w)) /\ ~Invalid(w)
           /\ current_state(w) \subseteq States
           /\ \A s, t \in current_state(w) : s = t
           /\ worker[w].round = 1 => worker[w].thinked = {}
           /\ worker[w].round = 2 =>
                  worker[w].step \in {"think", "return", "render", "answer"}
<1>1. /\ worker[w] \in Worker /\ worker[w].session \in DOMAIN sessions
      /\ Row(w) = sessions[worker[w].session]
  BY Mine, Loaded DEF Row
<1>2. Peaceful(worker[w], customers, sessions)
  BY DEF Calm
<1>3. Visible(w) = Seen(worker[w], sessions[worker[w].session])
      /\ current_state(w) = Found(Visible(w))
  BY <1>1 DEF Visible, Seen, current_state, Found
<1>4. Numbered(Visible(w)) /\ Knows(worker[w], current_state(w))
  BY <1>2, <1>3 DEF Peaceful
<1>5. ~Invalid(w)
  BY <1>1 DEF Calm, Settled, Invalid
<1>6. current_state(w) \subseteq States
  BY CurrentState
<1>7. \A s, t \in current_state(w) : s = t
  <2>1. TransitionRow = [to : States, sort_key : Nat] /\ Visible(w) \subseteq TransitionRow
    BY <1>1, Loaded DEF Visible, SessionRow, Worker, Writes, TransitionRow
  <2>2. \A t, u \in Latest(Visible(w)) : t = u
    <3>. TAKE t, u \in Latest(Visible(w))
    <3>1. t \in Visible(w) /\ u \in Visible(w)
          /\ u.sort_key <= t.sort_key /\ t.sort_key <= u.sort_key
      BY DEF Latest
    <3>2. t.sort_key \in Nat /\ u.sort_key \in Nat
      BY <2>1, <3>1
    <3>3. t.sort_key = u.sort_key
      BY <3>1, <3>2
    <3> QED BY <1>4, <3>1, <3>3 DEF Numbered
  <2> QED BY <2>2 DEF current_state
<1> QED BY <1>1, <1>2, <1>4, <1>5, <1>6, <1>7 DEF Peaceful

(* A step of the one request there is.                                     *)
LEMMA CalmStays ==
    ASSUME IInv, Calm, NEW w \in Workers, NEW n \in Worker, Goes(w, n),
           worker[w].step # "idle", Settled', Peaceful(n, customers', sessions')
    PROVE  Calm'
<1>1. worker \in [Workers -> Worker]
  BY DEF IInv, TypeOK
<1>2. worker'[w] = n /\ \A v \in Workers \ {w} : worker'[v] = worker[v]
  BY <1>1, GoesOn
<1>3. \A v \in Workers \ {w} : worker[v].step = "idle"
  BY DEF Calm, Busy
<1>4. \A v \in Workers \ {w} : Peaceful(worker[v], customers', sessions')
  <2>. TAKE v \in Workers \ {w}
  <2>1. Peaceful(worker[v], customers, sessions) /\ worker[v].step = "idle"
    BY <1>3 DEF Calm
  <2> QED BY <2>1 DEF Peaceful, Unloaded, Unknown
<1>5. \A v \in Workers : Peaceful(worker'[v], customers', sessions')
  BY <1>2, <1>4
<1>6. \A v \in Busy' : v = w
  BY <1>2, <1>3 DEF Busy
<1> QED BY <1>5, <1>6 DEF Calm

(* Its end.                                                                *)
LEMMA EndsCalm ==
    ASSUME IInv, Calm, NEW w \in Workers, worker[w].step # "idle", Ends(w, FALSE),
           UNCHANGED <<customers, sessions>>
    PROVE  Calm'
<1> DEFINE n == [Idle EXCEPT !.raised = FALSE]
<1>1. n \in Worker /\ ~n.raised /\ n.step = "idle" /\ n.round = 1 /\ n.thinked = {}
  BY IdleType DEF Worker, Idle
<1>2. Goes(w, n)
  BY DEF Ends, Goes
<1> HIDE DEF n
<1>3. Peaceful(n, customers', sessions')
  BY <1>1 DEF Peaceful, Unloaded, Unknown
<1>4. Settled'
  BY DEF Calm, Settled
<1> QED BY <1>1, <1>2, <1>3, <1>4, CalmStays

(* The rows a step leaves as they are, for what is relied on here.         *)
Alike == /\ DOMAIN sessions' = DOMAIN sessions
         /\ \A j \in DOMAIN sessions :
                /\ sessions'[j].uuid = sessions[j].uuid
                /\ sessions'[j].transitions = sessions[j].transitions

LEMMA GoesCalm ==
    ASSUME IInv, Calm, NEW w \in Workers, NEW n \in Worker, Goes(w, n),
           worker[w].step \notin Unloaded, n.step \notin Unloaded,
           n.session = worker[w].session,
           n.writes.transitions = worker[w].writes.transitions,
           ~n.raised, n.round = 1 => n.thinked = {},
           n.round = 2 => n.step \in {"think", "return", "render", "answer"},
           Knows(n, current_state(w)), Len(customers') = Len(customers), Alike
    PROVE  Calm'
<1>1. /\ worker[w].session \in DOMAIN sessions /\ Row(w) = sessions[worker[w].session]
      /\ Numbered(Visible(w))
  BY ReadyFor
<1>2. Settled'
  BY DEF Calm, Settled, Alike
<1>3. Seen(n, sessions'[n.session]) = Visible(w)
      /\ Found(Visible(w)) = current_state(w)
  BY <1>1 DEF Seen, Visible, Alike, Found, current_state
<1>4. Peaceful(n, customers', sessions')
  BY <1>1, <1>3 DEF Peaceful, Unloaded, Unknown
<1>5. worker[w].step # "idle"
  BY DEF Unloaded, Unknown
<1> QED BY <1>2, <1>4, <1>5, CalmStays

(* A save, and the step it is part of.                                     *)
LEMMA SavesCalm ==
    ASSUME IInv, Calm, NEW w \in Workers, NEW new \in Worker, Save(w, new),
           worker[w].step \notin Unloaded, new.step \notin Unloaded,
           new.session = worker[w].session, new.writes = worker[w].writes,
           ~new.raised, new.round = 1 => new.thinked = {},
           new.round = 2 => new.step \in {"think", "return", "render", "answer"},
           Knows(new, current_state(w))
    PROVE  Calm'
<1> DEFINE written == new.store # worker[w].saved
           b == new.writes.meta \/ (written /\ worker[w].transaction)
           n == [new EXCEPT !.saved = new.store, !.writes.meta = b]
           j == worker[w].session
           r == [Row(w) EXCEPT !.meta = new.store]
<1>1. /\ worker[w] \in Worker /\ j \in DOMAIN sessions /\ Row(w) = sessions[j] /\ ~Invalid(w)
  BY ReadyFor
<1>2. sessions \in Seq(SessionRow) /\ Row(w) \in SessionRow
  BY <1>1, Loaded DEF IInv, TypeOK
<1>3. Goes(w, n) /\ UNCHANGED customers
      /\ (sessions' = [sessions EXCEPT ![j].meta = new.store] \/ sessions' = sessions)
  BY <1>1 DEF Save
<1>4. b \in BOOLEAN /\ new.store \in Store
  <2>1. new.writes.meta \in BOOLEAN /\ worker[w].transaction \in BOOLEAN /\ new.store \in Store
    BY <1>1 DEF Worker, Writes
  <2> HIDE DEF written
  <2> QED BY <2>1
<1> HIDE DEF b
<1>5. /\ n \in Worker /\ n.step = new.step /\ n.session = new.session
      /\ n.writes.transitions = new.writes.transitions /\ n.raised = new.raised
      /\ n.round = new.round /\ n.thinked = new.thinked /\ n.begun = new.begun
      /\ n.store = new.store /\ n.to = new.to /\ n.view = new.view
      /\ n.transaction = new.transaction
  BY <1>4 DEF Worker, Writes
<1>6. Alike
  <2>1. CASE sessions' = [sessions EXCEPT ![j].meta = new.store]
    <3>1. sessions' = [sessions EXCEPT ![j] = r]
      BY <1>1, <2>1
    <3>2. r.uuid = Row(w).uuid /\ r.transitions = Row(w).transitions
      BY <1>2 DEF SessionRow
    <3> HIDE DEF r, j
    <3> QED BY <1>1, <1>2, <3>1, <3>2 DEF Alike
  <2> QED BY <1>3, <2>1 DEF Alike
<1> HIDE DEF n
<1>7. Knows(n, current_state(w))
  BY <1>5 DEF Knows
<1> QED BY <1>1, <1>3, <1>5, <1>6, <1>7, GoesCalm

-------------------------------------------------------------------------------
(* Customer and session.                                                   *)

LEMMA LookingFor ==
    ASSUME IInv, Calm, NEW w \in Workers, worker[w].step \in Unloaded
    PROVE  /\ worker[w] \in Worker /\ ~worker[w].raised
           /\ worker[w].round = 1 /\ worker[w].thinked = {} /\ worker[w].writes = NoWrites
<1>1. worker[w] \in Worker /\ Good(worker[w], customers, sessions)
      /\ Peaceful(worker[w], customers, sessions)
  BY Mine DEF Calm
<1>2. worker[w].round \in 1..2
  BY <1>1 DEF Worker
<1> QED BY <1>1, <1>2 DEF Peaceful, Good, Linked, Unloaded, Unknown

LEMMA LooksCalm ==
    ASSUME IInv, Calm, NEW w \in Workers, NEW n \in Worker, Goes(w, n),
           worker[w].step # "idle", n.step \in Unloaded,
           ~n.raised, n.round = 1, n.thinked = {}, Len(customers') <= 1, UNCHANGED sessions,
           n.step \in {"validate", "create"} => customers' = <<>>,
           n.step \in {"unique", "insert"} => ~UuidTaken(n.uuid)
    PROVE  Calm'
<1>1. Settled'
  BY DEF Calm, Settled
<1>2. Peaceful(n, customers', sessions')
  BY DEF Peaceful, UuidTaken
<1> QED BY <1>1, <1>2, CalmStays

LEMMA StepQuiet ==
    ASSUME IInv, NEW w \in Workers, NEW s \in Steps
    PROVE  /\ Step(w, s) \in Worker /\ Step(w, s).step = s
           /\ Step(w, s).session = worker[w].session /\ Step(w, s).store = worker[w].store
           /\ Step(w, s).writes = worker[w].writes
           /\ Step(w, s).transaction = worker[w].transaction
           /\ Step(w, s).uuid = worker[w].uuid /\ Step(w, s).round = worker[w].round
           /\ Step(w, s).begun = worker[w].begun /\ Step(w, s).thinked = worker[w].thinked
           /\ Step(w, s).view = worker[w].view /\ Step(w, s).to = worker[w].to
           /\ Step(w, s).raised = worker[w].raised
<1>1. worker[w] \in Worker
  BY Mine
<1> QED BY <1>1 DEF Step, Worker

(* An idle process takes a request, when no other does.                    *)
LEMMA RequestCalm ==
    ASSUME IInv, Calm, NEW w \in Workers, NEW kind \in Kinds, NEW answer \in BOOLEAN,
           Request(w, kind, answer), ~overlapped'
    PROVE  Calm'
<1> DEFINE n == [Idle EXCEPT !.step = "find", !.kind = kind, !.answer = answer,
                             !.had = <<Len(customers), Len(sessions)>>]
<1>1. Len(customers) \in Nat /\ Len(sessions) \in Nat /\ worker \in [Workers -> Worker]
  BY DEF IInv, TypeOK
<1>2. ~Idle.raised /\ Idle.round = 1 /\ Idle.thinked = {}
  BY DEF Idle
<1>3. n \in Worker /\ n.step = "find" /\ ~n.raised /\ n.round = 1 /\ n.thinked = {}
  <2>1. "find" \in Steps
    BY DEF Steps
  <2> QED BY <1>1, <1>2, <2>1, IdleType DEF Worker
<1>4. Goes(w, n) /\ UNCHANGED <<customers, sessions>> /\ Busy = {}
  BY DEF Request, Goes
<1> HIDE DEF n
<1>5. Peaceful(n, customers', sessions')
  BY <1>3 DEF Peaceful, Unloaded, Unknown
<1>6. Settled'
  BY <1>4 DEF Calm, Settled
<1>7. worker'[w] = n /\ \A v \in Workers \ {w} : worker'[v] = worker[v]
  BY <1>1, <1>3, <1>4, GoesOn
<1>8. \A v \in Workers : Peaceful(worker'[v], customers', sessions')
  BY <1>4, <1>5, <1>7 DEF Calm
<1>9. \A v \in Busy' : v = w
  BY <1>4, <1>7 DEF Busy
<1> QED BY <1>6, <1>8, <1>9 DEF Calm

LEMMA FindCustomerCalm ==
    ASSUME IInv, Calm, NEW w \in Workers, FindCustomer(w)
    PROVE  Calm'
<1>1. worker[w].step = "find" /\ worker[w].step \in Unloaded /\ Len(customers) <= 1
  BY DEF FindCustomer, At, Calm, Settled, Unloaded, Unknown
<1>2. CASE customers # <<>>
  <2> DEFINE e == Step(w, "load")
             n == [e EXCEPT !.customer = 1]
  <2>1. e \in Worker /\ e.step = "load" /\ ~e.raised /\ e.round = 1 /\ e.thinked = {}
    BY <1>1, StepQuiet, LookingFor DEF Steps
  <2>2. Goes(w, n) /\ UNCHANGED <<customers, sessions>>
    BY <1>2 DEF FindCustomer
  <2> HIDE DEF e
  <2>3. n \in Worker /\ n.step = "load" /\ ~n.raised /\ n.round = 1 /\ n.thinked = {}
    BY <2>1 DEF Worker
  <2> HIDE DEF n
  <2> QED BY <1>1, <2>2, <2>3, LooksCalm DEF Unloaded, Unknown
<1>3. CASE customers = <<>>
  <2> DEFINE n == Step(w, "validate")
  <2>1. n \in Worker /\ n.step = "validate" /\ ~n.raised /\ n.round = 1 /\ n.thinked = {}
    BY <1>1, StepQuiet, LookingFor DEF Steps
  <2>2. Goes(w, n) /\ UNCHANGED <<customers, sessions>>
    BY <1>3 DEF FindCustomer
  <2> HIDE DEF n
  <2> QED BY <1>1, <1>3, <2>1, <2>2, LooksCalm DEF Unloaded, Unknown
<1> QED BY <1>2, <1>3

LEMMA ValidateCustomerCalm ==
    ASSUME IInv, Calm, NEW w \in Workers, ValidateCustomer(w)
    PROVE  Calm'
<1>1. worker[w].step = "validate" /\ worker[w].step \in Unloaded /\ Len(customers) <= 1
  BY DEF ValidateCustomer, At, Calm, Settled, Unloaded, Unknown
<1>2. customers = <<>>
  BY <1>1 DEF Calm, Peaceful
<1> DEFINE n == Step(w, "create")
<1>3. n \in Worker /\ n.step = "create" /\ ~n.raised /\ n.round = 1 /\ n.thinked = {}
  BY <1>1, StepQuiet, LookingFor DEF Steps
<1>4. Goes(w, n) /\ UNCHANGED <<customers, sessions>>
  BY <1>2 DEF ValidateCustomer
<1> HIDE DEF n
<1> QED BY <1>1, <1>2, <1>3, <1>4, LooksCalm DEF Unloaded, Unknown

LEMMA CreateCustomerCalm ==
    ASSUME IInv, Calm, NEW w \in Workers, CreateCustomer(w)
    PROVE  Calm'
<1>1. worker[w].step = "create" /\ worker[w].step \in Unloaded
  BY DEF CreateCustomer, At, Unloaded, Unknown
<1>2. customers = <<>>
  BY <1>1 DEF Calm, Peaceful
<1> DEFINE e == Step(w, "load")
           n == [e EXCEPT !.customer = Len(customers) + 1]
<1>3. e \in Worker /\ e.step = "load" /\ ~e.raised /\ e.round = 1 /\ e.thinked = {}
  BY <1>1, StepQuiet, LookingFor DEF Steps
<1>4. /\ Goes(w, n) /\ UNCHANGED sessions
      /\ customers' = Append(customers, [named |-> FALSE, before |-> worker[w].had[1]])
  BY DEF CreateCustomer
<1>5. Len(customers') <= 1 /\ Len(customers) + 1 \in Nat
  BY <1>2, <1>4
<1> HIDE DEF e
<1>6. n \in Worker /\ n.step = "load" /\ ~n.raised /\ n.round = 1 /\ n.thinked = {}
  BY <1>3, <1>5 DEF Worker
<1> HIDE DEF n
<1> QED BY <1>1, <1>4, <1>5, <1>6, LooksCalm DEF Unloaded, Unknown

LEMMA FindUuidCalm ==
    ASSUME IInv, Calm, NEW w \in Workers, find_unique_uuid(w)
    PROVE  Calm'
<1>1. worker[w].step = "draw" /\ worker[w].step \in Unloaded /\ Len(customers) <= 1
  BY DEF find_unique_uuid, At, Calm, Settled, Unloaded, Unknown
<1>2. PICK u \in Uuids : ~UuidTaken(u) /\ Goes(w, [Step(w, "unique") EXCEPT !.uuid = u])
  BY DEF find_unique_uuid
<1> DEFINE e == Step(w, "unique")
           n == [e EXCEPT !.uuid = u]
<1>3. e \in Worker /\ e.step = "unique" /\ ~e.raised /\ e.round = 1 /\ e.thinked = {}
  BY <1>1, StepQuiet, LookingFor DEF Steps
<1>4. Goes(w, n) /\ UNCHANGED <<customers, sessions>>
  BY <1>2 DEF find_unique_uuid
<1> HIDE DEF e
<1>5. n \in Worker /\ n.step = "unique" /\ ~n.raised /\ n.round = 1 /\ n.thinked = {}
      /\ n.uuid = u
  BY <1>3 DEF Worker
<1> HIDE DEF n
<1> QED BY <1>1, <1>2, <1>4, <1>5, LooksCalm DEF Unloaded, Unknown

LEMMA ValidateUuidCalm ==
    ASSUME IInv, Calm, NEW w \in Workers, ValidateUuid(w)
    PROVE  Calm'
<1>1. worker[w].step = "unique" /\ worker[w].step \in Unloaded /\ Len(customers) <= 1
  BY DEF ValidateUuid, At, Calm, Settled, Unloaded, Unknown
<1>2. ~UuidTaken(worker[w].uuid)
  BY <1>1 DEF Calm, Peaceful, UuidTaken
<1> DEFINE n == Step(w, "insert")
<1>3. n \in Worker /\ n.step = "insert" /\ ~n.raised /\ n.round = 1 /\ n.thinked = {}
      /\ n.uuid = worker[w].uuid
  BY <1>1, StepQuiet, LookingFor DEF Steps
<1>4. Goes(w, n) /\ UNCHANGED <<customers, sessions>>
  BY <1>2 DEF ValidateUuid
<1> HIDE DEF n
<1> QED BY <1>1, <1>2, <1>3, <1>4, LooksCalm DEF Unloaded, Unknown

(* A session that is loaded, or made, has its transitions numbered.        *)
LEMMA FirstKnows ==
    ASSUME NEW n \in Worker, NEW F, n.step \in {"touch", "think"}, n.round = 1
    PROVE  Knows(n, F)
BY DEF Knows, Waiting

LEMMA LoadSessionCalm ==
    ASSUME IInv, Calm, NEW w \in Workers, LoadSession(w)
    PROVE  Calm'
<1>1. worker[w].step = "load" /\ worker[w].step \in Unloaded /\ Len(customers) <= 1
      /\ worker[w].step # "idle"
  BY DEF LoadSession, At, Calm, Settled, Unloaded, Unknown
<1>2. CASE Goes(w, Step(w, "draw")) /\ UNCHANGED <<customers, sessions>>
  <2> DEFINE n == Step(w, "draw")
  <2>1. n \in Worker /\ n.step = "draw" /\ ~n.raised /\ n.round = 1 /\ n.thinked = {}
    BY <1>1, StepQuiet, LookingFor DEF Steps
  <2>2. Goes(w, n)
    BY <1>2
  <2> HIDE DEF n
  <2> QED BY <1>1, <1>2, <2>1, <2>2, LooksCalm DEF Unloaded, Unknown
<1>3. ASSUME NEW j \in Unfinished(worker[w].customer), UNCHANGED customers,
             Goes(w, [Step(w, "touch") EXCEPT !.session = j, !.store = sessions[j].meta,
                                              !.saved = sessions[j].meta]),
             sessions' = [sessions EXCEPT ![j].shared =
                             @ \/ \E v \in Workers \ {w} : worker[v].session = j]
      PROVE  Calm'
  <2> DEFINE e == Step(w, "touch")
             n == [e EXCEPT !.session = j, !.store = sessions[j].meta,
                            !.saved = sessions[j].meta]
             b == sessions[j].shared \/ \E v \in Workers \ {w} : worker[v].session = j
             r == [sessions[j] EXCEPT !.shared = b]
  <2>1. j \in DOMAIN sessions /\ sessions \in Seq(SessionRow) /\ j \in Nat
    BY DEF Unfinished, IInv, TypeOK
  <2>2. sessions[j] \in SessionRow /\ sessions[j].meta \in Store
    <3>1. sessions[j] \in SessionRow
      BY <2>1
    <3> QED BY <3>1 DEF SessionRow
  <2>3. /\ e \in Worker /\ e.step = "touch" /\ ~e.raised /\ e.round = 1 /\ e.thinked = {}
        /\ e.writes = NoWrites
    BY <1>1, StepQuiet, LookingFor DEF Steps
  <2>4. Goes(w, n)
    BY <1>3
  <2> HIDE DEF e
  <2>5. /\ n \in Worker /\ n.step = "touch" /\ ~n.raised /\ n.round = 1 /\ n.thinked = {}
        /\ n.writes = NoWrites /\ n.session = j
    BY <2>1, <2>2, <2>3 DEF Worker
  <2> HIDE DEF n
  <2>6. r.uuid = sessions[j].uuid /\ r.transitions = sessions[j].transitions
    BY <2>2 DEF SessionRow
  <2>7. sessions' = [sessions EXCEPT ![j] = r]
    BY <1>3
  <2> HIDE DEF r
  <2>8. Alike
    BY <2>1, <2>6, <2>7 DEF Alike
  <2>9. Settled'
    BY <1>3, <2>8 DEF Calm, Settled, Alike
  <2>10. Numbered(Seen(n, sessions'[n.session]))
    <3>1. Seen(n, sessions'[n.session]) = sessions[j].transitions
      BY <2>1, <2>5, <2>8 DEF Seen, Alike, NoWrites
    <3> QED BY <2>1, <3>1 DEF Calm, Settled
  <2>11. Peaceful(n, customers', sessions')
    BY <2>5, <2>10, FirstKnows DEF Peaceful, Unloaded, Unknown
  <2> QED BY <1>1, <2>4, <2>5, <2>9, <2>11, CalmStays
<1> QED BY <1>2, <1>3 DEF LoadSession

LEMMA CreateSessionCalm ==
    ASSUME IInv, Calm, NEW w \in Workers, CreateSession(w)
    PROVE  Calm'
<1>1. worker[w].step = "insert" /\ worker[w].step \in Unloaded /\ worker[w].step # "idle"
  BY DEF CreateSession, At, Unloaded, Unknown
<1> DEFINE k == Len(sessions) + 1
           e == Step(w, "touch")
           n == [e EXCEPT !.session = k]
           r == [customer |-> worker[w].customer, uuid |-> worker[w].uuid, meta |-> {},
                 transitions |-> {}, is_finished |-> FALSE, recent |-> TRUE,
                 selections |-> 0, before |-> worker[w].had[2], by |-> worker[w].kind,
                 shared |-> FALSE]
<1>2. sessions \in Seq(SessionRow) /\ Len(sessions) \in Nat /\ DOMAIN sessions = 1..Len(sessions)
  BY DEF IInv, TypeOK
<1>3. /\ e \in Worker /\ e.step = "touch" /\ ~e.raised /\ e.round = 1 /\ e.thinked = {}
      /\ e.writes = NoWrites
  BY <1>1, StepQuiet, LookingFor DEF Steps
<1>4. Goes(w, n) /\ sessions' = Append(sessions, r) /\ UNCHANGED customers
  BY DEF CreateSession
<1>5. r.uuid = worker[w].uuid /\ r.transitions = {}
  OBVIOUS
<1> HIDE DEF e, r
<1>6. /\ n \in Worker /\ n.step = "touch" /\ ~n.raised /\ n.round = 1 /\ n.thinked = {}
      /\ n.writes = NoWrites /\ n.session = k
  BY <1>2, <1>3, SMTT(30) DEF Worker
<1> HIDE DEF n
<1>7. /\ DOMAIN sessions' = 1..k /\ sessions'[k] = r
      /\ \A j \in DOMAIN sessions : sessions'[j] = sessions[j]
  BY <1>2, <1>4
<1>8. \A j \in DOMAIN sessions : sessions[j].uuid # worker[w].uuid
  BY <1>1 DEF Calm, Peaceful
<1>9. \A j \in 1..k : j \in DOMAIN sessions \/ j = k
  BY <1>2
<1>10. Settled'
  <2>1. \A i, j \in 1..k : sessions'[i].uuid = sessions'[j].uuid => i = j
    <3>. TAKE i, j \in 1..k
    <3>1. CASE i = k /\ j = k
      BY <3>1
    <3>2. CASE i \in DOMAIN sessions /\ j \in DOMAIN sessions
      BY <1>7, <3>2 DEF Calm, Settled
    <3>3. CASE i \in DOMAIN sessions /\ j = k
      BY <1>5, <1>7, <1>8, <3>3
    <3>4. CASE i = k /\ j \in DOMAIN sessions
      BY <1>5, <1>7, <1>8, <3>4
    <3> QED BY <1>9, <3>1, <3>2, <3>3, <3>4
  <2>2. \A j \in 1..k : Numbered(sessions'[j].transitions)
    BY <1>5, <1>7, <1>9 DEF Calm, Settled, Numbered
  <2> QED BY <1>4, <1>7, <2>1, <2>2 DEF Calm, Settled
<1>11. Numbered(Seen(n, sessions'[n.session]))
  BY <1>5, <1>6, <1>7 DEF Seen, NoWrites, Numbered
<1>12. Peaceful(n, customers', sessions')
  BY <1>6, <1>11, FirstKnows DEF Peaceful, Unloaded, Unknown
<1> QED BY <1>1, <1>4, <1>6, <1>10, <1>12, CalmStays

-------------------------------------------------------------------------------
(* The engines.                                                            *)

LEMMA ThinkingOne ==
    ASSUME IInv, Calm, NEW w \in Workers, NEW s, Thinking(w, s)
    PROVE  /\ worker[w].step \notin Unloaded /\ s \in States /\ current_state(w) = {s}
           /\ worker[w].round = 1 /\ worker[w].thinked = {} /\ ~worker[w].raised
           /\ worker[w] \in Worker
<1>1. worker[w].step \notin Unloaded /\ worker[w].step = "think"
      /\ s \in current_state(w) /\ s \notin worker[w].thinked
  BY DEF Thinking, At, Unloaded, Unknown
<1>2. worker[w] \in Worker /\ worker[w].round \in 1..2
  BY Mine DEF Worker
<1>3. worker[w].round = 1
  BY <1>1, <1>2, ReadyFor DEF Knows
<1> QED BY <1>1, <1>2, <1>3, ReadyFor

LEMMA ThinksQuiet ==
    ASSUME IInv, NEW w \in Workers, NEW s \in States, NEW step \in Steps
    PROVE  /\ Thinks(w, s, step) \in Worker /\ Thinks(w, s, step).step = step
           /\ Thinks(w, s, step).session = worker[w].session
           /\ Thinks(w, s, step).store = worker[w].store
           /\ Thinks(w, s, step).writes = worker[w].writes
           /\ Thinks(w, s, step).transaction = worker[w].transaction
           /\ Thinks(w, s, step).begun = worker[w].begun \cup {s}
           /\ Thinks(w, s, step).thinked = worker[w].thinked
           /\ Thinks(w, s, step).round = worker[w].round
           /\ Thinks(w, s, step).raised = worker[w].raised
           /\ Thinks(w, s, step).view = IF worker[w].transaction THEN worker[w].view ELSE s
<1>1. worker[w] \in Worker
  BY Mine
<1>2. Thinks(w, s, step) \in Worker /\ Thinks(w, s, step).step = step
      /\ Thinks(w, s, step).session = worker[w].session
      /\ Thinks(w, s, step).store = worker[w].store
      /\ Thinks(w, s, step).writes = worker[w].writes
      /\ Thinks(w, s, step).transaction = worker[w].transaction
  BY ThinksFields
<1> QED BY <1>1, <1>2 DEF Thinks, Worker

(* An engine that calls on, marks its state or has nothing more to do.     *)
LEMMA ThinksCalm ==
    ASSUME IInv, Calm, NEW w \in Workers, NEW s, Thinking(w, s),
           UNCHANGED <<customers, sessions>>, NEW step \in {"shake", "name", "return"},
           step = "name" => s = "customer_registration",
           step \in {"shake", "return"} => s # "initial_decoder",
           NEW n \in Worker, Goes(w, n), n.step = step, n.session = worker[w].session,
           n.writes.transitions = worker[w].writes.transitions,
           n.thinked = worker[w].thinked, n.begun = worker[w].begun \cup {s},
           n.round = worker[w].round, n.raised = worker[w].raised
    PROVE  Calm'
<1>1. /\ worker[w].step \notin Unloaded /\ s \in States /\ current_state(w) = {s}
      /\ worker[w].round = 1 /\ worker[w].thinked = {} /\ ~worker[w].raised
  BY ThinkingOne
<1>2. Knows(n, {s}) /\ n.step \notin Unloaded
  BY <1>1 DEF Knows, Waiting, Unloaded, Unknown
<1>3. Knows(n, current_state(w))
  BY <1>1, <1>2
<1>4. /\ n.round # 2 /\ n.thinked = {} /\ ~n.raised
      /\ Len(customers') = Len(customers)
  BY <1>1
<1>5. Alike
  BY DEF Alike
<1> QED BY <1>1, <1>2, <1>3, <1>4, <1>5, GoesCalm

LEMMA CompletesCalm ==
    ASSUME IInv, Calm, NEW w \in Workers, NEW s, Thinking(w, s), s # "finish",
           UNCHANGED <<customers, sessions>>, NEW n \in Worker, Goes(w, n),
           n.step = "advance" \/ (n.step = "select" /\ s = "appointment_selection"),
           n.session = worker[w].session,
           n.writes.transitions = worker[w].writes.transitions,
           n.thinked = worker[w].thinked, n.begun = worker[w].begun \cup {s},
           n.round = worker[w].round, n.raised = worker[w].raised,
           n.store = worker[w].store \cup {s}
    PROVE  Calm'
<1>1. /\ worker[w].step \notin Unloaded /\ s \in States /\ current_state(w) = {s}
      /\ worker[w].round = 1 /\ worker[w].thinked = {} /\ ~worker[w].raised
  BY ThinkingOne
<1>2. Knows(n, {s}) /\ n.step \notin Unloaded
  BY <1>1 DEF Knows, Waiting, Unloaded, Unknown
<1>3. Knows(n, current_state(w))
  BY <1>1, <1>2
<1>4. /\ n.round # 2 /\ n.thinked = {} /\ ~n.raised
      /\ Len(customers') = Len(customers)
  BY <1>1
<1>5. Alike
  BY DEF Alike
<1> QED BY <1>1, <1>2, <1>3, <1>4, <1>5, GoesCalm

LEMMA CompletesQuiet ==
    ASSUME IInv, NEW w \in Workers, NEW s \in States
    PROVE  /\ Completes(w, s) \in Worker /\ Completes(w, s).step = "advance"
           /\ Completes(w, s).session = worker[w].session
           /\ Completes(w, s).store = worker[w].store \cup {s}
           /\ Completes(w, s).writes = worker[w].writes
           /\ Completes(w, s).transaction = worker[w].transaction
           /\ Completes(w, s).begun = worker[w].begun \cup {s}
           /\ Completes(w, s).thinked = worker[w].thinked
           /\ Completes(w, s).round = worker[w].round
           /\ Completes(w, s).raised = worker[w].raised
<1> DEFINE t == Thinks(w, s, "advance")
<1>1. /\ t \in Worker /\ t.begun = worker[w].begun \cup {s}
      /\ t.thinked = worker[w].thinked /\ t.round = worker[w].round
      /\ t.raised = worker[w].raised
  BY ThinksQuiet DEF Steps
<1>2. Completes(w, s) = [t EXCEPT !.store = @ \cup {s}]
  BY DEF Completes
<1> HIDE DEF t
<1>3. /\ Completes(w, s).begun = t.begun /\ Completes(w, s).thinked = t.thinked
      /\ Completes(w, s).round = t.round /\ Completes(w, s).raised = t.raised
  BY <1>1, <1>2 DEF Worker
<1> QED BY <1>1, <1>3, CompletesFields

LEMMA AlreadyThinkedCalm ==
    ASSUME IInv, Calm, NEW w \in Workers, AlreadyThinked(w)
    PROVE  Calm'
<1>1. PICK s \in current_state(w) \cap worker[w].thinked : Goes(w, Thinks(w, s, "return"))
  BY DEF AlreadyThinked
<1>2. worker[w].step \notin Unloaded
  BY DEF AlreadyThinked, At, Unloaded, Unknown
<1>3. /\ s \in States /\ worker[w].round = 2 /\ current_state(w) = {s}
      /\ Knows(worker[w], current_state(w)) /\ ~worker[w].raised
  <2>1. worker[w].round \in 1..2
    BY Mine DEF Worker
  <2> QED BY <1>1, <1>2, <2>1, ReadyFor
<1>4. s # "initial_decoder" /\ ~worker[w].transaction
  BY <1>3 DEF Knows
<1> DEFINE n == Thinks(w, s, "return")
<1>5. /\ n \in Worker /\ n.step = "return" /\ n.session = worker[w].session
      /\ n.writes = worker[w].writes /\ n.begun = worker[w].begun \cup {s}
      /\ n.thinked = worker[w].thinked /\ n.round = worker[w].round
      /\ n.raised = worker[w].raised /\ n.view = s /\ ~n.transaction
  BY <1>3, <1>4, ThinksQuiet DEF Steps
<1>6. Goes(w, n) /\ UNCHANGED <<customers, sessions>>
  BY <1>1 DEF AlreadyThinked
<1> HIDE DEF n
<1>7. Knows(n, current_state(w)) /\ n.step \notin Unloaded
  BY <1>1, <1>3, <1>4, <1>5 DEF Knows, Waiting, Unloaded, Unknown
<1>8. Alike
  BY <1>6 DEF Alike
<1> QED BY <1>2, <1>3, <1>5, <1>6, <1>7, <1>8, GoesCalm

LEMMA HandshakeCalm ==
    ASSUME IInv, Calm, NEW w \in Workers, Handshake(w)
    PROVE  Calm'
<1> DEFINE s == "handshake"
<1>1. Thinking(w, s) /\ s \in States /\ UNCHANGED <<customers, sessions>>
  BY Indices DEF Handshake
<1>2. CASE Goes(w, Completes(w, s))
  <2> DEFINE n == Completes(w, s)
  <2>1. /\ n \in Worker /\ n.step = "advance" /\ n.session = worker[w].session
        /\ n.writes.transitions = worker[w].writes.transitions
        /\ n.thinked = worker[w].thinked /\ n.begun = worker[w].begun \cup {s}
        /\ n.round = worker[w].round /\ n.raised = worker[w].raised
        /\ n.store = worker[w].store \cup {s}
    BY <1>1, CompletesQuiet
  <2>2. Goes(w, n)
    BY <1>2
  <2> HIDE DEF n
  <2> QED BY <1>1, <2>1, <2>2, CompletesCalm
<1>3. CASE Goes(w, Thinks(w, s, "shake"))
  <2> DEFINE n == Thinks(w, s, "shake")
  <2>1. /\ n \in Worker /\ n.step = "shake" /\ n.session = worker[w].session
        /\ n.writes.transitions = worker[w].writes.transitions
        /\ n.thinked = worker[w].thinked /\ n.begun = worker[w].begun \cup {s}
        /\ n.round = worker[w].round /\ n.raised = worker[w].raised
    BY <1>1, ThinksQuiet DEF Steps
  <2>2. Goes(w, n)
    BY <1>3
  <2> HIDE DEF n
  <2> QED BY <1>1, <2>1, <2>2, ThinksCalm
<1> QED BY <1>2, <1>3 DEF Handshake

LEMMA InitialDecoderCalm ==
    ASSUME IInv, Calm, NEW w \in Workers, InitialDecoder(w)
    PROVE  Calm'
<1> DEFINE s == "initial_decoder"
           n == Completes(w, s)
<1>1. Thinking(w, s) /\ s \in States /\ UNCHANGED <<customers, sessions>> /\ Goes(w, n)
  BY Indices DEF InitialDecoder
<1>2. /\ n \in Worker /\ n.step = "advance" /\ n.session = worker[w].session
      /\ n.writes.transitions = worker[w].writes.transitions
      /\ n.thinked = worker[w].thinked /\ n.begun = worker[w].begun \cup {s}
      /\ n.round = worker[w].round /\ n.raised = worker[w].raised
      /\ n.store = worker[w].store \cup {s}
  BY <1>1, CompletesQuiet
<1> HIDE DEF n
<1> QED BY <1>1, <1>2, CompletesCalm

LEMMA CustomerRegistrationCalm ==
    ASSUME IInv, Calm, NEW w \in Workers, CustomerRegistration(w)
    PROVE  Calm'
<1> DEFINE s == "customer_registration"
<1>1. Thinking(w, s) /\ s \in States /\ UNCHANGED <<customers, sessions>>
  BY Indices DEF CustomerRegistration
<1>2. CASE Goes(w, [Completes(w, s) EXCEPT !.answer = FALSE])
  <2> DEFINE e == Completes(w, s)
             n == [e EXCEPT !.answer = FALSE]
  <2>1. /\ e \in Worker /\ e.step = "advance" /\ e.session = worker[w].session
        /\ e.writes.transitions = worker[w].writes.transitions
        /\ e.thinked = worker[w].thinked /\ e.begun = worker[w].begun \cup {s}
        /\ e.round = worker[w].round /\ e.raised = worker[w].raised
        /\ e.store = worker[w].store \cup {s}
    BY <1>1, CompletesQuiet
  <2>2. Goes(w, n)
    BY <1>2
  <2> HIDE DEF e
  <2>3. /\ n \in Worker /\ n.step = e.step /\ n.session = e.session /\ n.writes = e.writes
        /\ n.thinked = e.thinked /\ n.begun = e.begun /\ n.round = e.round
        /\ n.raised = e.raised /\ n.store = e.store
    BY <2>1 DEF Worker
  <2> HIDE DEF n
  <2> QED BY <1>1, <2>1, <2>2, <2>3, CompletesCalm
<1>3. ASSUME NEW step \in {"name", "return"}, Goes(w, Thinks(w, s, step)) PROVE Calm'
  <2> DEFINE n == Thinks(w, s, step)
  <2>1. /\ n \in Worker /\ n.step = step /\ n.session = worker[w].session
        /\ n.writes.transitions = worker[w].writes.transitions
        /\ n.thinked = worker[w].thinked /\ n.begun = worker[w].begun \cup {s}
        /\ n.round = worker[w].round /\ n.raised = worker[w].raised
    BY <1>1, ThinksQuiet DEF Steps
  <2>2. Goes(w, n)
    BY <1>3
  <2> HIDE DEF n
  <2> QED BY <1>1, <2>1, <2>2, ThinksCalm
<1> QED BY <1>2, <1>3 DEF CustomerRegistration

LEMMA AppointmentSelectionCalm ==
    ASSUME IInv, Calm, NEW w \in Workers, AppointmentSelection(w)
    PROVE  Calm'
<1> DEFINE s == "appointment_selection"
           e == Completes(w, s)
           n == [e EXCEPT !.step = "select"]
<1>1. Thinking(w, s) /\ s \in States /\ UNCHANGED <<customers, sessions>> /\ Goes(w, n)
  BY Indices DEF AppointmentSelection
<1>2. /\ e \in Worker /\ e.session = worker[w].session
      /\ e.writes.transitions = worker[w].writes.transitions
      /\ e.thinked = worker[w].thinked /\ e.begun = worker[w].begun \cup {s}
      /\ e.round = worker[w].round /\ e.raised = worker[w].raised
      /\ e.store = worker[w].store \cup {s}
  BY <1>1, CompletesQuiet
<1> HIDE DEF e
<1>3. /\ n \in Worker /\ n.step = "select" /\ n.session = e.session /\ n.writes = e.writes
      /\ n.thinked = e.thinked /\ n.begun = e.begun /\ n.round = e.round
      /\ n.raised = e.raised /\ n.store = e.store
  BY <1>2 DEF Worker, Steps
<1> HIDE DEF n
<1> QED BY <1>1, <1>2, <1>3, CompletesCalm

(* What follows an engine's save, of the mark or of the whole store.       *)
LEMMA FirstRound ==
    ASSUME IInv, Calm, NEW w \in Workers, worker[w].step \notin Unloaded,
           worker[w].step \notin {"think", "return", "render", "answer"}
    PROVE  worker[w].round # 2 /\ worker[w].thinked = {}
<1>1. worker[w].round \in 1..2
  BY Mine DEF Worker
<1> QED BY <1>1, ReadyFor

LEMMA Following ==
    /\ "finish" \in successors("appointment_selection")
    /\ \A s \in States : s # "finish" => next_state_by_priority(s) \in successors(s)
<1>1. linear_states[5] = "finish"
  BY DEF linear_states
<1> QED BY <1>1, Indices DEF successors, next_state_by_priority

LEMMA SavingCalm ==
    ASSUME IInv, Calm, NEW w \in Workers,
           SaveDevice(w) \/ Shake(w) \/ Choose(w) \/ Advance(w) \/ Render(w)
    PROVE  Calm'
<1>1. worker[w].step \notin Unloaded /\ worker[w].step \in Steps
  BY Mine DEF SaveDevice, Shake, Choose, Advance, Render, At, Unloaded, Unknown, Worker
<1>2. /\ worker[w] \in Worker /\ ~worker[w].raised /\ Knows(worker[w], current_state(w))
      /\ worker[w].round = 1 => worker[w].thinked = {}
  BY <1>1, ReadyFor
<1>3. CASE SaveDevice(w)
  <2> DEFINE n == Step(w, "think")
  <2>1. worker[w].step = "touch" /\ Save(w, n)
    BY <1>3 DEF SaveDevice, At
  <2>2. /\ n \in Worker /\ n.step = "think" /\ n.session = worker[w].session
        /\ n.writes = worker[w].writes /\ n.round = worker[w].round
        /\ n.thinked = worker[w].thinked /\ n.raised = worker[w].raised
    BY StepQuiet DEF Steps
  <2>3. n.round # 2 /\ n.thinked = {}
    BY <1>1, <2>1, <2>2, FirstRound
  <2> HIDE DEF n
  <2>4. Knows(n, current_state(w)) /\ n.step \notin Unloaded
    BY <2>2, <2>3 DEF Knows, Waiting, Unloaded, Unknown
  <2> QED BY <1>1, <1>2, <2>1, <2>2, <2>3, <2>4, SavesCalm
<1>4. CASE Advance(w)
  <2> DEFINE n == Step(w, "next")
  <2>1. worker[w].step = "advance" /\ Save(w, n)
    BY <1>4 DEF Advance, At
  <2>2. /\ n \in Worker /\ n.step = "next" /\ n.session = worker[w].session
        /\ n.writes = worker[w].writes /\ n.round = worker[w].round
        /\ n.thinked = worker[w].thinked /\ n.raised = worker[w].raised
        /\ n.begun = worker[w].begun /\ n.store = worker[w].store
    BY StepQuiet DEF Steps
  <2>3. n.round # 2 /\ n.thinked = {}
    BY <1>1, <2>1, <2>2, FirstRound
  <2> HIDE DEF n
  <2>4. Knows(n, current_state(w)) /\ n.step \notin Unloaded
    BY <1>2, <2>1, <2>2, <2>3 DEF Knows, Waiting, Unloaded, Unknown
  <2> QED BY <1>1, <1>2, <2>1, <2>2, <2>3, <2>4, SavesCalm
<1>5. CASE Choose(w)
  <2> DEFINE e == Step(w, "enter")
             n == [e EXCEPT !.to = "finish"]
  <2>1. worker[w].step = "choose" /\ Save(w, n)
    BY <1>5 DEF Choose, At
  <2>2. /\ e \in Worker /\ e.step = "enter" /\ e.session = worker[w].session
        /\ e.writes = worker[w].writes /\ e.round = worker[w].round
        /\ e.thinked = worker[w].thinked /\ e.raised = worker[w].raised
        /\ e.begun = worker[w].begun /\ e.store = worker[w].store
    BY StepQuiet DEF Steps
  <2> HIDE DEF e
  <2>3. /\ n \in Worker /\ n.step = "enter" /\ n.session = e.session /\ n.writes = e.writes
        /\ n.round = e.round /\ n.thinked = e.thinked /\ n.raised = e.raised
        /\ n.begun = e.begun /\ n.store = e.store /\ n.to = "finish"
    BY <2>2, Indices DEF Worker
  <2>4. n.round # 2 /\ n.thinked = {}
    BY <1>1, <2>1, <2>2, <2>3, FirstRound
  <2> HIDE DEF n
  <2>5. Knows(n, current_state(w)) /\ n.step \notin Unloaded
    BY <1>2, <2>1, <2>2, <2>3, <2>4, Following DEF Knows, Waiting, Unloaded, Unknown
  <2> QED BY <1>1, <1>2, <2>1, <2>2, <2>3, <2>4, <2>5, SavesCalm
<1>6. ASSUME NEW step \in {"return", "answer"}, NEW mark \in Store,
             Save(w, [Step(w, step) EXCEPT !.store = @ \cup mark]),
             \/ worker[w].step = "shake" /\ step = "return"
             \/ worker[w].step = "render" /\ step = "answer"
      PROVE  Calm'
  <2> DEFINE e == Step(w, step)
             n == [e EXCEPT !.store = @ \cup mark]
  <2>1. Save(w, n)
    BY <1>6
  <2>2. /\ e \in Worker /\ e.step = step /\ e.session = worker[w].session
        /\ e.writes = worker[w].writes /\ e.round = worker[w].round
        /\ e.thinked = worker[w].thinked /\ e.raised = worker[w].raised
        /\ e.begun = worker[w].begun /\ e.store = worker[w].store
        /\ e.transaction = worker[w].transaction
    BY StepQuiet DEF Steps
  <2> HIDE DEF e
  <2>3. e.store \cup mark \in Store
    BY <2>2 DEF Worker, Store
  <2>4. /\ n \in Worker /\ n.step = step /\ n.session = e.session /\ n.writes = e.writes
        /\ n.round = e.round /\ n.thinked = e.thinked /\ n.raised = e.raised
        /\ n.begun = e.begun /\ n.transaction = e.transaction
    BY <2>2, <2>3 DEF Worker
  <2> HIDE DEF n
  <2>5. step = "return" => n.round # 2 /\ n.thinked = {}
    BY <1>1, <1>6, <2>2, <2>4, FirstRound
  <2>6. Knows(n, current_state(w)) /\ n.step \notin Unloaded
    BY <1>2, <1>6, <2>2, <2>4, <2>5 DEF Knows, Waiting, Unloaded, Unknown
  <2>7. n.round = 2 => n.step \in {"think", "return", "render", "answer"}
    BY <2>4
  <2> QED BY <1>1, <1>2, <2>1, <2>2, <2>4, <2>6, <2>7, SavesCalm
<1>7. CASE Shake(w)
  <2>1. {"handshake_shaked_hands"} \in Store
    BY DEF Store
  <2> QED BY <1>6, <1>7, <2>1 DEF Shake, At
<1>8. CASE Render(w)
  <2>1. worker[w].step = "render" /\ worker[w].view # "initial_decoder" /\ worker[w].round = 2
    BY <1>2, <1>8 DEF Render, At, Knows
  <2>2. {"user_registration_asked"} \in Store
    BY DEF Store
  <2>3. CASE worker[w].view = "customer_registration"
    BY <1>6, <1>8, <2>1, <2>2, <2>3 DEF Render
  <2>4. CASE worker[w].view # "customer_registration"
    <3> DEFINE n == Step(w, "answer")
    <3>1. Goes(w, n) /\ UNCHANGED <<customers, sessions>>
      BY <1>8, <2>1, <2>4 DEF Render
    <3>2. /\ n \in Worker /\ n.step = "answer" /\ n.session = worker[w].session
          /\ n.writes = worker[w].writes /\ n.round = worker[w].round
          /\ n.thinked = worker[w].thinked /\ n.raised = worker[w].raised
          /\ n.transaction = worker[w].transaction
      BY StepQuiet DEF Steps
    <3> HIDE DEF n
    <3>3. Knows(n, current_state(w)) /\ n.step \notin Unloaded
      BY <1>2, <2>1, <3>2 DEF Knows, Waiting, Unloaded, Unknown
    <3>4. Alike /\ (n.round = 2 => n.step \in {"think", "return", "render", "answer"})
      BY <3>1, <3>2 DEF Alike
    <3> QED BY <1>1, <1>2, <3>1, <3>2, <3>3, <3>4, GoesCalm
  <2> QED BY <2>3, <2>4
<1> QED BY <1>3, <1>4, <1>5, <1>7, <1>8

LEMMA UpdateCustomerCalm ==
    ASSUME IInv, Calm, NEW w \in Workers, UpdateCustomer(w)
    PROVE  Calm'
<1> DEFINE b == worker[w].writes.named \/ worker[w].transaction
           x == [worker[w].writes EXCEPT !.named = b]
           e == Step(w, "advance")
           n == [e EXCEPT !.answer = FALSE, !.store = @ \cup {"customer_registration"},
                          !.writes = x]
<1>1. worker[w].step = "name" /\ worker[w].step \notin Unloaded
  BY DEF UpdateCustomer, At, Unloaded, Unknown
<1>2. /\ worker[w] \in Worker /\ ~worker[w].raised /\ Knows(worker[w], current_state(w))
      /\ worker[w].round # 2 /\ worker[w].thinked = {}
  BY <1>1, ReadyFor, FirstRound
<1>3. customers \in Seq(CustomerRow) /\ Len(customers) \in Nat /\ Len(customers) <= 1
  BY DEF Calm, Settled, IInv, TypeOK
<1>4. /\ Goes(w, [Step(w, "advance") EXCEPT !.answer = FALSE,
                         !.store = @ \cup {"customer_registration"},
                         !.writes.named = @ \/ worker[w].transaction])
      /\ UNCHANGED sessions
      /\ customers' = IF worker[w].transaction THEN customers
                      ELSE [customers EXCEPT ![worker[w].customer].named = TRUE]
  BY <1>3 DEF UpdateCustomer
<1>5. /\ e \in Worker /\ e.step = "advance" /\ e.session = worker[w].session
      /\ e.writes = worker[w].writes /\ e.round = worker[w].round
      /\ e.thinked = worker[w].thinked /\ e.raised = worker[w].raised
      /\ e.begun = worker[w].begun /\ e.store = worker[w].store
  BY StepQuiet DEF Steps
<1> HIDE DEF e
<1>6. Goes(w, n)
  BY <1>4, <1>5 DEF e, Worker, Writes
<1>7. x \in Writes /\ x.transitions = worker[w].writes.transitions
  <2>1. b \in BOOLEAN /\ worker[w].writes \in Writes
    BY <1>2 DEF Worker, Writes
  <2> HIDE DEF b
  <2> QED BY <2>1 DEF Writes
<1> HIDE DEF x
<1>8. e.store \cup {"customer_registration"} \in Store
  <2>1. e.store \in Store
    BY <1>5 DEF Worker
  <2> QED BY <2>1, Indices DEF Store
<1>9. /\ n \in Worker /\ n.step = e.step /\ n.session = e.session /\ n.writes = x
      /\ n.round = e.round /\ n.thinked = e.thinked /\ n.raised = e.raised
      /\ n.begun = e.begun /\ n.store = e.store \cup {"customer_registration"}
  BY <1>5, <1>7, <1>8 DEF Worker
<1> HIDE DEF n
<1>10. Knows(n, current_state(w)) /\ n.step \notin Unloaded
  BY <1>1, <1>2, <1>5, <1>9 DEF Knows, Waiting, Unloaded, Unknown
<1>11. Alike /\ Len(customers') = Len(customers)
  BY <1>3, <1>4 DEF Alike
<1> QED BY <1>1, <1>2, <1>5, <1>6, <1>7, <1>9, <1>10, <1>11, GoesCalm

LEMMA FindSelectionCalm ==
    ASSUME IInv, Calm, NEW w \in Workers, FindSelection(w)
    PROVE  Calm'
<1>1. worker[w].step = "select" /\ worker[w].step \notin Unloaded
      /\ UNCHANGED <<customers, sessions>>
  BY DEF FindSelection, At, Unloaded, Unknown
<1>2. /\ worker[w] \in Worker /\ ~worker[w].raised /\ Knows(worker[w], current_state(w))
      /\ worker[w].round # 2 /\ worker[w].thinked = {}
  BY <1>1, ReadyFor, FirstRound
<1>3. Alike
  BY <1>1 DEF Alike
<1>4. ASSUME NEW step \in {"reserve", "return", "choose"}, NEW n \in Worker, Goes(w, n),
             n.step = step, n.session = worker[w].session, n.writes = worker[w].writes,
             n.round = worker[w].round, n.thinked = worker[w].thinked,
             n.raised = worker[w].raised, n.begun = worker[w].begun,
             n.store = worker[w].store
      PROVE  Calm'
  <2>1. Knows(n, current_state(w)) /\ n.step \notin Unloaded
    BY <1>1, <1>2, <1>4 DEF Knows, Waiting, Unloaded, Unknown
  <2> QED BY <1>1, <1>2, <1>3, <1>4, <2>1, GoesCalm
<1>5. \A step \in {"reserve", "return", "choose"} :
          LET e == Step(w, step) IN
          /\ e \in Worker /\ e.step = step /\ e.session = worker[w].session
          /\ e.writes = worker[w].writes /\ e.round = worker[w].round
          /\ e.thinked = worker[w].thinked /\ e.raised = worker[w].raised
          /\ e.begun = worker[w].begun /\ e.store = worker[w].store
  BY StepQuiet DEF Steps
<1>6. ASSUME NEW step \in {"reserve", "return"}, Goes(w, Step(w, step)) PROVE Calm'
  BY <1>4, <1>5, <1>6
<1>7. CASE Goes(w, [Step(w, "choose") EXCEPT !.answer = FALSE])
  <2> DEFINE e == Step(w, "choose")
             n == [e EXCEPT !.answer = FALSE]
  <2>1. /\ e \in Worker /\ e.step = "choose" /\ e.session = worker[w].session
        /\ e.writes = worker[w].writes /\ e.round = worker[w].round
        /\ e.thinked = worker[w].thinked /\ e.raised = worker[w].raised
        /\ e.begun = worker[w].begun /\ e.store = worker[w].store
    BY <1>5
  <2>2. Goes(w, n)
    BY <1>7
  <2> HIDE DEF e
  <2>3. /\ n \in Worker /\ n.step = "choose" /\ n.session = e.session
        /\ n.writes = e.writes /\ n.round = e.round /\ n.thinked = e.thinked
        /\ n.raised = e.raised /\ n.begun = e.begun /\ n.store = e.store
    BY <2>1 DEF Worker
  <2> HIDE DEF n
  <2> QED BY <1>4, <2>1, <2>2, <2>3
<1> QED BY <1>6, <1>7 DEF FindSelection

LEMMA CreateSelectionCalm ==
    ASSUME IInv, Calm, NEW w \in Workers, CreateSelection(w)
    PROVE  Calm'
<1> DEFINE e == Step(w, "return")
           x == [worker[w].writes EXCEPT !.selection = worker[w].transaction]
           n == [e EXCEPT !.writes = x]
           j == worker[w].session
           r == [Row(w) EXCEPT !.selections = @ + 1]
<1>1. worker[w].step = "reserve" /\ worker[w].step \notin Unloaded /\ UNCHANGED customers
  BY DEF CreateSelection, At, Unloaded, Unknown
<1>2. /\ worker[w] \in Worker /\ ~worker[w].raised /\ Knows(worker[w], current_state(w))
      /\ worker[w].round # 2 /\ worker[w].thinked = {}
      /\ j \in DOMAIN sessions /\ Row(w) = sessions[j] /\ Row(w) \in SessionRow
      /\ sessions \in Seq(SessionRow)
  BY <1>1, ReadyFor, FirstRound, Loaded DEF IInv, TypeOK
<1>3. /\ e \in Worker /\ e.step = "return" /\ e.session = worker[w].session
      /\ e.writes = worker[w].writes /\ e.round = worker[w].round
      /\ e.thinked = worker[w].thinked /\ e.raised = worker[w].raised
      /\ e.begun = worker[w].begun
  BY StepQuiet DEF Steps
<1> HIDE DEF e
<1>4. Goes(w, n)
  BY <1>3 DEF CreateSelection, e, Worker, Writes
<1>5. x \in Writes /\ x.transitions = worker[w].writes.transitions
  BY <1>2 DEF Worker, Writes
<1> HIDE DEF x
<1>6. /\ n \in Worker /\ n.step = e.step /\ n.session = e.session /\ n.writes = x
      /\ n.round = e.round /\ n.thinked = e.thinked /\ n.raised = e.raised
      /\ n.begun = e.begun
  BY <1>3, <1>5 DEF Worker
<1> HIDE DEF n
<1>7. Knows(n, current_state(w)) /\ n.step \notin Unloaded
  BY <1>1, <1>2, <1>3, <1>6 DEF Knows, Waiting, Unloaded, Unknown
<1>8. Alike
  <2>1. sessions' = sessions \/ sessions' = [sessions EXCEPT ![j] = r]
    BY <1>2 DEF CreateSelection
  <2>2. r.uuid = Row(w).uuid /\ r.transitions = Row(w).transitions
    BY <1>2 DEF SessionRow
  <2> HIDE DEF r, j
  <2> QED BY <1>2, <2>1, <2>2 DEF Alike
<1> QED BY <1>1, <1>2, <1>3, <1>4, <1>5, <1>6, <1>7, <1>8, GoesCalm

LEMMA FinishCalm ==
    ASSUME IInv, Calm, NEW w \in Workers, Finish(w)
    PROVE  Calm'
<1> DEFINE open == worker[w].transaction
           store == worker[w].store
           written == store # worker[w].saved
           b == worker[w].writes.meta \/ (written /\ open)
           t == Thinks(w, "finish", "return")
           x == [worker[w].writes EXCEPT !.is_finished = open, !.meta = b]
           n == [t EXCEPT !.saved = store, !.writes = x]
           j == worker[w].session
           r == [Row(w) EXCEPT !.is_finished = TRUE,
                               !.meta = IF written THEN store ELSE @]
<1>1. Thinking(w, "finish") /\ "finish" \in States
  BY Indices DEF Finish
<1>2. /\ worker[w].step \notin Unloaded /\ worker[w].round = 1 /\ worker[w].thinked = {}
      /\ ~worker[w].raised /\ worker[w] \in Worker
  BY <1>1, ThinkingOne
<1>3. j \in DOMAIN sessions /\ Row(w) = sessions[j] /\ ~Invalid(w) /\ Row(w) \in SessionRow
      /\ sessions \in Seq(SessionRow)
  BY <1>2, ReadyFor, Loaded DEF IInv, TypeOK
<1>4. /\ Goes(w, [t EXCEPT !.saved = store, !.writes.is_finished = open, !.writes.meta =
                     t.writes.meta \/ (written /\ open)])
      /\ sessions' = IF open THEN sessions
                     ELSE [sessions EXCEPT ![j].is_finished = TRUE,
                                           ![j].meta = IF written THEN store ELSE @]
      /\ UNCHANGED customers
  BY <1>3 DEF Finish
<1>5. /\ t \in Worker /\ t.step = "return" /\ t.session = worker[w].session
      /\ t.writes = worker[w].writes /\ t.round = worker[w].round
      /\ t.thinked = worker[w].thinked /\ t.raised = worker[w].raised
      /\ t.begun = worker[w].begun \cup {"finish"}
  BY <1>1, ThinksQuiet DEF Steps
<1> HIDE DEF t
<1>6. Goes(w, n)
  BY <1>4, <1>5 DEF Worker, Writes
<1>7. x \in Writes /\ x.transitions = worker[w].writes.transitions
  <2>1. open \in BOOLEAN /\ b \in BOOLEAN /\ worker[w].writes \in Writes
    <3>1. worker[w].writes.meta \in BOOLEAN /\ worker[w].transaction \in BOOLEAN
          /\ worker[w].writes \in Writes
      BY <1>2 DEF Worker, Writes
    <3> HIDE DEF written
    <3> QED BY <3>1
  <2> HIDE DEF open, b
  <2> QED BY <2>1 DEF Writes
<1>8. store \in Store
  BY <1>2 DEF Worker
<1>9. Alike
  <2>1. sessions' = sessions \/ sessions' = [sessions EXCEPT ![j] = r]
    BY <1>3, <1>4
  <2>2. r.uuid = Row(w).uuid /\ r.transitions = Row(w).transitions
    BY <1>3 DEF SessionRow
  <2> HIDE DEF r, j
  <2> QED BY <1>3, <2>1, <2>2 DEF Alike
<1> HIDE DEF x, store
<1>10. /\ n \in Worker /\ n.step = t.step /\ n.session = t.session /\ n.writes = x
       /\ n.round = t.round /\ n.thinked = t.thinked /\ n.raised = t.raised
       /\ n.begun = t.begun
  BY <1>5, <1>7, <1>8 DEF Worker
<1> HIDE DEF n
<1>11. n.step = "return" /\ "finish" # "initial_decoder"
       /\ n.session = worker[w].session /\ n.thinked = worker[w].thinked
       /\ n.begun = worker[w].begun \cup {"finish"} /\ n.round = worker[w].round
       /\ n.raised = worker[w].raised
       /\ n.writes.transitions = worker[w].writes.transitions
  BY <1>5, <1>7, <1>10
<1>12. current_state(w) = {"finish"}
  BY <1>1, ThinkingOne
<1>13. Knows(n, current_state(w)) /\ n.step \notin Unloaded /\ n.round # 2 /\ n.thinked = {}
  BY <1>2, <1>11, <1>12 DEF Knows, Waiting, Unloaded, Unknown
<1> QED BY <1>2, <1>4, <1>6, <1>9, <1>10, <1>11, <1>13, GoesCalm

-------------------------------------------------------------------------------
(* Transitions.                                                            *)

LEMMA NextStateCalm ==
    ASSUME IInv, Calm, NEW w \in Workers, NextState(w)
    PROVE  Calm'
<1>1. worker[w].step = "next" /\ worker[w].step \notin Unloaded
      /\ UNCHANGED <<customers, sessions>>
  BY DEF NextState, At, Unloaded, Unknown
<1>2. /\ worker[w] \in Worker /\ ~worker[w].raised /\ Knows(worker[w], current_state(w))
      /\ worker[w].round # 2 /\ worker[w].thinked = {}
      /\ current_state(w) \subseteq States /\ \A s, t \in current_state(w) : s = t
  BY <1>1, ReadyFor, FirstRound
<1>3. PICK s \in current_state(w) :
          Goes(w, [Step(w, "enter") EXCEPT !.to = next_state_by_priority(s)])
  BY DEF NextState
<1> DEFINE to == next_state_by_priority(s)
           e == Step(w, "enter")
           n == [e EXCEPT !.to = to]
<1>4. to \in States /\ to \in successors(s) /\ current_state(w) = {s}
  BY <1>1, <1>2, NextStates, Following DEF Knows
<1>5. /\ e \in Worker /\ e.step = "enter" /\ e.session = worker[w].session
      /\ e.writes = worker[w].writes /\ e.round = worker[w].round
      /\ e.thinked = worker[w].thinked /\ e.raised = worker[w].raised
      /\ e.begun = worker[w].begun /\ e.store = worker[w].store
  BY StepQuiet DEF Steps
<1>6. Goes(w, n)
  BY <1>3
<1> HIDE DEF e, to
<1>7. /\ n \in Worker /\ n.step = "enter" /\ n.session = e.session /\ n.writes = e.writes
      /\ n.round = e.round /\ n.thinked = e.thinked /\ n.raised = e.raised
      /\ n.begun = e.begun /\ n.store = e.store /\ n.to = to
  BY <1>4, <1>5 DEF Worker
<1> HIDE DEF n
<1>8. Knows(n, current_state(w)) /\ n.step \notin Unloaded
  BY <1>1, <1>2, <1>4, <1>5, <1>7 DEF Knows, Waiting, Unloaded, Unknown
<1>9. Alike
  BY <1>1 DEF Alike
<1> QED BY <1>1, <1>2, <1>5, <1>6, <1>7, <1>8, <1>9, GoesCalm

(* The number of a new transition is above those the request sees.         *)
LEMMA NewNumber ==
    ASSUME IInv, NEW w \in Workers, worker[w].step \notin Unloaded,
           Numbered(Visible(w)), NEW s \in current_state(w), NEW to
    PROVE  Numbered(Visible(w) \cup {[to |-> to, sort_key |-> next_sort_key(w)]})
<1> DEFINE row == [to |-> to, sort_key |-> next_sort_key(w)]
<1>1. \A t \in Visible(w) : t.sort_key \in Nat
  <2>1. Visible(w) \subseteq TransitionRow
    BY Mine, Loaded DEF Visible, SessionRow, Worker, Writes
  <2> QED BY <2>1 DEF TransitionRow
<1>2. \A t \in Visible(w) : t.sort_key # row.sort_key
  <2>1. CASE Visible(w) = {}
    BY <2>1
  <2>2. CASE Visible(w) # {}
    <3> DEFINE u == CHOOSE t \in Latest(Visible(w)) : TRUE
    <3>1. PICK t \in Latest(Visible(w)) : s = t.to
      BY <2>2 DEF current_state
    <3>2. u \in Latest(Visible(w))
      BY <3>1
    <3>3. next_sort_key(w) = 10 + u.sort_key
      BY <2>2 DEF next_sort_key
    <3> HIDE DEF u
    <3>4. u \in Visible(w) /\ \A v \in Visible(w) : v.sort_key <= u.sort_key
      BY <3>2 DEF Latest
    <3> QED BY <1>1, <3>3, <3>4
  <2> QED BY <2>1, <2>2
<1> HIDE DEF row
<1> QED BY <1>2 DEF Numbered, row

LEMMA TransitionToCalm ==
    ASSUME IInv, Calm, NEW w \in Workers, TransitionTo(w)
    PROVE  Calm'
<1>1. worker[w].step = "enter" /\ worker[w].step \notin Unloaded /\ worker[w].step # "idle"
  BY DEF TransitionTo, At, Unloaded, Unknown
<1>2. /\ worker[w] \in Worker /\ ~worker[w].raised /\ Knows(worker[w], current_state(w))
      /\ worker[w].round # 2 /\ worker[w].thinked = {}
      /\ worker[w].session \in DOMAIN sessions /\ Row(w) = sessions[worker[w].session]
      /\ Numbered(Visible(w))
  BY <1>1, ReadyFor, FirstRound
<1>3. \A s \in current_state(w) : worker[w].to \in successors(s) /\ Approved(w, s)
  BY <1>1, <1>2 DEF Knows, Approved
<1>4. PICK s \in current_state(w) :
          /\ Goes(w, [Step(w, "think") EXCEPT !.transaction = TRUE,
                  !.writes.transitions = @ \cup
                      {[to |-> worker[w].to, sort_key |-> next_sort_key(w)]}])
          /\ UNCHANGED <<customers, sessions>>
  BY <1>3 DEF TransitionTo
<1> DEFINE row == [to |-> worker[w].to, sort_key |-> next_sort_key(w)]
           x == [worker[w].writes EXCEPT !.transitions = @ \cup {row}]
           e == Step(w, "think")
           n == [e EXCEPT !.transaction = TRUE, !.writes = x]
<1>5. /\ e \in Worker /\ e.step = "think" /\ e.session = worker[w].session
      /\ e.writes = worker[w].writes /\ e.round = worker[w].round
      /\ e.thinked = worker[w].thinked /\ e.raised = worker[w].raised
  BY StepQuiet DEF Steps
<1>6. row \in TransitionRow
  <2>1. next_sort_key(w) \in Nat /\ worker[w].to \in States
    BY <1>1, <1>2, CurrentState DEF Worker
  <2> QED BY <2>1 DEF TransitionRow
<1>7. Numbered(Visible(w) \cup {row})
  BY <1>1, <1>2, NewNumber
<1> HIDE DEF e, row
<1>8. Goes(w, n)
  BY <1>4, <1>5 DEF e, row, Worker, Writes
<1>9. x \in Writes /\ x.transitions = worker[w].writes.transitions \cup {row}
  BY <1>2, <1>6 DEF Worker, Writes
<1> HIDE DEF x
<1>10. /\ n \in Worker /\ n.step = "think" /\ n.session = e.session /\ n.writes = x
       /\ n.round = e.round /\ n.thinked = e.thinked /\ n.raised = e.raised
  BY <1>5, <1>9 DEF Worker
<1> HIDE DEF n
<1>11. Seen(n, sessions'[n.session]) = Visible(w) \cup {row}
  BY <1>2, <1>4, <1>5, <1>9, <1>10 DEF Seen, Visible
<1>12. \A F : Knows(n, F)
  BY <1>2, <1>5, <1>10 DEF Knows, Waiting
<1>13. Peaceful(n, customers', sessions')
  BY <1>2, <1>5, <1>7, <1>10, <1>11, <1>12 DEF Peaceful, Unloaded, Unknown
<1>14. Settled'
  BY <1>4 DEF Calm, Settled
<1> QED BY <1>1, <1>8, <1>10, <1>13, <1>14, CalmStays

(* What is committed is what the request saw.                              *)
LEMMA ReturnCalm ==
    ASSUME IInv, Calm, NEW w \in Workers, Return(w)
    PROVE  Calm'
<1> DEFINE me == worker[w]
           new == me.writes
           j == me.session
           r == [Row(w) EXCEPT !.transitions = @ \cup new.transitions,
                               !.meta = IF new.meta THEN me.saved ELSE @,
                               !.is_finished = @ \/ new.is_finished,
                               !.selections = IF new.selection THEN @ + 1 ELSE @]
           to == IF me.round = 1 THEN "think" ELSE "render"
           n == [me EXCEPT !.step = to, !.round = 2, !.transaction = FALSE,
                           !.writes = NoWrites, !.thinked = @ \cup me.begun, !.begun = {}]
<1>1. me.step = "return" /\ me.step \notin Unloaded /\ me.step # "idle"
  BY DEF Return, At, Unloaded, Unknown
<1>2. /\ me \in Worker /\ ~me.raised /\ Knows(me, current_state(w))
      /\ me.round = 1 => me.thinked = {}
      /\ j \in DOMAIN sessions /\ Row(w) = sessions[j] /\ Row(w) \in SessionRow
      /\ Numbered(Visible(w)) /\ sessions \in Seq(SessionRow) /\ me.round \in 1..2
  BY <1>1, ReadyFor, Loaded DEF IInv, TypeOK, Worker
<1>3. customers \in Seq(CustomerRow)
  BY DEF IInv, TypeOK
<1>4. /\ Len(customers') = Len(customers) /\ Goes(w, n)
      /\ sessions' = [sessions EXCEPT ![j] = r]
  <2>1. /\ sessions' = [sessions EXCEPT
              ![j].transitions = @ \cup new.transitions,
              ![j].meta = IF new.meta THEN me.saved ELSE @,
              ![j].is_finished = @ \/ new.is_finished,
              ![j].selections = IF new.selection THEN @ + 1 ELSE @]
        /\ customers' = [customers EXCEPT ![me.customer].named = @ \/ new.named]
        /\ Goes(w, n)
    BY DEF Return
  <2>2. Len(customers') = Len(customers)
    <3> DEFINE q == [customers[me.customer] EXCEPT !.named = @ \/ new.named]
    <3>1. customers' = [customers EXCEPT ![me.customer] = q]
      BY <2>1
    <3> HIDE DEF q
    <3> QED BY <1>3, <3>1
  <2> HIDE DEF n
  <2> QED BY <1>2, <2>1, <2>2, ZenonT(30)
<1>5. r.uuid = Row(w).uuid /\ r.transitions = Visible(w)
  BY <1>2 DEF SessionRow, Visible
<1>6. /\ n \in Worker /\ n.step = to /\ n.session = j /\ n.writes = NoWrites
      /\ n.round = 2 /\ n.thinked = me.thinked \cup me.begun /\ n.raised = me.raised
      /\ n.view = me.view /\ ~n.transaction
  <2>1. to \in Steps
    BY DEF Steps
  <2>2. NoWrites \in Writes
    BY DEF NoWrites, Writes
  <2>3. me.thinked \cup me.begun \in SUBSET States
    BY <1>2 DEF Worker
  <2>4. {} \in SUBSET States /\ 2 \in 1..2 /\ FALSE \in BOOLEAN
    OBVIOUS
  <2> HIDE DEF to
  <2> QED BY <1>2, <2>1, <2>2, <2>3, <2>4 DEF Worker
<1>7. n.step \in {"think", "render"} /\ (n.step = "render" => me.round = 2)
  BY <1>2, <1>6
<1> HIDE DEF n, r, to
<1>8. /\ DOMAIN sessions' = DOMAIN sessions /\ sessions'[j] = r
      /\ \A k \in DOMAIN sessions \ {j} : sessions'[k] = sessions[k]
  BY <1>2, <1>4
<1>9. Seen(n, sessions'[n.session]) = Visible(w) /\ Found(Visible(w)) = current_state(w)
  BY <1>5, <1>6, <1>8 DEF Seen, NoWrites, Found, current_state
<1>10. Knows(n, current_state(w)) /\ n.step \notin Unloaded
  BY <1>1, <1>2, <1>6, <1>7 DEF Knows, Waiting, Unloaded, Unknown
<1>11. Peaceful(n, customers', sessions')
  BY <1>2, <1>6, <1>7, <1>9, <1>10 DEF Peaceful, Unloaded, Unknown
<1>12. Settled'
  <2>1. \A k \in DOMAIN sessions : sessions'[k].uuid = sessions[k].uuid
    BY <1>2, <1>5, <1>8
  <2>2. \A k \in DOMAIN sessions : Numbered(sessions'[k].transitions)
    BY <1>2, <1>5, <1>8 DEF Calm, Settled
  <2> QED BY <1>4, <1>8, <2>1, <2>2 DEF Calm, Settled
<1> QED BY <1>1, <1>4, <1>6, <1>11, <1>12, CalmStays


(* The rows grow older, or nothing happens.                                *)
LEMMA RestsCalm ==
    ASSUME IInv, Calm, UNCHANGED <<customers, worker>>, Alike
    PROVE  Calm'
<1>1. Settled'
  BY DEF Calm, Settled, Alike
<1>2. ASSUME NEW w \in Workers PROVE Peaceful(worker[w], customers, sessions')
  <2>1. Peaceful(worker[w], customers, sessions)
    BY DEF Calm
  <2>2. ASSUME worker[w].step \notin Unloaded
        PROVE  Seen(worker[w], sessions'[worker[w].session])
                   = Seen(worker[w], sessions[worker[w].session])
    BY <2>2, ReadyFor DEF Alike, Seen
  <2>3. ASSUME worker[w].step \in {"unique", "insert"}
        PROVE  \A j \in DOMAIN sessions' : sessions'[j].uuid # worker[w].uuid
    BY <2>1, <2>3 DEF Peaceful, Alike
  <2> QED BY <2>1, <2>2, <2>3 DEF Peaceful
<1>3. Busy' = Busy
  BY DEF Busy
<1> QED BY <1>1, <1>2, <1>3 DEF Calm

LEMMA ExpireCalm ==
    ASSUME IInv, Calm, Expire
    PROVE  Calm'
<1>1. PICK j \in DOMAIN sessions : sessions' = [sessions EXCEPT ![j].recent = FALSE]
  BY DEF Expire
<1> DEFINE r == [sessions[j] EXCEPT !.recent = FALSE]
<1>2. sessions \in Seq(SessionRow) /\ UNCHANGED <<customers, worker>>
  BY DEF IInv, TypeOK, Expire
<1>3. r.uuid = sessions[j].uuid /\ r.transitions = sessions[j].transitions
  BY <1>2 DEF SessionRow
<1>4. /\ DOMAIN sessions' = DOMAIN sessions /\ sessions'[j] = r
      /\ \A k \in DOMAIN sessions \ {j} : sessions'[k] = sessions[k]
  BY <1>1, <1>2
<1> HIDE DEF r
<1>5. Alike
  BY <1>3, <1>4 DEF Alike
<1> QED BY <1>2, <1>5, RestsCalm

-------------------------------------------------------------------------------
(* The invariant.                                                          *)

LEMMA InitCalm == Init => Calm
<1>1. SUFFICES ASSUME Init PROVE Calm
  OBVIOUS
<1>2. PICK s \in Starts : customers = s.customers /\ sessions = s.sessions
  BY <1>1 DEF Init
<1>3. /\ Len(customers) <= 1
      /\ sessions \in Seq(SessionRow) /\ Len(sessions) <= 1 /\ Len(sessions) \in Nat
      /\ \A j \in DOMAIN sessions : Numbered(sessions[j].transitions)
  BY <1>2, StartsAssumption DEF Numbered
<1>4. Settled
  <2>1. \A i, j \in DOMAIN sessions : i = j
    BY <1>3
  <2> QED BY <1>3, <2>1 DEF Settled
<1>5. \A w \in Workers : worker[w] = Idle
  BY <1>1 DEF Init
<1>6. Idle.step = "idle" /\ ~Idle.raised /\ Idle.round = 1 /\ Idle.thinked = {}
  BY DEF Idle
<1>7. \A w \in Workers : Peaceful(worker[w], customers, sessions)
  BY <1>5, <1>6 DEF Peaceful, Unloaded, Unknown
<1>8. Busy = {}
  BY <1>5, <1>6 DEF Busy
<1> QED BY <1>4, <1>7, <1>8 DEF Calm

LEMMA WorksCalm ==
    ASSUME IInv, Calm, NEW w \in Workers, Works(w) \/ Killed(w)
    PROVE  Calm'
<1>1. CASE \/ FindCustomer(w) \/ ValidateCustomer(w) \/ CreateCustomer(w)
           \/ LoadSession(w) \/ find_unique_uuid(w) \/ ValidateUuid(w) \/ CreateSession(w)
  BY <1>1, FindCustomerCalm, ValidateCustomerCalm, CreateCustomerCalm, LoadSessionCalm,
     FindUuidCalm, ValidateUuidCalm, CreateSessionCalm
<1>2. CASE \/ AlreadyThinked(w) \/ Handshake(w) \/ InitialDecoder(w)
           \/ CustomerRegistration(w) \/ UpdateCustomer(w) \/ AppointmentSelection(w)
  BY <1>2, AlreadyThinkedCalm, HandshakeCalm, InitialDecoderCalm,
     CustomerRegistrationCalm, UpdateCustomerCalm, AppointmentSelectionCalm
<1>3. CASE FindSelection(w) \/ CreateSelection(w) \/ Finish(w)
  BY <1>3, FindSelectionCalm, CreateSelectionCalm, FinishCalm
<1>4. CASE SaveDevice(w) \/ Shake(w) \/ Choose(w) \/ Advance(w) \/ Render(w)
  BY <1>4, SavingCalm
<1>5. CASE NextState(w) \/ TransitionTo(w) \/ Return(w)
  BY <1>5, NextStateCalm, TransitionToCalm, ReturnCalm
<1>6. CASE Answer(w) \/ Killed(w)
  BY <1>6, EndsCalm DEF Answer, Killed, At
<1> QED BY <1>1, <1>2, <1>3, <1>4, <1>5, <1>6 DEF Works

LEMMA StaysCalm == IInv /\ QInv /\ [Next]_vars => (IInv /\ QInv)'
<1>1. SUFFICES ASSUME IInv, QInv, [Next]_vars, ~overlapped' PROVE Calm'
  BY Inductive DEF QInv
<1>2. ASSUME NEW w \in Workers, NEW kind \in Kinds, NEW answer \in BOOLEAN,
             Request(w, kind, answer)
      PROVE  Calm'
  <2>1. Calm
    BY <1>1, <1>2 DEF Request, QInv
  <2> QED BY <1>1, <1>2, <2>1, RequestCalm
<1>3. ASSUME NEW w \in Workers, Works(w) \/ Killed(w), UNCHANGED <<taken, overlapped>>
      PROVE  Calm'
  BY <1>1, <1>3, WorksCalm DEF QInv
<1>4. CASE Expire
  <2>1. Calm
    BY <1>1, <1>4 DEF Expire, QInv
  <2> QED BY <1>1, <1>4, <2>1, ExpireCalm
<1>5. CASE UNCHANGED vars
  <2>1. Calm /\ UNCHANGED <<customers, sessions, worker>>
    BY <1>1, <1>5 DEF vars, QInv
  <2> QED BY <1>1, <2>1, RestsCalm DEF Alike
<1> QED BY <1>1, <1>2, <1>3, <1>4, <1>5 DEF Next

(* Until two requests overlap, the one there is finds one customer, numbers *)
(* of their own, and a state with nothing left to refuse or to leave unsaid. *)
THEOREM QuietInvariant == Spec => [](IInv /\ QInv)
<1>1. Init => IInv /\ QInv
  BY InitCalm, InitKept DEF QInv
<1> QED BY <1>1, StaysCalm, PTL DEF Spec

(* An exception nobody rescues (a customer or a number that is not unique,  *)
(* a transition that is not declared, a view that does not exist) ends a    *)
(* request only where two requests overlapped, with sessions that expire    *)
(* and workers killed at any step in between.                               *)
THEOREM RaisesByOverlapOnly == Spec => []RaisedByOverlap
<1>1. IInv /\ QInv => RaisedByOverlap
  BY DEF QInv, Calm, Peaceful, RaisedByOverlap
<1> QED BY QuietInvariant, <1>1, PTL
===============================================================================
