----------------------------- MODULE EngineProofs -----------------------------
(***************************************************************************)
(* Facts about the query engine's operators, for every calendar: the       *)
(* orders sorting may leave and the windows the loop makes of them, by     *)
(* induction; that a slot lies in its entry and a block in free time; that *)
(* a slot that is free meets no appointment of the day, but for one that   *)
(* outlasts the whole entry; and that no free slot of an entry that stands *)
(* alone is lost.                                                          *)
(***************************************************************************)
EXTENDS QueryEngine, FiniteSetTheorems, SequenceTheorems, TLAPS

(* Every set of naturals has a least element; hence induction over a set.   *)
LEMMA NatLeast ==
    ASSUME NEW T, T \subseteq Nat, T # {}
    PROVE  \E x \in T : \A y \in T : x <= y
<1>. DEFINE F == {1..n : n \in T}
<1>1. F \subseteq FiniteSubsetsOf(Nat)
  <2>1. \A n \in T : IsFiniteSet(1..n) /\ 1..n \in SUBSET Nat
    BY FS_Interval
  <2>. QED BY <2>1 DEF FiniteSubsetsOf
<1>2. F # {}
  OBVIOUS
<1>3. PICK X \in F : \A Y \in F : ~(<<Y, X>> \in StrictSubsetOrdering(Nat))
  <2>. HIDE DEF F
  <2>. QED
  BY <1>1, <1>2, WFMin, FS_StrictSubsetOrderingWellFounded
<1>4. PICK x \in T : X = 1..x
  OBVIOUS
<1>5. ASSUME NEW y \in T, y < x PROVE FALSE
  <2>1. <<1..y, 1..x>> \in StrictSubsetOrdering(Nat)
    <3>1. x \in 1..x /\ x \notin 1..y
      BY <1>5
    <3>2. 1..y \in SUBSET 1..x /\ 1..y # 1..x /\ 1..x \in SUBSET Nat /\ 1..y \in SUBSET Nat
      BY <1>5, <3>1
    <3>3. 1..y \in FiniteSubsetsOf(Nat) /\ 1..x \in FiniteSubsetsOf(Nat)
       BY <1>1
    <3>. QED BY <3>2, <3>3 DEF StrictSubsetOrdering
  <2>. QED BY <1>3, <1>4, <2>1
<1> QED BY <1>5

LEMMA SetInduction ==
    ASSUME NEW S, 0 \in S, \A n \in Nat : n \in S => n + 1 \in S
    PROVE Nat \subseteq S
<1>1. SUFFICES ASSUME Nat \ S # {} PROVE FALSE
  OBVIOUS
<1>2. PICK x \in Nat \ S : \A y \in Nat \ S : x <= y
  BY <1>1, NatLeast
<1>3. x - 1 \in Nat /\ x - 1 \in S /\ x = (x - 1) + 1
  BY <1>2
<1>. QED BY <1>2, <1>3

(* The recursive function Turns satisfies its own equation.                 *)
LEMMA TurnsDefined ==
    ASSUME NEW s, Len(s) \in Nat
    PROVE  Turns(s) = [k \in 0..Len(s) |->
               IF k = 0 THEN [windows |-> <<>>, start |-> Head(s).start,
                              end |-> Head(s).end, last |-> Head(s)]
               ELSE Combine(Turns(s)[k - 1], s[k])]
<1>. DEFINE Zero == [windows |-> <<>>, start |-> Head(s).start, end |-> Head(s).end, last |-> Head(s)]
            Turn(f, k) == IF k = 0 THEN Zero ELSE Combine(f[k - 1], s[k])
            Done(n) == \E f : f = [k \in 0..n |-> Turn(f, k)]
            D == {n \in Nat : Done(n)}
<1>. HIDE DEF Zero
<1>1. 0 \in D
  <2>1. [k \in 0..0 |-> Zero] = [k \in 0..0 |-> Turn([k2 \in 0..0 |-> Zero], k)]
    OBVIOUS
  <2>. QED BY <2>1
<1>2. ASSUME NEW n \in Nat, n \in D PROVE n + 1 \in D
  <2>1. PICK f : f = [k \in 0..n |-> Turn(f, k)]
    BY <1>2
  <2>. DEFINE g == [k \in 0..n + 1 |-> Turn(f, k)]
  <2>2. \A k \in 0..n : g[k] = f[k]
    BY <2>1
  <2>3. \A k \in 0..n + 1 : Turn(g, k) = Turn(f, k)
    <3>. TAKE k \in 0..n + 1
    <3>1. CASE k = 0
      BY <3>1
    <3>2. CASE k # 0
      <4>1. k - 1 \in 0..n
        BY <3>2
      <4>2. g[k - 1] = f[k - 1]
        BY <4>1, <2>2
      <4>. HIDE DEF g
      <4>. QED BY <4>2
    <3>. QED BY <3>1, <3>2
  <2>4. g = [k \in 0..n + 1 |-> Turn(g, k)]
    BY <2>3
  <2>. HIDE DEF g
  <2>. QED BY <2>4
<1>3. Done(Len(s))
  <2>. HIDE DEF Done
  <2>. QED BY <1>1, <1>2, SetInduction
<1>4. Turns(s) = CHOOSE f : f = [k \in 0..Len(s) |-> Turn(f, k)]
  BY DEF Turns, Zero
<1>. QED BY <1>3, <1>4 DEF Zero

-------------------------------------------------------------------------------
(* Orders of a set of slots.                                                *)

Firsts(T) == {x \in T : \A y \in T : x.start <= y.start}
OrdersFrom(f, T) ==
    IF T = {} THEN {<<>>}
    ELSE UNION {{<<s>> \o o : o \in f[T \ {s}]} : s \in Firsts(T)}
OrdersOf(slots) ==
    LET orders[T \in SUBSET slots] == OrdersFrom(orders, T) IN orders

LEMMA SortedOrders ==
    ASSUME NEW slots
    PROVE  Sorted(slots) = OrdersOf(slots)[slots]
BY DEF Sorted, OrdersOf, OrdersFrom, Firsts

LEMMA SameOrders ==
    ASSUME NEW T, NEW f, NEW g, \A s \in T : f[T \ {s}] = g[T \ {s}]
    PROVE  OrdersFrom(f, T) = OrdersFrom(g, T)
<1>1. \A s \in Firsts(T) : f[T \ {s}] = g[T \ {s}]
  BY DEF Firsts
<1>. QED
  BY <1>1 DEF OrdersFrom

LEMMA OrdersDefined ==
    ASSUME NEW slots, IsFiniteSet(slots)
    PROVE  OrdersOf(slots) = [T \in SUBSET slots |-> OrdersFrom(OrdersOf(slots), T)]
<1>. DEFINE Upto(n) == {T \in SUBSET slots : Cardinality(T) <= n}
            Done(n) == \E f : f = [T \in Upto(n) |-> OrdersFrom(f, T)]
            D == {n \in Nat : Done(n)}
<1>0. ASSUME NEW T \in SUBSET slots
      PROVE  /\ IsFiniteSet(T) /\ Cardinality(T) \in Nat
             /\ Cardinality(T) <= Cardinality(slots)
             /\ Cardinality(T) = 0 <=> T = {}
             /\ \A s \in T : Cardinality(T \ {s}) = Cardinality(T) - 1
  BY FS_Subset, FS_CardinalityType, FS_EmptySet, FS_RemoveElement
<1>1. 0 \in D
  <2>. DEFINE f == [T \in Upto(0) |-> {<<>>}]
  <2>1. \A T \in Upto(0) : OrdersFrom(f, T) = {<<>>}
    BY <1>0 DEF OrdersFrom
  <2>2. f = [T \in Upto(0) |-> OrdersFrom(f, T)]
    BY <2>1
  <2>. HIDE DEF f
  <2>. QED BY <2>2
<1>2. ASSUME NEW n \in Nat, n \in D PROVE n + 1 \in D
  <2>1. PICK f : f = [T \in Upto(n) |-> OrdersFrom(f, T)]
    BY <1>2
  <2>. DEFINE g == [T \in Upto(n + 1) |-> OrdersFrom(f, T)]
  <2>2. ASSUME NEW T \in Upto(n + 1), NEW s \in T
        PROVE  g[T \ {s}] = f[T \ {s}]
    <3>1. T \ {s} \in Upto(n) /\ T \ {s} \in Upto(n + 1)
      BY <1>0
    <3>. QED BY <2>1, <3>1
  <2>3. \A T \in Upto(n + 1) : OrdersFrom(g, T) = OrdersFrom(f, T)
    <3>. HIDE DEF g
    <3>. QED BY <2>2, SameOrders
  <2>4. g = [T \in Upto(n + 1) |-> OrdersFrom(g, T)]
    BY <2>3
  <2>. HIDE DEF g, Upto
  <2>. QED BY <2>4
<1>3. Cardinality(slots) \in Nat /\ Upto(Cardinality(slots)) = SUBSET slots
  BY <1>0, FS_CardinalityType
<1>4. Done(Cardinality(slots))
  <2>. HIDE DEF Done
  <2>. QED BY <1>1, <1>2, <1>3, SetInduction
<1>5. \E f : f = [T \in SUBSET slots |-> OrdersFrom(f, T)]
  BY <1>3, <1>4
<1>. QED
  BY <1>5 DEF OrdersOf

(* Sorted returns sequences of all the slots, none of which begins before  *)
(* an earlier one.                                                          *)
InOrder(o, T) ==
    /\ o \in Seq(T) /\ \A s \in T : \E k \in 1..Len(o) : o[k] = s
    /\ \A j, k \in 1..Len(o) : j <= k => o[j].start <= o[k].start

LEMMA SortedInOrder ==
    ASSUME NEW slots, IsFiniteSet(slots), \A s \in slots : s.start \in Int,
           NEW o \in Sorted(slots)
    PROVE  InOrder(o, slots)
<1>. DEFINE f == OrdersOf(slots)
            D == {n \in Nat : \A T \in SUBSET slots :
                      Cardinality(T) = n => \A x \in f[T] : InOrder(x, T)}
<1>1. \A T \in SUBSET slots : f[T] = OrdersFrom(f, T)
  BY OrdersDefined
<1>2. 0 \in D
  <2>. SUFFICES ASSUME NEW T \in SUBSET slots, Cardinality(T) = 0, NEW x \in f[T]
                PROVE  InOrder(x, T)
    OBVIOUS
  <2>1. T = {}
    BY FS_Subset, FS_EmptySet
  <2>2. x = <<>>
    BY <1>1, <2>1 DEF OrdersFrom
  <2>. QED BY <2>1, <2>2 DEF InOrder
<1>3. ASSUME NEW n \in Nat, n \in D PROVE n + 1 \in D
  <2>. SUFFICES ASSUME NEW T \in SUBSET slots, Cardinality(T) = n + 1, NEW x \in f[T]
                PROVE  InOrder(x, T)
    OBVIOUS
  <2>1. T # {} /\ IsFiniteSet(T)
    BY FS_Subset, FS_EmptySet
  <2>2. PICK s \in Firsts(T) : \E y \in f[T \ {s}] : x = <<s>> \o y
    <3>1. x \in OrdersFrom(f, T)
      BY <1>1
    <3>. HIDE DEF f
    <3>2. x \in UNION {{<<s>> \o y : y \in f[T \ {s}]} : s \in Firsts(T)}
      BY <2>1, <3>1 DEF OrdersFrom
    <3>. QED BY <3>2
  <2>3. PICK y \in f[T \ {s}] : x = <<s>> \o y
    BY <2>2
  <2>4. s \in T /\ \A z \in T : s.start <= z.start
    BY DEF Firsts
  <2>5. InOrder(y, T \ {s})
    <3>1. T \ {s} \in SUBSET slots /\ Cardinality(T \ {s}) = n
      <4>1. Cardinality(T \ {s}) = Cardinality(T) - 1
        BY <2>1, <2>4, FS_RemoveElement
      <4>. QED BY <4>1
    <3>. HIDE DEF f
    <3>. QED BY <1>3, <3>1
  <2>6. y \in Seq(T \ {s}) /\ Len(y) \in Nat
    BY <2>5 DEF InOrder
  <2>7. /\ x \in Seq(T) /\ Len(x) = Len(y) + 1 /\ x[1] = s
        /\ \A k \in 2..Len(x) : x[k] = y[k - 1] /\ y[k - 1] \in T
    <3>1. y \in Seq(T) /\ <<s>> \in Seq(T) /\ Len(<<s>>) = 1 /\ <<s>>[1] = s
      BY <2>4, <2>6
    <3>2. \A k \in 1..Len(y) : y[k] \in T
      BY <3>1, <2>6
    <3>3. /\ x \in Seq(T) /\ Len(x) = 1 + Len(y)
          /\ \A k \in 1..1 + Len(y) : x[k] = IF k <= 1 THEN <<s>>[k] ELSE y[k - 1]
      BY <2>3, <3>1, ConcatProperties
    <3>. QED BY <2>6, <3>1, <3>2, <3>3
  <2>8. ASSUME NEW z \in T PROVE \E k \in 1..Len(x) : x[k] = z
    <3>1. CASE z = s
      BY <2>6, <2>7, <3>1
    <3>2. CASE z # s
      <4>1. PICK k \in 1..Len(y) : y[k] = z
        BY <2>5, <3>2 DEF InOrder
      <4>2. k + 1 \in 2..Len(x) /\ (k + 1) - 1 = k /\ k + 1 \in 1..Len(x)
        BY <2>6, <2>7
      <4>3. x[k + 1] = z
        BY <4>1, <4>2, <2>7
      <4>. QED BY <4>2, <4>3
    <3>. QED BY <3>1, <3>2
  <2>9. ASSUME NEW j \in 1..Len(x), NEW k \in 1..Len(x), j <= k
        PROVE  x[j].start <= x[k].start
    <3>1. CASE j = 1
      <4>1. x[k] \in T
        BY <2>7, ElementOfSeq
      <4>. QED BY <2>4, <2>7, <3>1, <4>1
    <3>2. CASE j # 1
      <4>1. /\ j \in 2..Len(x) /\ k \in 2..Len(x)
            /\ j - 1 \in 1..Len(y) /\ k - 1 \in 1..Len(y) /\ j - 1 <= k - 1
        BY <2>6, <2>7, <2>9, <3>2
      <4>2. x[j] = y[j - 1] /\ x[k] = y[k - 1]
        BY <2>7, <4>1
      <4>. QED BY <2>5, <4>1, <4>2 DEF InOrder
    <3>. QED BY <3>1, <3>2
  <2>. QED BY <2>7, <2>8, <2>9 DEF InOrder
<1>4. Cardinality(slots) \in D
  <2>. HIDE DEF D
  <2>. QED BY <1>2, <1>3, SetInduction, FS_CardinalityType
<1>. QED
  BY <1>4, SortedOrders

-------------------------------------------------------------------------------
(* Windows.                                                                 *)

SlotsOK(slots) == \A s \in slots : s.start \in Int /\ s.end \in Int /\ s.start < s.end
Slotted(t, slots) == \E s \in slots : s.start <= t /\ t < s.end

(* A window begins and ends with slots, and has no other time in it.       *)
WindowsOf(slots) ==
    {w \in [start : {s.start : s \in slots}, end : {s.end : s \in slots},
            entry : {s.entry : s \in slots}] :
        w.start < w.end /\ \A t \in w.start..w.end - 1 : Slotted(t, slots)}

(* What is so of the loop after its turn k, of the window it is building.  *)
Held(acc, s, slots) ==
    /\ acc \in [windows : Seq(WindowsOf(slots)), start : {x.start : x \in slots},
               end : {x.end : x \in slots}, last : slots]
    /\ acc.end = s.end /\ acc.last = s /\ acc.start <= s.start
    /\ \A t \in acc.start..acc.end - 1 : Slotted(t, slots)

LEMMA OneMoreWindow ==
    ASSUME NEW slots, SlotsOK(slots), NEW acc, NEW s \in slots, NEW x \in slots,
           Held(acc, s, slots)
    PROVE  /\ Slot(acc.start, acc.end, x.entry) \in WindowsOf(slots)
           /\ Append(acc.windows, Slot(acc.start, acc.end, x.entry)) \in Seq(WindowsOf(slots))
<1>. DEFINE w == Slot(acc.start, acc.end, x.entry)
<1>1. /\ acc.start \in {y.start : y \in slots} /\ acc.end \in {y.end : y \in slots}
      /\ acc.start < acc.end
  BY DEF Held, SlotsOK
<1>2. w \in WindowsOf(slots)
  BY <1>1 DEF WindowsOf, Slot, Held
<1>. HIDE DEF w
<1>. QED
  BY <1>2, AppendProperties DEF Held, w

LEMMA Turn ==
    ASSUME NEW slots, SlotsOK(slots), NEW acc, NEW s \in slots, NEW x \in slots,
           Held(acc, s, slots), s.start <= x.start
    PROVE  Held(Combine(acc, x), x, slots)
<1>1. /\ s.start \in Int /\ s.end \in Int /\ x.start \in Int /\ x.end \in Int
      /\ s.start < s.end /\ x.start < x.end /\ acc.start \in Int
      /\ acc.end = s.end /\ acc.start <= s.start
  BY DEF SlotsOK, Held
<1>2. CASE x.start <= acc.end
  <2>. DEFINE c == [acc EXCEPT !.end = x.end, !.last = x]
  <2>1. Combine(acc, x) = c
    BY <1>2 DEF Combine
  <2>2. c.windows = acc.windows /\ c.end = x.end /\ c.last = x /\ c.start = acc.start
    BY DEF Held
  <2>3. ASSUME NEW t \in acc.start..x.end - 1 PROVE Slotted(t, slots)
    <3>1. CASE x.start <= t
      BY <1>1, <3>1 DEF Slotted
    <3>2. CASE t < x.start
      BY <1>1, <1>2, <3>2 DEF Held
    <3>. QED BY <1>1, <3>1, <3>2
  <2>4. c \in [windows : Seq(WindowsOf(slots)), start : {y.start : y \in slots},
                 end : {y.end : y \in slots}, last : slots]
    BY DEF Held
  <2>. HIDE DEF c
  <2>. QED
    BY <1>1, <2>1, <2>2, <2>3, <2>4 DEF Held
<1>3. CASE ~(x.start <= acc.end)
  <2>. DEFINE c == [windows |-> Append(acc.windows, Slot(acc.start, acc.end, x.entry)),
                    start |-> x.start, end |-> x.end, last |-> x]
  <2>1. Combine(acc, x) = c
    BY <1>3 DEF Combine
  <2>2. c.windows \in Seq(WindowsOf(slots))
    BY OneMoreWindow
  <2>3. \A t \in x.start..x.end - 1 : Slotted(t, slots)
    BY <1>1 DEF Slotted
  <2>. QED
    BY <1>1, <2>1, <2>2, <2>3 DEF Held
<1>. QED
  BY <1>2, <1>3

LEMMA TurnsBuild ==
    ASSUME NEW slots, IsFiniteSet(slots), SlotsOK(slots), NEW o \in Sorted(slots), o # <<>>
    PROVE  \A k \in 1..Len(o) : Held(Turns(o)[k], o[k], slots)
<1>. DEFINE acc == Turns(o)
            P(k) == k + 1 <= Len(o) => Held(acc[k + 1], o[k + 1], slots)
            D == {k \in Nat : P(k)}
<1>0. InOrder(o, slots)
  BY SortedInOrder DEF SlotsOK
<1>1. /\ o \in Seq(slots) /\ Len(o) \in Nat \ {0} /\ o[1] \in slots /\ Head(o) = o[1]
      /\ \A k \in 1..Len(o) : o[k] \in slots
  BY <1>0, EmptySeq, ElementOfSeq DEF InOrder
<1>2. acc[0] = [windows |-> <<>>, start |-> o[1].start, end |-> o[1].end, last |-> o[1]]
  BY <1>1, TurnsDefined
<1>3. \A k \in 1..Len(o) : acc[k] = Combine(acc[k - 1], o[k])
  BY <1>1, TurnsDefined
<1>4. Held(acc[0], o[1], slots)
  <2>1. <<>> \in Seq(WindowsOf(slots))
    OBVIOUS
  <2>2. /\ o[1].start \in {x.start : x \in slots} /\ o[1].end \in {x.end : x \in slots}
        /\ o[1].start \in Int /\ o[1].end \in Int
    BY <1>1 DEF SlotsOK
  <2>3. \A t \in o[1].start..o[1].end - 1 : Slotted(t, slots)
    BY <1>1, <2>2 DEF Slotted
  <2>. HIDE DEF acc
  <2>. QED
    BY <1>1, <1>2, <2>1, <2>2, <2>3 DEF Held
<1>5. 0 \in D
  <2>1. acc[1] = Combine(acc[0], o[1])
    BY <1>1, <1>3
  <2>2. Held(acc[1], o[1], slots)
    <3>. HIDE DEF acc
    <3>1. o[1].start <= o[1].start
      BY <1>1 DEF SlotsOK
    <3>. QED BY <1>1, <1>4, <2>1, <3>1, Turn
  <2>. QED BY <2>2
<1>6. ASSUME NEW k \in Nat, k \in D PROVE k + 1 \in D
  <2>. HIDE DEF acc
  <2>. SUFFICES ASSUME k + 2 <= Len(o) PROVE Held(acc[k + 2], o[k + 2], slots)
    OBVIOUS
  <2>1. /\ k + 1 \in 1..Len(o) /\ k + 2 \in 1..Len(o) /\ (k + 2) - 1 = k + 1
        /\ k + 1 <= k + 2
    BY <1>1
  <2>2. acc[k + 2] = Combine(acc[k + 1], o[k + 2])
    BY <1>3, <2>1
  <2>3. o[k + 1].start <= o[k + 2].start /\ o[k + 1] \in slots /\ o[k + 2] \in slots
    BY <1>0, <1>1, <2>1 DEF InOrder
  <2>4. Held(acc[k + 1], o[k + 1], slots)
    BY <1>6, <2>1
  <2>. QED BY <2>2, <2>3, <2>4, Turn
<1>7. Nat \subseteq D
  <2>. HIDE DEF D
  <2>. QED BY <1>5, <1>6, SetInduction
<1>. SUFFICES ASSUME NEW k \in 1..Len(o) PROVE Held(acc[k], o[k], slots)
  OBVIOUS
<1>8. k - 1 \in Nat /\ (k - 1) + 1 = k
  OBVIOUS
<1>9. P(k - 1)
  BY <1>7, <1>8
<1>. HIDE DEF acc
<1>. QED BY <1>8, <1>9

(* Each window the loop returns is one of these.                            *)
THEOREM CombinedWindows ==
    ASSUME NEW slots, IsFiniteSet(slots), SlotsOK(slots), NEW o \in Sorted(slots),
           NEW w \in ToSet(combine_linear_slots(o))
    PROVE  w \in WindowsOf(slots)
<1>1. CASE o = <<>>
  <2>1. combine_linear_slots(o) = <<>>
    BY <1>1 DEF combine_linear_slots
  <2>. QED BY <2>1 DEF ToSet
<1>2. CASE o # <<>>
  <2>. DEFINE acc == Turns(o)[Len(o)]
  <2>1. o \in Seq(slots)
    BY SortedInOrder DEF InOrder, SlotsOK
  <2>2. Len(o) \in 1..Len(o) /\ o[Len(o)] \in slots
    BY <1>2, <2>1, EmptySeq, ElementOfSeq
  <2>3. Held(acc, o[Len(o)], slots)
    BY <1>2, <2>2, TurnsBuild
  <2>4. combine_linear_slots(o) = Append(acc.windows, Slot(acc.start, acc.end, acc.last.entry))
    BY <1>2 DEF combine_linear_slots
  <2>5. acc.last = o[Len(o)]
    BY <2>3 DEF Held
  <2>. HIDE DEF acc
  <2>6. combine_linear_slots(o) \in Seq(WindowsOf(slots))
    BY <2>2, <2>3, <2>4, <2>5, OneMoreWindow
  <2>. QED
    BY <2>6, ElementOfSeq, LenProperties DEF ToSet
<1>. QED
  BY <1>1, <1>2

-------------------------------------------------------------------------------
LEMMA Multiply ==
    ASSUME NEW a \in Int, NEW b \in Int, NEW c \in Nat, a <= b
    PROVE  a * c <= b * c
  OBVIOUS

LEMMA Divide ==
    ASSUME NEW n \in Int, NEW d \in Nat \ {0}
    PROVE  n \div d \in Int /\ (n \div d) * d <= n
  OBVIOUS

(* The i-th of the pieces of length d that fit into n ends before n does.   *)
LEMMA PieceFits ==
    ASSUME NEW n \in Int, NEW d \in Nat \ {0}, NEW i \in 0..(n \div d) - 1
    PROVE  /\ i * d \in Nat /\ (i + 1) * d \in Nat /\ (i + 1) * d = i * d + d
           /\ i * d < (i + 1) * d /\ (i + 1) * d <= n
  <1>1. n \div d \in Int /\ (n \div d) * d <= n
    BY Divide
  <1>2. i \in Nat /\ i + 1 \in Int /\ i + 1 <= n \div d
    BY <1>1
  <1>3. (i + 1) * d <= (n \div d) * d
    BY <1>1, <1>2, Multiply
  <1>4. (i + 1) * d = i * d + d /\ i * d \in Nat
    BY <1>2
  <1>5. (n \div d) * d \in Int
    BY <1>1
  <1>. QED
    BY <1>1, <1>3, <1>4, <1>5

(* time_slots_for cuts an entry up and adds the rest: each slot is a part   *)
(* of the entry, and an entry that ends before it begins has none.          *)
THEOREM SlotsInEntry ==
    ASSUME NEW entry, NEW size \in Nat \ {0}, NEW today \in Nat,
           entry.start \in Nat, entry.end \in Nat,
           NEW s \in time_slots_for(entry, size, today)
    PROVE  LET r == Placed(entry, today) IN
           /\ s.start \in Int /\ s.end \in Int /\ s.start < s.end /\ s.entry = entry
           /\ r.start <= s.start /\ s.end <= r.end
  <1>. DEFINE r == Placed(entry, today)
              n == r.end - r.start
              count == Later(0, n \div size)
              time == r.start + count * size
  <1>1. Day \in Nat /\ today * Day \in Nat
    BY HourAssumption DEF Day
  <1>2. r.start \in Int /\ r.end \in Int
    BY <1>1 DEF Placed, Span, At
  <1>3. count \in Nat /\ count * size \in Nat
    BY <1>2, Divide DEF Later
  <1>4. CASE \E i \in 0..count - 1 :
                 s = Slot(r.start + i * size, r.start + (i + 1) * size, entry)
    <2>1. PICK i \in 0..count - 1 :
                 s = Slot(r.start + i * size, r.start + (i + 1) * size, entry)
      BY <1>4
    <2>2. i \in 0..(n \div size) - 1
      BY <1>2, Divide DEF Later
    <2>3. /\ i * size \in Nat /\ (i + 1) * size \in Nat
          /\ i * size < (i + 1) * size /\ (i + 1) * size <= n
      BY <1>2, <2>2, PieceFits
    <2>. QED
      BY <2>1, <2>3, <1>2 DEF Slot
  <1>5. CASE s = Slot(time, r.end, entry) /\ time < r.end
    BY <1>2, <1>3, <1>5 DEF Slot
  <1>. QED
    BY <1>4, <1>5 DEF time_slots_for

(* generate_time_blocks cuts a window into blocks of the service's length:  *)
(* none of them runs past the window's length.                              *)
THEOREM BlocksInWindow ==
    ASSUME NEW window, NEW choice, NEW day \in Nat,
           window.start \in Nat, window.end \in Nat,
           choice.duration \in Nat \ {0},
           NEW b \in generate_time_blocks(window, choice, day)
    PROVE  /\ At(day, window.start % Day) <= b.start
           /\ b.end = b.start + choice.duration
           /\ b.end <= At(day, window.start % Day) + (window.end - window.start)
  <1>. DEFINE base == At(day, window.start % Day)
              n == window.end - window.start
              d == choice.duration
  <1>1. Day \in Nat \ {0} /\ day * Day \in Nat
    BY HourAssumption DEF Day
  <1>2. base \in Int
    BY <1>1 DEF At
  <1>3. PICK i \in 0..(n \div d) - 1 : b.start = base + i * d /\ b.end = base + (i + 1) * d
    BY DEF generate_time_blocks
  <1>4. /\ i * d \in Nat /\ (i + 1) * d \in Nat /\ (i + 1) * d <= n
        /\ (i + 1) * d = i * d + d
    <2>1. n \in Int /\ d \in Nat \ {0} /\ i \in 0..(n \div d) - 1
      OBVIOUS
    <2>. HIDE DEF n, d
    <2>. QED
      BY <2>1, PieceFits
  <1>. QED
    BY <1>2, <1>3, <1>4

(* AppointmentDetector finds every appointment of the day that meets the    *)
(* entry, unless the appointment begins before the entry and ends after it. *)
THEOREM DetectorFinds ==
    ASSUME NEW entry, NEW choice, NEW appointments, NEW today \in Nat,
           entry.start \in Nat, entry.end \in Nat, entry.start <= entry.end,
           NEW a \in appointments, Blocks(a, choice),
           a.start \in Int, a.end \in Int, a.start <= a.end,
           Within(a.start, Span(Midnight(today - 1), Midnight(today + 1))),
           Overlap(a, Placed(entry, today)),
           ~Covers(a, Placed(entry, today))
    PROVE  a \in AppointmentDetector(entry, choice, appointments, today)
  <1>. DEFINE r == Placed(entry, today)
              x == Span(Later(a.start, r.start), Earlier(a.end, r.end))
  <1>1. Day \in Nat /\ today * Day \in Nat
    BY HourAssumption DEF Day
  <1>2. r.start \in Int /\ r.end \in Int /\ r.start <= r.end
    BY <1>1 DEF Placed, Span, At
  <1>3. x \in Intersections(a, r)
    <2>1. x.start = Later(a.start, r.start) /\ x.end = Earlier(a.end, r.end)
      BY DEF Span
    <2>2. x.start <= x.end
      BY <2>1, <1>2 DEF Later, Earlier, Overlap
    <2>. QED
      BY <2>2 DEF Intersections
  <1>4. Within(a.start, x) \/ Within(a.end, x)
    BY <1>2 DEF Within, Span, Later, Earlier, Overlap, Covers
  <1>. QED
    BY <1>3, <1>4 DEF AppointmentDetector

(* A slot that extract_available_slots lets through meets no appointment    *)
(* of the day, unless the appointment outlasts the slot's entry.            *)
THEOREM FreeSlotsMeetNothing ==
    ASSUME NEW entry, NEW choice, NEW biz, NEW appointments, NEW today \in Nat,
           entry.start \in Nat, entry.end \in Nat, choice.duration \in Nat \ {0},
           NEW s \in extract_available_slots(entry, choice, biz, appointments, today),
           NEW a \in appointments, Blocks(a, choice),
           a.start \in Int, a.end \in Int, a.start <= a.end,
           Within(a.start, Span(Midnight(today - 1), Midnight(today + 1))),
           Overlap(s, a)
    PROVE  Covers(a, Placed(entry, today))
  <1>. DEFINE r == Placed(entry, today)
  <1>1. /\ s \in time_slots_for(entry, choice.duration, today)
        /\ \A c \in Collisions(entry, choice, biz, appointments, today) : ~Overlap(s, c)
    BY DEF extract_available_slots
  <1>2. /\ s.start \in Int /\ s.end \in Int
        /\ r.start <= s.start /\ s.end <= r.end
    BY <1>1, SlotsInEntry
  <1>3. Day \in Nat /\ today * Day \in Nat
    BY HourAssumption DEF Day
  <1>4. r.start \in Int /\ r.end \in Int
    BY <1>3 DEF Placed, Span, At
  <1>5. Overlap(a, r) /\ entry.start <= entry.end
    BY <1>1, <1>2, <1>3, <1>4, SlotsInEntry DEF Overlap, Placed, Span, At
  <1>6. SUFFICES ASSUME ~Covers(a, r) PROVE FALSE
    OBVIOUS
  <1>7. a \in AppointmentDetector(entry, choice, appointments, today)
    BY <1>5, <1>6, DetectorFinds
  <1>8. Span(a.start, a.end) \in Collisions(entry, choice, biz, appointments, today)
    BY <1>7 DEF Collisions
  <1>9. ~Overlap(s, Span(a.start, a.end))
    BY <1>1, <1>8
  <1>. QED
    BY <1>9 DEF Overlap, Span

-------------------------------------------------------------------------------
(* Days, slots and blocks.                                                  *)

LEMMA DayPositive == Day \in Nat \ {0} /\ Day = 24 * Hour
  BY HourAssumption DEF Day

(* Division by a day is what it seems to be.                                *)
LEMMA Quotient ==
    ASSUME NEW D \in Nat \ {0}, NEW q \in Int, NEW x \in 0..D - 1
    PROVE  (q * D + x) % D = x /\ (q * D + x) \div D = q
<1>. DEFINE y == q * D + x
            k == y \div D
            r == y % D
<1>1. q * D \in Int /\ y \in Int
  OBVIOUS
<1>2. k \in Int /\ r \in 0..D - 1 /\ y = D * k + r
  <2>. HIDE DEF y
  <2>. QED BY <1>1
<1>3. ASSUME q < k PROVE FALSE
  <2>1. (q + 1) * D <= k * D
    BY <1>2, <1>3, Multiply
  <2>. QED BY <1>2, <2>1
<1>4. ASSUME k < q PROVE FALSE
  <2>1. (k + 1) * D <= q * D
    BY <1>2, <1>4, Multiply
  <2>. QED BY <1>2, <2>1
<1>5. k = q
  BY <1>2, <1>3, <1>4
<1>6. r = x
  BY <1>1, <1>2, <1>5
<1>. QED BY <1>5, <1>6

LEMMA DayQuotient ==
    ASSUME NEW q \in Int, NEW x \in 0..Day - 1
    PROVE  (q * Day + x) % Day = x /\ (q * Day + x) \div Day = q
<1>. DEFINE D == Day
<1>1. D \in Nat \ {0} /\ x \in 0..D - 1
  BY DayPositive
<1>. HIDE DEF D
<1>2. (q * D + x) % D = x /\ (q * D + x) \div D = q
  BY <1>1, Quotient
<1>. QED BY <1>2 DEF D

LEMMA ImageFinite ==
    ASSUME NEW S, IsFiniteSet(S), NEW f
    PROVE  IsFiniteSet({f[x] : x \in S})
<1>. DEFINE T == {f[x] : x \in S}
            g == [x \in S |-> f[x]]
<1>1. g \in Surjection(S, T)
  BY DEF Surjection
<1>2. IsFiniteSet(T)
  <2>. HIDE DEF g, T
  <2>. QED BY <1>1, FS_Surjection
<1>. QED BY <1>2

LEMMA SlotsFinite ==
    ASSUME NEW e, e.start \in Nat, e.end \in Nat, NEW size \in Nat \ {0}, NEW today \in Nat
    PROVE  IsFiniteSet(time_slots_for(e, size, today))
<1>. DEFINE r == Placed(e, today)
            count == Later(0, (r.end - r.start) \div size)
            time == r.start + count * size
            f == [i \in Int |-> Slot(r.start + i * size, r.start + (i + 1) * size, e)]
            A == {f[i] : i \in 0..count - 1}
            B == {s \in {Slot(time, r.end, e)} : time < r.end}
<1>1. time_slots_for(e, size, today) = A \cup B
  <2>1. A = {Slot(r.start + i * size, r.start + (i + 1) * size, e) : i \in 0..count - 1}
    OBVIOUS
  <2>. QED BY <2>1 DEF time_slots_for
<1>2. count \in Int
  <2>1. r.start \in Int /\ r.end \in Int
    BY DayPositive DEF Placed, Span, At
  <2>. QED BY <2>1, Divide DEF Later
<1>3. IsFiniteSet(A)
  <2>1. IsFiniteSet(0..count - 1)
    BY <1>2, FS_Interval
  <2>. HIDE DEF f, count
  <2>. QED BY <2>1, ImageFinite
<1>4. IsFiniteSet(B)
  <2>. DEFINE rest == Slot(time, r.end, e)
  <2>1. IsFiniteSet({rest}) /\ B \subseteq {rest}
    BY FS_Singleton
  <2>. HIDE DEF B, rest
  <2>. QED BY <2>1, FS_Subset
<1>. HIDE DEF A, B
<1>. QED BY <1>1, <1>3, <1>4, FS_Union

(* Slots of an entry begin one after another, and each lasts as long as the *)
(* service or up to the entry's end.                                        *)
Starts(e, size, today) == {Placed(e, today).start + j * size : j \in Nat}
LEMMA SlotShape ==
    ASSUME NEW e, e.start \in Nat, e.end \in Nat, NEW size \in Nat \ {0}, NEW today \in Nat,
           NEW s \in time_slots_for(e, size, today)
    PROVE  /\ s.start \in Starts(e, size, today)
           /\ s.end = Earlier(s.start + size, Placed(e, today).end)
<1>. DEFINE r == Placed(e, today)
            n == r.end - r.start
            count == Later(0, n \div size)
            time == r.start + count * size
<1>1. r.start \in Int /\ r.end \in Int
  BY DayPositive DEF Placed, Span, At
<1>2. count \in Nat /\ count * size \in Nat
  BY <1>1, Divide DEF Later
<1>3. CASE \E i \in 0..count - 1 : s = Slot(r.start + i * size, r.start + (i + 1) * size, e)
  <2>1. PICK i \in 0..count - 1 : s = Slot(r.start + i * size, r.start + (i + 1) * size, e)
    BY <1>3
  <2>2. i \in 0..(n \div size) - 1 /\ i \in Nat
    BY <1>1, <1>2, Divide DEF Later
  <2>3. (i + 1) * size = i * size + size /\ (i + 1) * size <= n /\ i * size \in Nat
    BY <1>1, <2>2, PieceFits
  <2>4. s.start = r.start + i * size /\ s.end = r.start + i * size + size
    BY <1>1, <2>1, <2>3 DEF Slot
  <2>5. s.start \in Starts(e, size, today)
    BY <2>2, <2>4 DEF Starts
  <2>. HIDE DEF r
  <2>6. s.end = Earlier(s.start + size, r.end)
    BY <1>1, <2>3, <2>4 DEF Earlier
  <2>. QED BY <2>5, <2>6 DEF r
<1>4. CASE s = Slot(time, r.end, e) /\ time < r.end
  <2>1. s.start = time /\ s.end = r.end
    BY <1>4 DEF Slot
  <2>2. s.start \in Starts(e, size, today)
    BY <1>2, <2>1 DEF Starts
  <2>3. r.end <= time + size
    <3>0. n \in Nat
      BY <1>1, <1>2, <1>4
    <3>1. n \div size \in Nat /\ count = n \div size
      <4>1. n \div size \in Nat
        <5>. HIDE DEF n
        <5>. QED BY <3>0
      <4>. QED BY <4>1 DEF Later
    <3>2. n = size * (n \div size) + (n % size) /\ n % size < size
      <4>. HIDE DEF n
      <4>. QED BY <3>0
    <3>3. n < count * size + size
      <4>1. n % size \in Int
        <5>. HIDE DEF n
        <5>. QED BY <3>0
      <4>. HIDE DEF n
      <4>. QED BY <3>0, <3>1, <3>2, <4>1
    <3>. QED BY <1>1, <1>2, <3>3
  <2>. HIDE DEF r, time
  <2>4. s.end = Earlier(s.start + size, r.end)
    <3>1. time \in Int
      BY <1>1, <1>2 DEF time
    <3>. QED BY <1>1, <2>1, <2>3, <3>1 DEF Earlier
  <2>. QED BY <2>2, <2>4 DEF r
<1>. QED BY <1>3, <1>4 DEF time_slots_for

(* What the query engine is asked, and with what.                           *)
Asked(choice, biz, today, day) ==
    /\ choice \in Choice /\ today \in Nat /\ day \in Nat
    /\ biz.entries \subseteq TimeEntry /\ IsFiniteSet(biz.entries)

LEMMA EntryTimes ==
    ASSUME NEW e \in TimeEntry, NEW today \in Nat
    PROVE  /\ e.start \in Nat /\ e.end \in Nat
           /\ Placed(e, today).start = today * Day + e.start
           /\ Placed(e, today).end = today * Day + e.end
           /\ today * Day \in Nat
           /\ e.start <= Day /\ e.end <= Day
  BY DayPositive DEF TimeEntry, Times, Placed, Span, At

LEMMA AllSlots ==
    ASSUME NEW choice, NEW biz, NEW appointments, NEW today, NEW day,
           Asked(choice, biz, today, day)
    PROVE  LET T == generate_time_slots(choice, biz, appointments, today, day) IN
           /\ IsFiniteSet(T) /\ SlotsOK(T)
           /\ \A s \in T :
                  /\ s.entry \in time_entries_for(biz.entries, choice, day)
                  /\ s.entry \in TimeEntry
                  /\ s \in extract_available_slots(s.entry, choice, biz, appointments, today)
                  /\ s \in time_slots_for(s.entry, choice.duration, today)
                  /\ today * Day + s.entry.start <= s.start
                  /\ s.end <= today * Day + s.entry.end
<1>. DEFINE E == time_entries_for(biz.entries, choice, day)
            free(e) == extract_available_slots(e, choice, biz, appointments, today)
            f == [e \in E |-> free(e)]
            T == generate_time_slots(choice, biz, appointments, today, day)
<1>0. /\ choice.duration \in Nat \ {0} /\ today \in Nat
      /\ E \subseteq biz.entries /\ E \subseteq TimeEntry /\ IsFiniteSet(E)
  BY FS_Subset DEF Asked, Choice, time_entries_for
<1>1. \A e \in E : free(e) \subseteq time_slots_for(e, choice.duration, today)
  BY DEF extract_available_slots
<1>2. \A e \in E : IsFiniteSet(free(e))
  <2>. TAKE e \in E
  <2>1. IsFiniteSet(time_slots_for(e, choice.duration, today))
    BY <1>0, EntryTimes, SlotsFinite
  <2>. QED BY <1>1, <2>1, FS_Subset
<1>3. T = UNION {f[e] : e \in E}
  BY DEF generate_time_slots
<1>4. IsFiniteSet(T)
  <2>1. \A X \in {f[e] : e \in E} : IsFiniteSet(X)
    BY <1>2
  <2>2. IsFiniteSet({f[e] : e \in E})
    <3>. HIDE DEF E, f
    <3>. QED BY <1>0, ImageFinite
  <2>. HIDE DEF T, f
  <2>. QED BY <1>3, <2>1, <2>2, FS_UNION
<1>5. ASSUME NEW s \in T
      PROVE  /\ s.start \in Int /\ s.end \in Int /\ s.start < s.end
             /\ s.entry \in E /\ s.entry \in TimeEntry /\ s \in free(s.entry)
             /\ s \in time_slots_for(s.entry, choice.duration, today)
             /\ today * Day + s.entry.start <= s.start
             /\ s.end <= today * Day + s.entry.end
  <2>1. PICK e \in E : s \in free(e)
    BY <1>3
  <2>2. s \in time_slots_for(e, choice.duration, today) /\ e \in TimeEntry
    BY <1>0, <1>1, <2>1
  <2>3. /\ s.start \in Int /\ s.end \in Int /\ s.start < s.end /\ s.entry = e
        /\ Placed(e, today).start <= s.start /\ s.end <= Placed(e, today).end
    BY <1>0, <2>2, EntryTimes, SlotsInEntry
  <2>. HIDE DEF free, T, E
  <2>. QED BY <1>0, <2>1, <2>2, <2>3, EntryTimes
<1>. QED BY <1>4, <1>5 DEF SlotsOK

(* A block offered is a window's, hours of the day asked for, the day's     *)
(* free slots moved there.                                                  *)
LEMMA BlockShape ==
    ASSUME NEW choice, NEW biz, NEW appointments, NEW today, NEW day,
           Asked(choice, biz, today, day),
           NEW blocks \in available_on(choice, biz, appointments, today, day),
           NEW b \in blocks
    PROVE  LET T == generate_time_slots(choice, biz, appointments, today, day)
               moved == (day - today) * Day
           IN  /\ b.start \in Nat /\ b.end = b.start + choice.duration
               /\ day * Day <= b.start /\ b.end <= day * Day + Day
               /\ moved \in Int
               /\ \A t \in b.start..b.end - 1 : Slotted(t - moved, T)
               /\ b.entry \in TimeEntry /\ Concerns(b.entry, choice)
               /\ b.provider = service_provider(b.entry, choice)
               /\ b \in [start : Int, end : Int, entry : TimeEntry,
                         provider : {service_provider(b.entry, choice)}]
<1>. DEFINE T == generate_time_slots(choice, biz, appointments, today, day)
            moved == (day - today) * Day
            d == choice.duration
<1>0. /\ IsFiniteSet(T) /\ SlotsOK(T)
      /\ \A s \in T : /\ s.entry \in TimeEntry /\ Concerns(s.entry, choice)
                      /\ today * Day <= s.start /\ s.end <= today * Day + Day
  <2>1. IsFiniteSet(T) /\ SlotsOK(T)
    BY AllSlots
  <2>2. ASSUME NEW s \in T
        PROVE  /\ s.entry \in TimeEntry /\ Concerns(s.entry, choice)
               /\ today * Day <= s.start /\ s.end <= today * Day + Day
    <3>1. /\ s.entry \in TimeEntry /\ today * Day + s.entry.start <= s.start
          /\ s.end <= today * Day + s.entry.end
          /\ s.entry \in time_entries_for(biz.entries, choice, day)
      BY AllSlots
    <3>2. s.start \in Int /\ s.end \in Int
      BY <2>1 DEF SlotsOK
    <3>3. /\ s.entry.start \in Nat /\ s.entry.end \in Nat /\ s.entry.end <= Day
          /\ today * Day \in Nat
      BY <3>1, EntryTimes DEF Asked
    <3>. QED BY <3>1, <3>2, <3>3, DayPositive DEF time_entries_for
  <2>. QED BY <2>1, <2>2
<1>. HIDE DEF T
<1>1. /\ d \in Nat \ {0} /\ today \in Nat /\ day \in Nat
      /\ Day \in Nat \ {0} /\ today * Day \in Nat /\ day * Day \in Nat
      /\ moved = day * Day - today * Day
  BY DayPositive DEF Asked, Choice
<1>2. PICK sorted \in Sorted(T) : \E w \in ToSet(combine_linear_slots(sorted)) :
          b \in generate_time_blocks(w, choice, day)
  BY DEF available_on, T
<1>3. PICK w \in ToSet(combine_linear_slots(sorted)) :
          b \in generate_time_blocks(w, choice, day)
  BY <1>2
<1>4. w \in WindowsOf(T)
  BY <1>0, CombinedWindows
<1>5. /\ w.start \in Int /\ w.end \in Int /\ today * Day <= w.start
      /\ w.end <= today * Day + Day /\ w.start < w.end
      /\ w.entry \in TimeEntry /\ Concerns(w.entry, choice)
      /\ \A t \in w.start..w.end - 1 : Slotted(t, T)
  BY <1>0, <1>4 DEF WindowsOf, SlotsOK
<1>6. w.start % Day = w.start - today * Day
  <2>. DEFINE x == w.start - today * Day
  <2>1. x \in 0..Day - 1 /\ w.start = today * Day + x
    BY <1>1, <1>5
  <2>. HIDE DEF x
  <2>2. (today * Day + x) % Day = x
    <3>1. today \in Int /\ x \in 0..Day - 1
      BY <1>1, <2>1
    <3>. QED BY <3>1, DayQuotient, Zenon
  <2>3. w.start % Day = x
    BY <2>1, <2>2
  <2>. QED BY <2>3 DEF x
<1>7. At(day, w.start % Day) = w.start + moved
  BY <1>1, <1>5, <1>6 DEF At
<1>8. PICK i \in 0..((w.end - w.start) \div d) - 1 :
          b = [start |-> At(day, w.start % Day) + i * d,
               end |-> At(day, w.start % Day) + (i + 1) * d,
               entry |-> w.entry, provider |-> service_provider(w.entry, choice)]
  BY <1>3 DEF generate_time_blocks
<1>9. /\ i * d \in Nat /\ (i + 1) * d = i * d + d /\ i * d + d <= w.end - w.start
  <2>. HIDE DEF d
  <2>. DEFINE n == w.end - w.start
  <2>1. n \in Int
    BY <1>5
  <2>. HIDE DEF n
  <2>2. i \in 0..(n \div d) - 1
    BY DEF n
  <2>3. i * d \in Nat /\ (i + 1) * d = i * d + d /\ i * d + d <= n
    BY <1>1, <2>1, <2>2, PieceFits
  <2>. QED BY <2>3 DEF n
<1>10. b.start = w.start + moved + i * d /\ b.end = b.start + d
  <2>. HIDE DEF moved, d
  <2>1. moved \in Int /\ d \in Nat
    BY <1>1 DEF moved
  <2>. QED BY <1>5, <1>7, <1>8, <1>9, <2>1
<1>11. ASSUME NEW t \in b.start..b.end - 1 PROVE Slotted(t - moved, T)
  <2>. HIDE DEF moved, d
  <2>1. moved \in Int /\ d \in Nat
    BY <1>1 DEF moved
  <2>2. t - moved \in w.start..w.end - 1
    BY <1>5, <1>9, <1>10, <2>1
  <2>. QED BY <1>5, <2>2
<1>. HIDE DEF d, moved
<1>12. moved \in Int
  BY <1>1 DEF moved
<1>13. b.start \in Nat /\ b.end = b.start + d /\ day * Day <= b.start /\ b.end <= day * Day + Day
  <2>. USE DEF moved
  <2>. QED BY <1>1, <1>5, <1>9, <1>10, <1>12
<1>14. b.entry = w.entry /\ b.provider = service_provider(w.entry, choice)
  BY <1>8
<1>15. b \in [start : Int, end : Int, entry : TimeEntry,
                         provider : {service_provider(b.entry, choice)}]
  BY <1>1, <1>5, <1>8, <1>13, <1>14
<1>. QED BY <1>5, <1>11, <1>12, <1>13, <1>14, <1>15 DEF d, moved, T

-------------------------------------------------------------------------------
(* What the windows keep.                                                   *)

(* An entry whose hours no other touches: its slots are apart from all     *)
(* others, and of two the one that begins first does not end last.         *)
Alone(slots, e, G, lo, hi) ==
    /\ lo \in Int /\ hi \in Int
    /\ \A x \in slots :
           IF x.entry = e THEN x.start \in G /\ lo <= x.start /\ x.end <= hi
                          ELSE x.end < lo \/ hi < x.start
    /\ \A x, y \in slots :
           x.entry = e /\ y.entry = e /\ x.start <= y.start => x.end <= y.end

(* A slot lies in a window that begins where slots of its entry may.       *)
HeldBy(w, x, G) == w.start \in G /\ w.start <= x.start /\ x.end <= w.end
Kept(acc, x, G) ==
    \/ HeldBy(acc, x, G)
    \/ \E n \in 1..Len(acc.windows) : HeldBy(acc.windows[n], x, G)
AllKept(acc, s, read, e, G) ==
    /\ s.entry = e => acc.start \in G
    /\ \A x \in read : x.entry = e => Kept(acc, x, G)

LEMMA TurnKeeps ==
    ASSUME NEW slots, SlotsOK(slots), NEW e, NEW G, NEW lo, NEW hi, Alone(slots, e, G, lo, hi),
           NEW acc, NEW s \in slots, NEW y \in slots, NEW read \in SUBSET slots,
           Held(acc, s, slots), s.start <= y.start, \A x \in read : x.start <= s.start,
           AllKept(acc, s, read, e, G)
    PROVE  AllKept(Combine(acc, y), y, read \cup {y}, e, G)
<1>. DEFINE c == Combine(acc, y)
<1>1. /\ s.start \in Int /\ s.end \in Int /\ y.start \in Int /\ y.end \in Int
      /\ s.start < s.end /\ y.start < y.end /\ acc.start \in Int
      /\ acc.end = s.end /\ acc.start <= s.start
      /\ \A x \in read : /\ x \in slots /\ x.start \in Int /\ x.end \in Int
                         /\ x.start < x.end /\ x.start <= y.start
  BY DEF SlotsOK, Held
<1>2. CASE y.start <= acc.end
  <2>1. c.windows = acc.windows /\ c.end = y.end /\ c.start = acc.start
    BY <1>2 DEF Combine, Held
  <2>2. ASSUME y.entry = e PROVE c.start \in G
    <3>1. s.entry = e
      BY <1>1, <1>2, <2>2 DEF Alone
    <3>. QED BY <2>1, <3>1 DEF AllKept
  <2>3. ASSUME y.entry = e PROVE Kept(c, y, G)
    BY <1>1, <2>1, <2>2, <2>3 DEF Kept, HeldBy
  <2>4. ASSUME NEW x \in read, x.entry = e PROVE Kept(c, x, G)
    <3>1. CASE HeldBy(acc, x, G)
      <4>1. x.end <= y.end
        <5>1. CASE y.entry = e
          BY <1>1, <2>4, <5>1 DEF Alone
        <5>2. CASE y.entry # e
          BY <1>1, <2>4, <5>2 DEF Alone
        <5>. QED BY <5>1, <5>2
      <4>. QED BY <2>1, <3>1, <4>1 DEF Kept, HeldBy
    <3>2. CASE \E n \in 1..Len(acc.windows) : HeldBy(acc.windows[n], x, G)
      <4>. HIDE DEF c
      <4>. QED BY <2>1, <3>2 DEF Kept
    <3>. QED BY <2>4, <3>1, <3>2 DEF AllKept, Kept
  <2>. QED BY <2>2, <2>3, <2>4 DEF AllKept
<1>3. CASE ~(y.start <= acc.end)
  <2>. DEFINE w == Slot(acc.start, acc.end, y.entry)
  <2>1. c.windows = Append(acc.windows, w) /\ c.end = y.end /\ c.start = y.start
    BY <1>3 DEF Combine
  <2>2. /\ Len(acc.windows) \in Nat /\ Len(c.windows) = Len(acc.windows) + 1
        /\ \A n \in 1..Len(acc.windows) : c.windows[n] = acc.windows[n]
        /\ c.windows[Len(acc.windows) + 1] = w
    <3>1. acc.windows \in Seq(WindowsOf(slots)) /\ w \in WindowsOf(slots)
      BY OneMoreWindow DEF Held
    <3>. HIDE DEF w, c
    <3>. QED BY <2>1, <3>1, AppendProperties, LenProperties
  <2>3. w.start = acc.start /\ w.end = acc.end
    BY DEF Slot
  <2>. HIDE DEF w, c
  <2>4. ASSUME y.entry = e PROVE c.start \in G /\ Kept(c, y, G)
    BY <1>1, <2>1, <2>4 DEF Alone, Kept, HeldBy
  <2>5. ASSUME NEW x \in read, x.entry = e PROVE Kept(c, x, G)
    <3>1. CASE HeldBy(acc, x, G)
      <4>1. HeldBy(w, x, G)
        BY <2>3, <3>1 DEF HeldBy
      <4>2. Len(acc.windows) + 1 \in 1..Len(c.windows)
        BY <2>2
      <4>. QED BY <2>2, <4>1, <4>2 DEF Kept
    <3>2. CASE \E n \in 1..Len(acc.windows) : HeldBy(acc.windows[n], x, G)
      <4>1. PICK n \in 1..Len(acc.windows) : HeldBy(acc.windows[n], x, G)
        BY <3>2
      <4>2. n \in 1..Len(c.windows) /\ c.windows[n] = acc.windows[n]
        BY <2>2
      <4>. QED BY <4>1, <4>2 DEF Kept
    <3>. QED BY <2>5, <3>1, <3>2 DEF AllKept, Kept
  <2>. QED BY <2>4, <2>5 DEF AllKept, c
<1>. QED BY <1>2, <1>3

LEMMA TurnsKeep ==
    ASSUME NEW slots, IsFiniteSet(slots), SlotsOK(slots), NEW o \in Sorted(slots), o # <<>>,
           NEW e, NEW G, NEW lo, NEW hi, Alone(slots, e, G, lo, hi)
    PROVE  \A k \in 1..Len(o) : AllKept(Turns(o)[k], o[k], {o[j] : j \in 1..k}, e, G)
<1>. DEFINE acc == Turns(o)
            read(k) == {o[j] : j \in 1..k}
            P(k) == k + 1 <= Len(o) => AllKept(acc[k + 1], o[k + 1], read(k + 1), e, G)
            D == {k \in Nat : P(k)}
<1>0. InOrder(o, slots)
  BY SortedInOrder DEF SlotsOK
<1>1. /\ o \in Seq(slots) /\ Len(o) \in Nat \ {0} /\ o[1] \in slots /\ Head(o) = o[1]
      /\ \A k \in 1..Len(o) : o[k] \in slots
  BY <1>0, EmptySeq, ElementOfSeq DEF InOrder
<1>2. acc[0] = [windows |-> <<>>, start |-> o[1].start, end |-> o[1].end, last |-> o[1]]
  BY <1>1, TurnsDefined
<1>3. \A k \in 1..Len(o) : acc[k] = Combine(acc[k - 1], o[k])
  BY <1>1, TurnsDefined
<1>4. \A k \in 1..Len(o) : Held(acc[k], o[k], slots)
  BY TurnsBuild
<1>5. 0 \in D
  <2>1. acc[1] = Combine(acc[0], o[1]) /\ read(1) = {o[1]}
    BY <1>1, <1>3
  <2>2. o[1].start \in Int /\ o[1].end \in Int /\ o[1].start < o[1].end
    BY <1>1 DEF SlotsOK
  <2>3. /\ acc[1].start = o[1].start /\ acc[1].end = o[1].end
    <3>. HIDE DEF acc
    <3>. QED BY <1>2, <2>1, <2>2 DEF Combine
  <2>4. o[1].entry = e => o[1].start \in G
    BY <1>1 DEF Alone
  <2>5. AllKept(acc[1], o[1], read(1), e, G)
    <3>. HIDE DEF acc
    <3>. QED BY <2>1, <2>2, <2>3, <2>4 DEF AllKept, Kept, HeldBy
  <2>. QED BY <2>5
<1>6. ASSUME NEW k \in Nat, k \in D PROVE k + 1 \in D
  <2>. HIDE DEF acc
  <2>. SUFFICES ASSUME k + 2 <= Len(o)
                PROVE  AllKept(acc[k + 2], o[k + 2], read(k + 2), e, G)
    OBVIOUS
  <2>1. /\ k + 1 \in 1..Len(o) /\ k + 2 \in 1..Len(o) /\ (k + 2) - 1 = k + 1
        /\ k + 1 <= k + 2
    BY <1>1
  <2>2. acc[k + 2] = Combine(acc[k + 1], o[k + 2])
    BY <1>3, <2>1
  <2>3. /\ o[k + 1].start <= o[k + 2].start /\ o[k + 1] \in slots /\ o[k + 2] \in slots
        /\ read(k + 1) \in SUBSET slots /\ \A x \in read(k + 1) : x.start <= o[k + 1].start
    <3>1. \A j \in 1..Len(o) : \A m \in 1..Len(o) : j <= m => o[j].start <= o[m].start
      BY <1>0 DEF InOrder
    <3>2. o[k + 1].start <= o[k + 2].start /\ o[k + 1] \in slots /\ o[k + 2] \in slots
      BY <1>1, <2>1, <3>1
    <3>3. \A j \in 1..k + 1 : j \in 1..Len(o) /\ j <= k + 1
      BY <1>1, <2>1
    <3>4. \A j \in 1..k + 1 : o[j] \in slots /\ o[j].start <= o[k + 1].start
      BY <1>1, <2>1, <3>1, <3>3
    <3>. QED BY <3>2, <3>4
  <2>4. read(k + 2) = read(k + 1) \cup {o[k + 2]}
    <3>1. 1..k + 2 = (1..k + 1) \cup {k + 2}
      OBVIOUS
    <3>. QED BY <3>1
  <2>5. AllKept(acc[k + 1], o[k + 1], read(k + 1), e, G)
    BY <1>6, <2>1
  <2>6. Held(acc[k + 1], o[k + 1], slots)
    BY <1>4, <2>1
  <2>. HIDE DEF read
  <2>. QED BY <2>2, <2>3, <2>4, <2>5, <2>6, TurnKeeps
<1>7. Nat \subseteq D
  <2>. HIDE DEF D
  <2>. QED BY <1>5, <1>6, SetInduction
<1>. SUFFICES ASSUME NEW k \in 1..Len(o) PROVE AllKept(acc[k], o[k], read(k), e, G)
  OBVIOUS
<1>8. k - 1 \in Nat /\ (k - 1) + 1 = k
  OBVIOUS
<1>9. P(k - 1)
  BY <1>7, <1>8
<1>. HIDE DEF acc, read
<1>. QED BY <1>8, <1>9

(* combine_linear_slots drops no free slot of an entry that is alone: some  *)
(* window holds it, and begins a number of slots before it.                 *)
THEOREM AloneIsKept ==
    ASSUME NEW slots, IsFiniteSet(slots), SlotsOK(slots), NEW o \in Sorted(slots),
           NEW e, NEW G, NEW lo, NEW hi, Alone(slots, e, G, lo, hi),
           NEW x \in slots, x.entry = e
    PROVE  \E w \in ToSet(combine_linear_slots(o)) : HeldBy(w, x, G)
<1>0. InOrder(o, slots)
  BY SortedInOrder DEF SlotsOK
<1>1. PICK k \in 1..Len(o) : o[k] = x
  BY <1>0 DEF InOrder
<1>2. /\ o \in Seq(slots) /\ o # <<>> /\ Len(o) \in 1..Len(o) /\ o[Len(o)] \in slots
  BY <1>0, <1>1, EmptySeq, ElementOfSeq DEF InOrder
<1>. DEFINE acc == Turns(o)[Len(o)]
            w == Slot(acc.start, acc.end, acc.last.entry)
<1>3. AllKept(acc, o[Len(o)], {o[j] : j \in 1..Len(o)}, e, G) /\ Held(acc, o[Len(o)], slots)
  BY <1>2, TurnsKeep, TurnsBuild
<1>4. Kept(acc, x, G)
  BY <1>1, <1>3 DEF AllKept
<1>5. combine_linear_slots(o) = Append(acc.windows, w)
  BY <1>2 DEF combine_linear_slots
<1>. HIDE DEF acc
<1>6. acc.windows \in Seq(WindowsOf(slots)) /\ w \in WindowsOf(slots)
  <2>1. acc.last \in slots
    BY <1>3 DEF Held
  <2>. QED BY <1>3, <2>1, OneMoreWindow DEF Held
<1>7. w.start = acc.start /\ w.end = acc.end
  BY DEF Slot
<1>. HIDE DEF w
<1>8. /\ Len(acc.windows) \in Nat
      /\ Len(combine_linear_slots(o)) = Len(acc.windows) + 1
      /\ \A n \in 1..Len(acc.windows) : combine_linear_slots(o)[n] = acc.windows[n]
      /\ combine_linear_slots(o)[Len(acc.windows) + 1] = w
  BY <1>5, <1>6, AppendProperties, LenProperties
<1>9. CASE HeldBy(acc, x, G)
  <2>1. HeldBy(w, x, G)
    BY <1>7, <1>9 DEF HeldBy
  <2>2. w \in ToSet(combine_linear_slots(o))
    BY <1>8 DEF ToSet
  <2>. QED BY <2>1, <2>2
<1>10. CASE \E n \in 1..Len(acc.windows) : HeldBy(acc.windows[n], x, G)
  <2>1. PICK n \in 1..Len(acc.windows) : HeldBy(acc.windows[n], x, G)
    BY <1>10
  <2>2. acc.windows[n] \in ToSet(combine_linear_slots(o))
    BY <1>8 DEF ToSet
  <2>. QED BY <2>1, <2>2
<1>. QED BY <1>4, <1>9, <1>10 DEF Kept

(* The pieces of a length that fit.                                         *)
LEMMA PiecesFit ==
    ASSUME NEW n \in Int, NEW d \in Nat \ {0}, NEW k \in Int, k * d <= n
    PROVE  k <= n \div d
<1>. DEFINE q == n \div d
            r == n % d
<1>1. q \in Int /\ r \in 0..d - 1 /\ n = d * q + r
  OBVIOUS
<1>. HIDE DEF q, r
<1>2. SUFFICES ASSUME q < k PROVE FALSE
  BY <1>1 DEF q
<1>3. (q + 1) * d <= k * d
  BY <1>1, <1>2, Multiply
<1>. QED BY <1>1, <1>3

LEMMA ProductsApart ==
    ASSUME NEW d \in Nat \ {0}, NEW i \in Int, NEW j \in Int
    PROVE  /\ i * d \in Int /\ j * d \in Int /\ (i - 1) * d = i * d - d
           /\ (i - 1 - j) * d = i * d - d - j * d
           /\ (i - 1 - j + 1) * d = i * d - j * d
           /\ j * d <= (i - 1) * d => j <= i - 1
<1>1. ASSUME i - 1 < j PROVE i * d <= j * d
  BY <1>1, Multiply
<1>. QED BY <1>1
===============================================================================
