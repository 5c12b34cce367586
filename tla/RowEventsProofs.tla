------------------------- MODULE RowEventsProofs -------------------------
(***************************************************************************)
(* Proofs about RowEvents: a replica that has every event of the till      *)
(* shows the rows it holds as the till does (CopiesAgree), and nothing is  *)
(* left out once there is nothing more to do (NothingLeftOut).             *)
(*                                                                         *)
(* A row that arrives carries the value it had when it was queued or read, *)
(* so it may be older or newer than the events that are still to come.     *)
(* What makes the order harmless is said by Copied: the events of a row    *)
(* are settled in their order and only once the row is here, and the row   *)
(* is as the last one applied says; an event the index refuses is one that *)
(* another of the same row follows, since the day it would reopen was      *)
(* closed again before the next day was opened (ClashIsPast).  After a     *)
(* sweep no event waits whose row is here (Swept), and the till's rows     *)
(* are as their last events say (AtTill).                                  *)
(*                                                                         *)
(* Take, Sweep and InOrder are functions recursive along a sequence.  The  *)
(* lemmas on their steps show that the functions exist; what holds after   *)
(* each step then follows by induction on its number.                      *)
(*                                                                         *)
(* That nothing is left out needs the orders in which things travel: the   *)
(* queue holds days and events in order and each once (RowsQueued,         *)
(* EventsQueued), what it takes for delivered is at the server             *)
(* (Delivered), and the server, which refuses a day only while another is  *)
(* open there, holds no day without those before it, so that the peer's    *)
(* cursor passes over none (Passed).                                       *)
(***************************************************************************)
EXTENDS RowEvents, Integers, TLAPS, FiniteSetTheorems, WellFoundedInduction, SequenceTheorems

(* The types of a till's rows and of a replica's state.                    *)
Rows == UNION {[D -> Value] : D \in SUBSET Row}
Marks == Seq({"waiting", "applied", "refused"})
States == [rows: Rows, marks: Marks, refused: Seq(QueueRow)]
Typed ==
    /\ own \in Rows /\ log \in Seq(EventRow) /\ queue \in Seq(QueueRow)
    /\ copy \in [Replica -> Rows] /\ ev \in [Replica -> Marks]
    /\ pulled \in Row /\ quar \in Seq(QueueRow)
    /\ reopens \in 0..MaxReopens /\ faults \in 0..MaxFaults

(* The events of the same row after event i, and a row without any.        *)
Later(i) == {j \in DOMAIN log : j > i /\ log[j].row = log[i].row}
NoEvent(r) == \A i \in DOMAIN log : log[i].row # r

(* The till's days: all but the last are closed, and each is as its last   *)
(* event says.                                                             *)
DayTold(d) ==
    /\ own[d].st \in {"open", "closed"} /\ own[d].legs = {}
    /\ own[d].cashUps <= reopens + (IF own[d].st = "closed" THEN 1 ELSE 0)
    /\ NoEvent(d) => own[d] = Opened
    /\ \A i \in DOMAIN log : log[i].row = d /\ Later(i) = {} => own[d] = log[i].value
DaysTold ==
    /\ \E k \in 0..MaxDays :
          Days = 1..k /\ \A d \in 1..k : d < k => own[d].st = "closed"
    /\ \A d \in Days : DayTold(d)
(* A void has its event; what an event says of the sale is so.             *)
SaleTold ==
    /\ Sale \in DOMAIN own =>
          /\ own[Sale].st \in {"completed", "voided"} /\ own[Sale].cashUps = 0
          /\ own[Sale].st = "voided" => \E i \in DOMAIN log : log[i].kind = "order_voided"
    /\ \A i \in DOMAIN log :
          /\ log[i].kind = "order_voided" => own[Sale].st = "voided"
          /\ log[i].kind = "order_refunded" => own[Sale].legs = Leg
(* What each kind of event is about, and that days come in order.          *)
Meant(e) ==
    /\ e.row \in DOMAIN own
    /\ \/ e.row = Sale /\ e.kind = "order_voided"
       \/ e.row = Sale /\ e.kind = "order_refunded" /\ e.value.legs = Leg
       \/ e.row # Sale /\ e.kind = "day_closed" /\ e.value.st = "closed" /\ e.value.legs = {}
       \/ e.row # Sale /\ e.kind = "day_reopened" /\ e.value.st = "open" /\ e.value.legs = {}
LogMeant ==
    /\ \A i \in DOMAIN log : Meant(log[i])
    /\ \A i, j \in DOMAIN log :
          i < j /\ log[i].row # Sale /\ log[j].row # Sale => log[i].row <= log[j].row
AtTill == DaysTold /\ SaleTold /\ LogMeant

(* A value of row r that was the till's once, or that its events will      *)
(* overwrite.                                                              *)
Sound(r, v) ==
    /\ r \in DOMAIN own /\ v \in Value
    /\ r = Sale =>
          /\ v.st \in {"completed", "voided"} /\ v.cashUps = 0 /\ v.legs \subseteq own[Sale].legs
          /\ v.st = "voided" => own[Sale].st = "voided"
    /\ r # Sale =>
          /\ v.st \in {"open", "closed"} /\ v.legs = {}
          /\ NoEvent(r) => v = Opened
SoundItem(x) == IF x.isEvent THEN x.row \in 1..Len(log) ELSE Sound(x.row, x.value)
SoundItems(q) == \A k \in DOMAIN q : SoundItem(q[k])
SoundRows(q) == \A k \in DOMAIN q : SoundItem(q[k]) /\ ~q[k].isEvent
OnTheWay ==
    /\ \A x \in QueueRow : x \in ToSet(queue) =>
          SoundItem(x) /\ (x.st = "pending" => x.att < MaxAttempts)
    /\ \A x \in QueueRow : x \in ToSet(quar) => SoundItem(x) /\ ~x.isEvent

(* A replica's row is as the last event applied to it says.                *)
AsTold(s, i) ==
    LET e == log[i] IN
    /\ e.kind = "order_voided" => s.rows[Sale].st = "voided"
    /\ e.kind = "order_refunded" => s.rows[Sale].legs = Leg
    /\ /\ e.row # Sale
       /\ \A j \in Later(i) : j \in DOMAIN s.marks => s.marks[j] # "applied"
       => s.rows[e.row] = e.value
(* Events of a row are settled in their order, once the row is here; one   *)
(* refused for good is followed by another of the same row.                *)
MarkFits(s, i) ==
    /\ s.marks[i] # "waiting" => log[i].row \in DOMAIN s.rows
    /\ s.marks[i] = "waiting" => \A j \in Later(i) : j \in DOMAIN s.marks => s.marks[j] = "waiting"
    /\ s.marks[i] = "refused" => log[i].kind = "day_reopened" /\ Later(i) # {}
    /\ s.marks[i] = "applied" => AsTold(s, i)
Copied(s) ==
    /\ Len(s.marks) <= Len(log)
    /\ \A r \in DOMAIN s.rows : Sound(r, s.rows[r])
    /\ \A i \in DOMAIN s.marks : MarkFits(s, i)
SweptTo(s, n) == \A i \in 1..n : s.marks[i] = "waiting" => log[i].row \notin DOMAIN s.rows
Swept(s) == SweptTo(s, Len(s.marks))
AtReplicas == \A x \in Replica : \A s \in States : s = State(x) => Copied(s) /\ Swept(s)
RowsInv == Typed /\ AtTill /\ OnTheWay /\ AtReplicas

-----------------------------------------------------------------------------
(* Induction over the naturals, and the recursive functions of the model.  *)

(* A set of naturals has a least element.                                  *)
LEMMA Least ==
  ASSUME NEW T \in SUBSET Nat, T # {}
  PROVE  \E m \in T : \A n \in T : m <= n
<1> DEFINE U == {1..n : n \in T}
<1>1. U \subseteq FiniteSubsetsOf(Nat) /\ U # {}
  <2>1. \A n \in Nat : IsFiniteSet(1..n)
    BY FS_Interval
  <2>2. ASSUME NEW u \in U PROVE u \in SUBSET Nat /\ IsFiniteSet(u)
    <3>1. PICK n \in T : u = 1..n
      OBVIOUS
    <3>2. n \in Nat /\ 1..n \in SUBSET Nat
      OBVIOUS
    <3> QED BY <2>1, <3>1, <3>2
  <2>3. U # {}
    OBVIOUS
  <2> HIDE DEF U
  <2> QED BY <2>2, <2>3 DEF FiniteSubsetsOf
<1>2. \E x \in U : \A y \in U : ~(<<y,x>> \in StrictSubsetOrdering(Nat))
  <2> HIDE DEF U
  <2> QED BY <1>1, FS_StrictSubsetOrderingWellFounded, WFMin
<1>3. PICK m \in T : \A n \in T : ~(<<1..n,1..m>> \in StrictSubsetOrdering(Nat))
  BY <1>2
<1>4. ASSUME NEW n \in T, n < m PROVE FALSE
  <2>1. m \in 1..m /\ m \notin 1..n
    BY <1>4
  <2>2. 1..n \in SUBSET Nat /\ 1..m \in SUBSET Nat /\ 1..n \subseteq 1..m /\ 1..n # 1..m
    BY <1>4, <2>1
  <2> QED BY <2>2, <1>3 DEF StrictSubsetOrdering
<1> QED BY <1>4

(* What holds of 0, and of n + 1 whenever of n, holds of every natural.    *)
LEMMA Induction ==
  ASSUME NEW T, 0 \in T, \A n \in Nat : n \in T => n + 1 \in T
  PROVE  Nat \subseteq T
<1> DEFINE V == Nat \ T
<1>1. SUFFICES ASSUME V # {} PROVE FALSE
  OBVIOUS
<1>2. PICK m \in V : \A n \in V : m <= n
  <2>1. V \in SUBSET Nat
    OBVIOUS
  <2> HIDE DEF V
  <2> QED BY <1>1, <2>1, Least
<1>3. m \in Nat /\ m # 0
  BY <1>2
<1>4. m - 1 \in Nat /\ m - 1 \notin V
  BY <1>2, <1>3
<1>5. m - 1 \in T
  BY <1>4
<1>6. (m - 1) + 1 \in T
  BY <1>4, <1>5
<1> QED BY <1>2, <1>3, <1>6

(* What Take starts from.                                                  *)
Cleared(s) == [s EXCEPT !.refused = <<>>]

(* The states Take goes through, one item after the other.                 *)
LEMMA TakeSteps ==
  ASSUME NEW s, NEW items, Len(items) \in Nat
  PROVE  \E f : /\ Take(s, items) = f[Len(items)] /\ f[0] = Cleared(s)
               /\ \A n \in 1 .. Len(items) : f[n] = TakeItem(f[n - 1], items[n])
<1> DEFINE Is(g, k) == g = [n \in 0 .. k |-> IF n = 0 THEN Cleared(s) ELSE TakeItem(g[n - 1], items[n])]
           P(k) == \E g : Is(g, k)
           T == {k \in Nat : P(k)}
<1>1. P(0)
  <2>1. Is([n \in 0 .. 0 |-> Cleared(s)], 0)
    OBVIOUS
  <2> QED BY <2>1
<1>2. ASSUME NEW k \in Nat, P(k) PROVE P(k + 1)
  <2>1. PICK g : Is(g, k)
    BY <1>2
  <2> DEFINE h == [n \in 0 .. k + 1 |-> IF n = k + 1 THEN TakeItem(g[n - 1], items[n]) ELSE g[n]]
  <2>2. ASSUME NEW n \in 0 .. k + 1
        PROVE  h[n] = IF n = 0 THEN Cleared(s) ELSE TakeItem(h[n - 1], items[n])
    <3>1. CASE n = 0
      <4>1. n # k + 1 /\ n \in 0 .. k
        BY <3>1
      <4> QED BY <2>1, <3>1, <4>1
    <3>2. CASE n # 0
      <4>1. n - 1 \in 0 .. k /\ n - 1 \in 0 .. k + 1 /\ n - 1 # k + 1
        BY <3>2
      <4>2. h[n - 1] = g[n - 1]
        BY <4>1
      <4>3. h[n] = TakeItem(g[n - 1], items[n])
        <5>1. CASE n = k + 1
          BY <5>1
        <5>2. CASE n # k + 1
          <6>1. n \in 0 .. k
            BY <5>2
          <6> QED BY <2>1, <3>2, <5>2, <6>1
        <5> QED BY <5>1, <5>2
      <4> HIDE DEF h
      <4> QED BY <3>2, <4>2, <4>3
    <3> QED BY <3>1, <3>2
  <2>3. Is(h, k + 1)
    <3>1. h = [n \in 0 .. k + 1 |-> h[n]]
      OBVIOUS
    <3> HIDE DEF h
    <3>2. [n \in 0 .. k + 1 |-> h[n]] =
              [n \in 0 .. k + 1 |-> IF n = 0 THEN Cleared(s) ELSE TakeItem(h[n - 1], items[n])]
      BY <2>2
    <3> QED BY <3>1, <3>2
  <2> HIDE DEF Is
  <2> QED BY <2>3
<1>3. P(Len(items))
  <2> HIDE DEF P
  <2>1. 0 \in T /\ \A k \in Nat : k \in T => k + 1 \in T
    BY <1>1, <1>2
  <2> HIDE DEF T
  <2>2. Len(items) \in T
    BY <2>1, Induction
  <2> QED BY <2>2 DEF T
<1> DEFINE f == CHOOSE g : Is(g, Len(items))
<1>4. Is(f, Len(items))
  <2> HIDE DEF Is
  <2> QED BY <1>3
<1>5. Take(s, items) = f[Len(items)]
  BY DEF Take, Cleared
<1> HIDE DEF f
<1>6. f[0] = Cleared(s) /\ \A n \in 1 .. Len(items) : f[n] = TakeItem(f[n - 1], items[n])
  <2>1. 0 \in 0 .. Len(items) /\ \A n \in 1 .. Len(items) : n \in 0 .. Len(items) /\ n # 0
    OBVIOUS
  <2> QED BY <1>4, <2>1
<1> QED BY <1>5, <1>6

(* Sweep tries the events one after the other.                             *)
LEMMA SweepSteps ==
  ASSUME NEW s, Len(s.marks) \in Nat
  PROVE  \E f : /\ Sweep(s) = f[Len(s.marks)] /\ f[0] = s
               /\ \A n \in 1 .. Len(s.marks) : f[n] = ApplyEvent(f[n - 1], n)
<1> DEFINE Is(g, k) == g = [n \in 0 .. k |-> IF n = 0 THEN s ELSE ApplyEvent(g[n - 1], n)]
           P(k) == \E g : Is(g, k)
           T == {k \in Nat : P(k)}
<1>1. P(0)
  <2>1. Is([n \in 0 .. 0 |-> s], 0)
    OBVIOUS
  <2> QED BY <2>1
<1>2. ASSUME NEW k \in Nat, P(k) PROVE P(k + 1)
  <2>1. PICK g : Is(g, k)
    BY <1>2
  <2> DEFINE h == [n \in 0 .. k + 1 |-> IF n = k + 1 THEN ApplyEvent(g[n - 1], n) ELSE g[n]]
  <2>2. ASSUME NEW n \in 0 .. k + 1
        PROVE  h[n] = IF n = 0 THEN s ELSE ApplyEvent(h[n - 1], n)
    <3>1. CASE n = 0
      <4>1. n # k + 1 /\ n \in 0 .. k
        BY <3>1
      <4> QED BY <2>1, <3>1, <4>1
    <3>2. CASE n # 0
      <4>1. n - 1 \in 0 .. k /\ n - 1 \in 0 .. k + 1 /\ n - 1 # k + 1
        BY <3>2
      <4>2. h[n - 1] = g[n - 1]
        BY <4>1
      <4>3. h[n] = ApplyEvent(g[n - 1], n)
        <5>1. CASE n = k + 1
          BY <5>1
        <5>2. CASE n # k + 1
          <6>1. n \in 0 .. k
            BY <5>2
          <6> QED BY <2>1, <3>2, <5>2, <6>1
        <5> QED BY <5>1, <5>2
      <4> HIDE DEF h
      <4> QED BY <3>2, <4>2, <4>3
    <3> QED BY <3>1, <3>2
  <2>3. Is(h, k + 1)
    <3>1. h = [n \in 0 .. k + 1 |-> h[n]]
      OBVIOUS
    <3> HIDE DEF h
    <3>2. [n \in 0 .. k + 1 |-> h[n]] = [n \in 0 .. k + 1 |-> IF n = 0 THEN s ELSE ApplyEvent(h[n - 1], n)]
      BY <2>2
    <3> QED BY <3>1, <3>2
  <2> HIDE DEF Is
  <2> QED BY <2>3
<1>3. P(Len(s.marks))
  <2> HIDE DEF P
  <2>1. 0 \in T /\ \A k \in Nat : k \in T => k + 1 \in T
    BY <1>1, <1>2
  <2> HIDE DEF T
  <2>2. Len(s.marks) \in T
    BY <2>1, Induction
  <2> QED BY <2>2 DEF T
<1> DEFINE f == CHOOSE g : Is(g, Len(s.marks))
<1>4. Is(f, Len(s.marks))
  <2> HIDE DEF Is
  <2> QED BY <1>3
<1>5. Sweep(s) = f[Len(s.marks)]
  BY DEF Sweep
<1> HIDE DEF f
<1>6. f[0] = s /\ \A n \in 1 .. Len(s.marks) : f[n] = ApplyEvent(f[n - 1], n)
  <2>1. 0 \in 0 .. Len(s.marks) /\ \A n \in 1 .. Len(s.marks) : n \in 0 .. Len(s.marks) /\ n # 0
    OBVIOUS
  <2> QED BY <1>4, <2>1
<1> QED BY <1>5, <1>6

(* InOrder goes through the numbers.                                       *)
LEMMA InOrderSteps ==
  ASSUME NEW S, NEW top \in Nat
  PROVE  \E f : /\ InOrder(S, top) = f[(top + 1)] /\ f[0] = <<>>
               /\ \A n \in 1 .. (top + 1) : f[n] = (IF n - 1 \in S THEN Append(f[n - 1], n - 1) ELSE f[n - 1])
<1> DEFINE Is(g, k) == g =
               [n \in 0 .. k |-> IF n = 0 THEN <<>> ELSE (IF n - 1 \in S THEN Append(g[n - 1], n - 1) ELSE g[n - 1])]
           P(k) == \E g : Is(g, k)
           T == {k \in Nat : P(k)}
<1>1. P(0)
  <2>1. Is([n \in 0 .. 0 |-> <<>>], 0)
    OBVIOUS
  <2> QED BY <2>1
<1>2. ASSUME NEW k \in Nat, P(k) PROVE P(k + 1)
  <2>1. PICK g : Is(g, k)
    BY <1>2
  <2> DEFINE h ==
                 [n \in 0 .. k + 1 |-> IF n = k + 1 THEN (IF n - 1 \in S THEN Append(g[n - 1], n - 1) ELSE g[n - 1]) ELSE g[n]]
  <2>2. ASSUME NEW n \in 0 .. k + 1
        PROVE  h[n] = IF n = 0 THEN <<>> ELSE (IF n - 1 \in S THEN Append(h[n - 1], n - 1) ELSE h[n - 1])
    <3>1. CASE n = 0
      <4>1. n # k + 1 /\ n \in 0 .. k
        BY <3>1
      <4> QED BY <2>1, <3>1, <4>1
    <3>2. CASE n # 0
      <4>1. n - 1 \in 0 .. k /\ n - 1 \in 0 .. k + 1 /\ n - 1 # k + 1
        BY <3>2
      <4>2. h[n - 1] = g[n - 1]
        BY <4>1
      <4>3. h[n] = (IF n - 1 \in S THEN Append(g[n - 1], n - 1) ELSE g[n - 1])
        <5>1. CASE n = k + 1
          BY <5>1
        <5>2. CASE n # k + 1
          <6>1. n \in 0 .. k
            BY <5>2
          <6> QED BY <2>1, <3>2, <5>2, <6>1
        <5> QED BY <5>1, <5>2
      <4> HIDE DEF h
      <4> QED BY <3>2, <4>2, <4>3
    <3> QED BY <3>1, <3>2
  <2>3. Is(h, k + 1)
    <3>1. h = [n \in 0 .. k + 1 |-> h[n]]
      OBVIOUS
    <3> HIDE DEF h
    <3>2. [n \in 0 .. k + 1 |-> h[n]] =
              [n \in 0 .. k + 1 |-> IF n = 0 THEN <<>> ELSE (IF n - 1 \in S THEN Append(h[n - 1], n - 1) ELSE h[n - 1])]
      BY <2>2
    <3> QED BY <3>1, <3>2
  <2> HIDE DEF Is
  <2> QED BY <2>3
<1>3. P((top + 1))
  <2> HIDE DEF P
  <2>1. 0 \in T /\ \A k \in Nat : k \in T => k + 1 \in T
    BY <1>1, <1>2
  <2> HIDE DEF T
  <2>2. (top + 1) \in T
    BY <2>1, Induction
  <2> QED BY <2>2 DEF T
<1> DEFINE f == CHOOSE g : Is(g, (top + 1))
<1>4. Is(f, (top + 1))
  <2> HIDE DEF Is
  <2> QED BY <1>3
<1>5. InOrder(S, top) = f[(top + 1)]
  BY DEF InOrder
<1> HIDE DEF f
<1>6. f[0] = <<>> /\ \A n \in 1 .. (top + 1) : f[n] = (IF n - 1 \in S THEN Append(f[n - 1], n - 1) ELSE f[n - 1])
  <2>1. 0 \in 0 .. (top + 1) /\ \A n \in 1 .. (top + 1) : n \in 0 .. (top + 1) /\ n # 0
    OBVIOUS
  <2> QED BY <1>4, <2>1
<1> QED BY <1>5, <1>6

-----------------------------------------------------------------------------
(* The operators of the model.                                             *)

(* InOrder lists members of its set.                                       *)
LEMMA InOrderIn ==
  ASSUME NEW S, NEW top \in Nat
  PROVE  InOrder(S, top) \in Seq(S \cap (0..top))
<1> DEFINE R == S \cap (0..top)
<1>1. PICK f : /\ InOrder(S, top) = f[top + 1] /\ f[0] = <<>>
               /\ \A n \in 1..(top + 1) : f[n] = IF n - 1 \in S THEN Append(f[n - 1], n - 1) ELSE f[n - 1]
  BY InOrderSteps
<1> DEFINE T == {k \in Nat : k <= top + 1 => f[k] \in Seq(R)}
<1>2. 0 \in T
  <2>1. <<>> \in Seq(R) /\ f[0] \in Seq(R)
    <3>1. <<>> \in Seq(R)
      OBVIOUS
    <3> QED BY <1>1, <3>1
  <2> QED BY <2>1
<1>3. ASSUME NEW k \in Nat, k \in T PROVE k + 1 \in T
  <2>1. SUFFICES ASSUME k + 1 <= top + 1 PROVE f[k + 1] \in Seq(R)
    OBVIOUS
  <2>2. f[k] \in Seq(R) /\ k + 1 \in 1..(top + 1) /\ (k + 1) - 1 = k /\ k \in 0..top
    BY <1>3, <2>1
  <2>3. f[k + 1] = IF k \in S THEN Append(f[k], k) ELSE f[k]
    BY <1>1, <2>2
  <2>4. CASE k \in S
    <3>1. k \in R
      BY <2>2, <2>4
    <3> HIDE DEF R
    <3> QED BY <2>2, <2>3, <2>4, <3>1
  <2>5. CASE k \notin S
    BY <2>2, <2>3, <2>5
  <2> QED BY <2>4, <2>5
<1> HIDE DEF T
<1>4. top + 1 \in T
  BY <1>2, <1>3, Induction
<1> QED BY <1>1, <1>4 DEF T

(* A row more, and a row changed.                                          *)
LEMMA WithRows ==
  ASSUME NEW rows \in Rows, NEW r \in Row, NEW v \in Value
  PROVE  /\ With(rows, r, v) \in Rows /\ DOMAIN With(rows, r, v) = DOMAIN rows \cup {r}
         /\ With(rows, r, v)[r] = v
         /\ \A q \in DOMAIN rows \ {r} : With(rows, r, v)[q] = rows[q]
<1>1. PICK D \in SUBSET Row : rows \in [D -> Value]
  BY DEF Rows
<1>2. With(rows, r, v) \in [D \cup {r} -> Value]
  BY <1>1 DEF With
<1>3. D \cup {r} \in SUBSET Row
  BY <1>1
<1>4. With(rows, r, v) \in Rows
  BY <1>2, <1>3 DEF Rows
<1> QED BY <1>1, <1>4 DEF With

(* A row that is there, changed.                                           *)
LEMMA ChangedRows ==
  ASSUME NEW rows \in Rows, NEW r \in DOMAIN rows, NEW v \in Value, NEW w, w = [rows EXCEPT ![r] = v]
  PROVE  /\ w \in Rows /\ DOMAIN w = DOMAIN rows /\ w[r] = v
         /\ \A q \in DOMAIN rows \ {r} : w[q] = rows[q]
<1>1. PICK D \in SUBSET Row : rows \in [D -> Value]
  BY DEF Rows
<1>2. w \in [D -> Value]
  BY <1>1
<1> QED BY <1>1, <1>2 DEF Rows

(* Rows are numbered, and have values.                                     *)
LEMMA RowsAre ==
  ASSUME NEW rows \in Rows
  PROVE  DOMAIN rows \subseteq Row /\ \A r \in DOMAIN rows : rows[r] \in Value
BY DEF Rows

(* Values change as the events of their kinds say.                         *)
LEMMA ChangedIs ==
  ASSUME NEW v \in Value, NEW e \in EventRow, Meant(e)
  PROVE  /\ Changed(v, e) \in Value
         /\ e.kind = "order_voided" => Changed(v, e) = [v EXCEPT !.st = "voided"]
         /\ e.kind = "order_refunded" => Changed(v, e) = [v EXCEPT !.legs = Leg]
         /\ e.row # Sale /\ v.legs = {} => Changed(v, e) = e.value
<1>1. v.st \in Status /\ v.cashUps \in 0..MaxReopens + 1 /\ v.legs \in SUBSET Leg
  BY DEF Value
<1>2. e.value \in Value /\ e.value.st \in Status /\ e.value.cashUps \in 0..MaxReopens + 1 /\
          e.value.legs \in SUBSET Leg
  BY DEF EventRow, Value
<1>3. CASE e.kind \in {"day_closed", "day_reopened"}
  <2>1. Changed(v, e) = [v EXCEPT !.st = e.value.st, !.cashUps = e.value.cashUps]
    BY <1>3 DEF Changed
  <2>2. Changed(v, e) = [st |-> e.value.st, cashUps |-> e.value.cashUps, legs |-> v.legs]
    BY <2>1 DEF Value
  <2>3. e.row # Sale => e.value.legs = {}
    BY <1>3 DEF Meant
  <2>4. e.value = [st |-> e.value.st, cashUps |-> e.value.cashUps, legs |-> e.value.legs]
    BY <1>2 DEF Value
  <2>5. Changed(v, e) \in Value
    BY <1>1, <1>2, <2>2 DEF Value
  <2> QED BY <1>3, <2>2, <2>3, <2>4, <2>5
<1>4. CASE e.kind = "order_voided"
  <2>1. Changed(v, e) = [v EXCEPT !.st = "voided"]
    BY <1>4 DEF Changed
  <2> QED BY <1>1, <1>4, <2>1 DEF Value, Status, Meant
<1>5. CASE e.kind = "order_refunded"
  <2>1. e.value.legs = Leg
    BY <1>5 DEF Meant
  <2>2. Changed(v, e) = [v EXCEPT !.legs = v.legs \cup Leg]
    BY <1>5, <2>1 DEF Changed
  <2>3. v.legs \cup Leg = Leg
    BY <1>1
  <2> QED BY <1>1, <1>5, <2>2, <2>3 DEF Value, Meant
<1> QED BY <1>3, <1>4, <1>5 DEF Meant

-----------------------------------------------------------------------------
(* A replica applies an event.                                             *)

(* A row with events has a last one.                                       *)
LEMMA LastEvent ==
  ASSUME Typed, NEW r, ~NoEvent(r)
  PROVE  \E i \in DOMAIN log : log[i].row = r /\ Later(i) = {}
<1> DEFINE n == Len(log)
           T == {n - i : i \in {j \in 1..n : log[j].row = r}}
<1>1. n \in Nat /\ DOMAIN log = 1..n
  BY DEF Typed
<1> HIDE DEF n
<1>2. PICK j \in 1..n : log[j].row = r
  BY <1>1 DEF NoEvent
<1>3. T \in SUBSET Nat /\ T # {}
  <2>1. \A i \in 1..n : n - i \in Nat
    BY <1>1
  <2> QED BY <1>2, <2>1
<1>4. PICK m \in T : \A y \in T : m <= y
  <2> HIDE DEF T
  <2> QED BY <1>3, Least
<1>5. PICK i \in 1..n : log[i].row = r /\ m = n - i
  BY <1>4
<1>6. ASSUME NEW l \in Later(i) PROVE FALSE
  <2>1. l \in 1..n /\ l > i /\ log[l].row = r
    BY <1>1, <1>5, <1>6 DEF Later
  <2>2. n - l \in T
    BY <2>1
  <2>3. m <= n - l
    <3> HIDE DEF T
    <3> QED BY <1>4, <2>2
  <2> QED BY <1>1, <1>5, <2>1, <2>3
<1> QED BY <1>1, <1>5, <1>6

(* A mark is of an event of the log, which says what its kind means.       *)
LEMMA EventAt ==
  ASSUME Typed, LogMeant, NEW s \in States, Len(s.marks) <= Len(log), NEW i \in DOMAIN s.marks
  PROVE  i \in DOMAIN log /\ i \in Nat /\ log[i] \in EventRow /\ Meant(log[i])
<1>1. s.marks \in Seq({"waiting", "applied", "refused"}) /\ log \in Seq(EventRow)
  BY DEF Typed, States, Marks
<1>2. Len(s.marks) \in Nat /\ Len(log) \in Nat /\ DOMAIN s.marks = 1..Len(s.marks) /\ DOMAIN log = 1..Len(log)
  BY <1>1
<1>3. i \in 1..Len(log)
  BY <1>2
<1> QED BY <1>1, <1>2, <1>3 DEF LogMeant

(* When the index refuses to reopen a day, the till has closed it again:   *)
(* the open day is a later one, since all of an earlier one's events came  *)
(* before.                                                                 *)
LEMMA ClashIsPast ==
  ASSUME Typed, AtTill, NEW s \in States, Copied(s), NEW i \in DOMAIN s.marks, SweptTo(s, i - 1),
         log[i].kind = "day_reopened", OpenClash(s.rows, log[i].row)
  PROVE  Later(i) # {}
<1> DEFINE d == log[i].row
<1>1. i \in DOMAIN log /\ i \in Nat /\ Meant(log[i]) /\ log[i].value.st = "open" /\ d # Sale /\ d \in Days
  BY EventAt DEF Copied, AtTill, Meant, Days
<1>2. PICK f \in DOMAIN s.rows : f # Sale /\ f # d /\ s.rows[f].st = "open"
  BY DEF OpenClash
<1>3. f \in Days
  BY <1>2 DEF Copied, Sound, Days
<1>4. PICK k \in 0..MaxDays : Days = 1..k /\ \A c \in 1..k : c < k => own[c].st = "closed"
  BY DEF AtTill, DaysTold
<1>5. \A c \in Days : DayTold(c)
  BY DEF AtTill, DaysTold
<1>6. CASE f > d
  <2>1. own[d].st = "closed"
    <3>1. d \in 1..k /\ f \in 1..k
      BY <1>1, <1>3, <1>4
    <3> QED BY <1>4, <1>6, <3>1
  <2>2. SUFFICES ASSUME Later(i) = {} PROVE FALSE
    OBVIOUS
  <2>3. own[d] = log[i].value
    BY <1>1, <1>5, <2>2 DEF DayTold
  <2> QED BY <1>1, <2>1, <2>3
<1>7. CASE f < d
  <2>1. own[f].st = "closed"
    <3>1. d \in 1..k /\ f \in 1..k
      BY <1>1, <1>3, <1>4
    <3> QED BY <1>4, <1>7, <3>1
  <2>2. ~NoEvent(f)
    BY <1>3, <1>5, <2>1 DEF DayTold, Opened
  <2>3. PICK j \in DOMAIN log : log[j].row = f /\ Later(j) = {}
    BY <2>2, LastEvent
  <2>4. own[f] = log[j].value
    BY <1>3, <1>5, <2>3 DEF DayTold
  <2>5. j \in Nat /\ j < i
    <3>1. j \in Nat
      BY DEF Typed
    <3>2. ~(i < j)
      <4>1. d \in Int /\ f \in Int
        BY <1>1, <1>3, <1>4
      <4>2. ASSUME i < j PROVE d <= f
        BY <1>1, <1>2, <2>3, <4>2 DEF AtTill, LogMeant
      <4> QED BY <1>7, <4>1, <4>2
    <3>3. i # j
      BY <1>2, <2>3
    <3> QED BY <1>1, <3>1, <3>2, <3>3
  <2>6. j \in DOMAIN s.marks /\ j \in 1..(i - 1)
    <3>1. s.marks \in Seq({"waiting", "applied", "refused"}) /\ log \in Seq(EventRow)
      BY DEF States, Marks, Typed
    <3> QED BY <1>1, <2>5, <3>1
  <2>7. s.marks[j] \in {"waiting", "applied", "refused"} /\ s.marks[j] # "waiting" /\ MarkFits(s, j)
    BY <1>2, <2>3, <2>6 DEF States, Marks, SweptTo, Copied
  <2>8. AsTold(s, j)
    BY <2>3, <2>7 DEF MarkFits
  <2>9. s.rows[f] = log[j].value
    BY <1>2, <2>3, <2>8 DEF AsTold
  <2> QED BY <1>2, <2>1, <2>4, <2>9
<1>8. d \in Int /\ f \in Int
  BY <1>1, <1>3, <1>4
<1> QED BY <1>2, <1>6, <1>7, <1>8

(* An event marked: the others' marks stay.                                *)
Marking(s, rows, i, w) == [rows |-> rows, marks |-> [s.marks EXCEPT ![i] = w], refused |-> s.refused]

(* What a replica's state is once an event is marked.                      *)
LEMMA Marked ==
  ASSUME NEW s \in States, NEW rows \in Rows, NEW i \in DOMAIN s.marks, NEW w \in {"applied", "refused"},
         NEW t, t = Marking(s, rows, i, w)
  PROVE  /\ t \in States /\ t.rows = rows /\ t.refused = s.refused
         /\ DOMAIN t.marks = DOMAIN s.marks /\ Len(t.marks) = Len(s.marks) /\ t.marks[i] = w
         /\ \A k \in DOMAIN s.marks \ {i} : t.marks[k] = s.marks[k]
<1> DEFINE m == [s.marks EXCEPT ![i] = w]
<1>1. s.marks \in Seq({"waiting", "applied", "refused"}) /\ s.refused \in Seq(QueueRow)
  BY DEF States, Marks
<1>2. m \in Seq({"waiting", "applied", "refused"}) /\ Len(m) = Len(s.marks) /\ DOMAIN m = DOMAIN s.marks
  BY <1>1
<1>3. m[i] = w /\ \A k \in DOMAIN s.marks \ {i} : m[k] = s.marks[k]
  OBVIOUS
<1>4. t = [rows |-> rows, marks |-> m, refused |-> s.refused]
  BY DEF Marking
<1> HIDE DEF m
<1> QED BY <1>1, <1>2, <1>3, <1>4 DEF States, Marks

(* An event refused for good is not the last of its row.                   *)
LEMMA RefuseKeeps ==
  ASSUME Typed, AtTill, NEW s \in States, Copied(s), NEW i \in DOMAIN s.marks, SweptTo(s, i - 1),
         s.marks[i] = "waiting", log[i].row \in DOMAIN s.rows,
         log[i].kind = "day_reopened", OpenClash(s.rows, log[i].row),
         NEW t, t = [s EXCEPT !.marks[i] = "refused"]
  PROVE  t \in States /\ Copied(t) /\ t.rows = s.rows /\ t.refused = s.refused /\
             Len(t.marks) = Len(s.marks) /\ SweptTo(t, i)
<1>1. t = Marking(s, s.rows, i, "refused") /\ s.rows \in Rows
  BY DEF States, Marking
<1>2. /\ t \in States /\ t.rows = s.rows /\ t.refused = s.refused
      /\ DOMAIN t.marks = DOMAIN s.marks /\ Len(t.marks) = Len(s.marks) /\ t.marks[i] = "refused"
      /\ \A k \in DOMAIN s.marks \ {i} : t.marks[k] = s.marks[k]
  BY <1>1, Marked, SMTT(30)
<1>3. i \in Nat /\ Later(i) # {}
  BY EventAt, ClashIsPast DEF Copied, AtTill
<1>4. ASSUME NEW k \in DOMAIN s.marks PROVE MarkFits(t, k)
  <2>1. MarkFits(s, k)
    BY DEF Copied
  <2>2. CASE k = i
    BY <1>2, <1>3, <2>2 DEF MarkFits
  <2>3. CASE k # i
    <3>1. t.marks[k] = s.marks[k]
      BY <1>2, <2>3
    <3>2. t.marks[k] = "waiting" => \A j \in Later(k) : j \in DOMAIN t.marks => t.marks[j] = "waiting"
      <4>1. SUFFICES ASSUME s.marks[k] = "waiting", NEW j \in Later(k), j \in DOMAIN s.marks
                     PROVE  t.marks[j] = "waiting"
        BY <1>2, <3>1
      <4>2. s.marks[j] = "waiting"
        BY <2>1, <4>1 DEF MarkFits
      <4>3. j # i
        <5>1. ASSUME j = i PROVE FALSE
          <6>1. k < i /\ log[k].row = log[i].row /\ k \in Nat
            <7>1. k \in Nat
              BY EventAt DEF Copied, AtTill
            <7> QED BY <4>1, <5>1, <7>1 DEF Later
          <6>2. k \in 1..(i - 1)
            <7>1. k # 0
              BY DEF States, Marks
            <7> QED BY <1>3, <6>1, <7>1
          <6> QED BY <4>1, <6>1, <6>2 DEF SweptTo
        <5> QED BY <5>1
      <4> QED BY <1>2, <4>1, <4>2, <4>3
    <3>3. AsTold(s, k) => AsTold(t, k)
      <4>1. \A j \in DOMAIN s.marks : t.marks[j] = "applied" <=> s.marks[j] = "applied"
        BY <1>2
      <4> QED BY <1>2, <4>1 DEF AsTold
    <3> QED BY <1>2, <2>1, <3>1, <3>2, <3>3 DEF MarkFits
  <2> QED BY <2>2, <2>3
<1>5. Copied(t)
  BY <1>2, <1>4 DEF Copied
<1>6. SweptTo(t, i)
  <2>1. \A k \in 1..i : k = i \/ k \in 1..(i - 1)
    BY <1>3
  <2>2. \A k \in 1..(i - 1) : k \in DOMAIN s.marks /\ k # i
    BY <1>3 DEF States, Marks
  <2> QED BY <1>2, <2>1, <2>2 DEF SweptTo
<1> QED BY <1>2, <1>5, <1>6

Applied(s, i) == [s EXCEPT !.rows[log[i].row] = Changed(@, log[i]), !.marks[i] = "applied"]

(* An event applied to its row: the row is as the event says, and no later *)
(* event of that row was applied before.                                   *)
LEMMA ApplyChanges ==
  ASSUME Typed, AtTill, NEW s \in States, Copied(s), NEW i \in DOMAIN s.marks, SweptTo(s, i - 1),
         s.marks[i] = "waiting", log[i].row \in DOMAIN s.rows,
         NEW t, t = Applied(s, i)
  PROVE  /\ t \in States /\ Copied(t) /\ DOMAIN t.rows = DOMAIN s.rows /\ t.refused = s.refused
         /\ Len(t.marks) = Len(s.marks) /\ SweptTo(t, i)
<1> DEFINE e == log[i]
           r == e.row
           v == Changed(s.rows[r], e)
           rows == [s.rows EXCEPT ![r] = v]
<1>1. i \in DOMAIN log /\ i \in Nat /\ e \in EventRow /\ Meant(e)
  BY EventAt DEF Copied, AtTill
<1>2. s.rows \in Rows /\ Sound(r, s.rows[r])
  BY DEF States, Copied
<1>3. s.rows[r] \in Value /\ (r # Sale => s.rows[r].legs = {})
  BY <1>2 DEF Sound
<1>4. /\ v \in Value
      /\ e.kind = "order_voided" => v = [s.rows[r] EXCEPT !.st = "voided"]
      /\ e.kind = "order_refunded" => v = [s.rows[r] EXCEPT !.legs = Leg]
      /\ r # Sale => v = e.value
  <2> HIDE DEF e
  <2> QED BY <1>1, <1>3, ChangedIs
<1>5. /\ rows \in Rows /\ DOMAIN rows = DOMAIN s.rows /\ rows[r] = v
      /\ \A q \in DOMAIN s.rows \ {r} : rows[q] = s.rows[q]
  <2> HIDE DEF v
  <2>1. PICK w : w = [s.rows EXCEPT ![r] = v]
    OBVIOUS
  <2>2. /\ w \in Rows /\ DOMAIN w = DOMAIN s.rows /\ w[r] = v
        /\ \A q \in DOMAIN s.rows \ {r} : w[q] = s.rows[q]
    <3> HIDE DEF rows
    <3> QED BY <1>2, <1>4, <2>1, ChangedRows
  <2> QED BY <2>1, <2>2
<1>6. t = Marking(s, rows, i, "applied")
  BY DEF States, Marking, Applied
<1> HIDE DEF rows
<1>7. /\ t \in States /\ t.rows = rows /\ t.refused = s.refused
      /\ DOMAIN t.marks = DOMAIN s.marks /\ Len(t.marks) = Len(s.marks) /\ t.marks[i] = "applied"
      /\ \A k \in DOMAIN s.marks \ {i} : t.marks[k] = s.marks[k]
  BY <1>5, <1>6, Marked
<1>8. /\ r = Sale => /\ v.st \in {"completed", "voided"} /\ v.cashUps = 0 /\ v.legs \subseteq own[Sale].legs
                     /\ v.st = "voided" => own[Sale].st = "voided"
                     /\ s.rows[r].st = "voided" => v.st = "voided"
                     /\ s.rows[r].legs = Leg => v.legs = Leg
      /\ e.kind = "order_voided" => v.st = "voided"
      /\ e.kind = "order_refunded" => v.legs = Leg
  <2>1. s.rows[r].st \in Status /\ s.rows[r].legs \in SUBSET Leg
    BY <1>3 DEF Value
  <2>2. CASE e.kind = "order_voided"
    <3>1. own[Sale].st = "voided" /\ r = Sale
      BY <1>1, <2>2 DEF AtTill, SaleTold, Meant
    <3>2. v.st = "voided" /\ v.cashUps = s.rows[r].cashUps /\ v.legs = s.rows[r].legs
      BY <1>3, <1>4, <2>2 DEF Value
    <3> HIDE DEF v
    <3> QED BY <1>2, <2>2, <3>1, <3>2 DEF Sound
  <2>3. CASE e.kind = "order_refunded"
    <3>1. own[Sale].legs = Leg /\ r = Sale
      BY <1>1, <2>3 DEF AtTill, SaleTold, Meant
    <3>2. v.st = s.rows[r].st /\ v.cashUps = s.rows[r].cashUps /\ v.legs = Leg
      BY <1>3, <1>4, <2>3 DEF Value
    <3> HIDE DEF v
    <3> QED BY <1>2, <2>3, <3>1, <3>2 DEF Sound
  <2>4. CASE r # Sale
    BY <1>1, <2>4 DEF Meant
  <2> QED BY <1>1, <2>2, <2>3, <2>4 DEF Meant
<1>9. Sound(r, v)
  <2>1. CASE r = Sale
    <3> HIDE DEF v
    <3> QED BY <1>1, <1>4, <1>8, <2>1 DEF Sound, Meant
  <2>2. CASE r # Sale
    <3>1. ~NoEvent(r) /\ e.value.st \in {"open", "closed"} /\ e.value.legs = {}
      BY <1>1, <2>2 DEF NoEvent, Meant
    <3> HIDE DEF v
    <3> QED BY <1>1, <1>4, <2>2, <3>1 DEF Sound, Meant
  <2> QED BY <2>1, <2>2
<1> HIDE DEF v
<1>10. \A q \in DOMAIN t.rows : Sound(q, t.rows[q])
  BY <1>5, <1>7, <1>9 DEF Copied
<1>11. ASSUME NEW k \in DOMAIN s.marks PROVE MarkFits(t, k)
  <2>1. MarkFits(s, k) /\ k \in Nat /\ Meant(log[k])
    BY EventAt DEF Copied, AtTill
  <2>2. CASE k = i
    <3>1. AsTold(t, k)
      BY <1>1, <1>4, <1>5, <1>7, <1>8, <2>2 DEF AsTold, Meant
    <3> QED BY <1>5, <1>7, <2>2, <3>1 DEF MarkFits
  <2>3. CASE k # i
    <3>1. t.marks[k] = s.marks[k]
      BY <1>7, <2>3
    <3>2. t.marks[k] = "waiting" => \A j \in Later(k) : j \in DOMAIN t.marks => t.marks[j] = "waiting"
      <4>1. SUFFICES ASSUME s.marks[k] = "waiting", NEW j \in Later(k), j \in DOMAIN s.marks
                     PROVE  t.marks[j] = "waiting"
        BY <1>7, <3>1
      <4>2. s.marks[j] = "waiting"
        BY <2>1, <4>1 DEF MarkFits
      <4>3. j # i
        <5>1. ASSUME j = i PROVE FALSE
          <6>1. k < i /\ log[k].row = log[i].row
            BY <4>1, <5>1 DEF Later
          <6>2. k \in 1..(i - 1)
            <7>1. k # 0
              BY DEF States, Marks
            <7> QED BY <1>1, <2>1, <6>1, <7>1
          <6> QED BY <4>1, <6>1, <6>2 DEF SweptTo
        <5> QED BY <5>1
      <4> QED BY <1>7, <4>1, <4>2, <4>3
    <3>3. AsTold(t, k) \/ s.marks[k] # "applied"
      <4>1. SUFFICES ASSUME s.marks[k] = "applied" PROVE AsTold(t, k)
        OBVIOUS
      <4>2. AsTold(s, k) /\ log[k].row \in DOMAIN s.rows
        BY <2>1, <4>1 DEF MarkFits
      <4>3. CASE log[k].row = Sale
        <5>1. /\ s.rows[Sale].st = "voided" => t.rows[Sale].st = "voided"
              /\ s.rows[Sale].legs = Leg => t.rows[Sale].legs = Leg
          BY <1>5, <1>7, <1>8, <4>2, <4>3
        <5> QED BY <4>2, <4>3, <5>1 DEF AsTold
      <4>4. CASE log[k].row # Sale
        <5>1. CASE log[k].row = r
          <6>1. k < i
            <7>1. ASSUME i < k PROVE FALSE
              <8>1. k \in Later(i)
                BY <2>1, <5>1, <7>1, EventAt DEF Later, Copied, AtTill
              <8>2. MarkFits(s, i)
                BY DEF Copied
              <8> QED BY <4>1, <8>1, <8>2 DEF MarkFits
            <7> QED BY <1>1, <2>1, <2>3, <7>1
          <6>2. i \in Later(k) /\ i \in DOMAIN t.marks /\ t.marks[i] = "applied"
            BY <1>1, <1>7, <5>1, <6>1 DEF Later
          <6> QED BY <2>1, <4>4, <6>2 DEF AsTold, Meant
        <5>2. CASE log[k].row # r
          <6>1. t.rows[log[k].row] = s.rows[log[k].row]
            BY <1>5, <1>7, <4>2, <5>2
          <6>2. i \notin Later(k)
            BY <5>2 DEF Later
          <6>3. \A j \in Later(k) : j \in DOMAIN t.marks => j \in DOMAIN s.marks /\ t.marks[j] = s.marks[j]
            BY <1>7, <6>2
          <6>4. log[k].kind \notin {"order_voided", "order_refunded"}
            BY <2>1, <4>4 DEF Meant
          <6> QED BY <1>7, <4>2, <6>1, <6>3, <6>4 DEF AsTold
        <5> QED BY <5>1, <5>2
      <4> QED BY <4>3, <4>4
    <3> QED BY <1>5, <1>7, <2>1, <3>1, <3>2, <3>3 DEF MarkFits
  <2> QED BY <2>2, <2>3
<1>12. Copied(t)
  BY <1>7, <1>10, <1>11 DEF Copied
<1>13. SweptTo(t, i)
  <2>1. \A k \in 1..i : k = i \/ k \in 1..(i - 1)
    BY <1>1
  <2>2. \A k \in 1..(i - 1) : k \in DOMAIN s.marks /\ k # i
    BY <1>1 DEF States, Marks
  <2> QED BY <1>5, <1>7, <2>1, <2>2 DEF SweptTo
<1> QED BY <1>5, <1>7, <1>12, <1>13

(* Trying one event, in its turn.                                          *)
LEMMA ApplyKeeps ==
  ASSUME Typed, AtTill, NEW s \in States, Copied(s), NEW i \in DOMAIN s.marks, SweptTo(s, i - 1),
         NEW t, t = ApplyEvent(s, i)
  PROVE  /\ t \in States /\ Copied(t) /\ DOMAIN t.rows = DOMAIN s.rows /\ t.refused = s.refused
         /\ Len(t.marks) = Len(s.marks) /\ SweptTo(t, i)
<1>1. CASE s.marks[i] # "waiting" \/ log[i].row \notin DOMAIN s.rows
  <2>1. t = s
    BY <1>1 DEF ApplyEvent
  <2>2. \A k \in 1..i : k = i \/ k \in 1..(i - 1)
    BY DEF States, Marks
  <2> QED BY <1>1, <2>1, <2>2 DEF SweptTo
<1>2. CASE s.marks[i] = "waiting" /\ log[i].row \in DOMAIN s.rows
  <2>1. CASE log[i].kind = "day_reopened" /\ OpenClash(s.rows, log[i].row)
    <3>1. t = [s EXCEPT !.marks[i] = "refused"]
      BY <1>2, <2>1 DEF ApplyEvent
    <3> QED BY <1>2, <2>1, <3>1, RefuseKeeps
  <2>2. CASE ~(log[i].kind = "day_reopened" /\ OpenClash(s.rows, log[i].row))
    <3>1. t = [s EXCEPT !.rows[log[i].row] = Changed(@, log[i]), !.marks[i] = "applied"]
      BY <1>2, <2>2 DEF ApplyEvent
    <3>2. t = Applied(s, i)
      BY <3>1 DEF Applied
    <3> QED BY <1>2, <3>2, ApplyChanges
  <2> QED BY <2>1, <2>2
<1> QED BY <1>1, <1>2

(* A sweep leaves no event waiting whose row is here.                      *)
LEMMA SweepKeeps ==
  ASSUME Typed, AtTill, NEW s \in States, Copied(s)
  PROVE  /\ Sweep(s) \in States /\ Copied(Sweep(s)) /\ Swept(Sweep(s)) /\ Sweep(s).refused = s.refused
         /\ DOMAIN Sweep(s).rows = DOMAIN s.rows /\ Len(Sweep(s).marks) = Len(s.marks)
<1> DEFINE n == Len(s.marks)
<1>1. n \in Nat /\ DOMAIN s.marks = 1..n
  BY DEF States, Marks
<1>2. PICK f : Sweep(s) = f[n] /\ f[0] = s /\ \A k \in 1..n : f[k] = ApplyEvent(f[k - 1], k)
  BY <1>1, SweepSteps
<1> HIDE DEF n
<1> DEFINE Fine(t, k) == /\ t \in States /\ Copied(t) /\ t.refused = s.refused /\ SweptTo(t, k)
                         /\ DOMAIN t.rows = DOMAIN s.rows /\ Len(t.marks) = n
           T == {k \in Nat : k <= n => Fine(f[k], k)}
<1>3. 0 \in T
  <2>1. SweptTo(s, 0)
    BY DEF SweptTo
  <2> QED BY <1>2, <2>1 DEF n
<1>4. ASSUME NEW k \in Nat, k \in T PROVE k + 1 \in T
  <2>1. SUFFICES ASSUME k + 1 <= n PROVE Fine(f[k + 1], k + 1)
    OBVIOUS
  <2>2. Fine(f[k], k) /\ k + 1 \in 1..n /\ (k + 1) - 1 = k
    BY <1>1, <1>4, <2>1
  <2>3. f[k + 1] = ApplyEvent(f[k], k + 1)
    BY <1>2, <2>2
  <2>4. k + 1 \in DOMAIN f[k].marks
    BY <2>2 DEF States, Marks
  <2> QED BY <2>2, <2>3, <2>4, ApplyKeeps
<1> HIDE DEF T
<1>5. n \in T
  BY <1>1, <1>3, <1>4, Induction
<1>6. Fine(f[n], n)
  BY <1>1, <1>5 DEF T
<1> QED BY <1>2, <1>6 DEF Swept, n

-----------------------------------------------------------------------------
(* A replica takes rows and events.                                        *)

(* An event that arrives is stored and waits.                              *)
LEMMA EventTaken ==
  ASSUME Typed, LogMeant, NEW s \in States, Copied(s), NEW item \in QueueRow, item.row \in 1..Len(log)
  PROVE  TakeEvent(s, item) \in States /\ Copied(TakeEvent(s, item)) /\ TakeEvent(s, item).refused = s.refused
<1>1. CASE item.row <= Len(s.marks)
  BY <1>1 DEF TakeEvent
<1>2. CASE ~(item.row <= Len(s.marks))
  <2> DEFINE m == Append(s.marks, "waiting")
             t == [rows |-> s.rows, marks |-> m, refused |-> s.refused]
  <2>1. TakeEvent(s, item) = t
    BY <1>2 DEF TakeEvent, States
  <2>2. s.marks \in Seq({"waiting", "applied", "refused"}) /\ log \in Seq(EventRow) /\
            s.rows \in Rows /\ s.refused \in Seq(QueueRow)
    BY DEF States, Marks, Typed
  <2>3. Len(s.marks) \in Nat /\ Len(log) \in Nat /\ item.row \in Nat
    BY <2>2 DEF QueueRow
  <2>4. /\ m \in Seq({"waiting", "applied", "refused"}) /\ Len(m) = Len(s.marks) + 1
        /\ DOMAIN m = DOMAIN s.marks \cup {Len(s.marks) + 1}
        /\ m[Len(s.marks) + 1] = "waiting" /\ \A k \in DOMAIN s.marks : m[k] = s.marks[k]
    BY <2>2
  <2> HIDE DEF m
  <2>5. t \in States
    BY <2>2, <2>4 DEF States, Marks
  <2>6. Len(m) <= Len(log)
    BY <1>2, <2>3, <2>4
  <2>7. ASSUME NEW k \in DOMAIN m PROVE MarkFits(t, k)
    <3>1. CASE k = Len(s.marks) + 1
      <4>1. \A j \in Later(k) : j \notin DOMAIN m
        <5>1. \A j \in DOMAIN log : j \in Nat
          BY <2>2
        <5>2. DOMAIN m = 1..Len(m)
          BY <2>4
        <5> QED BY <2>3, <2>4, <3>1, <5>1, <5>2 DEF Later
      <4> QED BY <2>4, <3>1, <4>1 DEF MarkFits
    <3>2. CASE k \in DOMAIN s.marks
      <4>1. MarkFits(s, k) /\ m[k] = s.marks[k]
        BY <2>4, <3>2 DEF Copied
      <4>2. m[k] = "waiting" => \A j \in Later(k) : j \in DOMAIN m => m[j] = "waiting"
        BY <2>4, <4>1 DEF MarkFits
      <4>3. AsTold(s, k) => AsTold(t, k)
        <5>1. \A j \in DOMAIN s.marks : j \in DOMAIN m /\ m[j] = s.marks[j]
          BY <2>4
        <5> QED BY <5>1 DEF AsTold
      <4> QED BY <4>1, <4>2, <4>3 DEF MarkFits
    <3> QED BY <2>4, <3>1, <3>2
  <2>8. Copied(t)
    BY <2>6, <2>7 DEF Copied
  <2> QED BY <2>1, <2>5, <2>8
<1> QED BY <1>1, <1>2

(* A replica whose rows are the same, or more, or say more of the sale.    *)
LEMMA MoreRows ==
  ASSUME Typed, LogMeant, NEW s \in States, Copied(s), NEW rows \in Rows, NEW r \in Row,
         DOMAIN rows = DOMAIN s.rows \cup {r}, Sound(r, rows[r]),
         \A q \in DOMAIN s.rows \ {r} : rows[q] = s.rows[q],
         r \in DOMAIN s.rows => /\ r = Sale /\ s.rows[Sale].st = rows[Sale].st
                                /\ s.rows[Sale].legs \subseteq rows[Sale].legs,
         NEW t, t = [rows |-> rows, marks |-> s.marks, refused |-> s.refused]
  PROVE  t \in States /\ Copied(t)
<1>1. t \in States
  BY DEF States
<1>2. \A q \in DOMAIN rows : Sound(q, rows[q])
  BY DEF Copied
<1>3. ASSUME NEW k \in DOMAIN s.marks PROVE MarkFits(t, k)
  <2>1. MarkFits(s, k) /\ Meant(log[k])
    BY EventAt DEF Copied
  <2>2. SUFFICES ASSUME s.marks[k] = "applied" PROVE AsTold(t, k)
    BY <2>1 DEF MarkFits
  <2>3. AsTold(s, k) /\ log[k].row \in DOMAIN s.rows
    BY <2>1, <2>2 DEF MarkFits
  <2>4. CASE log[k].row = Sale
    <3>1. /\ s.rows[Sale].st = "voided" => rows[Sale].st = "voided"
          /\ s.rows[Sale].legs = Leg => rows[Sale].legs = Leg
      <4>1. CASE r # Sale
        BY <2>3, <2>4, <4>1
      <4>2. CASE r = Sale
        <5>1. rows[Sale].legs \subseteq Leg
          BY <4>2 DEF Sound, Value
        <5> QED BY <2>3, <2>4, <4>2, <5>1
      <4> QED BY <4>1, <4>2
    <3> QED BY <2>3, <2>4, <3>1 DEF AsTold
  <2>5. CASE log[k].row # Sale
    <3>1. rows[log[k].row] = s.rows[log[k].row] /\ log[k].kind \notin {"order_voided", "order_refunded"}
      BY <2>1, <2>3, <2>5 DEF Meant
    <3> QED BY <2>3, <3>1 DEF AsTold
  <2> QED BY <2>4, <2>5
<1> QED BY <1>1, <1>2, <1>3 DEF Copied

(* TakeRow has one of four outcomes.                                       *)
Holding(s, rows) == [rows |-> rows, marks |-> s.marks, refused |-> s.refused]
Turning(s, item) == [rows |-> s.rows, marks |-> s.marks, refused |-> Append(s.refused, item)]
(* What may become of a row that arrives: already held, a sale's payments  *)
(* repaired, refused, or new.                                              *)
LEMMA TakeRowIs ==
  ASSUME NEW s \in States, NEW item
  PROVE  \/ TakeRow(s, item) = s
         \/ item.row = Sale /\ Sale \in DOMAIN s.rows /\ TakeRow(s, item) = Holding(s, Repaired(s.rows, item.value))
         \/ TakeRow(s, item) = Turning(s, item)
         \/ item.row \notin DOMAIN s.rows /\ TakeRow(s, item) = Holding(s, With(s.rows, item.row, item.value))
<1>1. s = [rows |-> s.rows, marks |-> s.marks, refused |-> s.refused]
  BY DEF States
<1>2. CASE item.row \in DOMAIN s.rows /\ item.row # Sale
  <2>1. TakeRow(s, item) = [s EXCEPT !.rows = s.rows]
    BY <1>2 DEF TakeRow
  <2> QED BY <1>1, <2>1
<1>3. CASE item.row \in DOMAIN s.rows /\ item.row = Sale
  <2>1. TakeRow(s, item) = [s EXCEPT !.rows = Repaired(s.rows, item.value)]
    BY <1>3 DEF TakeRow
  <2> QED BY <1>1, <1>3, <2>1 DEF Holding
<1>4. CASE item.row \notin DOMAIN s.rows /\ item.value.st = "open" /\ OpenClash(s.rows, item.row)
  <2>1. TakeRow(s, item) = [s EXCEPT !.refused = Append(s.refused, item)]
    BY <1>4 DEF TakeRow
  <2> QED BY <1>1, <2>1 DEF Turning
<1>5. CASE item.row \notin DOMAIN s.rows /\ ~(item.value.st = "open" /\ OpenClash(s.rows, item.row))
  <2>1. TakeRow(s, item) = [s EXCEPT !.rows = With(s.rows, item.row, item.value)]
    BY <1>5 DEF TakeRow
  <2> QED BY <1>1, <1>5, <2>1 DEF Holding
<1> QED BY <1>2, <1>3, <1>4, <1>5

(* A sound row is of the till, and has a value.                            *)
LEMMA SoundRowIs ==
  ASSUME Typed, NEW r, NEW v, Sound(r, v)
  PROVE  r \in Row /\ v \in Value
BY DEF Typed, Rows, Sound

(* A row that arrives disturbs no event applied to it: those wait for it.  *)
LEMMA RowTaken ==
  ASSUME Typed, LogMeant, NEW s \in States, Copied(s), SoundRows(s.refused),
         NEW item \in QueueRow, ~item.isEvent, SoundItem(item), NEW t, t = TakeRow(s, item)
  PROVE  t \in States /\ Copied(t) /\ SoundRows(t.refused)
<1>1. Sound(item.row, item.value) /\ item.row \in Row /\ item.value \in Value
  BY SoundRowIs DEF SoundItem
<1>2. s.rows \in Rows /\ s.marks \in Marks /\ s.refused \in Seq(QueueRow)
  BY DEF States
<1>3. CASE t = s
  BY <1>3
<1>4. CASE item.row = Sale /\ Sale \in DOMAIN s.rows /\ t = Holding(s, Repaired(s.rows, item.value))
  <2> DEFINE v == [s.rows[Sale] EXCEPT !.legs = @ \cup item.value.legs]
  <2>1. Sound(Sale, s.rows[Sale]) /\ s.rows[Sale] \in Value
    BY <1>4 DEF Copied, Sound
  <2>2. /\ v \in Value /\ v.st = s.rows[Sale].st /\ v.cashUps = s.rows[Sale].cashUps
        /\ v.legs = s.rows[Sale].legs \cup item.value.legs
    BY <1>1, <2>1 DEF Value
  <2>3. Repaired(s.rows, item.value) = [s.rows EXCEPT ![Sale] = v]
    BY DEF Repaired
  <2> HIDE DEF v
  <2>4. PICK rows : rows = [s.rows EXCEPT ![Sale] = v]
    OBVIOUS
  <2>5. /\ rows \in Rows /\ DOMAIN rows = DOMAIN s.rows /\ rows[Sale] = v
        /\ \A q \in DOMAIN s.rows \ {Sale} : rows[q] = s.rows[q]
    BY <1>2, <1>4, <2>2, <2>4, ChangedRows
  <2>6. Sound(Sale, v)
    BY <1>1, <1>4, <2>1, <2>2 DEF Sound
  <2>7. t = [rows |-> rows, marks |-> s.marks, refused |-> s.refused]
    BY <1>4, <2>3, <2>4 DEF Holding
  <2>8. t \in States /\ Copied(t)
    <3>1. Sale \in Row
      BY <1>1, <1>4
    <3>2. DOMAIN rows = DOMAIN s.rows \cup {Sale}
      BY <1>4, <2>5
    <3>3. s.rows[Sale].st = rows[Sale].st /\ s.rows[Sale].legs \subseteq rows[Sale].legs
      BY <2>2, <2>5
    <3> QED BY <2>5, <2>6, <2>7, <3>1, <3>2, <3>3, MoreRows
  <2> QED BY <2>7, <2>8
<1>5. CASE t = Turning(s, item)
  <2> DEFINE q == Append(s.refused, item)
  <2>1. q \in Seq(QueueRow) /\ SoundRows(q)
    <3>1. \A k \in DOMAIN q : q[k] = item \/ (k \in DOMAIN s.refused /\ q[k] = s.refused[k])
      BY <1>2
    <3>2. q \in Seq(QueueRow)
      BY <1>2
    <3> HIDE DEF q
    <3> QED BY <3>1, <3>2 DEF SoundRows
  <2>2. t = [rows |-> s.rows, marks |-> s.marks, refused |-> q]
    BY <1>5 DEF Turning
  <2> HIDE DEF q
  <2>3. t \in States
    BY <1>2, <2>1, <2>2 DEF States
  <2>4. Copied(t)
    <3>1. \A k \in DOMAIN s.marks : MarkFits(s, k) => MarkFits(t, k)
      BY <2>2 DEF MarkFits, AsTold
    <3> QED BY <2>2, <3>1 DEF Copied
  <2> QED BY <2>1, <2>2, <2>3, <2>4
<1>6. CASE item.row \notin DOMAIN s.rows /\ t = Holding(s, With(s.rows, item.row, item.value))
  <2>1. PICK rows : rows = With(s.rows, item.row, item.value)
    OBVIOUS
  <2>2. /\ rows \in Rows /\ DOMAIN rows = DOMAIN s.rows \cup {item.row} /\ rows[item.row] = item.value
        /\ \A q \in DOMAIN s.rows \ {item.row} : rows[q] = s.rows[q]
    <3>1. PICK old \in Rows, r \in Row, v \in Value : old = s.rows /\ r = item.row /\ v = item.value
      BY <1>1, <1>2
    <3>2. /\ With(old, r, v) \in Rows /\ DOMAIN With(old, r, v) = DOMAIN old \cup {r} /\ With(old, r, v)[r] = v
          /\ \A q \in DOMAIN old \ {r} : With(old, r, v)[q] = old[q]
      BY WithRows
    <3> QED BY <2>1, <3>1, <3>2
  <2>3. t = [rows |-> rows, marks |-> s.marks, refused |-> s.refused]
    BY <1>6, <2>1 DEF Holding
  <2>4. t \in States /\ Copied(t)
    BY <1>1, <1>6, <2>2, <2>3, MoreRows
  <2> QED BY <2>3, <2>4
<1> QED BY <1>3, <1>4, <1>5, <1>6, TakeRowIs

(* A state a replica may be in.                                            *)
Fitting(u) == u \in States /\ Copied(u) /\ SoundRows(u.refused)

(* Taking a batch of rows and events: every state on the way is fine.      *)
LEMMA TakeRun ==
  ASSUME Typed, LogMeant, NEW s \in States, Copied(s), NEW items \in Seq(QueueRow), SoundItems(items)
  PROVE  \E f : /\ Take(s, items) = f[Len(items)] /\ f[0] = Cleared(s) /\ \A k \in 0..Len(items) : Fitting(f[k])
               /\ \A k \in 1..Len(items) : f[k] = TakeItem(f[k - 1], items[k])
<1> DEFINE n == Len(items)
           b == Cleared(s)
<1>1. n \in Nat /\ DOMAIN items = 1..n
  OBVIOUS
<1>2. PICK f : /\ Take(s, items) = f[Len(items)] /\ f[0] = Cleared(s)
               /\ \A k \in 1..Len(items) : f[k] = TakeItem(f[k - 1], items[k])
  <2>1. Len(items) \in Nat
    BY <1>1
  <2> QED BY <2>1, TakeSteps
<1>3. Fitting(b)
  <2>1. b = [rows |-> s.rows, marks |-> s.marks, refused |-> <<>>] /\ <<>> \in Seq(QueueRow)
    BY DEF States, Cleared
  <2> HIDE DEF b
  <2>2. b \in States
    BY <2>1 DEF States
  <2>3. Copied(b)
    <3>1. \A k \in DOMAIN s.marks : MarkFits(s, k) => MarkFits(b, k)
      BY <2>1 DEF MarkFits, AsTold
    <3> QED BY <2>1, <3>1 DEF Copied
  <2> QED BY <2>1, <2>2, <2>3 DEF SoundRows, Fitting
<1> HIDE DEF b
<1>4. ASSUME NEW u, Fitting(u), NEW k \in 1..n PROVE Fitting(TakeItem(u, items[k]))
  <2>1. items[k] \in QueueRow /\ SoundItem(items[k])
    BY <1>1 DEF SoundItems
  <2>2. CASE items[k].isEvent
    <3>1. TakeItem(u, items[k]) = TakeEvent(u, items[k]) /\ items[k].row \in 1..Len(log)
      BY <2>1, <2>2 DEF TakeItem, SoundItem
    <3> QED BY <1>4, <2>1, <3>1, EventTaken DEF Fitting
  <2>3. CASE ~items[k].isEvent
    <3>1. TakeItem(u, items[k]) = TakeRow(u, items[k])
      BY <2>3 DEF TakeItem
    <3> QED BY <1>4, <2>1, <2>3, <3>1, RowTaken DEF Fitting
  <2> QED BY <2>2, <2>3
<1> HIDE DEF n
<1> DEFINE T == {k \in Nat : k <= n => Fitting(f[k])}
<1>5. 0 \in T
  <2>1. Fitting(f[0])
    BY <1>2, <1>3 DEF b
  <2> QED BY <2>1
<1>6. ASSUME NEW k \in Nat, k \in T PROVE k + 1 \in T
  <2>1. SUFFICES ASSUME k + 1 <= n PROVE Fitting(f[k + 1])
    OBVIOUS
  <2>2. Fitting(f[k]) /\ k + 1 \in 1..n /\ (k + 1) - 1 = k
    BY <1>1, <1>6, <2>1
  <2>3. f[k + 1] = TakeItem(f[k], items[k + 1])
    BY <1>2, <2>2 DEF n
  <2> QED BY <1>4, <2>2, <2>3
<1> HIDE DEF T
<1>7. Nat \subseteq T
  BY <1>5, <1>6, Induction
<1>8. ASSUME NEW k \in 0..n PROVE Fitting(f[k])
  <2>1. k \in T /\ k <= n
    BY <1>1, <1>7
  <2> QED BY <2>1 DEF T
<1> QED BY <1>2, <1>8 DEF n

(* So is the last.                                                         *)
LEMMA TakeKeeps ==
  ASSUME Typed, LogMeant, NEW s \in States, Copied(s), NEW items \in Seq(QueueRow), SoundItems(items),
         NEW t, t = Take(s, items)
  PROVE  t \in States /\ Copied(t) /\ SoundRows(t.refused)
<1>1. PICK f : Take(s, items) = f[Len(items)] /\ \A k \in 0..Len(items) : Fitting(f[k])
  BY TakeRun
<1>2. Len(items) \in 0..Len(items)
  OBVIOUS
<1> QED BY <1>1, <1>2 DEF Fitting

-----------------------------------------------------------------------------
(* The rows on the way.                                                    *)

(* A function on 1..n is a sequence.                                       *)
LEMMA Listed ==
  ASSUME NEW S, NEW n \in Int, NEW f \in [1..n -> S]
  PROVE  f \in Seq(S)
<1>1. CASE n >= 0
  BY <1>1
<1>2. CASE n < 0
  <2>1. 1..n = {} /\ 1..0 = {}
    BY <1>2
  <2>2. f \in [1..0 -> S]
    BY <2>1
  <2> QED BY <2>2
<1> QED BY <1>1, <1>2

(* The beginning of a sequence.                                            *)
LEMMA Prefix ==
  ASSUME NEW S, NEW q \in Seq(S), NEW m \in Nat, m <= Len(q), NEW p, p = SubSeq(q, 1, m)
  PROVE  p \in Seq(S) /\ DOMAIN p = 1..m /\ \A k \in 1..m : k \in DOMAIN q /\ p[k] = q[k]
<1>1. p = [k \in 1..m |-> q[k]]
  BY DEF SubSeq
<1>2. \A k \in 1..m : k \in DOMAIN q /\ q[k] \in S
  OBVIOUS
<1> QED BY <1>1, <1>2, Listed

(* What two sequences, one after the other, have in them.                  *)
LEMMA Joined ==
  ASSUME NEW S, NEW p \in Seq(S), NEW q \in Seq(S), NEW x \in ToSet(p \o q)
  PROVE  x \in ToSet(p) \cup ToSet(q)
<1>1. PICK k \in DOMAIN (p \o q) : x = (p \o q)[k]
  BY DEF ToSet
<1>2. Len(p) \in Nat /\ Len(q) \in Nat /\ k \in 1..(Len(p) + Len(q))
  BY <1>1
<1>3. CASE k <= Len(p)
  BY <1>1, <1>2, <1>3 DEF ToSet
<1>4. CASE k > Len(p)
  <2>1. k - Len(p) \in 1..Len(q) /\ x = q[k - Len(p)]
    BY <1>1, <1>2, <1>4
  <2> QED BY <2>1 DEF ToSet
<1> QED BY <1>2, <1>3, <1>4

(* A queue row when it is made.                                            *)
LEMMA ItemIs ==
  ASSUME NEW isEvent \in BOOLEAN, NEW n \in Nat, NEW v \in Value
  PROVE  /\ Item(isEvent, n, v) \in QueueRow
         /\ Item(isEvent, n, v).isEvent = isEvent /\ Item(isEvent, n, v).row = n /\ Item(isEvent, n, v).value = v
         /\ Item(isEvent, n, v).att = 0
BY BoundsAssumption DEF Item, QueueRow

(* Rows of S with the values in rows, then events from + 1 to upto.        *)
Rowing(rows, S, from, upto, events) ==
    LET nums == InOrder(S, MaxDays) IN
    [i \in DOMAIN nums |-> Item(FALSE, nums[i], rows[nums[i]])]
    \o [i \in 1..upto - from |-> Item(TRUE, from + i, events[from + i].value)]

(* The rows and events on offer are rows of the set given, as they are,    *)
(* and events of the log.                                                  *)
LEMMA RowingIs ==
  ASSUME NEW rows \in Rows, NEW S \in SUBSET DOMAIN rows, NEW from \in Nat, NEW upto \in Nat,
         NEW events \in Seq(EventRow), upto <= Len(events),
         NEW q, q = Rowing(rows, S, from, upto, events)
  PROVE  /\ q \in Seq(QueueRow)
         /\ \A x \in ToSet(q) :
               /\ x.att = 0
               /\ \/ ~x.isEvent /\ x.row \in S /\ x.value = rows[x.row]
                  \/ x.isEvent /\ x.row \in 1..Len(events)
<1> DEFINE nums == InOrder(S, MaxDays)
           a == [i \in DOMAIN nums |-> Item(FALSE, nums[i], rows[nums[i]])]
           b == [i \in 1..upto - from |-> Item(TRUE, from + i, events[from + i].value)]
<1>1. MaxDays \in Nat
  BY BoundsAssumption
<1>2. nums \in Seq(S \cap (0..MaxDays))
  BY <1>1, InOrderIn
<1>3. ASSUME NEW i \in DOMAIN nums
      PROVE  /\ nums[i] \in S /\ nums[i] \in Nat /\ rows[nums[i]] \in Value
  BY <1>2, RowsAre
<1> HIDE DEF nums
<1>4. a \in Seq(QueueRow) /\ DOMAIN a = DOMAIN nums
  <2>1. PICK n \in Nat : DOMAIN nums = 1..n
    BY <1>2
  <2>2. \A i \in DOMAIN nums : Item(FALSE, nums[i], rows[nums[i]]) \in QueueRow
    BY <1>3, ItemIs
  <2>3. a \in [1..n -> QueueRow]
    BY <2>1, <2>2
  <2> HIDE DEF a
  <2>4. a \in Seq(QueueRow)
    BY <2>3, Listed
  <2> QED BY <2>1, <2>3, <2>4
<1>5. ASSUME NEW i \in 1..upto - from
      PROVE  from + i \in 1..Len(events) /\ from + i \in Nat /\ events[from + i].value \in Value
  <2>1. from + i \in 1..Len(events) /\ from + i \in Nat
    OBVIOUS
  <2>2. events[from + i] \in EventRow
    BY <2>1
  <2> QED BY <2>1, <2>2 DEF EventRow
<1>6. b \in Seq(QueueRow)
  <2>1. \A i \in 1..upto - from : Item(TRUE, from + i, events[from + i].value) \in QueueRow
    BY <1>5, ItemIs
  <2>2. b \in [1..upto - from -> QueueRow]
    BY <2>1
  <2> HIDE DEF b
  <2> QED BY <2>2, Listed
<1>7. q = a \o b
  BY DEF Rowing, nums
<1>8. ASSUME NEW x \in ToSet(a) PROVE x.att = 0 /\ ~x.isEvent /\ x.row \in S /\ x.value = rows[x.row]
  <2>1. PICK i \in DOMAIN nums : x = a[i]
    <3> HIDE DEF a
    <3> QED BY <1>4, <1>8 DEF ToSet
  <2>2. PICK n \in Nat, v \in Value : n = nums[i] /\ v = rows[n] /\ x = Item(FALSE, n, v)
    BY <1>3, <2>1
  <2>3. x.isEvent = FALSE /\ x.row = n /\ x.value = v /\ x.att = 0
    BY <2>2 DEF Item
  <2>4. n \in S
    BY <1>3, <2>2
  <2> QED BY <2>2, <2>3, <2>4
<1>9. ASSUME NEW x \in ToSet(b) PROVE x.att = 0 /\ x.isEvent /\ x.row \in 1..Len(events)
  <2>1. PICK i \in 1..upto - from : x = b[i]
    <3>1. DOMAIN b = 1..upto - from
      OBVIOUS
    <3> HIDE DEF b
    <3> QED BY <1>9, <3>1 DEF ToSet
  <2>2. PICK n \in 1..Len(events), v \in Value : x = Item(TRUE, n, v) /\ n \in Nat
    BY <1>5, <2>1
  <2> QED BY <2>2, ItemIs, ZenonT(60)
<1> HIDE DEF a, b
<1>10. q \in Seq(QueueRow)
  BY <1>4, <1>6, <1>7
<1>11. \A x \in ToSet(q) : x \in ToSet(a) \cup ToSet(b)
  BY <1>4, <1>6, <1>7, Joined
<1> QED BY <1>8, <1>9, <1>10, <1>11

(* What a request carries is pending in the queue.                         *)
LEMMA BatchIs ==
  ASSUME Typed
  PROVE  /\ Batch \in Seq(DOMAIN queue) /\ \A k \in DOMAIN Batch : queue[Batch[k]].st = "pending"
         /\ Sending \in Seq(QueueRow) /\ ToSet(Sending) \subseteq ToSet(queue)
<1> DEFINE P == {i \in DOMAIN queue : queue[i].st = "pending"}
           q == InOrder(P, Len(queue))
           m == IF Len(q) < BatchRows THEN Len(q) ELSE BatchRows
<1>1. queue \in Seq(QueueRow) /\ Len(queue) \in Nat
  BY DEF Typed
<1>2. q \in Seq(P \cap (0..Len(queue)))
  BY <1>1, InOrderIn
<1>3. Batch = SubSeq(q, 1, m)
  BY DEF Batch
<1> HIDE DEF q
<1>4. q \in Seq(P)
  BY <1>2
<1>5. m \in Nat /\ m <= Len(q)
  BY <1>2, BoundsAssumption
<1> HIDE DEF m, P
<1>6. Batch \in Seq(P) /\ DOMAIN Batch = 1..m
  BY <1>3, <1>4, <1>5, Prefix
<1>7. ASSUME NEW k \in DOMAIN Batch
      PROVE  Batch[k] \in DOMAIN queue /\ queue[Batch[k]].st = "pending" /\ queue[Batch[k]] \in QueueRow
  <2>1. Batch[k] \in P
    <3>1. k \in 1..m /\ k \in DOMAIN q /\ Batch[k] = q[k]
      BY <1>3, <1>4, <1>5, <1>6, Prefix
    <3> QED BY <1>4, <3>1
  <2>2. Batch[k] \in DOMAIN queue /\ queue[Batch[k]].st = "pending"
    BY <2>1 DEF P
  <2> QED BY <1>1, <2>2
<1>8. Sending = [i \in 1..m |-> queue[Batch[i]]]
  BY <1>6 DEF Sending
<1>9. Sending \in Seq(QueueRow)
  <2>1. Sending \in [1..m -> QueueRow]
    BY <1>6, <1>7, <1>8
  <2> QED BY <1>5, <2>1, Listed
<1>10. ToSet(Sending) \subseteq ToSet(queue)
  BY <1>6, <1>7, <1>8 DEF ToSet
<1> QED BY <1>6, <1>7, <1>9, <1>10 DEF P

-----------------------------------------------------------------------------
(* The till's days and its sale.                                           *)

(* The log only grows, and the sale only gets further.                     *)
Grown ==
    /\ DOMAIN own \subseteq DOMAIN own'
    /\ Len(log) <= Len(log') /\ DOMAIN log \subseteq DOMAIN log'
    /\ \A i \in DOMAIN log : log'[i] = log[i]
    /\ Sale \in DOMAIN own =>
          /\ own[Sale].legs \subseteq own'[Sale].legs
          /\ own[Sale].st = "voided" => own'[Sale].st = "voided"

(* The log with one more event.                                            *)
LEMMA LogGrows ==
  ASSUME log \in Seq(EventRow), NEW e \in EventRow, log' = Append(log, e)
  PROVE  /\ log' \in Seq(EventRow) /\ Len(log') = Len(log) + 1 /\ Len(log) \in Nat
         /\ DOMAIN log = 1..Len(log) /\ DOMAIN log' = DOMAIN log \cup {Len(log) + 1}
         /\ log'[Len(log) + 1] = e /\ \A i \in DOMAIN log : log'[i] = log[i]
OBVIOUS

(* A sound value stays so.                                                 *)
LEMMA SoundGrows ==
  ASSUME Grown, NEW r, NEW v, Sound(r, v)
  PROVE  Sound(r, v)'
<1>1. NoEvent(r)' => NoEvent(r)
  BY DEF Grown, NoEvent
<1> QED BY <1>1 DEF Grown, Sound

(* A sound queue row stays so.                                             *)
LEMMA ItemGrows ==
  ASSUME Typed, Typed', Grown, NEW x \in QueueRow, SoundItem(x)
  PROVE  SoundItem(x)'
<1>1. CASE x.isEvent
  <2>1. Len(log) \in Nat /\ Len(log') \in Nat /\ Len(log) <= Len(log')
    BY DEF Typed, Grown
  <2> QED BY <1>1, <2>1 DEF SoundItem
<1>2. CASE ~x.isEvent
  BY <1>2, SoundGrows DEF SoundItem
<1> QED BY <1>1, <1>2

(* What a replica has stays right: the till has only told more.            *)
LEMMA CopyGrows ==
  ASSUME Typed, Typed', Grown, NEW s \in States, Copied(s), Swept(s)
  PROVE  Copied(s)' /\ Swept(s)'
<1>1. Len(log) \in Nat /\ Len(log') \in Nat /\ Len(log) <= Len(log') /\ Len(s.marks) \in Nat /\
          Len(s.marks) <= Len(log)
  BY DEF Typed, Grown, States, Marks, Copied
<1>2. \A i \in DOMAIN s.marks : i \in DOMAIN log /\ log'[i] = log[i]
  BY <1>1 DEF Typed, Grown, States, Marks
<1>3. \A r \in DOMAIN s.rows : Sound(r, s.rows[r])'
  BY SoundGrows DEF Copied
<1>4. ASSUME NEW i \in DOMAIN s.marks PROVE MarkFits(s, i)'
  <2>1. MarkFits(s, i) /\ i \in DOMAIN log /\ log'[i] = log[i]
    BY <1>2 DEF Copied
  <2>2. \A j \in DOMAIN s.marks : j \in Later(i)' <=> j \in Later(i)
    BY <1>2, <2>1 DEF Later, Grown
  <2>3. Later(i) # {} => Later(i)' # {}
    BY <2>1 DEF Later, Grown
  <2>4. AsTold(s, i) => AsTold(s, i)'
    BY <2>1, <2>2 DEF AsTold
  <2> QED BY <2>1, <2>2, <2>3, <2>4 DEF MarkFits
<1>5. Copied(s)'
  BY <1>1, <1>3, <1>4 DEF Copied
<1>6. Swept(s)'
  <2>1. \A i \in 1..Len(s.marks) : log'[i] = log[i]
    BY <1>2 DEF States, Marks
  <2> QED BY <2>1 DEF Swept, SweptTo
<1> QED BY <1>5, <1>6

(* A step at the till leaves what is elsewhere as good as it was.          *)
LEMMA TillStep ==
  ASSUME RowsInv, Grown, Typed', AtTill',
         UNCHANGED <<copy, ev, quar>>,
         \A x \in QueueRow : x \in ToSet(queue)' =>
            \/ x \in ToSet(queue)
            \/ SoundItem(x)' /\ (x.st = "pending" => x.att < MaxAttempts)
  PROVE  RowsInv'
<1>1. Typed /\ OnTheWay /\ AtReplicas
  BY DEF RowsInv
<1>2. \A x \in QueueRow : SoundItem(x) => SoundItem(x)'
  BY <1>1, ItemGrows
<1>3. OnTheWay'
  BY <1>1, <1>2 DEF OnTheWay
<1>4. AtReplicas'
  <2>1. \A x \in Replica : State(x)' = State(x)
    BY DEF State
  <2>2. ASSUME NEW x \in Replica, NEW s \in States, s = State(x)'
        PROVE  Copied(s)' /\ Swept(s)'
    <3>1. Copied(s) /\ Swept(s)
      BY <1>1, <2>1, <2>2 DEF AtReplicas
    <3> QED BY <1>1, <3>1, CopyGrows
  <2> QED BY <2>2 DEF AtReplicas
<1> QED BY <1>3, <1>4 DEF RowsInv

(* A day that nothing happens to.                                          *)
LEMMA DayStays ==
  ASSUME Typed, NEW d, DayTold(d), own'[d] = own[d], own[d] \in Value,
         reopens' \in Nat, reopens <= reopens',
         \/ log' = log
         \/ \E e \in EventRow : e.row # d /\ log' = Append(log, e)
  PROVE  DayTold(d)'
<1>1. own[d].cashUps \in Nat /\ reopens \in Nat
  BY BoundsAssumption DEF Value, Typed
<1>2. own'[d].cashUps <= reopens' + (IF own'[d].st = "closed" THEN 1 ELSE 0)
  BY <1>1 DEF DayTold
<1>3. CASE log' = log
  <2>1. NoEvent(d)' <=> NoEvent(d)
    BY <1>3 DEF NoEvent
  <2>2. \A i \in DOMAIN log : Later(i)' = Later(i)
    BY <1>3 DEF Later
  <2> QED BY <1>2, <1>3, <2>1, <2>2 DEF DayTold
<1>4. ASSUME NEW e \in EventRow, e.row # d, log' = Append(log, e) PROVE DayTold(d)'
  <2> DEFINE n == Len(log)
  <2>1. /\ n \in Nat /\ DOMAIN log = 1..n /\ DOMAIN log' = DOMAIN log \cup {n + 1}
        /\ log'[n + 1] = e /\ \A i \in DOMAIN log : log'[i] = log[i]
    BY <1>4, LogGrows DEF Typed
  <2> HIDE DEF n
  <2>2. NoEvent(d)' => NoEvent(d)
    BY <2>1 DEF NoEvent
  <2>3. ASSUME NEW i \in DOMAIN log', log'[i].row = d, Later(i)' = {} PROVE own'[d] = log'[i].value
    <3>1. i \in DOMAIN log /\ log'[i] = log[i]
      BY <1>4, <2>1, <2>3
    <3>2. Later(i) = {}
      <4>1. \A j \in Later(i) : j \in Later(i)'
        BY <2>1, <3>1 DEF Later
      <4> QED BY <2>3, <4>1
    <3> QED BY <2>3, <3>1, <3>2 DEF DayTold
  <2> QED BY <1>2, <2>2, <2>3 DEF DayTold
<1> QED BY <1>3, <1>4

(* What a day says when it was closed, or opened again.                    *)
DayValue(kind, v, n) ==
    /\ \/ kind = "day_closed" /\ v.st = "closed"
       \/ kind = "day_reopened" /\ v.st = "open"
    /\ v.legs = {} /\ v.cashUps <= n + (IF v.st = "closed" THEN 1 ELSE 0)
    /\ n \in 0..MaxReopens /\ reopens <= n

(* The last day is closed or reopened, and its event says so.              *)
LEMMA DayChanges ==
  ASSUME RowsInv, NEW d \in Days, NEW v \in Value, NEW kind \in Kind, Change(d, kind, v),
         \A c \in Days : c <= d,
         DayValue(kind, v, reopens')
  PROVE  RowsInv'
<1>1. Typed /\ AtTill /\ own \in Rows /\ log \in Seq(EventRow)
  BY DEF RowsInv, Typed
<1>2. d \in DOMAIN own /\ d # Sale /\ d \in Row /\ d \in Nat
  <2>1. d \in DOMAIN own /\ d # Sale
    BY DEF Days
  <2>2. d \in Row
    BY <1>1, <2>1, RowsAre
  <2> QED BY <2>1, <2>2, BoundsAssumption DEF Row
<1>3. PICK e \in EventRow : e.kind = kind /\ e.row = d /\ e.value = v /\ log' = Append(log, e)
  <2>1. Event(kind, d, v) \in EventRow /\ log' = Append(log, Event(kind, d, v))
    BY <1>2 DEF Event, EventRow, Change
  <2> QED BY <2>1 DEF Event
<1>4. /\ own' \in Rows /\ DOMAIN own' = DOMAIN own /\ own'[d] = v
      /\ \A q \in DOMAIN own \ {d} : own'[q] = own[q]
  <2>1. own' = With(own, d, v)
    BY DEF Change
  <2>2. PICK rows \in Rows, r \in Row, w \in Value : rows = own /\ r = d /\ w = v
    BY <1>1, <1>2
  <2>3. /\ With(rows, r, w) \in Rows /\ DOMAIN With(rows, r, w) = DOMAIN rows \cup {r} /\ With(rows, r, w)[r] = w
        /\ \A q \in DOMAIN rows \ {r} : With(rows, r, w)[q] = rows[q]
    BY WithRows, ZenonT(60)
  <2> QED BY <1>2, <2>1, <2>2, <2>3
<1> DEFINE n == Len(log)
<1>5. /\ n \in Nat /\ DOMAIN log = 1..n /\ DOMAIN log' = DOMAIN log \cup {n + 1} /\ Len(log') = n + 1
      /\ log'[n + 1] = e /\ (\A i \in DOMAIN log : log'[i] = log[i]) /\ log' \in Seq(EventRow)
  BY <1>1, <1>3, LogGrows
<1> HIDE DEF n
<1>6. UNCHANGED <<queue, copy, ev, pulled, quar, faults>>
  BY DEF Change, peerVars
<1>7. Typed'
  BY <1>1, <1>4, <1>5, <1>6 DEF Typed, DayValue
<1>8. Grown
  BY <1>2, <1>4, <1>5 DEF Grown, n
<1>9. Days' = Days
  BY <1>4 DEF Days
<1>10. DaysTold'
  <2>1. \E k \in 0..MaxDays : Days' = 1..k /\ \A c \in 1..k : c < k => own'[c].st = "closed"
    <3>1. PICK k \in 0..MaxDays : Days = 1..k /\ \A c \in 1..k : c < k => own[c].st = "closed"
      BY <1>1 DEF AtTill, DaysTold
    <3>2. k \in Nat /\ d = k
      <4>1. k \in Nat /\ d \in 1..k
        BY <3>1, BoundsAssumption
      <4>2. k \in 1..k
        BY <4>1
      <4> QED BY <3>1, <4>1, <4>2
    <3>3. \A c \in 1..k : c < k => own'[c] = own[c]
      BY <1>4, <3>1, <3>2 DEF Days
    <3> QED BY <1>9, <3>1, <3>3
  <2>2. ASSUME NEW c \in Days PROVE DayTold(c)'
    <3>1. CASE c # d
      <4>1. own'[c] = own[c] /\ own[c] \in Value
        BY <1>1, <1>4, <3>1, RowsAre DEF Days
      <4>2. DayTold(c) /\ reopens' \in Nat
        BY <1>1, BoundsAssumption DEF AtTill, DaysTold, DayValue
      <4> QED BY <1>1, <1>3, <3>1, <4>1, <4>2, DayStays DEF DayValue
    <3>2. CASE c = d
      <4>1. ~NoEvent(d)'
        BY <1>3, <1>5 DEF NoEvent
      <4>2. ASSUME NEW i \in DOMAIN log', log'[i].row = d, Later(i)' = {} PROVE own'[d] = log'[i].value
        <5>1. CASE i = n + 1
          BY <1>3, <1>4, <1>5, <5>1
        <5>2. CASE i \in DOMAIN log
          <6>1. n + 1 \in Later(i)'
            BY <1>3, <1>5, <4>2, <5>2 DEF Later
          <6> QED BY <4>2, <6>1
        <5> QED BY <1>5, <5>1, <5>2
      <4>3. own'[d].st \in {"open", "closed"} /\ own'[d].legs = {}
        BY <1>4 DEF DayValue
      <4>4. own'[d].cashUps <= reopens' + (IF own'[d].st = "closed" THEN 1 ELSE 0)
        BY <1>4 DEF DayValue
      <4> QED BY <3>2, <4>1, <4>2, <4>3, <4>4 DEF DayTold
    <3> QED BY <3>1, <3>2
  <2> QED BY <1>9, <2>1, <2>2 DEF DaysTold
<1>11. SaleTold'
  <2>1. Sale \in DOMAIN own => own'[Sale] = own[Sale]
    BY <1>2, <1>4
  <2>2. SaleTold /\ \A i \in DOMAIN log : Meant(log[i])
    BY <1>1 DEF AtTill, LogMeant
  <2>3. (\E i \in DOMAIN log : log[i].kind = "order_voided") => \E i \in DOMAIN log' : log'[i].kind = "order_voided"
    BY <1>5
  <2>4. ASSUME NEW i \in DOMAIN log'
        PROVE  /\ log'[i].kind = "order_voided" => own'[Sale].st = "voided"
               /\ log'[i].kind = "order_refunded" => own'[Sale].legs = Leg
    <3>1. CASE i = n + 1
      BY <1>3, <1>5, <3>1 DEF DayValue
    <3>2. CASE i \in DOMAIN log
      BY <1>5, <2>1, <2>2, <3>2 DEF SaleTold, Meant
    <3> QED BY <1>5, <3>1, <3>2
  <2> QED BY <1>4, <2>1, <2>2, <2>3, <2>4 DEF SaleTold
<1>12. LogMeant'
  <2>1. ASSUME NEW i \in DOMAIN log PROVE Meant(log[i])' /\ log'[i] = log[i] /\ log[i].row \in DOMAIN own
    BY <1>1, <1>4, <1>5 DEF AtTill, LogMeant, Meant
  <2>2. ASSUME NEW i \in DOMAIN log' PROVE Meant(log[i])'
    <3>1. CASE i = n + 1
      BY <1>2, <1>3, <1>4, <1>5, <3>1 DEF Meant, DayValue
    <3> QED BY <1>5, <2>1, <3>1
  <2>3. ASSUME NEW i \in DOMAIN log', NEW j \in DOMAIN log', i < j, log'[i].row # Sale, log'[j].row # Sale
        PROVE  log'[i].row <= log'[j].row
    <3>1. i \in DOMAIN log
      BY <1>5, <2>3
    <3>2. CASE j = n + 1
      <4>1. log[i].row \in Days
        BY <2>1, <2>3, <3>1 DEF Days
      <4> QED BY <1>3, <1>5, <3>1, <3>2, <4>1
    <3>3. CASE j \in DOMAIN log
      BY <1>1, <1>5, <2>3, <3>1, <3>3 DEF AtTill, LogMeant
    <3> QED BY <1>5, <3>2, <3>3
  <2> QED BY <2>2, <2>3 DEF LogMeant
<1>13. AtTill'
  BY <1>10, <1>11, <1>12 DEF AtTill
<1> QED BY <1>6, <1>7, <1>8, <1>13, TillStep

(* An open day, and one without a successor, is the last.                  *)
LEMMA LastDay ==
  ASSUME AtTill, NEW d \in Days, own[d].st = "open" \/ d + 1 \notin Days
  PROVE  DayTold(d) /\ \A c \in Days : c <= d
<1>1. PICK k \in 0..MaxDays : Days = 1..k /\ \A c \in 1..k : c < k => own[c].st = "closed"
  BY DEF AtTill, DaysTold
<1>2. k \in Nat /\ d \in 1..k
  BY <1>1, BoundsAssumption
<1>3. d = k
  <2>1. CASE own[d].st = "open"
    BY <1>1, <1>2, <2>1
  <2>2. CASE d + 1 \notin Days
    BY <1>1, <1>2, <2>2
  <2> QED BY <2>1, <2>2
<1> QED BY <1>1, <1>2, <1>3 DEF AtTill, DaysTold

(* CloseDay keeps the invariant.                                           *)
LEMMA CloseDayKeeps ==
  ASSUME RowsInv, NEW d \in Days, CloseDay(d)
  PROVE  RowsInv'
<1>1. own[d].st = "open" /\ reopens' = reopens
  BY DEF CloseDay
<1>2. Typed /\ AtTill /\ own[d] \in Value /\ reopens \in 0..MaxReopens
  BY RowsAre DEF RowsInv, Typed, Days
<1>3. DayTold(d) /\ \A c \in Days : c <= d
  BY <1>1, <1>2, LastDay
<1> DEFINE v == [own[d] EXCEPT !.st = "closed", !.cashUps = @ + 1]
<1>4. own[d].cashUps \in Nat /\ own[d].cashUps <= reopens /\ reopens \in Nat /\ MaxReopens \in Nat
  BY <1>1, <1>2, <1>3, BoundsAssumption DEF DayTold, Value
<1>5. v.st = "closed" /\ v.legs = own[d].legs /\ v.cashUps = own[d].cashUps + 1 /\ v \in Value
  <2>1. v = [st |-> "closed", cashUps |-> own[d].cashUps + 1, legs |-> own[d].legs]
    <3>1. PICK u : u = v
      OBVIOUS
    <3>2. u = [st |-> "closed", cashUps |-> own[d].cashUps + 1, legs |-> own[d].legs]
      BY <1>2, <3>1 DEF Value
    <3> QED BY <3>1, <3>2
  <2>2. own[d].cashUps + 1 \in 0..MaxReopens + 1
    BY <1>2, <1>4
  <2>3. own[d].legs \in SUBSET Leg
    BY <1>2 DEF Value
  <2> HIDE DEF v
  <2> QED BY <2>1, <2>2, <2>3 DEF Value, Status
<1>6. Change(d, "day_closed", v)
  BY DEF CloseDay
<1> HIDE DEF v
<1>7. v.legs = {} /\ v.cashUps <= reopens' + (IF v.st = "closed" THEN 1 ELSE 0)
  BY <1>1, <1>3, <1>4, <1>5 DEF DayTold
<1>8. PICK kind \in Kind : kind = "day_closed"
  BY DEF Kind
<1>9. Change(d, kind, v)
  BY <1>6, <1>8
<1>10. reopens' \in 0..MaxReopens /\ reopens <= reopens'
  BY <1>1, <1>2, <1>4
<1>11. DayValue(kind, v, reopens')
  BY <1>5, <1>7, <1>8, <1>10 DEF DayValue
<1> QED BY <1>3, <1>5, <1>9, <1>11, DayChanges

(* ReopenDay keeps the invariant.                                          *)
LEMMA ReopenDayKeeps ==
  ASSUME RowsInv, NEW d \in Days, ReopenDay(d)
  PROVE  RowsInv'
<1>1. own[d].st = "closed" /\ d + 1 \notin Days /\ reopens < MaxReopens /\ reopens' = reopens + 1
  BY DEF ReopenDay
<1>2. Typed /\ AtTill /\ own[d] \in Value /\ reopens \in 0..MaxReopens
  BY RowsAre DEF RowsInv, Typed, Days
<1>3. DayTold(d) /\ \A c \in Days : c <= d
  BY <1>1, <1>2, LastDay
<1> DEFINE v == [own[d] EXCEPT !.st = "open"]
<1>4. own[d].cashUps \in Nat /\ own[d].cashUps <= reopens + 1 /\ reopens \in Nat /\ MaxReopens \in Nat
  BY <1>1, <1>2, <1>3, BoundsAssumption DEF DayTold, Value
<1>5. v.st = "open" /\ v.legs = own[d].legs /\ v.cashUps = own[d].cashUps /\ v \in Value
  BY <1>2 DEF Value, Status
<1>6. Change(d, "day_reopened", v)
  BY DEF ReopenDay
<1> HIDE DEF v
<1>7. v.legs = {} /\ v.cashUps <= reopens' + (IF v.st = "closed" THEN 1 ELSE 0)
  BY <1>1, <1>3, <1>4, <1>5 DEF DayTold
<1>8. PICK kind \in Kind : kind = "day_reopened"
  BY DEF Kind
<1>9. Change(d, kind, v)
  BY <1>6, <1>8
<1>10. reopens' \in 0..MaxReopens /\ reopens <= reopens'
  BY <1>1, <1>2, <1>4
<1>11. DayValue(kind, v, reopens')
  BY <1>5, <1>7, <1>8, <1>10 DEF DayValue
<1> QED BY <1>3, <1>5, <1>9, <1>11, DayChanges

(* Nothing happens to the days.                                            *)
LEMMA DaysStay ==
  ASSUME Typed, DaysTold, Days' = Days, \A d \in Days : own'[d] = own[d], reopens' = reopens,
         \/ log' = log
         \/ \E e \in EventRow : e.row = Sale /\ log' = Append(log, e)
  PROVE  DaysTold'
<1>1. \E k \in 0..MaxDays : Days' = 1..k /\ \A c \in 1..k : c < k => own'[c].st = "closed"
  BY DEF DaysTold
<1>2. ASSUME NEW d \in Days PROVE DayTold(d)'
  <2>1. own[d] \in Value /\ d # Sale
    BY RowsAre DEF Typed, Days
  <2>2. DayTold(d) /\ reopens' \in Nat /\ reopens <= reopens'
    BY BoundsAssumption DEF DaysTold, Typed
  <2> QED BY <2>1, <2>2, DayStays
<1> QED BY <1>1, <1>2 DEF DaysTold

(* Nothing is told.                                                        *)
LEMMA LogStays ==
  ASSUME LogMeant, log' = log, DOMAIN own \subseteq DOMAIN own'
  PROVE  LogMeant'
BY DEF LogMeant, Meant

(* An event of the sale is told.                                           *)
LEMMA LogTells ==
  ASSUME Typed, LogMeant, NEW e \in EventRow, log' = Append(log, e),
         DOMAIN own \subseteq DOMAIN own', e.row = Sale, Meant(e)'
  PROVE  LogMeant'
<1> DEFINE n == Len(log)
<1>1. /\ n \in Nat /\ DOMAIN log = 1..n /\ DOMAIN log' = DOMAIN log \cup {n + 1}
      /\ log'[n + 1] = e /\ \A i \in DOMAIN log : log'[i] = log[i]
  BY LogGrows DEF Typed
<1> HIDE DEF n
<1>2. ASSUME NEW i \in DOMAIN log' PROVE Meant(log[i])'
  <2>1. CASE i = n + 1
    BY <1>1, <2>1 DEF Meant
  <2>2. CASE i \in DOMAIN log
    BY <1>1, <2>2 DEF LogMeant, Meant
  <2> QED BY <1>1, <2>1, <2>2
<1>3. ASSUME NEW i \in DOMAIN log', NEW j \in DOMAIN log', i < j, log'[i].row # Sale, log'[j].row # Sale
      PROVE  log'[i].row <= log'[j].row
  <2>1. i \in DOMAIN log /\ j \in DOMAIN log
    BY <1>1, <1>3
  <2> QED BY <1>1, <1>3, <2>1 DEF LogMeant
<1> QED BY <1>2, <1>3 DEF LogMeant

(* The till's rows with one of them new or changed.                        *)
LEMMA OwnWith ==
  ASSUME Typed, NEW r \in Row, NEW v \in Value, own' = With(own, r, v)
  PROVE  /\ own' \in Rows /\ DOMAIN own' = DOMAIN own \cup {r} /\ own'[r] = v
         /\ \A q \in DOMAIN own \ {r} : own'[q] = own[q]
<1>1. PICK rows \in Rows, q \in Row, w \in Value : rows = own /\ q = r /\ w = v
  BY DEF Typed
<1>2. /\ With(rows, q, w) \in Rows /\ DOMAIN With(rows, q, w) = DOMAIN rows \cup {q} /\ With(rows, q, w)[q] = w
      /\ \A p \in DOMAIN rows \ {q} : With(rows, q, w)[p] = rows[p]
  BY WithRows, ZenonT(60)
<1> QED BY <1>1, <1>2

(* OpenDay keeps the invariant.                                            *)
LEMMA OpenDayKeeps ==
  ASSUME RowsInv, OpenDay
  PROVE  RowsInv'
<1>1. Typed /\ AtTill
  BY DEF RowsInv
<1>2. PICK k \in 0..MaxDays : Days = 1..k
  BY <1>1 DEF AtTill, DaysTold
<1>3. k \in Nat /\ MaxDays \in Nat
  BY BoundsAssumption
<1>4. Cardinality(Days) = k
  BY <1>2, <1>3, FS_Interval
<1> DEFINE d == k + 1
<1>5. d <= MaxDays /\ own' = With(own, d, Opened) /\ \A r \in Days : own[r].st = "closed"
  BY <1>4 DEF OpenDay
<1>6. UNCHANGED <<log, queue, copy, ev, pulled, quar, reopens, faults>>
  BY DEF OpenDay, peerVars
<1>7. d \in Row /\ d # Sale /\ d \notin DOMAIN own /\ Opened \in Value
  <2>1. d \notin Days /\ d # 0 /\ d \in 0..MaxDays
    BY <1>2, <1>3, <1>5
  <2>2. Opened \in Value
    <3>1. 0 \in 0..MaxReopens + 1
      BY BoundsAssumption
    <3> QED BY <3>1 DEF Opened, Value, Status
  <2> QED BY <2>1, <2>2 DEF Days, Row, Sale
<1> HIDE DEF d
<1>8. /\ own' \in Rows /\ DOMAIN own' = DOMAIN own \cup {d} /\ own'[d] = Opened
      /\ \A q \in DOMAIN own \ {d} : own'[q] = own[q]
  BY <1>1, <1>5, <1>7, OwnWith
<1>9. \A q \in DOMAIN own : own'[q] = own[q]
  BY <1>7, <1>8
<1>10. Typed'
  BY <1>1, <1>6, <1>8 DEF Typed
<1>11. Grown
  <2>1. Len(log) \in Nat
    BY <1>1 DEF Typed
  <2> QED BY <1>6, <1>8, <1>9, <2>1 DEF Grown
<1>12. Days' = Days \cup {d}
  BY <1>7, <1>8 DEF Days
<1>13. DaysTold'
  <2>1. d \in 0..MaxDays /\ Days' = 1..d /\ \A c \in 1..d : c < d => own'[c].st = "closed"
    <3>1. d \in 0..MaxDays /\ 1..d = (1..k) \cup {d} /\ \A c \in 1..d : c < d => c \in 1..k
      BY <1>3, <1>5 DEF d
    <3>2. \A c \in Days : own'[c].st = "closed"
      BY <1>5, <1>9 DEF Days
    <3> QED BY <1>2, <1>12, <3>1, <3>2
  <2>2. ASSUME NEW c \in Days PROVE DayTold(c)'
    <3>1. own'[c] = own[c] /\ own[c] \in Value
      BY <1>1, <1>9, RowsAre DEF Days, Typed
    <3>2. DayTold(c) /\ reopens' \in Nat /\ reopens <= reopens'
      BY <1>1, <1>6, BoundsAssumption DEF AtTill, DaysTold, Typed
    <3> QED BY <1>1, <1>6, <3>1, <3>2, DayStays
  <2>3. DayTold(d)'
    <3>1. \A i \in DOMAIN log' : log'[i].row # d
      BY <1>1, <1>6, <1>7 DEF AtTill, LogMeant, Meant
    <3>2. reopens' \in Nat
      BY <1>1, <1>6, BoundsAssumption DEF Typed
    <3>3. own'[d].st = "open" /\ own'[d].legs = {} /\ own'[d].cashUps = 0
      BY <1>8 DEF Opened
    <3>4. own'[d].cashUps <= reopens' + (IF own'[d].st = "closed" THEN 1 ELSE 0)
      <4>1. PICK n \in Nat : n = reopens'
        BY <3>2
      <4>2. 0 <= n + 0
        OBVIOUS
      <4>3. (IF own'[d].st = "closed" THEN 1 ELSE 0) = 0
        BY <3>3
      <4> QED BY <3>3, <4>1, <4>2, <4>3
    <3> QED BY <1>8, <3>1, <3>3, <3>4 DEF DayTold, NoEvent
  <2> QED BY <1>12, <2>1, <2>2, <2>3 DEF DaysTold
<1>14. SaleTold'
  <2>1. ASSUME NEW i \in DOMAIN log PROVE Meant(log[i])
    BY <1>1 DEF AtTill, LogMeant
  <2>2. Sale \in DOMAIN own' => Sale \in DOMAIN own
    BY <1>7, <1>8
  <2> QED BY <1>1, <1>6, <1>9, <2>1, <2>2 DEF AtTill, SaleTold, Meant
<1>15. LogMeant'
  BY <1>1, <1>6, <1>8, LogStays DEF AtTill
<1>16. AtTill'
  BY <1>13, <1>14, <1>15 DEF AtTill
<1> QED BY <1>6, <1>10, <1>11, <1>16, TillStep

(* RingSale keeps the invariant.                                           *)
LEMMA RingSaleKeeps ==
  ASSUME RowsInv, RingSale
  PROVE  RowsInv'
<1>1. Typed /\ AtTill
  BY DEF RowsInv
<1>2. UNCHANGED <<log, queue, copy, ev, pulled, quar, reopens, faults>> /\ Sale \notin DOMAIN own /\
          own' = With(own, Sale, Rung)
  BY DEF RingSale, peerVars
<1>3. Sale \in Row /\ Rung \in Value
  <2>1. 0 \in 0..MaxReopens + 1 /\ 0 \in 0..MaxDays
    BY BoundsAssumption
  <2> QED BY <2>1 DEF Rung, Value, Status, Sale, Row
<1>4. /\ own' \in Rows /\ DOMAIN own' = DOMAIN own \cup {Sale} /\ own'[Sale] = Rung
      /\ \A q \in DOMAIN own \ {Sale} : own'[q] = own[q]
  BY <1>1, <1>2, <1>3, OwnWith
<1>5. Typed'
  BY <1>1, <1>2, <1>4 DEF Typed
<1>6. Grown
  <2>1. Len(log) \in Nat
    BY <1>1 DEF Typed
  <2> QED BY <1>2, <1>4, <2>1 DEF Grown
<1>7. DaysTold'
  <2>1. Days' = Days /\ \A d \in Days : own'[d] = own[d]
    BY <1>4 DEF Days
  <2> QED BY <1>1, <1>2, <2>1, DaysStay DEF AtTill
<1>8. SaleTold'
  <2>1. ASSUME NEW i \in DOMAIN log PROVE log[i].kind \notin {"order_voided", "order_refunded"}
    BY <1>1, <1>2 DEF AtTill, LogMeant, Meant
  <2>2. own'[Sale].st = "completed" /\ own'[Sale].cashUps = 0
    BY <1>4 DEF Rung
  <2> QED BY <1>2, <2>1, <2>2 DEF SaleTold
<1>9. LogMeant'
  BY <1>1, <1>2, <1>4, LogStays DEF AtTill
<1>10. AtTill'
  BY <1>7, <1>8, <1>9 DEF AtTill
<1> QED BY <1>2, <1>5, <1>6, <1>10, TillStep

(* VoidSale keeps the invariant.                                           *)
LEMMA VoidSaleKeeps ==
  ASSUME RowsInv, VoidSale
  PROVE  RowsInv'
<1>1. Typed /\ AtTill
  BY DEF RowsInv
<1>2. Sale \in DOMAIN own /\ own[Sale].st = "completed" /\ Sale \in Row /\ own[Sale] \in Value
  BY <1>1, RowsAre DEF VoidSale, Typed
<1> DEFINE v == [own[Sale] EXCEPT !.st = "voided"]
<1>3. v \in Value /\ v.st = "voided" /\ v.cashUps = own[Sale].cashUps /\ v.legs = own[Sale].legs
  BY <1>2 DEF Value, Status
<1>4. /\ own' = With(own, Sale, v) /\ log' = Append(log, Event("order_voided", Sale, v))
      /\ UNCHANGED <<queue, copy, ev, pulled, quar, reopens, faults>>
  BY DEF VoidSale, Change, peerVars
<1> HIDE DEF v
<1>5. PICK e \in EventRow : e.kind = "order_voided" /\ e.row = Sale /\ e.value = v /\ log' = Append(log, e)
  <2>1. Event("order_voided", Sale, v) \in EventRow
    BY <1>2, <1>3 DEF Event, EventRow, Kind
  <2> QED BY <1>4, <2>1 DEF Event
<1>6. /\ own' \in Rows /\ DOMAIN own' = DOMAIN own /\ own'[Sale] = v
      /\ \A q \in DOMAIN own \ {Sale} : own'[q] = own[q]
  BY <1>1, <1>2, <1>3, <1>4, OwnWith
<1> DEFINE n == Len(log)
<1>7. /\ n \in Nat /\ DOMAIN log = 1..n /\ DOMAIN log' = DOMAIN log \cup {n + 1} /\ Len(log') = n + 1
      /\ log'[n + 1] = e /\ (\A i \in DOMAIN log : log'[i] = log[i]) /\ log' \in Seq(EventRow)
  BY <1>1, <1>5, LogGrows DEF Typed
<1> HIDE DEF n
<1>8. Typed'
  BY <1>1, <1>4, <1>6, <1>7 DEF Typed
<1>9. Grown
  BY <1>3, <1>6, <1>7 DEF Grown, n
<1>10. DaysTold'
  <2>1. Days' = Days /\ \A d \in Days : own'[d] = own[d]
    BY <1>6 DEF Days
  <2> QED BY <1>1, <1>4, <1>5, <2>1, DaysStay DEF AtTill
<1>11. SaleTold'
  <2>1. own'[Sale].st = "voided" /\ own'[Sale].cashUps = 0
    BY <1>1, <1>2, <1>3, <1>6 DEF AtTill, SaleTold
  <2>2. n + 1 \in DOMAIN log' /\ log'[n + 1].kind = "order_voided"
    BY <1>5, <1>7
  <2>3. ASSUME NEW i \in DOMAIN log', log'[i].kind = "order_refunded" PROVE own'[Sale].legs = Leg
    <3>1. i \in DOMAIN log /\ log[i].kind = "order_refunded"
      BY <1>5, <1>7, <2>3
    <3> QED BY <1>1, <1>3, <1>6, <3>1 DEF AtTill, SaleTold
  <2> QED BY <2>1, <2>2, <2>3 DEF SaleTold
<1>12. LogMeant'
  <2>1. Meant(e)'
    BY <1>2, <1>5, <1>6 DEF Meant
  <2> QED BY <1>1, <1>5, <1>6, <2>1, LogTells DEF AtTill
<1>13. AtTill'
  BY <1>10, <1>11, <1>12 DEF AtTill
<1> QED BY <1>4, <1>8, <1>9, <1>13, TillStep

(* RefundSale keeps the invariant: the sale is ahead of its event until    *)
(* the outbox looks for it.                                                *)
LEMMA RefundSaleKeeps ==
  ASSUME RowsInv, RefundSale
  PROVE  RowsInv'
<1>1. Typed /\ AtTill
  BY DEF RowsInv
<1>2. Sale \in DOMAIN own /\ own[Sale].st = "completed" /\ own[Sale].legs = {} /\ own[Sale] \in Value /\ own \in Rows
  BY <1>1, RowsAre DEF RefundSale, Typed
<1> DEFINE v == [own[Sale] EXCEPT !.legs = Leg]
<1>3. v \in Value /\ v.st = own[Sale].st /\ v.cashUps = own[Sale].cashUps /\ v.legs = Leg
  BY <1>2 DEF Value
<1>4. own' = [own EXCEPT ![Sale] = v] /\ UNCHANGED <<log, queue, copy, ev, pulled, quar, reopens, faults>>
  BY DEF RefundSale, peerVars
<1> HIDE DEF v
<1>5. /\ own' \in Rows /\ DOMAIN own' = DOMAIN own /\ own'[Sale] = v
      /\ \A q \in DOMAIN own \ {Sale} : own'[q] = own[q]
  BY <1>2, <1>3, <1>4, ChangedRows
<1>6. Typed'
  BY <1>1, <1>4, <1>5 DEF Typed
<1>7. Grown
  <2>1. Len(log) \in Nat
    BY <1>1 DEF Typed
  <2> QED BY <1>2, <1>3, <1>4, <1>5, <2>1 DEF Grown
<1>8. DaysTold'
  <2>1. Days' = Days /\ \A d \in Days : own'[d] = own[d]
    BY <1>5 DEF Days
  <2> QED BY <1>1, <1>4, <2>1, DaysStay DEF AtTill
<1>9. SaleTold'
  BY <1>1, <1>2, <1>3, <1>4, <1>5 DEF AtTill, SaleTold
<1>10. LogMeant'
  BY <1>1, <1>4, <1>5, LogStays DEF AtTill
<1>11. AtTill'
  BY <1>8, <1>9, <1>10 DEF AtTill
<1> QED BY <1>4, <1>6, <1>7, <1>11, TillStep


(* The till's own rows are sound, as they are now.                         *)
LEMMA OwnSound ==
  ASSUME Typed, AtTill, NEW r \in DOMAIN own
  PROVE  Sound(r, own[r])
<1>1. own[r] \in Value
  BY RowsAre DEF Typed
<1>2. CASE r = Sale
  BY <1>1, <1>2 DEF Sound, AtTill, SaleTold
<1>3. CASE r # Sale
  <2>1. DayTold(r)
    BY <1>3 DEF AtTill, DaysTold, Days
  <2> QED BY <1>1, <1>3, <2>1 DEF Sound, DayTold
<1> QED BY <1>2, <1>3

(* Looking for refunds adds at most one event, of a sale that is refunded. *)
LEMMA ScannedIs ==
  ASSUME Typed, AtTill
  PROVE  \/ Scanned = log
         \/ /\ Sale \in DOMAIN own /\ own[Sale].legs = Leg
            /\ \E e \in EventRow : /\ e.kind = "order_refunded" /\ e.row = Sale /\ e.value = own[Sale]
                                  /\ Scanned = Append(log, e)
<1>1. log \in Seq(EventRow)
  BY DEF Typed
<1>2. CASE RefundUntold
  <2>1. Sale \in DOMAIN own /\ own[Sale].legs # {}
    BY <1>2 DEF RefundUntold
  <2>2. own[Sale] \in Value /\ Sale \in Row
    BY <2>1, RowsAre DEF Typed
  <2>3. own[Sale].legs = Leg
    BY <2>1, <2>2 DEF Value, Leg
  <2> DEFINE e == Event("order_refunded", Sale, own[Sale])
  <2>4. e \in EventRow /\ e.kind = "order_refunded" /\ e.row = Sale /\ e.value = own[Sale]
    BY <2>2 DEF Event, EventRow, Kind
  <2>5. Scanned = log \o <<e>>
    BY <1>2 DEF Scanned
  <2> HIDE DEF e
  <2>6. log \o <<e>> = Append(log, e)
    BY <1>1, <2>4
  <2> QED BY <2>1, <2>3, <2>4, <2>5, <2>6
<1>3. CASE ~RefundUntold
  <2>1. Scanned = log \o <<>>
    BY <1>3 DEF Scanned
  <2>2. log \o <<>> = log
    BY <1>1
  <2> QED BY <2>1, <2>2
<1> QED BY <1>2, <1>3

(* FillNodeOutbox keeps the invariant: what is queued is as the till is    *)
(* now.                                                                    *)
LEMMA FillNodeOutboxKeeps ==
  ASSUME RowsInv, FillNodeOutbox
  PROVE  RowsInv'
<1>1. Typed /\ AtTill /\ log \in Seq(EventRow) /\ queue \in Seq(QueueRow) /\ own \in Rows
  BY DEF RowsInv, Typed
<1>2. /\ log' = Scanned /\ queue' = queue \o NewItems
      /\ UNCHANGED <<own, copy, ev, pulled, quar, reopens, faults>>
  BY DEF FillNodeOutbox, peerVars
<1>3. \/ log' = log
      \/ /\ Sale \in DOMAIN own /\ own[Sale].legs = Leg
         /\ \E e \in EventRow : e.kind = "order_refunded" /\ e.row = Sale /\ e.value = own[Sale] /\
             log' = Append(log, e)
  BY <1>1, <1>2, ScannedIs
<1>4. /\ log' \in Seq(EventRow) /\ Len(log') \in Nat /\ Len(log) <= Len(log') /\ DOMAIN log \subseteq DOMAIN log'
      /\ \A i \in DOMAIN log : log'[i] = log[i]
  <2>1. Len(log) \in Nat
    BY <1>1
  <2> QED BY <1>1, <1>3, <2>1, LogGrows
<1>5. Grown
  BY <1>2, <1>4 DEF Grown
<1>6. DaysTold'
  <2>1. Days' = Days /\ \A d \in Days : own'[d] = own[d]
    BY <1>2 DEF Days
  <2> QED BY <1>1, <1>2, <1>3, <2>1, DaysStay DEF AtTill
<1>7. SaleTold'
  <2>1. CASE log' = log
    BY <1>1, <1>2, <2>1 DEF AtTill, SaleTold
  <2>2. ASSUME NEW e \in EventRow, e.kind = "order_refunded", log' = Append(log, e), own[Sale].legs = Leg
        PROVE  SaleTold'
    <3> DEFINE n == Len(log)
    <3>1. /\ DOMAIN log' = DOMAIN log \cup {n + 1} /\ log'[n + 1] = e /\ \A i \in DOMAIN log : log'[i] = log[i]
      BY <1>1, <2>2, LogGrows
    <3> HIDE DEF n
    <3> QED BY <1>1, <1>2, <2>2, <3>1 DEF AtTill, SaleTold
  <2> QED BY <1>3, <2>1, <2>2
<1>8. LogMeant'
  <2>1. CASE log' = log
    BY <1>1, <1>2, <2>1, LogStays DEF AtTill
  <2>2. ASSUME NEW e \in EventRow, e.kind = "order_refunded", e.row = Sale, e.value = own[Sale],
               log' = Append(log, e), own[Sale].legs = Leg, Sale \in DOMAIN own
        PROVE  LogMeant'
    <3>1. Meant(e)'
      BY <1>2, <2>2 DEF Meant
    <3> QED BY <1>1, <1>2, <2>2, <3>1, LogTells DEF AtTill
  <2> QED BY <1>3, <2>1, <2>2
<1>9. AtTill'
  BY <1>6, <1>7, <1>8 DEF AtTill
<1> DEFINE told == Cardinality({i \in DOMAIN queue : queue[i].isEvent})
           S == DOMAIN own \ Queued
<1>10. told \in Nat
  <2>1. Len(queue) \in Nat /\ DOMAIN queue = 1..Len(queue)
    BY <1>1
  <2>2. IsFiniteSet(1..Len(queue))
    BY <2>1, FS_Interval
  <2>3. IsFiniteSet({i \in DOMAIN queue : queue[i].isEvent})
    BY <2>1, <2>2, FS_Subset
  <2> QED BY <2>3, FS_CardinalityType
<1>11. NewItems = Rowing(own, S, told, Len(Scanned), Scanned)
  BY DEF NewItems, Rowing
<1> HIDE DEF told, S
<1>12. S \in SUBSET DOMAIN own
  BY DEF S
<1>13. /\ NewItems \in Seq(QueueRow)
       /\ \A x \in ToSet(NewItems) :
             /\ x.att = 0
             /\ \/ ~x.isEvent /\ x.row \in S /\ x.value = own[x.row]
                \/ x.isEvent /\ x.row \in 1..Len(log')
  <2>1. PICK events \in Seq(EventRow), upto \in Nat : events = log' /\ upto = Len(events)
    BY <1>4
  <2>2. NewItems = Rowing(own, S, told, upto, events) /\ upto <= Len(events)
    BY <1>2, <1>11, <2>1
  <2> QED BY <1>1, <1>10, <1>12, <2>1, <2>2, RowingIs
<1>14. queue' \in Seq(QueueRow)
  BY <1>1, <1>2, <1>13
<1>15. Typed'
  BY <1>1, <1>2, <1>4, <1>14 DEF Typed
<1>16. ASSUME NEW x \in QueueRow, x \in ToSet(NewItems) PROVE SoundItem(x)' /\ x.att < MaxAttempts
  <2>1. x.att < MaxAttempts
    BY <1>13, <1>16, BoundsAssumption
  <2>2. CASE x.isEvent /\ x.row \in 1..Len(log')
    BY <2>1, <2>2 DEF SoundItem
  <2>3. CASE ~x.isEvent /\ x.row \in S /\ x.value = own[x.row]
    <3>1. Sound(x.row, x.value)
      BY <1>1, <1>12, <2>3, OwnSound
    <3>2. Sound(x.row, x.value)'
      BY <1>5, <3>1, SoundGrows
    <3> QED BY <2>1, <2>3, <3>2 DEF SoundItem
  <2> QED BY <1>13, <1>16, <2>1, <2>2, <2>3
<1>17. \A x \in QueueRow : x \in ToSet(queue)' =>
            \/ x \in ToSet(queue)
            \/ SoundItem(x)' /\ (x.st = "pending" => x.att < MaxAttempts)
  <2>1. ToSet(queue)' = ToSet(queue \o NewItems)
    BY <1>2 DEF ToSet
  <2>2. \A x \in ToSet(queue \o NewItems) : x \in ToSet(queue) \cup ToSet(NewItems)
    BY <1>1, <1>13, Joined
  <2> QED BY <1>16, <2>1, <2>2
<1> QED BY <1>2, <1>5, <1>9, <1>15, <1>17, TillStep

-----------------------------------------------------------------------------
(* Steps of a replica.                                                     *)

(* What holds of a replica's state holds of what it keeps of it.           *)
LEMMA KeptIs ==
  ASSUME NEW s \in States, Copied(s), Swept(s), NEW t, t = [rows |-> s.rows, marks |-> s.marks, refused |-> <<>>]
  PROVE  t \in States /\ Copied(t) /\ Swept(t)
<1>1. t \in States
  <2>1. <<>> \in Seq(QueueRow)
    OBVIOUS
  <2> QED BY <2>1 DEF States
<1>2. \A k \in DOMAIN s.marks : MarkFits(s, k) => MarkFits(t, k)
  BY DEF MarkFits, AsTold
<1>3. Copied(t)
  BY <1>2 DEF Copied
<1>4. Swept(t)
  BY DEF Swept, SweptTo
<1> QED BY <1>1, <1>3, <1>4

(* Rows taken, a sweep, and what was refused kept aside.                   *)
LEMMA RetriedKeeps ==
  ASSUME Typed, AtTill, NEW s \in States, Copied(s), NEW items \in Seq(QueueRow), SoundItems(items),
         NEW t, t = Retried(s, items)
  PROVE  t \in States /\ Copied(t) /\ Swept(t) /\ SoundRows(t.refused)
<1>1. PICK u : u = Take(s, items)
  OBVIOUS
<1>2. u \in States /\ Copied(u) /\ SoundRows(u.refused)
  BY <1>1, TakeKeeps DEF AtTill
<1>3. PICK w : w = Sweep(u)
  OBVIOUS
<1>4. w \in States /\ Copied(w) /\ Swept(w) /\ w.refused = u.refused
  BY <1>2, <1>3, SweepKeeps
<1>5. t = [w EXCEPT !.refused = u.refused]
  BY <1>1, <1>3 DEF Retried
<1>6. t = w
  BY <1>4, <1>5 DEF States
<1> QED BY <1>2, <1>4, <1>6

(* The rows of a pass, then those refused at first once more.              *)
LEMMA PassKeeps ==
  ASSUME Typed, AtTill, NEW s \in States, Copied(s), NEW items \in Seq(QueueRow), SoundItems(items),
         NEW u, u = Take(s, items), NEW t, t = Retried(Sweep(u), u.refused)
  PROVE  t \in States /\ Copied(t) /\ Swept(t) /\ SoundRows(t.refused)
<1>1. u \in States /\ Copied(u) /\ SoundRows(u.refused)
  BY TakeKeeps DEF AtTill
<1>2. PICK w : w = Sweep(u)
  OBVIOUS
<1>3. w \in States /\ Copied(w)
  BY <1>1, <1>2, SweepKeeps
<1>4. u.refused \in Seq(QueueRow) /\ SoundItems(u.refused)
  BY <1>1 DEF States, SoundRows, SoundItems
<1>5. t = Retried(w, u.refused)
  BY <1>2
<1> QED BY <1>3, <1>4, <1>5, RetriedKeeps

(* The till's rows and events being as they were, so is all said of them.  *)
LEMMA TillStays ==
  ASSUME AtTill, own' = own, log' = log, reopens' = reopens
  PROVE  /\ AtTill' /\ \A x \in QueueRow : SoundItem(x)' <=> SoundItem(x)
         /\ \A s \in States : (Copied(s)' <=> Copied(s)) /\ (Swept(s)' <=> Swept(s))
<1>1. \A i \in DOMAIN log : Later(i)' = Later(i)
  BY DEF Later
<1>2. DaysTold'
  <2>1. Days' = Days /\ \A d \in Days : NoEvent(d)' <=> NoEvent(d)
    BY DEF Days, NoEvent
  <2>2. ASSUME NEW d \in Days PROVE DayTold(d)'
    <3>1. DayTold(d)
      BY DEF AtTill, DaysTold
    <3> QED BY <1>1, <2>1, <3>1 DEF DayTold
  <2> QED BY <2>1, <2>2 DEF AtTill, DaysTold
<1>3. AtTill'
  <2>1. SaleTold'
    BY DEF AtTill, SaleTold
  <2>2. LogMeant'
    BY DEF AtTill, LogMeant, Meant
  <2> QED BY <1>2, <2>1, <2>2 DEF AtTill
<1>4. \A r, v : Sound(r, v)' <=> Sound(r, v)
  BY DEF Sound, NoEvent
<1>5. \A x \in QueueRow : SoundItem(x)' <=> SoundItem(x)
  BY <1>4 DEF SoundItem
<1>6. ASSUME NEW s \in States PROVE (Copied(s)' <=> Copied(s)) /\ (Swept(s)' <=> Swept(s))
  <2>1. \A i : MarkFits(s, i)' <=> MarkFits(s, i)
    BY DEF MarkFits, AsTold, Later
  <2>2. Copied(s)' <=> Copied(s)
    BY <1>4, <2>1 DEF Copied
  <2>3. Swept(s)' <=> Swept(s)
    BY DEF Swept, SweptTo
  <2> QED BY <2>2, <2>3
<1> QED BY <1>3, <1>5, <1>6

(* A replica takes a state that fits the till's log.                       *)
LEMMA ReplicaStep ==
  ASSUME RowsInv, NEW x \in Replica, NEW t \in States, Copied(t), Swept(t), Becomes(x, t),
         UNCHANGED <<own, log, reopens>>, faults' \in 0..MaxFaults,
         queue' \in Seq(QueueRow), quar' \in Seq(QueueRow), pulled' \in Row,
         \A q \in QueueRow : q \in ToSet(queue)' => SoundItem(q) /\ (q.st = "pending" => q.att < MaxAttempts),
         \A q \in QueueRow : q \in ToSet(quar)' => SoundItem(q) /\ ~q.isEvent
  PROVE  RowsInv'
<1>1. Typed /\ AtTill /\ AtReplicas
  BY DEF RowsInv
<1>2. copy \in [Replica -> Rows] /\ ev \in [Replica -> Marks] /\ t.rows \in Rows /\ t.marks \in Marks
  BY <1>1 DEF Typed, States
<1>3. /\ copy' = [copy EXCEPT ![x] = t.rows] /\ ev' = [ev EXCEPT ![x] = t.marks]
  BY DEF Becomes
<1>4. copy' \in [Replica -> Rows] /\ ev' \in [Replica -> Marks]
  BY <1>2, <1>3
<1>5. Typed'
  BY <1>1, <1>4 DEF Typed
<1>6. AtTill' /\ \A q \in QueueRow : SoundItem(q)' <=> SoundItem(q)
  BY <1>1, TillStays
<1>7. OnTheWay'
  BY <1>6 DEF OnTheWay
<1>8. ASSUME NEW y \in Replica, NEW s \in States, s = State(y)'
      PROVE  Copied(s)' /\ Swept(s)'
  <2>1. CASE y = x
    <3>1. s = [rows |-> t.rows, marks |-> t.marks, refused |-> <<>>]
      BY <1>2, <1>3, <1>8, <2>1 DEF State
    <3>2. Copied(s) /\ Swept(s)
      BY <3>1, KeptIs
    <3> QED BY <1>1, <3>2, TillStays
  <2>2. CASE y # x
    <3>1. s = State(y)
      BY <1>2, <1>3, <1>8, <2>2 DEF State
    <3>2. Copied(s) /\ Swept(s)
      BY <1>1, <3>1 DEF AtReplicas
    <3> QED BY <1>1, <3>2, TillStays
  <2> QED BY <2>1, <2>2
<1>9. AtReplicas'
  BY <1>8 DEF AtReplicas
<1> QED BY <1>5, <1>6, <1>7, <1>9 DEF RowsInv

(* A replica before a step.                                                *)
LEMMA StateIs ==
  ASSUME RowsInv, NEW x \in Replica, NEW s, s = State(x)
  PROVE  /\ s \in States /\ s.rows = copy[x] /\ s.marks = ev[x] /\ Copied(s) /\ Swept(s)
         /\ copy[x] \in Rows /\ ev[x] \in Marks
<1>1. copy[x] \in Rows /\ ev[x] \in Marks
  BY DEF RowsInv, Typed
<1>2. <<>> \in Seq(QueueRow)
  OBVIOUS
<1>3. s = [rows |-> copy[x], marks |-> ev[x], refused |-> <<>>]
  BY DEF State
<1>4. s \in States /\ s.rows = copy[x] /\ s.marks = ev[x]
  BY <1>1, <1>2, <1>3 DEF States
<1> QED BY <1>1, <1>4 DEF RowsInv, AtReplicas

-----------------------------------------------------------------------------
(* The push.                                                               *)

(* A queue row is settled without a change of what it carries, and one     *)
(* that stays pending has refusals left.                                   *)
LEMMA RefuseIs ==
  ASSUME NEW q \in QueueRow, q.att < MaxAttempts, NEW x, x = Refuse(q)
  PROVE  /\ x \in QueueRow /\ x.isEvent = q.isEvent /\ x.row = q.row /\ x.value = q.value
         /\ x.st = "pending" => x.att < MaxAttempts
<1>1. /\ q.att \in 0..MaxAttempts /\ MaxAttempts \in Nat /\ q.isEvent \in BOOLEAN /\ q.row \in Nat /\
          q.value \in Value
      /\ q.att + 1 \in 0..MaxAttempts
  BY BoundsAssumption DEF QueueRow
<1>2. PICK st \in {"pending", "failed"} :
         /\ st = IF q.st = "pending" /\ q.att + 1 < MaxAttempts THEN "pending" ELSE "failed"
         /\ st = "pending" => q.att + 1 < MaxAttempts
  OBVIOUS
<1>3. x = [q EXCEPT !.att = q.att + 1, !.st = st]
  BY <1>2 DEF Refuse
<1>4. x = [isEvent |-> q.isEvent, row |-> q.row, value |-> q.value, att |-> q.att + 1, st |-> st]
  BY <1>3 DEF QueueRow
<1> QED BY <1>1, <1>2, <1>4 DEF QueueRow

(* A queue row that was delivered.                                         *)
LEMMA DeliveredIs ==
  ASSUME NEW q \in QueueRow, NEW x, x = [q EXCEPT !.st = "delivered"]
  PROVE  x \in QueueRow /\ x.isEvent = q.isEvent /\ x.row = q.row /\ x.value = q.value /\ x.st = "delivered"
BY DEF QueueRow

(* The queue after an answer.                                              *)
LEMMA SettledIs ==
  ASSUME RowsInv, NEW after, NEW s, s = Settled(after)
  PROVE  /\ s \in Seq(QueueRow)
         /\ \A x \in QueueRow : x \in ToSet(s) => SoundItem(x) /\ (x.st = "pending" => x.att < MaxAttempts)
<1>1. Typed /\ OnTheWay /\ queue \in Seq(QueueRow) /\ DOMAIN queue = 1..Len(queue) /\ Len(queue) \in Nat
  BY DEF RowsInv, Typed
<1> DEFINE bad == {after.refused[i].row : i \in DOMAIN after.refused}
           Of(i) == IF i \notin ToSet(Batch) THEN queue[i]
                    ELSE IF ~queue[i].isEvent /\ queue[i].row \in bad THEN Refuse(queue[i])
                    ELSE [queue[i] EXCEPT !.st = "delivered"]
           Fine(x) == x \in QueueRow /\ SoundItem(x) /\ (x.st = "pending" => x.att < MaxAttempts)
<1>2. s = [i \in DOMAIN queue |-> Of(i)]
  BY DEF Settled
<1>3. ASSUME NEW i \in DOMAIN queue PROVE Fine(Of(i))
  <2>1. queue[i] \in QueueRow /\ SoundItem(queue[i]) /\ (queue[i].st = "pending" => queue[i].att < MaxAttempts)
    BY <1>1 DEF OnTheWay, ToSet
  <2>2. i \in ToSet(Batch) => queue[i].st = "pending"
    BY <1>1, BatchIs DEF ToSet
  <2>3. CASE i \notin ToSet(Batch)
    <3>1. Of(i) = queue[i]
      BY <2>3
    <3> HIDE DEF Of
    <3> QED BY <2>1, <3>1
  <2>4. CASE i \in ToSet(Batch) /\ ~queue[i].isEvent /\ queue[i].row \in bad
    <3>1. PICK x : x = Refuse(queue[i])
      OBVIOUS
    <3>2. Of(i) = x
      BY <2>4, <3>1
    <3>3. /\ x \in QueueRow /\ x.isEvent = queue[i].isEvent /\ x.row = queue[i].row /\ x.value = queue[i].value
          /\ x.st = "pending" => x.att < MaxAttempts
      BY <2>1, <2>2, <2>4, <3>1, RefuseIs
    <3> HIDE DEF Of
    <3> QED BY <2>1, <3>2, <3>3 DEF SoundItem
  <2>5. CASE i \in ToSet(Batch) /\ ~(~queue[i].isEvent /\ queue[i].row \in bad)
    <3>1. PICK x : x = [queue[i] EXCEPT !.st = "delivered"]
      OBVIOUS
    <3>2. Of(i) = x
      BY <2>5, <3>1
    <3>3. x \in QueueRow /\ x.isEvent = queue[i].isEvent /\ x.row = queue[i].row /\
              x.value = queue[i].value /\ x.st = "delivered"
      BY <2>1, <3>1, DeliveredIs
    <3> HIDE DEF Of
    <3> QED BY <2>1, <3>2, <3>3 DEF SoundItem
  <2> QED BY <2>3, <2>4, <2>5
<1> HIDE DEF Of
<1>4. s \in [1..Len(queue) -> QueueRow]
  BY <1>1, <1>2, <1>3
<1>5. s \in Seq(QueueRow)
  BY <1>1, <1>4, Listed
<1>6. \A x \in ToSet(s) : Fine(x)
  BY <1>2, <1>3 DEF ToSet
<1> QED BY <1>5, <1>6

(* What is sent is sound, and what the server makes of it.                 *)
LEMMA NodeSyncKeeps ==
  ASSUME RowsInv, NEW t, t = NodeSync(Sending)
  PROVE  t \in States /\ Copied(t) /\ Swept(t)
<1>1. Typed /\ AtTill /\ OnTheWay
  BY DEF RowsInv
<1>2. PICK s : s = State("server")
  OBVIOUS
<1>3. s \in States /\ Copied(s)
  BY <1>2, StateIs DEF Replica
<1>4. Sending \in Seq(QueueRow) /\ ToSet(Sending) \subseteq ToSet(queue)
  BY <1>1, BatchIs
<1>5. SoundItems(Sending)
  <2>1. ASSUME NEW k \in DOMAIN Sending PROVE SoundItem(Sending[k])
    <3>1. Sending[k] \in ToSet(queue) /\ Sending[k] \in QueueRow
      <4>1. \A q \in Seq(QueueRow) : \A i \in DOMAIN q : q[i] \in QueueRow /\ q[i] \in ToSet(q)
        BY DEF ToSet
      <4>2. Sending[k] \in ToSet(Sending) /\ Sending[k] \in QueueRow
        BY <1>4, <4>1
      <4> QED BY <1>4, <4>2
    <3> QED BY <1>1, <3>1 DEF OnTheWay
  <2> QED BY <2>1 DEF SoundItems
<1>6. PICK u : u = Take(s, Sending)
  OBVIOUS
<1>7. t = Retried(Sweep(u), u.refused)
  BY <1>2, <1>6 DEF NodeSync, Retried
<1> QED BY <1>1, <1>3, <1>4, <1>5, <1>6, <1>7, PassKeeps

(* Push keeps the invariant.                                               *)
LEMMA PushKeeps ==
  ASSUME RowsInv, Push
  PROVE  RowsInv'
<1>1. Typed /\ OnTheWay
  BY DEF RowsInv
<1>2. PICK t : t = NodeSync(Sending)
  OBVIOUS
<1>3. /\ Becomes("server", t) /\ queue' = Settled(t)
      /\ UNCHANGED <<own, log, reopens, pulled, quar, faults>>
  BY <1>2 DEF Push, tillVars, peerVars
<1>4. t \in States /\ Copied(t) /\ Swept(t)
  BY <1>2, NodeSyncKeeps
<1>5. /\ queue' \in Seq(QueueRow)
      /\ \A q \in QueueRow : q \in ToSet(queue)' => SoundItem(q) /\ (q.st = "pending" => q.att < MaxAttempts)
  <2>1. PICK s : s = Settled(t)
    OBVIOUS
  <2>2. queue' = s /\ ToSet(queue)' = ToSet(s)
    BY <1>3, <2>1 DEF ToSet
  <2> QED BY <2>1, <2>2, SettledIs
<1>6. \A q \in QueueRow : q \in ToSet(quar)' => SoundItem(q) /\ ~q.isEvent
  <2>1. ToSet(quar)' = ToSet(quar)
    BY <1>3 DEF ToSet
  <2> QED BY <1>1, <2>1 DEF OnTheWay
<1>7. quar' \in Seq(QueueRow) /\ pulled' \in Row /\ faults' \in 0..MaxFaults
  BY <1>1, <1>3 DEF Typed
<1>8. PICK x \in Replica : x = "server"
  BY DEF Replica
<1> QED BY <1>3, <1>4, <1>5, <1>6, <1>7, <1>8, ReplicaStep

(* PushAnswerLost keeps the invariant.                                     *)
LEMMA PushAnswerLostKeeps ==
  ASSUME RowsInv, PushAnswerLost
  PROVE  RowsInv'
<1>1. Typed /\ OnTheWay
  BY DEF RowsInv
<1>2. PICK t : t = NodeSync(Sending)
  OBVIOUS
<1>3. /\ Becomes("server", t) /\ faults > 0 /\ faults' = faults - 1
      /\ UNCHANGED <<own, log, reopens, queue, pulled, quar>>
  BY <1>2 DEF PushAnswerLost, tillVars, peerVars
<1>4. t \in States /\ Copied(t) /\ Swept(t)
  BY <1>2, NodeSyncKeeps
<1>5. /\ queue' \in Seq(QueueRow)
      /\ \A q \in QueueRow : q \in ToSet(queue)' => SoundItem(q) /\ (q.st = "pending" => q.att < MaxAttempts)
  <2>1. queue' = queue /\ ToSet(queue)' = ToSet(queue)
    BY <1>3 DEF ToSet
  <2> QED BY <1>1, <2>1 DEF OnTheWay, Typed
<1>6. \A q \in QueueRow : q \in ToSet(quar)' => SoundItem(q) /\ ~q.isEvent
  <2>1. ToSet(quar)' = ToSet(quar)
    BY <1>3 DEF ToSet
  <2> QED BY <1>1, <2>1 DEF OnTheWay
<1>7. quar' \in Seq(QueueRow) /\ pulled' \in Row /\ faults' \in 0..MaxFaults
  <2>1. faults \in 0..MaxFaults /\ MaxFaults \in Nat
    BY <1>1, BoundsAssumption DEF Typed
  <2> QED BY <1>1, <1>3, <2>1 DEF Typed
<1>8. PICK x \in Replica : x = "server"
  BY DEF Replica
<1> QED BY <1>3, <1>4, <1>5, <1>6, <1>7, <1>8, ReplicaStep

-----------------------------------------------------------------------------
(* The pull.                                                               *)

(* Some rows have a greatest number.                                       *)
LEMMA Greatest ==
  ASSUME NEW T \in SUBSET Row, T # {}
  PROVE  \E n \in T : \A d \in T : d <= n
<1>1. MaxDays \in Nat
  BY BoundsAssumption
<1> DEFINE U == {MaxDays - n : n \in T}
<1>2. U \in SUBSET Nat /\ U # {}
  <2>1. \A n \in T : MaxDays - n \in Nat
    BY <1>1 DEF Row
  <2> QED BY <2>1
<1>3. PICK m \in U : \A n \in U : m <= n
  <2> HIDE DEF U
  <2> QED BY <1>2, Least
<1>4. PICK n \in T : m = MaxDays - n
  BY <1>3
<1>5. ASSUME NEW d \in T PROVE d <= n
  <2>1. MaxDays - n <= MaxDays - d
    BY <1>3, <1>4, <1>5
  <2>2. n \in 0..MaxDays /\ d \in 0..MaxDays
    BY <1>4, <1>5 DEF Row
  <2> QED BY <1>1, <2>1, <2>2
<1> QED BY <1>5

(* The server offers what it holds.                                        *)
LEMMA OfferedIs ==
  ASSUME RowsInv, NEW q, q = Offered
  PROVE  /\ q \in Seq(QueueRow) /\ SoundItems(q)
         /\ \A k \in DOMAIN q : ~q[k].isEvent => q[k].row \in Row
<1>1. Typed /\ AtTill /\ log \in Seq(EventRow)
  BY DEF RowsInv, Typed
<1>2. PICK s : s = State("server")
  OBVIOUS
<1>3. PICK rows \in Rows : rows = copy["server"]
  BY <1>2, StateIs DEF Replica
<1>4. /\ \A r \in DOMAIN rows : Sound(r, rows[r])
      /\ Len(ev["server"]) \in Nat /\ Len(ev["server"]) <= Len(log)
  <2>1. s.rows = rows /\ s.marks = ev["server"] /\ Copied(s) /\ ev["server"] \in Marks
    BY <1>2, <1>3, StateIs DEF Replica
  <2> QED BY <2>1 DEF Copied, Marks
<1>5. Len(ev["peer"]) \in Nat
  <2>1. ev["peer"] \in Marks
    BY <1>1, SMTT(30) DEF Typed, Replica
  <2> QED BY <2>1 DEF Marks
<1> DEFINE S == {r \in DOMAIN copy["server"] : IF r = Sale THEN Sale \notin DOMAIN copy["peer"] ELSE r > pulled}
           all == Rowing(rows, S, Len(ev["peer"]), Len(ev["server"]), log)
           m == IF Len(all) < PullRows THEN Len(all) ELSE PullRows
<1>6. q = SubSeq(all, 1, m)
  BY <1>3 DEF Offered, Rowing
<1>7. S \in SUBSET DOMAIN rows
  BY <1>3
<1> HIDE DEF S
<1>8. /\ all \in Seq(QueueRow)
      /\ \A x \in ToSet(all) :
            \/ ~x.isEvent /\ x.row \in S /\ x.value = rows[x.row]
            \/ x.isEvent /\ x.row \in 1..Len(log)
  <2>1. PICK from \in Nat, upto \in Nat : from = Len(ev["peer"]) /\ upto = Len(ev["server"]) /\ upto <= Len(log)
    BY <1>4, <1>5
  <2>2. all = Rowing(rows, S, from, upto, log)
    BY <2>1
  <2> HIDE DEF all
  <2> QED BY <1>1, <1>7, <2>1, <2>2, RowingIs
<1> HIDE DEF all
<1>9. m \in Nat /\ m <= Len(all)
  BY <1>8, BoundsAssumption
<1> HIDE DEF m
<1>10. q \in Seq(QueueRow) /\ DOMAIN q = 1..m /\ \A k \in 1..m : k \in DOMAIN all /\ q[k] = all[k]
  BY <1>6, <1>8, <1>9, Prefix
<1>11. ASSUME NEW k \in DOMAIN q
       PROVE  /\ SoundItem(q[k])
              /\ ~q[k].isEvent => q[k].row \in Row
  <2>1. PICK x \in QueueRow : x = q[k]
    <3>1. \A p \in Seq(QueueRow) : \A i \in DOMAIN p : p[i] \in QueueRow
      OBVIOUS
    <3> QED BY <1>10, <3>1
  <2>2. x \in ToSet(all)
    BY <1>10, <2>1 DEF ToSet
  <2>3. CASE x.isEvent /\ x.row \in 1..Len(log)
    BY <2>1, <2>3 DEF SoundItem
  <2>4. CASE ~x.isEvent /\ x.row \in S /\ x.value = rows[x.row]
    <3>1. x.row \in DOMAIN rows
      BY <1>7, <2>4
    <3>2. Sound(x.row, x.value) /\ x.row \in Row
      BY <1>4, <2>4, <3>1, RowsAre
    <3> QED BY <2>1, <2>4, <3>2 DEF SoundItem
  <2> QED BY <1>8, <2>2, <2>3, <2>4
<1> QED BY <1>10, <1>11 DEF SoundItems

(* Pull keeps the invariant.                                               *)
LEMMA PullKeeps ==
  ASSUME RowsInv, Pull
  PROVE  RowsInv'
<1>1. Typed /\ AtTill /\ OnTheWay /\ quar \in Seq(QueueRow) /\ pulled \in Row
  BY DEF RowsInv, Typed
<1>2. PICK s : s = State("peer")
  OBVIOUS
<1>3. PICK q : q = Offered
  OBVIOUS
<1>4. PICK u : u = Take(s, q)
  OBVIOUS
<1>5. PICK t : t = Retried(Sweep(u), u.refused)
  OBVIOUS
<1> DEFINE days == {q[i].row : i \in {j \in DOMAIN q : ~q[j].isEvent}}
           top == CHOOSE n \in days \cup {pulled} : \A d \in days \cup {pulled} : d <= n
<1>6. /\ Becomes("peer", t) /\ quar' = quar \o t.refused /\ pulled' = top
      /\ UNCHANGED <<own, log, reopens, queue, faults>>
  BY <1>2, <1>3, <1>4, <1>5 DEF Pull, tillVars
<1>7. s \in States /\ Copied(s)
  BY <1>2, StateIs DEF Replica
<1>8. q \in Seq(QueueRow) /\ SoundItems(q) /\ \A k \in DOMAIN q : ~q[k].isEvent => q[k].row \in Row
  BY <1>3, OfferedIs
<1>9. t \in States /\ Copied(t) /\ Swept(t) /\ SoundRows(t.refused) /\ t.refused \in Seq(QueueRow)
  <2>1. t \in States /\ Copied(t) /\ Swept(t) /\ SoundRows(t.refused)
    BY <1>1, <1>4, <1>5, <1>7, <1>8, PassKeeps
  <2> QED BY <2>1 DEF States
<1>10. pulled' \in Row
  <2>1. days \cup {pulled} \in SUBSET Row /\ days \cup {pulled} # {}
    BY <1>1, <1>8
  <2> HIDE DEF days
  <2>2. \E n \in days \cup {pulled} : \A d \in days \cup {pulled} : d <= n
    BY <2>1, Greatest
  <2>3. top \in days \cup {pulled}
    BY <2>2
  <2> HIDE DEF top
  <2> QED BY <1>6, <2>1, <2>3
<1> HIDE DEF top, days
<1>11. /\ quar' \in Seq(QueueRow)
       /\ \A x \in QueueRow : x \in ToSet(quar)' => SoundItem(x) /\ ~x.isEvent
  <2>1. ToSet(quar)' = ToSet(quar \o t.refused) /\ quar' \in Seq(QueueRow)
    BY <1>1, <1>6, <1>9 DEF ToSet
  <2>2. \A x \in ToSet(quar \o t.refused) : x \in ToSet(quar) \cup ToSet(t.refused)
    BY <1>1, <1>9, Joined
  <2>3. \A x \in ToSet(t.refused) : SoundItem(x) /\ ~x.isEvent
    BY <1>9 DEF SoundRows, ToSet
  <2> QED BY <1>1, <2>1, <2>2, <2>3 DEF OnTheWay
<1>12. /\ queue' \in Seq(QueueRow) /\ faults' \in 0..MaxFaults
       /\ \A x \in QueueRow : x \in ToSet(queue)' => SoundItem(x) /\ (x.st = "pending" => x.att < MaxAttempts)
  <2>1. queue' = queue /\ ToSet(queue)' = ToSet(queue)
    BY <1>6 DEF ToSet
  <2> QED BY <1>1, <1>6, <2>1 DEF OnTheWay, Typed
<1>13. PICK x \in Replica : x = "peer"
  BY DEF Replica
<1> QED BY <1>6, <1>9, <1>10, <1>11, <1>12, <1>13, ReplicaStep

(* RetryPeerQuarantine keeps the invariant.                                *)
LEMMA RetryPeerQuarantineKeeps ==
  ASSUME RowsInv, RetryPeerQuarantine
  PROVE  RowsInv'
<1>1. Typed /\ AtTill /\ OnTheWay /\ quar \in Seq(QueueRow)
  BY DEF RowsInv, Typed
<1>2. PICK s : s = State("peer")
  OBVIOUS
<1>3. PICK t : t = Retried(s, quar)
  OBVIOUS
<1>4. /\ Becomes("peer", t) /\ quar' = t.refused
      /\ UNCHANGED <<own, log, reopens, queue, pulled, faults>>
  BY <1>2, <1>3 DEF RetryPeerQuarantine, tillVars
<1>5. s \in States /\ Copied(s)
  BY <1>2, StateIs DEF Replica
<1>6. SoundItems(quar)
  <2>1. \A k \in DOMAIN quar : quar[k] \in QueueRow /\ quar[k] \in ToSet(quar)
    BY <1>1 DEF ToSet
  <2> QED BY <1>1, <2>1 DEF OnTheWay, SoundItems
<1>7. t \in States /\ Copied(t) /\ Swept(t) /\ SoundRows(t.refused) /\ t.refused \in Seq(QueueRow)
  <2>1. t \in States /\ Copied(t) /\ Swept(t) /\ SoundRows(t.refused)
    BY <1>1, <1>3, <1>5, <1>6, RetriedKeeps
  <2> QED BY <2>1 DEF States
<1>8. \A x \in QueueRow : x \in ToSet(quar)' => SoundItem(x) /\ ~x.isEvent
  BY <1>4, <1>7 DEF SoundRows, ToSet
<1>9. /\ queue' \in Seq(QueueRow) /\ faults' \in 0..MaxFaults /\ pulled' \in Row
      /\ \A x \in QueueRow : x \in ToSet(queue)' => SoundItem(x) /\ (x.st = "pending" => x.att < MaxAttempts)
  <2>1. queue' = queue /\ ToSet(queue)' = ToSet(queue)
    BY <1>4 DEF ToSet
  <2> QED BY <1>1, <1>4, <2>1 DEF OnTheWay, Typed
<1>10. PICK x \in Replica : x = "peer"
  BY DEF Replica
<1> QED BY <1>4, <1>7, <1>8, <1>9, <1>10, ReplicaStep

-----------------------------------------------------------------------------
(* The invariant, and what follows from it.                                *)

(* The invariant holds at first.                                           *)
LEMMA InitRows ==
  ASSUME Init
  PROVE  RowsInv
<1>1. /\ own = [r \in {} |-> Opened] /\ log = <<>> /\ queue = <<>>
      /\ copy = [x \in Replica |-> own] /\ ev = [x \in Replica |-> <<>>]
      /\ pulled = 0 /\ quar = <<>> /\ reopens = 0 /\ faults = MaxFaults
  BY DEF Init
<1>2. {MaxDays, MaxReopens, MaxFaults} \subseteq Nat
  BY BoundsAssumption
<1>3. own \in Rows /\ DOMAIN own = {}
  <2>1. own \in [{} -> Value] /\ {} \in SUBSET Row
    BY <1>1
  <2> QED BY <1>1, <2>1 DEF Rows
<1>4. <<>> \in Marks /\ <<>> \in Seq(QueueRow) /\ <<>> \in Seq(EventRow)
  BY DEF Marks
<1>5. Typed
  <2>1. copy \in [Replica -> Rows]
    BY <1>1, <1>3
  <2>2. ev \in [Replica -> Marks]
    BY <1>1, <1>4
  <2>3. pulled \in Row /\ reopens \in 0..MaxReopens /\ faults \in 0..MaxFaults
    BY <1>1, <1>2 DEF Row
  <2> QED BY <1>1, <1>3, <1>4, <2>1, <2>2, <2>3 DEF Typed
<1>6. AtTill
  <2>1. Days = {} /\ DOMAIN log = {}
    BY <1>1, <1>3 DEF Days
  <2>2. DaysTold
    <3>1. Days = 1..0 /\ 0 \in 0..MaxDays /\ \A d \in 1..0 : d < 0 => own[d].st = "closed"
      BY <1>2, <2>1
    <3> QED BY <2>1, <3>1 DEF DaysTold
  <2>3. SaleTold
    BY <1>3, <2>1 DEF SaleTold
  <2>4. LogMeant
    BY <2>1 DEF LogMeant
  <2> QED BY <2>2, <2>3, <2>4 DEF AtTill
<1>7. OnTheWay
  BY <1>1 DEF OnTheWay, ToSet
<1>8. ASSUME NEW x \in Replica, NEW s \in States, s = State(x)
      PROVE  Copied(s) /\ Swept(s)
  <2>1. DOMAIN s.rows = {} /\ s.marks = <<>>
    BY <1>1, <1>3, <1>8 DEF State
  <2>2. Copied(s)
    BY <1>1, <2>1 DEF Copied
  <2>3. Swept(s)
    BY <2>1 DEF Swept, SweptTo
  <2> QED BY <2>2, <2>3
<1> QED BY <1>5, <1>6, <1>7, <1>8 DEF RowsInv, AtReplicas

(* Every step keeps the invariant.                                         *)
LEMMA RowsStep ==
  ASSUME RowsInv, [Next]_vars
  PROVE  RowsInv'
<1>1. CASE Trade
  BY <1>1, OpenDayKeeps, RingSaleKeeps, VoidSaleKeeps, RefundSaleKeeps, CloseDayKeeps, ReopenDayKeeps DEF Trade
<1>2. CASE FillNodeOutbox
  BY <1>2, FillNodeOutboxKeeps
<1>3. CASE Push
  BY <1>3, PushKeeps
<1>4. CASE PushAnswerLost
  BY <1>4, PushAnswerLostKeeps
<1>5. CASE Pull
  BY <1>5, PullKeeps
<1>6. CASE RetryPeerQuarantine
  BY <1>6, RetryPeerQuarantineKeeps
<1>7. CASE UNCHANGED vars
  <2>1. UNCHANGED <<own, log, queue, copy, ev, pulled, quar, reopens, faults>>
    BY <1>7 DEF vars
  <2>2. Typed /\ AtTill /\ Typed'
    BY <2>1 DEF RowsInv, Typed
  <2>3. Grown
    <3>1. Len(log) \in Nat
      BY <2>2 DEF Typed
    <3> QED BY <2>1, <3>1 DEF Grown
  <2>4. AtTill'
    BY <2>1, <2>2, TillStays
  <2>5. ToSet(queue)' = ToSet(queue)
    BY <2>1 DEF ToSet
  <2> QED BY <2>1, <2>2, <2>3, <2>4, <2>5, TillStep
<1> QED BY <1>1, <1>2, <1>3, <1>4, <1>5, <1>6, <1>7 DEF Next

(* Every event of a row that a replica holds has been applied there, but   *)
(* for one refused and followed by another.                                *)
LEMMA EventSettled ==
  ASSUME RowsInv, NEW s \in States, Copied(s), Swept(s), Len(s.marks) = Len(log),
         NEW i \in DOMAIN log, log[i].row \in DOMAIN s.rows,
         log[i].kind # "day_reopened" \/ Later(i) = {}
  PROVE  i \in DOMAIN s.marks /\ AsTold(s, i)
<1>1. log \in Seq(EventRow) /\ s.marks \in Seq({"waiting", "applied", "refused"})
  BY DEF RowsInv, Typed, States, Marks
<1>2. i \in DOMAIN s.marks /\ i \in 1..Len(s.marks)
  BY <1>1
<1>3. s.marks[i] \in {"waiting", "applied", "refused"}
  BY <1>1, <1>2
<1>4. s.marks[i] # "waiting"
  BY <1>2 DEF Swept, SweptTo
<1>5. MarkFits(s, i)
  BY <1>2 DEF Copied
<1> QED BY <1>2, <1>3, <1>4, <1>5 DEF MarkFits

(* The invariant says that copies agree.                                   *)
LEMMA RowsAgree ==
  ASSUME RowsInv
  PROVE  CopiesAgree
<1>1. Typed /\ AtTill
  BY DEF RowsInv
<1> SUFFICES ASSUME NEW x \in Replica, NEW r \in DOMAIN copy[x], ~RefundUntold, Len(ev[x]) = Len(log)
             PROVE  copy[x][r] = own[r]
  BY DEF CopiesAgree
<1>2. PICK s : s = State(x)
  OBVIOUS
<1>3. s \in States /\ s.rows = copy[x] /\ s.marks = ev[x] /\ Copied(s) /\ Swept(s)
  BY <1>2, StateIs
<1> DEFINE v == s.rows[r]
           o == own[r]
<1>4. r \in DOMAIN s.rows /\ Sound(r, v) /\ Sound(r, o) /\ Len(s.marks) = Len(log)
  <2>1. r \in DOMAIN s.rows /\ Sound(r, v)
    BY <1>3 DEF Copied
  <2>2. r \in DOMAIN own
    BY <2>1 DEF Sound
  <2> QED BY <1>1, <1>3, <2>1, <2>2, OwnSound
<1>5. CASE r # Sale
  <2>1. DayTold(r)
    BY <1>1, <1>4, <1>5 DEF AtTill, DaysTold, Days, Sound
  <2>2. CASE NoEvent(r)
    BY <1>3, <1>4, <1>5, <2>2 DEF Sound
  <2>3. CASE ~NoEvent(r)
    <3>1. PICK i \in DOMAIN log : log[i].row = r /\ Later(i) = {}
      BY <1>1, <2>3, LastEvent
    <3>2. AsTold(s, i)
      BY <1>3, <1>4, <3>1, EventSettled
    <3>3. v = log[i].value
      BY <1>5, <3>1, <3>2 DEF AsTold
    <3>4. o = log[i].value
      BY <2>1, <3>1 DEF DayTold
    <3> QED BY <1>3, <3>3, <3>4
  <2> QED BY <2>2, <2>3
<1>6. CASE r = Sale
  <2>1. \A i \in DOMAIN log : log[i].kind \in {"order_voided", "order_refunded"} => log[i].row = Sale
    BY <1>1 DEF AtTill, LogMeant, Meant
  <2>2. ASSUME o.st = "voided" PROVE v.st = "voided"
    <3>1. PICK i \in DOMAIN log : log[i].kind = "order_voided"
      BY <1>1, <1>4, <1>6, <2>2 DEF AtTill, SaleTold, Sound
    <3>2. AsTold(s, i)
      BY <1>3, <1>4, <1>6, <2>1, <3>1, EventSettled
    <3> QED BY <1>6, <3>1, <3>2 DEF AsTold
  <2>3. v.st = o.st /\ v.cashUps = o.cashUps
    BY <1>4, <1>6, <2>2 DEF Sound
  <2>4. v.legs = o.legs
    <3>1. v.legs \subseteq o.legs /\ o.legs \subseteq Leg
      BY <1>4, <1>6 DEF Sound, Value
    <3>2. CASE o.legs # {}
      <4>1. PICK i \in DOMAIN log : log[i].kind = "order_refunded"
        BY <1>4, <1>6, <3>2 DEF RefundUntold, Sound
      <4>2. AsTold(s, i)
        BY <1>3, <1>4, <1>6, <2>1, <4>1, EventSettled
      <4>3. v.legs = Leg
        BY <1>6, <4>1, <4>2 DEF AsTold
      <4> QED BY <3>1, <4>3
    <3>3. CASE o.legs = {}
      BY <3>1, <3>3
    <3> QED BY <3>2, <3>3
  <2>5. v \in Value /\ o \in Value
    BY <1>4 DEF Sound
  <2> QED BY <1>3, <2>3, <2>4, <2>5 DEF Value
<1> QED BY <1>5, <1>6

(* The inductive invariant: what the till's events say of its rows, what   *)
(* is on the way, and what each replica has made of it, of every reachable *)
(* state.                                                                  *)
THEOREM RowsInvariant == Spec => []RowsInv
<1>1. Init => RowsInv
  BY InitRows
<1>2. RowsInv /\ [Next]_vars => RowsInv'
  BY RowsStep
<1> QED BY <1>1, <1>2, PTL DEF Spec

(* Every variable has its type, for any bounds on days, batches, refusals  *)
(* and lost answers.                                                       *)
THEOREM RowEventsTypeCorrect == Spec => []TypeOK
<1>1. RowsInv => TypeOK
  <2> SUFFICES ASSUME RowsInv PROVE TypeOK
    OBVIOUS
  <2>1. Typed
    BY DEF RowsInv
  <2>2. DOMAIN own \subseteq Row /\ \A r \in DOMAIN own : own[r] \in Value
    BY <2>1, RowsAre DEF Typed
  <2>3. ASSUME NEW x \in Replica
        PROVE  /\ DOMAIN copy[x] \subseteq Row /\ \A r \in DOMAIN copy[x] : copy[x][r] \in Value
               /\ ev[x] \in Seq({"waiting", "applied", "refused"})
    <3>1. copy[x] \in Rows /\ ev[x] \in Marks
      BY <2>1 DEF Typed
    <3> QED BY <3>1, RowsAre DEF Marks
  <2> QED BY <2>1, <2>2, <2>3 DEF Typed, TypeOK
<1> QED BY <1>1, RowsInvariant, PTL

(* A replica that holds a row and has every event of the till shows the    *)
(* row as the till does: for any number of days, reopenings and refusals,  *)
(* batches and pulls cut anywhere, rows and events repeated by lost        *)
(* answers, and days refused and tried again (applyPeerRows,               *)
(* applyPendingEvents, retryRefusedAfterEvents, retryPeerQuarantine).      *)
THEOREM ReplicasAgree == Spec => []CopiesAgree
<1>1. RowsInv => CopiesAgree
  BY RowsAgree
<1> QED BY <1>1, RowsInvariant, PTL

-----------------------------------------------------------------------------
(* Nothing is left out.                                                    *)

(* A row of a day, as against an event or the sale.                        *)
DayItem(x) == ~x.isEvent /\ x.row # Sale
(* Rows that hold no day without the days before it.                       *)
Low(rows) == \A d \in DOMAIN rows \ {Sale} : 1..d - 1 \subseteq DOMAIN rows
(* The events queued so far.                                               *)
Told == Cardinality({i \in DOMAIN queue : queue[i].isEvent})

(* Days are queued once, in order, while they are open.                    *)
RowsQueued ==
    /\ \A i \in DOMAIN queue : DayItem(queue[i]) => queue[i].value.st = "open"
    /\ \A i, j \in DOMAIN queue : i < j /\ DayItem(queue[i]) /\ DayItem(queue[j]) => queue[i].row < queue[j].row
    /\ \A d \in Days \ Queued : own[d] = Opened
(* Events are queued in order, none twice and none left out.               *)
EventsQueued ==
    /\ Told <= Len(log)
    /\ \A n \in 1..Told : \E i \in DOMAIN queue : queue[i].isEvent /\ queue[i].row = n
    /\ \A i \in DOMAIN queue : queue[i].isEvent => queue[i].row \in 1..Told
    /\ \A i, j \in DOMAIN queue : i < j /\ queue[i].isEvent /\ queue[j].isEvent => queue[i].row < queue[j].row
(* What the till takes for delivered is at the server.                     *)
Delivered ==
    \A i \in DOMAIN queue :
        /\ queue[i].isEvent => queue[i].st # "failed"
        /\ queue[i].st = "delivered" =>
              IF queue[i].isEvent THEN queue[i].row <= Len(ev["server"]) ELSE queue[i].row \in DOMAIN copy["server"]
(* The server's days are in order, so the peer's cursor skips none.        *)
Passed ==
    /\ Low(copy["server"])
    /\ pulled # Sale => pulled \in DOMAIN copy["server"]
    /\ \A d \in DOMAIN copy["server"] \ {Sale} :
          d <= pulled => d \in DOMAIN copy["peer"] \/ \E k \in DOMAIN quar : quar[k].row = d
(* A queue row refused MaxAttempts times: only an operator sends it again. *)
GivenUp == \E i \in DOMAIN queue : queue[i].st = "failed"
LeftInv == RowsInv /\ RowsQueued /\ EventsQueued /\ Delivered /\ (~GivenUp => Passed)

(* InOrder lists every member of its set up to the number given, once and  *)
(* in order.                                                               *)
LEMMA InOrderAll ==
  ASSUME NEW S, NEW top \in Nat, NEW q, q = InOrder(S, top)
  PROVE  /\ q \in Seq(S \cap (0..top))
         /\ \A n \in S \cap (0..top) : \E k \in DOMAIN q : q[k] = n
         /\ \A j, k \in DOMAIN q : j < k => q[j] < q[k]
<1>1. PICK f : /\ q = f[top + 1] /\ f[0] = <<>>
               /\ \A n \in 1..(top + 1) : f[n] = IF n - 1 \in S THEN Append(f[n - 1], n - 1) ELSE f[n - 1]
  BY InOrderSteps
<1> DEFINE R(k) == S \cap (0..k - 1)
           P(g, k) == /\ g \in Seq(R(k)) /\ \A n \in R(k) : \E j \in DOMAIN g : g[j] = n
                      /\ \A i, j \in DOMAIN g : i < j => g[i] < g[j]
           T == {k \in Nat : k <= top + 1 => P(f[k], k)}
<1>2. 0 \in T
  <2>1. R(0) = {} /\ <<>> \in Seq(R(0)) /\ DOMAIN <<>> = {}
    OBVIOUS
  <2>2. P(<<>>, 0)
    BY <2>1
  <2> HIDE DEF P
  <2> QED BY <1>1, <2>2
<1>3. ASSUME NEW k \in Nat, k \in T PROVE k + 1 \in T
  <2>1. SUFFICES ASSUME k + 1 <= top + 1 PROVE P(f[k + 1], k + 1)
    OBVIOUS
  <2>2. PICK g : g = f[k]
    OBVIOUS
  <2>3. P(g, k) /\ k + 1 \in 1..(top + 1) /\ (k + 1) - 1 = k
    BY <1>3, <2>1, <2>2
  <2>4. f[k + 1] = IF k \in S THEN Append(g, k) ELSE g
    BY <1>1, <2>2, <2>3
  <2>5. R(k + 1) = R(k) \cup (S \cap {k})
    OBVIOUS
  <2>6. PICK Q : Q = R(k)
    OBVIOUS
  <2>7. Q \in SUBSET Nat /\ \A n \in Q : n < k
    BY <2>6
  <2>8. g \in Seq(Q) /\ (\A n \in Q : \E j \in DOMAIN g : g[j] = n) /\ \A i, j \in DOMAIN g : i < j => g[i] < g[j]
    BY <2>3, <2>6
  <2>9. CASE k \in S
    <3>1. PICK h : h = Append(g, k)
      OBVIOUS
    <3>2. PICK m \in Nat : m = Len(g)
      BY <2>8
    <3>3. /\ h \in Seq(Q \cup {k}) /\ DOMAIN h = 1..m + 1 /\ DOMAIN g = 1..m
          /\ h[m + 1] = k /\ \A j \in 1..m : h[j] = g[j] /\ h[j] \in Q
      BY <2>8, <3>1, <3>2
    <3>4. \A n \in Q \cup {k} : \E j \in DOMAIN h : h[j] = n
      <4>1. m + 1 \in DOMAIN h
        BY <3>3
      <4>2. ASSUME NEW n \in Q PROVE \E j \in DOMAIN h : h[j] = n
        <5>1. PICK j \in 1..m : g[j] = n
          BY <2>8, <3>3
        <5>2. j \in DOMAIN h
          BY <3>3
        <5> QED BY <3>3, <5>1, <5>2
      <4> QED BY <3>3, <4>1, <4>2
    <3>5. ASSUME NEW i \in DOMAIN h, NEW j \in DOMAIN h, i < j PROVE h[i] < h[j]
      <4>1. i \in 1..m
        BY <3>3, <3>5
      <4>2. CASE j = m + 1
        BY <2>7, <3>3, <4>1, <4>2
      <4>3. CASE j # m + 1
        <5>1. j \in 1..m
          BY <3>3, <4>3
        <5> QED BY <2>8, <3>3, <3>5, <4>1, <5>1
      <4> QED BY <4>2, <4>3
    <3>6. R(k + 1) = Q \cup {k} /\ f[k + 1] = h
      BY <2>4, <2>5, <2>6, <2>9, <3>1
    <3> QED BY <3>3, <3>4, <3>5, <3>6
  <2>10. CASE k \notin S
    <3>1. R(k + 1) = Q /\ f[k + 1] = g
      BY <2>4, <2>5, <2>6, <2>10
    <3> QED BY <2>8, <3>1
  <2> QED BY <2>9, <2>10
<1> HIDE DEF T
<1>4. top + 1 \in T
  BY <1>2, <1>3, Induction
<1>5. P(q, top + 1) /\ (top + 1) - 1 = top
  BY <1>1, <1>4 DEF T
<1> QED BY <1>5

(* A sequence by its length and elements, and two, one after the other.    *)
LEMMA ListedTo ==
  ASSUME NEW S, NEW n \in Nat, NEW f \in [1..n -> S]
  PROVE  f \in Seq(S) /\ Len(f) = n /\ DOMAIN f = 1..n
OBVIOUS

(* One sequence after another, by its elements.                            *)
LEMMA JoinedAt ==
  ASSUME NEW S, NEW p \in Seq(S), NEW q \in Seq(S), NEW r, r = p \o q
  PROVE  /\ r \in Seq(S) /\ Len(p) \in Nat /\ Len(q) \in Nat /\ Len(r) = Len(p) + Len(q)
         /\ DOMAIN p = 1..Len(p) /\ DOMAIN q = 1..Len(q) /\ DOMAIN r = 1..Len(p) + Len(q)
         /\ \A k \in 1..Len(p) : r[k] = p[k]
         /\ \A k \in 1..Len(q) : r[Len(p) + k] = q[k]
OBVIOUS

(* Rows in order, then events in order.                                    *)
Span(from, upto) == IF from <= upto THEN upto - from ELSE 0
Rowed(rows, from, nums, q, m) ==
    /\ Len(q) = Len(nums) + m
    /\ \A k \in 1..Len(nums) :
          ~q[k].isEvent /\ q[k].row = nums[k] /\ q[k].value = rows[nums[k]] /\ q[k].st = "pending"
    /\ \A k \in 1..m : /\ q[Len(nums) + k].isEvent /\ q[Len(nums) + k].row = from + k
                       /\ q[Len(nums) + k].st = "pending"
(* What a queue or a pull is filled with: the rows of a set by number,     *)
(* then the events between two of the log, all pending.                    *)
LEMMA RowingAt ==
  ASSUME NEW rows \in Rows, NEW S \in SUBSET DOMAIN rows, NEW from \in Nat, NEW upto \in Nat,
         NEW events \in Seq(EventRow), upto <= Len(events),
         NEW q, q = Rowing(rows, S, from, upto, events),
         NEW nums, nums = InOrder(S, MaxDays), NEW m, m = Span(from, upto)
  PROVE  nums \in Seq(S) /\ m \in Nat /\ q \in Seq(QueueRow) /\ Rowed(rows, from, nums, q, m)
<1> DEFINE a == [i \in DOMAIN nums |-> Item(FALSE, nums[i], rows[nums[i]])]
           b == [i \in 1..upto - from |-> Item(TRUE, from + i, events[from + i].value)]
<1>1. MaxDays \in Nat /\ m \in Nat /\ 1..upto - from = 1..m
  BY BoundsAssumption DEF Span
<1>2. nums \in Seq(S \cap (0..MaxDays))
  BY <1>1, InOrderIn
<1>3. nums \in Seq(S) /\ \A i \in DOMAIN nums : nums[i] \in Nat /\ rows[nums[i]] \in Value
  BY <1>2, RowsAre
<1>4. PICK n \in Nat : n = Len(nums) /\ DOMAIN nums = 1..n
  BY <1>2
<1>5. a \in Seq(QueueRow) /\ Len(a) = n /\ \A k \in 1..n : a[k] = Item(FALSE, nums[k], rows[nums[k]])
  <2>1. \A i \in DOMAIN nums : Item(FALSE, nums[i], rows[nums[i]]) \in QueueRow
    BY <1>3, ItemIs
  <2>2. a \in [1..n -> QueueRow]
    BY <1>4, <2>1
  <2>3. \A k \in 1..n : a[k] = Item(FALSE, nums[k], rows[nums[k]])
    BY <1>4
  <2> HIDE DEF a
  <2> QED BY <2>2, <2>3, ListedTo
<1>6. b \in Seq(QueueRow) /\ Len(b) = m /\ \A k \in 1..m : b[k] = Item(TRUE, from + k, events[from + k].value)
  <2>1. ASSUME NEW i \in 1..upto - from PROVE Item(TRUE, from + i, events[from + i].value) \in QueueRow
    <3>1. from + i \in 1..Len(events) /\ from + i \in Nat
      OBVIOUS
    <3>2. events[from + i].value \in Value
      <4>1. events[from + i] \in EventRow
        BY <3>1
      <4> QED BY <4>1 DEF EventRow
    <3> QED BY <3>1, <3>2, ItemIs
  <2>2. b \in [1..m -> QueueRow]
    <3> QED BY <1>1, <2>1
  <2>3. \A k \in 1..m : b[k] = Item(TRUE, from + k, events[from + k].value)
    BY <1>1
  <2> HIDE DEF b
  <2> QED BY <1>1, <2>2, <2>3, ListedTo
<1>7. q = a \o b
  BY DEF Rowing
<1> HIDE DEF a, b
<1>8. /\ q \in Seq(QueueRow) /\ Len(q) = n + m
      /\ \A k \in 1..n : q[k] = a[k]
      /\ \A k \in 1..m : q[n + k] = b[k]
  <2>1. /\ q \in Seq(QueueRow) /\ Len(q) = Len(a) + Len(b)
        /\ \A k \in 1..Len(a) : q[k] = a[k]
        /\ \A k \in 1..Len(b) : q[Len(a) + k] = b[k]
    <3>1. a \in Seq(QueueRow) /\ b \in Seq(QueueRow)
      BY <1>5, <1>6
    <3>2. PICK x \in Seq(QueueRow), y \in Seq(QueueRow) : x = a /\ y = b
      BY <3>1
    <3>3. q = x \o y
      BY <1>7, <3>2
    <3>4. /\ q \in Seq(QueueRow) /\ Len(q) = Len(x) + Len(y)
          /\ \A k \in 1..Len(x) : q[k] = x[k]
          /\ \A k \in 1..Len(y) : q[Len(x) + k] = y[k]
      BY <3>3, JoinedAt
    <3> QED BY <3>2, <3>4
  <2> QED BY <1>5, <1>6, <2>1
<1>9. /\ \A k \in 1..n : ~q[k].isEvent /\ q[k].row = nums[k] /\ q[k].value = rows[nums[k]] /\ q[k].st = "pending"
      /\ \A k \in 1..m : q[n + k].isEvent /\ q[n + k].row = from + k /\ q[n + k].st = "pending"
  <2>1. \A k \in 1..n : q[k] = Item(FALSE, nums[k], rows[nums[k]])
    BY <1>5, <1>8
  <2>2. \A k \in 1..m : q[n + k] = Item(TRUE, from + k, events[from + k].value)
    BY <1>6, <1>8
  <2>3. ASSUME NEW k \in 1..n
        PROVE  ~q[k].isEvent /\ q[k].row = nums[k] /\ q[k].value = rows[nums[k]] /\ q[k].st = "pending"
    <3>1. q[k] = Item(FALSE, nums[k], rows[nums[k]])
      BY <2>1
    <3> QED BY <3>1 DEF Item
  <2>4. ASSUME NEW k \in 1..m PROVE q[n + k].isEvent /\ q[n + k].row = from + k /\ q[n + k].st = "pending"
    <3>1. q[n + k] = Item(TRUE, from + k, events[from + k].value)
      BY <2>2
    <3> QED BY <3>1 DEF Item
  <2> QED BY <2>3, <2>4
<1> QED BY <1>1, <1>3, <1>4, <1>8, <1>9 DEF Rowed

(* The same, without names for them.                                       *)
LEMMA RowedIs ==
  ASSUME NEW rows \in Rows, NEW S \in SUBSET DOMAIN rows, NEW from \in Nat, NEW upto \in Nat,
         NEW events \in Seq(EventRow), upto <= Len(events)
  PROVE  /\ InOrder(S, MaxDays) \in Seq(S) /\ Span(from, upto) \in Nat
         /\ Rowing(rows, S, from, upto, events) \in Seq(QueueRow)
         /\ Rowed(rows, from, InOrder(S, MaxDays), Rowing(rows, S, from, upto, events), Span(from, upto))
BY RowingAt, SMTT(60)

-----------------------------------------------------------------------------
(* A row that arrives is held afterwards, or is refused because a day is   *)
(* open.                                                                   *)
RowHeld(s, t, item) ==
    /\ t.refused = s.refused /\ DOMAIN t.rows = DOMAIN s.rows \cup {item.row}
    /\ \A d \in DOMAIN s.rows : t.rows[d].st = s.rows[d].st
    /\ item.row \in DOMAIN s.rows \/ item.value.st # "open" \/ ~OpenClash(s.rows, item.row)
RowRefused(s, t, item) ==
    /\ t.rows = s.rows /\ t.refused = Append(s.refused, item)
    /\ item.row \notin DOMAIN s.rows /\ OpenClash(s.rows, item.row)
EventHeld(s, t, item) ==
    /\ t.rows = s.rows /\ t.refused = s.refused
    /\ IF item.row <= Len(s.marks) THEN t.marks = s.marks ELSE Len(t.marks) = Len(s.marks) + 1

(* TakeRow holds the row afterwards, or refuses it.                        *)
LEMMA RowIsHeld ==
  ASSUME NEW s \in States, NEW item \in QueueRow, item.row \in Row, NEW t, t = TakeRow(s, item)
  PROVE  t.marks = s.marks /\ (RowHeld(s, t, item) \/ RowRefused(s, t, item))
<1>1. s = [rows |-> s.rows, marks |-> s.marks, refused |-> s.refused] /\ s.rows \in Rows
  BY DEF States
<1>2. CASE item.row \in DOMAIN s.rows /\ item.row # Sale
  <2>1. t = [s EXCEPT !.rows = s.rows]
    BY <1>2 DEF TakeRow
  <2>2. t = s
    BY <1>1, <2>1
  <2> QED BY <1>2, <2>2 DEF RowHeld
<1>3. CASE item.row \in DOMAIN s.rows /\ item.row = Sale
  <2>1. t = [s EXCEPT !.rows = Repaired(s.rows, item.value)]
    BY <1>3 DEF TakeRow
  <2>2. t = [rows |-> Repaired(s.rows, item.value), marks |-> s.marks, refused |-> s.refused]
    BY <1>1, <2>1
  <2> DEFINE v == [s.rows[Sale] EXCEPT !.legs = @ \cup item.value.legs]
  <2>3. Repaired(s.rows, item.value) = [s.rows EXCEPT ![Sale] = v]
    BY DEF Repaired
  <2>4. v.st = s.rows[Sale].st
    <3>1. s.rows[Sale] \in Value
      BY <1>1, <1>3, RowsAre
    <3> QED BY <3>1 DEF Value
  <2> HIDE DEF v
  <2>5. PICK rows : rows = [s.rows EXCEPT ![Sale] = v]
    OBVIOUS
  <2>6. DOMAIN rows = DOMAIN s.rows /\ \A d \in DOMAIN s.rows : rows[d] = IF d = Sale THEN v ELSE s.rows[d]
    BY <2>5
  <2>7. t.rows = rows /\ t.marks = s.marks /\ t.refused = s.refused
    BY <2>2, <2>3, <2>5
  <2> QED BY <1>3, <2>4, <2>6, <2>7 DEF RowHeld
<1>4. CASE item.row \notin DOMAIN s.rows /\ item.value.st = "open" /\ OpenClash(s.rows, item.row)
  <2>1. t = [s EXCEPT !.refused = Append(s.refused, item)]
    BY <1>4 DEF TakeRow
  <2>2. t.rows = s.rows /\ t.marks = s.marks /\ t.refused = Append(s.refused, item)
    BY <1>1, <2>1
  <2> QED BY <1>4, <2>2 DEF RowRefused
<1>5. CASE item.row \notin DOMAIN s.rows /\ ~(item.value.st = "open" /\ OpenClash(s.rows, item.row))
  <2>1. t = [s EXCEPT !.rows = With(s.rows, item.row, item.value)]
    BY <1>5 DEF TakeRow
  <2>2. t.rows = With(s.rows, item.row, item.value) /\ t.marks = s.marks /\ t.refused = s.refused
    BY <1>1, <2>1
  <2>3. DOMAIN t.rows = DOMAIN s.rows \cup {item.row} /\ \A d \in DOMAIN s.rows : t.rows[d] = s.rows[d]
    BY <1>5, <2>2 DEF With
  <2> QED BY <1>5, <2>2, <2>3 DEF RowHeld
<1> QED BY <1>2, <1>3, <1>4, <1>5

(* TakeItem stores an event whose turn it is, and holds or refuses a row.  *)
LEMMA ItemIsHeld ==
  ASSUME Typed, NEW s \in States, NEW item \in QueueRow, SoundItem(item), NEW t, t = TakeItem(s, item)
  PROVE  /\ item.isEvent => EventHeld(s, t, item)
         /\ ~item.isEvent => t.marks = s.marks /\ (RowHeld(s, t, item) \/ RowRefused(s, t, item))
<1>1. CASE item.isEvent
  <2>1. t = IF item.row <= Len(s.marks) THEN s ELSE [s EXCEPT !.marks = Append(@, "waiting")]
    BY <1>1 DEF TakeItem, TakeEvent
  <2>2. CASE item.row <= Len(s.marks)
    BY <1>1, <2>1, <2>2 DEF EventHeld
  <2>3. CASE ~(item.row <= Len(s.marks))
    <3>1. t.rows = s.rows /\ t.refused = s.refused /\ t.marks = Append(s.marks, "waiting")
      BY <2>1, <2>3 DEF States
    <3>2. Len(t.marks) = Len(s.marks) + 1
      BY <3>1 DEF States, Marks
    <3> QED BY <1>1, <2>3, <3>1, <3>2 DEF EventHeld
  <2> QED BY <2>2, <2>3
<1>2. CASE ~item.isEvent
  <2>1. t = TakeRow(s, item) /\ item.row \in Row
    BY <1>2, SoundRowIs DEF TakeItem, SoundItem
  <2> QED BY <1>2, <2>1, RowIsHeld
<1> QED BY <1>1, <1>2

(* A row item before item k; an event item before it.                      *)
RowBefore(items, k, c) == \E j \in 1..k - 1 : ~items[j].isEvent /\ items[j].row = c
EventBefore(items, k, n) == \E j \in 1..k - 1 : items[j].isEvent /\ items[j].row = n
DayOpen(rows) == \E d \in DOMAIN rows \ {Sale} : rows[d].st = "open"
(* No event comes before the one before it, and no day before the days     *)
(* before it, which are all open.                                          *)
InTurn(s, items) ==
    \A k \in DOMAIN items : items[k].isEvent =>
        items[k].row - 1 <= Len(s.marks) \/ EventBefore(items, k, items[k].row - 1)
Grounded(rows, items) ==
    /\ Low(rows)
    /\ \A k \in DOMAIN items : DayItem(items[k]) =>
          /\ items[k].value.st = "open"
          /\ \A c \in 1..items[k].row - 1 : c \in DOMAIN rows \/ RowBefore(items, k, c)
(* Nothing is lost of the first n items: each row is held or refused, and  *)
(* what is refused is of them.                                             *)
HeldTo(s, items, n, t) ==
    /\ DOMAIN s.rows \subseteq DOMAIN t.rows /\ Len(s.marks) <= Len(t.marks)
    /\ \A j \in 1..n : ~items[j].isEvent =>
          items[j].row \in DOMAIN t.rows \/ \E m \in DOMAIN t.refused : t.refused[m] = items[j]
    /\ \A m \in DOMAIN t.refused : \E j \in 1..n : t.refused[m] = items[j]
EventsTo(items, n, t) == \A j \in 1..n : items[j].isEvent => items[j].row <= Len(t.marks)
GroundedTo(t) == Grounded(t.rows, t.refused) /\ (t.refused # <<>> => DayOpen(t.rows))

(* One item more is held or refused.                                       *)
LEMMA HeldStep ==
  ASSUME Typed, NEW s, NEW items \in Seq(QueueRow), SoundItems(items), NEW n \in Nat, n + 1 \in DOMAIN items,
         NEW u \in States, Len(s.marks) \in Nat, HeldTo(s, items, n, u),
         NEW t \in States, t = TakeItem(u, items[n + 1])
  PROVE  HeldTo(s, items, n + 1, t)
<1>1. PICK item \in QueueRow : item = items[n + 1] /\ SoundItem(item)
  BY DEF SoundItems
<1>2. /\ item.isEvent => EventHeld(u, t, item)
      /\ ~item.isEvent => t.marks = u.marks /\ (RowHeld(u, t, item) \/ RowRefused(u, t, item))
  BY <1>1, ItemIsHeld
<1>3. Len(u.marks) \in Nat /\ u.refused \in Seq(QueueRow)
  BY DEF States, Marks
<1>4. \A j \in 1..n + 1 : j = n + 1 \/ j \in 1..n
  OBVIOUS
<1>5. n + 1 \in 1..n + 1 /\ \A j \in 1..n : j \in 1..n + 1
  OBVIOUS
<1>6. CASE item.isEvent
  <2>1. t.rows = u.rows /\ t.refused = u.refused /\ Len(u.marks) <= Len(t.marks)
    BY <1>2, <1>3, <1>6 DEF EventHeld
  <2>2. Len(s.marks) <= Len(t.marks)
    <3>1. Len(t.marks) \in Nat
      BY DEF States, Marks
    <3> QED BY <1>3, <2>1, <3>1 DEF HeldTo
  <2> QED BY <1>1, <1>4, <1>5, <1>6, <2>1, <2>2 DEF HeldTo
<1>7. CASE ~item.isEvent /\ RowHeld(u, t, item)
  <2>1. t.refused = u.refused /\ DOMAIN t.rows = DOMAIN u.rows \cup {item.row} /\ t.marks = u.marks
    BY <1>2, <1>7 DEF RowHeld
  <2> QED BY <1>1, <1>4, <1>5, <2>1 DEF HeldTo
<1>8. CASE ~item.isEvent /\ RowRefused(u, t, item)
  <2>1. PICK l \in Nat : l = Len(u.refused) /\ DOMAIN u.refused = 1..l
    BY <1>3
  <2>2. /\ t.rows = u.rows /\ t.marks = u.marks
        /\ DOMAIN t.refused = 1..l + 1 /\ t.refused[l + 1] = item
        /\ \A m \in 1..l : t.refused[m] = u.refused[m]
    BY <1>2, <1>3, <1>8, <2>1 DEF RowRefused
  <2>3. \A m \in 1..l + 1 : m = l + 1 \/ m \in 1..l
    OBVIOUS
  <2>4. l + 1 \in 1..l + 1 /\ \A m \in 1..l : m \in 1..l + 1
    OBVIOUS
  <2>5. ASSUME NEW j \in 1..n + 1, ~items[j].isEvent
        PROVE  items[j].row \in DOMAIN t.rows \/ \E m \in DOMAIN t.refused : t.refused[m] = items[j]
    <3>1. CASE j = n + 1
      BY <1>1, <2>2, <2>4, <3>1
    <3>2. CASE j \in 1..n
      BY <2>1, <2>2, <2>4, <2>5, <3>2 DEF HeldTo
    <3> QED BY <1>4, <3>1, <3>2
  <2>6. ASSUME NEW m \in DOMAIN t.refused PROVE \E j \in 1..n + 1 : t.refused[m] = items[j]
    <3>1. CASE m = l + 1
      BY <1>1, <1>5, <2>2, <3>1
    <3>2. CASE m \in 1..l
      <4>1. PICK j \in 1..n : u.refused[m] = items[j]
        BY <2>1, <3>2 DEF HeldTo
      <4> QED BY <1>5, <2>2, <3>2, <4>1
    <3> QED BY <2>2, <2>3, <3>1, <3>2
  <2> QED BY <2>2, <2>5, <2>6 DEF HeldTo
<1> QED BY <1>2, <1>6, <1>7, <1>8

(* An event whose turn it is, is stored.                                   *)
LEMMA EventsStep ==
  ASSUME Typed, NEW s, NEW items \in Seq(QueueRow), SoundItems(items), NEW n \in Nat, n + 1 \in DOMAIN items,
         NEW u \in States, Len(s.marks) \in Nat, Len(s.marks) <= Len(u.marks),
         InTurn(s, items), EventsTo(items, n, u),
         NEW t \in States, t = TakeItem(u, items[n + 1])
  PROVE  EventsTo(items, n + 1, t)
<1>1. PICK item \in QueueRow : item = items[n + 1] /\ SoundItem(item)
  BY DEF SoundItems
<1>2. /\ item.isEvent => EventHeld(u, t, item)
      /\ ~item.isEvent => t.marks = u.marks
  BY <1>1, ItemIsHeld
<1>3. Len(u.marks) \in Nat /\ Len(t.marks) \in Nat
  BY DEF States, Marks
<1>4. Len(u.marks) <= Len(t.marks)
  BY <1>2, <1>3 DEF EventHeld
<1>5. ASSUME NEW j \in 1..n + 1, items[j].isEvent PROVE items[j].row <= Len(t.marks)
  <2>1. CASE j = n + 1
    <3>1. item.isEvent /\ item.row \in Nat /\ EventHeld(u, t, item)
      BY <1>1, <1>2, <1>5, <2>1 DEF QueueRow
    <3>2. item.row - 1 <= Len(u.marks)
      <4>1. item.row - 1 <= Len(s.marks) \/ EventBefore(items, n + 1, item.row - 1)
        BY <1>1, <3>1 DEF InTurn
      <4>2. CASE item.row - 1 <= Len(s.marks)
        BY <1>3, <3>1, <4>2
      <4>3. CASE EventBefore(items, n + 1, item.row - 1)
        <5>1. PICK i \in 1..n : items[i].isEvent /\ items[i].row = item.row - 1
          BY <4>3 DEF EventBefore
        <5> QED BY <5>1 DEF EventsTo
      <4> QED BY <4>1, <4>2, <4>3
    <3>3. CASE item.row <= Len(u.marks)
      BY <1>1, <1>3, <1>4, <2>1, <3>1, <3>3
    <3>4. CASE ~(item.row <= Len(u.marks))
      <4>1. Len(t.marks) = Len(u.marks) + 1
        BY <3>1, <3>4 DEF EventHeld
      <4> QED BY <1>1, <1>3, <2>1, <3>1, <3>2, <4>1
    <3> QED BY <3>3, <3>4
  <2>2. CASE j # n + 1
    <3>1. j \in 1..n /\ j \in DOMAIN items
      BY <2>2
    <3>2. items[j].row <= Len(u.marks) /\ items[j].row \in Nat
      <4>1. items[j] \in QueueRow
        BY <3>1
      <4> QED BY <1>5, <3>1, <4>1 DEF EventsTo, QueueRow
    <3> QED BY <1>3, <1>4, <3>2
  <2> QED BY <2>1, <2>2
<1> QED BY <1>5 DEF EventsTo

(* No day is taken before the days before it: one of those is open, or was *)
(* refused because a day is.                                               *)
LEMMA GroundedStep ==
  ASSUME Typed, NEW s, NEW items \in Seq(QueueRow), SoundItems(items), NEW n \in Nat, n + 1 \in DOMAIN items,
         NEW u \in States, HeldTo(s, items, n, u), Grounded(s.rows, items), GroundedTo(u),
         NEW t \in States, t = TakeItem(u, items[n + 1])
  PROVE  GroundedTo(t)
<1>1. PICK item \in QueueRow : item = items[n + 1] /\ SoundItem(item)
  BY DEF SoundItems
<1>2. /\ item.isEvent => EventHeld(u, t, item)
      /\ ~item.isEvent => RowHeld(u, t, item) \/ RowRefused(u, t, item)
  BY <1>1, ItemIsHeld
<1>3. u.refused \in Seq(QueueRow) /\ Grounded(u.rows, u.refused) /\ (u.refused # <<>> => DayOpen(u.rows))
  BY DEF States, GroundedTo
<1>4. PICK l \in Nat : l = Len(u.refused) /\ DOMAIN u.refused = 1..l
  BY <1>3
<1>5. ASSUME DayItem(item), NEW c \in 1..item.row - 1, c \notin DOMAIN u.rows
      PROVE  \E m \in 1..l : ~u.refused[m].isEvent /\ u.refused[m].row = c
  <2>1. c \in DOMAIN s.rows \/ RowBefore(items, n + 1, c)
    BY <1>1, <1>5 DEF Grounded
  <2>2. c \notin DOMAIN s.rows
    BY <1>5 DEF HeldTo
  <2>3. PICK j \in 1..n : ~items[j].isEvent /\ items[j].row = c
    BY <2>1, <2>2 DEF RowBefore
  <2>4. PICK m \in DOMAIN u.refused : u.refused[m] = items[j]
    BY <1>5, <2>3 DEF HeldTo
  <2> QED BY <1>4, <2>3, <2>4
<1>6. DayItem(item) => item.value.st = "open"
  BY <1>1 DEF Grounded
<1>7. CASE item.isEvent
  BY <1>2, <1>3, <1>7 DEF EventHeld, GroundedTo
<1>8. CASE ~item.isEvent /\ RowHeld(u, t, item)
  <2>1. /\ t.refused = u.refused /\ DOMAIN t.rows = DOMAIN u.rows \cup {item.row}
        /\ \A d \in DOMAIN u.rows : t.rows[d].st = u.rows[d].st
        /\ item.row \in DOMAIN u.rows \/ item.value.st # "open" \/ ~OpenClash(u.rows, item.row)
    BY <1>8 DEF RowHeld
  <2>2. DayOpen(u.rows) => DayOpen(t.rows)
    BY <2>1 DEF DayOpen
  <2>3. ASSUME NEW d \in DOMAIN t.rows \ {Sale}, NEW c \in 1..d - 1 PROVE c \in DOMAIN t.rows
    <3>1. CASE d \in DOMAIN u.rows
      BY <1>3, <2>1, <2>3, <3>1 DEF Grounded, Low
    <3>2. CASE d \notin DOMAIN u.rows
      <4>1. d = item.row /\ DayItem(item)
        BY <1>8, <2>1, <2>3, <3>2 DEF DayItem
      <4>2. SUFFICES ASSUME c \notin DOMAIN u.rows PROVE FALSE
        BY <2>1
      <4>3. \E m \in 1..l : ~u.refused[m].isEvent /\ u.refused[m].row = c
        BY <1>5, <2>3, <4>1, <4>2
      <4>4. u.refused # <<>>
        BY <1>3, <1>4, <4>3
      <4>5. DayOpen(u.rows)
        BY <1>3, <4>4
      <4>6. OpenClash(u.rows, item.row)
        BY <2>3, <3>2, <4>1, <4>5 DEF DayOpen, OpenClash
      <4> QED BY <1>6, <2>1, <3>2, <4>1, <4>6
    <3> QED BY <3>1, <3>2
  <2>4. Low(t.rows)
    BY <2>3 DEF Low
  <2>5. Grounded(t.rows, t.refused)
    BY <1>3, <2>1, <2>4 DEF Grounded
  <2> QED BY <1>3, <2>1, <2>2, <2>5 DEF GroundedTo
<1>9. CASE ~item.isEvent /\ RowRefused(u, t, item)
  <2>1. /\ t.rows = u.rows
        /\ DOMAIN t.refused = 1..l + 1 /\ t.refused[l + 1] = item
        /\ \A m \in 1..l : t.refused[m] = u.refused[m]
    BY <1>3, <1>4, <1>9 DEF RowRefused
  <2>2. DayOpen(t.rows)
    BY <1>9, <2>1 DEF RowRefused, OpenClash, DayOpen
  <2>3. ASSUME NEW k \in DOMAIN t.refused, DayItem(t.refused[k])
        PROVE  /\ t.refused[k].value.st = "open"
               /\ \A c \in 1..t.refused[k].row - 1 : c \in DOMAIN t.rows \/ RowBefore(t.refused, k, c)
    <3>1. CASE k = l + 1
      <4>1. \A c \in 1..item.row - 1 : c \in DOMAIN u.rows \/ RowBefore(t.refused, l + 1, c)
        <5> SUFFICES ASSUME NEW c \in 1..item.row - 1, c \notin DOMAIN u.rows
                     PROVE  RowBefore(t.refused, l + 1, c)
          OBVIOUS
        <5>1. PICK m \in 1..l : ~u.refused[m].isEvent /\ u.refused[m].row = c
          BY <1>5, <2>1, <2>3, <3>1
        <5>2. m \in 1..(l + 1) - 1
          OBVIOUS
        <5> QED BY <2>1, <5>1, <5>2 DEF RowBefore
      <4> QED BY <1>6, <2>1, <2>3, <3>1, <4>1
    <3>2. CASE k \in 1..l
      <4>1. t.refused[k] = u.refused[k] /\ k \in DOMAIN u.refused
        BY <1>4, <2>1, <3>2
      <4>2. \A c : RowBefore(u.refused, k, c) => RowBefore(t.refused, k, c)
        <5>1. \A j \in 1..k - 1 : j \in 1..l
          BY <3>2
        <5> QED BY <2>1, <5>1 DEF RowBefore
      <4> QED BY <1>3, <2>1, <2>3, <4>1, <4>2 DEF Grounded
    <3>3. k = l + 1 \/ k \in 1..l
      BY <2>1, <2>3
    <3> QED BY <3>1, <3>2, <3>3
  <2>4. Grounded(t.rows, t.refused)
    BY <1>3, <2>1, <2>3 DEF Grounded
  <2> QED BY <2>2, <2>4 DEF GroundedTo
<1> QED BY <1>2, <1>7, <1>8, <1>9

(* What Take does with items, and with what was refused of them.           *)
Holds(s, items, t) ==
    /\ HeldTo(s, items, Len(items), t)
    /\ InTurn(s, items) => EventsTo(items, Len(items), t)
    /\ Grounded(s.rows, items) => Grounded(t.rows, t.refused)

(* Take loses no item, stores the events that come in turn, and takes no   *)
(* day without the days before it.                                         *)
LEMMA TakeHolds ==
  ASSUME Typed, LogMeant, NEW s \in States, Copied(s), NEW items \in Seq(QueueRow), SoundItems(items),
         NEW t, t = Take(s, items)
  PROVE  t \in States /\ Copied(t) /\ SoundRows(t.refused) /\ Holds(s, items, t)
<1>1. PICK f : /\ Take(s, items) = f[Len(items)] /\ f[0] = Cleared(s) /\ \A k \in 0..Len(items) : Fitting(f[k])
               /\ \A k \in 1..Len(items) : f[k] = TakeItem(f[k - 1], items[k])
  BY TakeRun
<1>2. PICK n \in Nat : n = Len(items) /\ DOMAIN items = 1..n
  OBVIOUS
<1>3. Len(s.marks) \in Nat
  BY DEF States, Marks
<1> DEFINE Good(k) == /\ HeldTo(s, items, k, f[k])
                      /\ InTurn(s, items) => EventsTo(items, k, f[k])
                      /\ Grounded(s.rows, items) => GroundedTo(f[k])
           T == {k \in Nat : k <= n => Good(k)}
<1>4. 0 \in T
  <2>1. f[0].rows = s.rows /\ f[0].marks = s.marks /\ f[0].refused = <<>>
    BY <1>1 DEF Cleared, States
  <2>2. HeldTo(s, items, 0, f[0])
    BY <1>3, <2>1 DEF HeldTo
  <2>3. EventsTo(items, 0, f[0])
    BY DEF EventsTo
  <2>4. Grounded(s.rows, items) => GroundedTo(f[0])
    BY <2>1 DEF Grounded, GroundedTo
  <2> QED BY <2>2, <2>3, <2>4
<1>5. ASSUME NEW k \in Nat, k \in T PROVE k + 1 \in T
  <2>1. SUFFICES ASSUME k + 1 <= n PROVE Good(k + 1)
    OBVIOUS
  <2>2. /\ Good(k) /\ k \in 0..n /\ k + 1 \in 0..n /\ k + 1 \in 1..n /\ (k + 1) - 1 = k
    BY <1>5, <2>1
  <2>3. f[k + 1] = TakeItem(f[k], items[k + 1])
    BY <1>1, <1>2, <2>2
  <2>4. PICK u \in States, w \in States : u = f[k] /\ w = f[k + 1]
    BY <1>1, <1>2, <2>2 DEF Fitting
  <2>5. w = TakeItem(u, items[k + 1]) /\ k + 1 \in DOMAIN items /\ HeldTo(s, items, k, u)
    BY <1>2, <2>2, <2>3, <2>4
  <2>6. HeldTo(s, items, k + 1, w)
    BY <1>3, <2>5, HeldStep
  <2>7. InTurn(s, items) => EventsTo(items, k + 1, w)
    <3>1. SUFFICES ASSUME InTurn(s, items) PROVE EventsTo(items, k + 1, w)
      OBVIOUS
    <3>2. EventsTo(items, k, u) /\ Len(s.marks) <= Len(u.marks)
      BY <2>2, <2>4, <2>5, <3>1 DEF HeldTo
    <3> QED BY <1>3, <2>5, <3>1, <3>2, EventsStep
  <2>8. Grounded(s.rows, items) => GroundedTo(w)
    <3>1. SUFFICES ASSUME Grounded(s.rows, items) PROVE GroundedTo(w)
      OBVIOUS
    <3>2. GroundedTo(u)
      BY <2>2, <2>4, <3>1
    <3> QED BY <2>5, <3>1, <3>2, GroundedStep
  <2> QED BY <2>4, <2>6, <2>7, <2>8
<1> HIDE DEF T
<1>6. n \in T
  BY <1>4, <1>5, Induction
<1>7. Good(n) /\ n \in 0..n
  BY <1>6 DEF T
<1>8. Fitting(t) /\ t = f[n]
  BY <1>1, <1>2, <1>7
<1> QED BY <1>2, <1>7, <1>8 DEF Fitting, Holds, GroundedTo

(* Items all of which are refused, in a state they leave as it was, say    *)
(* that a day is open there.                                               *)
LEMMA TakeStuck ==
  ASSUME Typed, LogMeant, NEW s \in States, Copied(s), NEW items \in Seq(QueueRow), SoundItems(items),
         items # <<>>, Len(Take(s, items).refused) = Len(items)
  PROVE  OpenClash(s.rows, items[1].row)
<1>1. PICK f : /\ Take(s, items) = f[Len(items)] /\ f[0] = Cleared(s) /\ \A k \in 0..Len(items) : Fitting(f[k])
               /\ \A k \in 1..Len(items) : f[k] = TakeItem(f[k - 1], items[k])
  BY TakeRun
<1>2. PICK n \in Nat : n = Len(items) /\ DOMAIN items = 1..n /\ 1 <= n
  OBVIOUS
<1> DEFINE P(k) == Len(f[k].refused) < k \/ OpenClash(s.rows, items[1].row)
           T == {k \in Nat : 1 <= k /\ k <= n => P(k)}
<1>3. f[0].rows = s.rows /\ f[0].refused = <<>>
  BY <1>1 DEF Cleared, States
<1>4. 0 \in T
  OBVIOUS
<1>5. ASSUME NEW k \in Nat, k \in T PROVE k + 1 \in T
  <2>1. SUFFICES ASSUME k + 1 <= n PROVE P(k + 1)
    OBVIOUS
  <2>2. k \in 0..n /\ k + 1 \in 0..n /\ k + 1 \in 1..n /\ (k + 1) - 1 = k
    BY <2>1
  <2>3. PICK u \in States, w \in States, item \in QueueRow :
           u = f[k] /\ w = f[k + 1] /\ item = items[k + 1] /\ SoundItem(item)
    <3>1. f[k] \in States /\ f[k + 1] \in States
      BY <1>1, <1>2, <2>2 DEF Fitting
    <3>2. items[k + 1] \in QueueRow /\ SoundItem(items[k + 1])
      BY <1>2, <2>2 DEF SoundItems
    <3> QED BY <3>1, <3>2
  <2>4. w = TakeItem(u, item)
    BY <1>1, <1>2, <2>2, <2>3
  <2>5. u.refused \in Seq(QueueRow) /\ w.refused \in Seq(QueueRow)
    BY DEF States
  <2>6. \/ w.refused = u.refused
        \/ w.refused = Append(u.refused, item) /\ OpenClash(u.rows, item.row)
    <3>1. /\ item.isEvent => EventHeld(u, w, item)
          /\ ~item.isEvent => RowHeld(u, w, item) \/ RowRefused(u, w, item)
      BY <2>3, <2>4, ItemIsHeld
    <3> QED BY <3>1 DEF EventHeld, RowHeld, RowRefused
  <2>7. CASE k = 0
    <3>1. u.rows = s.rows /\ u.refused = <<>> /\ item = items[1]
      BY <1>3, <2>3, <2>7
    <3>2. CASE w.refused = u.refused
      <4>1. Len(w.refused) = 0
        BY <3>1, <3>2
      <4> QED BY <2>3, <2>7, <4>1
    <3>3. CASE OpenClash(u.rows, item.row)
      BY <3>1, <3>3
    <3> QED BY <2>6, <3>2, <3>3
  <2>8. CASE k # 0
    <3>1. P(k)
      BY <1>5, <2>2, <2>8
    <3>2. Len(u.refused) \in Nat /\ Len(w.refused) <= Len(u.refused) + 1
      BY <2>5, <2>6
    <3>3. Len(w.refused) \in Nat
      BY <2>5
    <3>4. Len(u.refused) < k => Len(w.refused) < k + 1
      BY <3>2, <3>3
    <3> QED BY <2>3, <3>1, <3>4
  <2> QED BY <2>7, <2>8
<1> HIDE DEF T
<1>6. n \in T
  BY <1>4, <1>5, Induction
<1>7. P(n)
  BY <1>2, <1>6 DEF T
<1> QED BY <1>1, <1>2, <1>7

(* Rows taken, a sweep, and what was refused kept aside.                   *)
LEMMA RetriedHolds ==
  ASSUME Typed, AtTill, NEW s \in States, Copied(s), NEW items \in Seq(QueueRow), SoundItems(items),
         NEW t, t = Retried(s, items)
  PROVE  t \in States /\ Holds(s, items, t) /\ t.refused = Take(s, items).refused
<1>1. PICK u : u = Take(s, items)
  OBVIOUS
<1>2. u \in States /\ Copied(u) /\ Holds(s, items, u)
  BY <1>1, TakeHolds DEF AtTill
<1>3. PICK w : w = Sweep(u)
  OBVIOUS
<1>4. w \in States /\ w.refused = u.refused /\ DOMAIN w.rows = DOMAIN u.rows /\ Len(w.marks) = Len(u.marks)
  BY <1>2, <1>3, SweepKeeps
<1>5. t = [w EXCEPT !.refused = u.refused]
  BY <1>1, <1>3 DEF Retried
<1>6. t = w
  BY <1>4, <1>5 DEF States
<1>7. Holds(s, items, w)
  <2>1. HeldTo(s, items, Len(items), w)
    BY <1>2, <1>4 DEF Holds, HeldTo
  <2>2. InTurn(s, items) => EventsTo(items, Len(items), w)
    BY <1>2, <1>4 DEF Holds, EventsTo
  <2>3. Grounded(s.rows, items) => Grounded(w.rows, w.refused)
    BY <1>2, <1>4 DEF Holds, Grounded, Low
  <2> QED BY <2>1, <2>2, <2>3 DEF Holds
<1> QED BY <1>1, <1>4, <1>6, <1>7

(* The items of a pass, then those refused at first once more.             *)
LEMMA PassHolds ==
  ASSUME Typed, AtTill, NEW s \in States, Copied(s), NEW items \in Seq(QueueRow), SoundItems(items),
         NEW u, u = Take(s, items), NEW t, t = Retried(Sweep(u), u.refused)
  PROVE  t \in States /\ Holds(s, items, t)
<1>1. u \in States /\ Copied(u) /\ SoundRows(u.refused) /\ Holds(s, items, u)
  BY TakeHolds DEF AtTill
<1>2. PICK w : w = Sweep(u)
  OBVIOUS
<1>3. /\ w \in States /\ Copied(w) /\ w.refused = u.refused
      /\ DOMAIN w.rows = DOMAIN u.rows /\ Len(w.marks) = Len(u.marks)
  BY <1>1, <1>2, SweepKeeps
<1>4. u.refused \in Seq(QueueRow) /\ SoundItems(u.refused)
  BY <1>1 DEF States, SoundRows, SoundItems
<1>5. PICK more \in Seq(QueueRow) : more = u.refused /\ SoundItems(more) /\ DOMAIN more = 1..Len(more)
  BY <1>4
<1>6. t = Retried(w, more)
  BY <1>2, <1>5
<1>7. t \in States /\ Holds(w, more, t)
  BY <1>3, <1>5, <1>6, RetriedHolds
<1>8. DOMAIN s.rows \subseteq DOMAIN t.rows /\ DOMAIN u.rows \subseteq DOMAIN t.rows
  BY <1>1, <1>3, <1>7 DEF Holds, HeldTo
<1>9. Len(s.marks) <= Len(t.marks) /\ Len(u.marks) <= Len(t.marks)
  <2>1. Len(s.marks) \in Nat /\ Len(u.marks) \in Nat /\ Len(t.marks) \in Nat
    BY <1>1, <1>7 DEF States, Marks
  <2>2. Len(s.marks) <= Len(u.marks) /\ Len(u.marks) <= Len(t.marks)
    BY <1>1, <1>3, <1>7 DEF Holds, HeldTo
  <2> QED BY <2>1, <2>2
<1>10. ASSUME NEW j \in 1..Len(items), ~items[j].isEvent
       PROVE  items[j].row \in DOMAIN t.rows \/ \E m \in DOMAIN t.refused : t.refused[m] = items[j]
  <2>1. CASE items[j].row \in DOMAIN u.rows
    BY <1>8, <2>1
  <2>2. CASE \E m \in DOMAIN u.refused : u.refused[m] = items[j]
    <3>1. PICK m \in 1..Len(more) : more[m] = items[j]
      BY <1>5, <2>2
    <3> QED BY <1>7, <1>10, <3>1 DEF Holds, HeldTo
  <2> QED BY <1>1, <1>10, <2>1, <2>2 DEF Holds, HeldTo
<1>11. ASSUME NEW m \in DOMAIN t.refused PROVE \E j \in 1..Len(items) : t.refused[m] = items[j]
  <2>1. PICK k \in 1..Len(more) : t.refused[m] = more[k]
    BY <1>7 DEF Holds, HeldTo
  <2> QED BY <1>1, <1>5, <2>1 DEF Holds, HeldTo
<1>12. HeldTo(s, items, Len(items), t)
  BY <1>8, <1>9, <1>10, <1>11 DEF HeldTo
<1>13. InTurn(s, items) => EventsTo(items, Len(items), t)
  <2>1. SUFFICES ASSUME InTurn(s, items), NEW j \in 1..Len(items), items[j].isEvent
                 PROVE  items[j].row <= Len(t.marks)
    BY DEF EventsTo
  <2>2. items[j].row <= Len(u.marks)
    BY <1>1, <2>1 DEF Holds, EventsTo
  <2>3. items[j] \in QueueRow /\ Len(u.marks) \in Nat /\ Len(t.marks) \in Nat
    BY <1>1, <1>7 DEF States, Marks
  <2>4. items[j].row \in Nat
    BY <2>3 DEF QueueRow
  <2> QED BY <1>9, <2>2, <2>3, <2>4
<1>14. Grounded(s.rows, items) => Grounded(t.rows, t.refused)
  <2>1. SUFFICES ASSUME Grounded(s.rows, items) PROVE Grounded(t.rows, t.refused)
    OBVIOUS
  <2>2. Grounded(u.rows, u.refused)
    BY <1>1, <2>1 DEF Holds
  <2>3. Grounded(w.rows, more)
    BY <1>3, <1>5, <2>2 DEF Grounded, Low
  <2> QED BY <1>7, <2>3 DEF Holds
<1> QED BY <1>7, <1>12, <1>13, <1>14 DEF Holds

-----------------------------------------------------------------------------
(* What is queued, and what is sent of it.                                 *)

(* A request carries the first of the pending rows.                        *)
LEMMA BatchOrder ==
  ASSUME Typed
  PROVE  /\ \A k \in DOMAIN Batch : Batch[k] \in DOMAIN queue
         /\ DOMAIN Sending = DOMAIN Batch /\ \A k \in DOMAIN Batch : Sending[k] = queue[Batch[k]]
         /\ DOMAIN Batch = 1..Len(Batch) /\ Len(Batch) \in Nat
         /\ \A k \in DOMAIN Batch : \A i \in DOMAIN queue :
               queue[i].st = "pending" /\ i < Batch[k] => \E j \in 1..k - 1 : j \in DOMAIN Batch /\ Batch[j] = i
         /\ Batch = <<>> => \A i \in DOMAIN queue : queue[i].st # "pending"
<1> DEFINE P == {i \in DOMAIN queue : queue[i].st = "pending"}
           q == InOrder(P, Len(queue))
           m == IF Len(q) < BatchRows THEN Len(q) ELSE BatchRows
<1>1. queue \in Seq(QueueRow) /\ Len(queue) \in Nat /\ DOMAIN queue = 1..Len(queue)
  BY DEF Typed
<1>2. /\ q \in Seq(P \cap (0..Len(queue)))
      /\ \A n \in P \cap (0..Len(queue)) : \E k \in DOMAIN q : q[k] = n
      /\ \A j, k \in DOMAIN q : j < k => q[j] < q[k]
  <2> HIDE DEF P
  <2> QED BY <1>1, InOrderAll
<1>3. Batch = SubSeq(q, 1, m)
  BY DEF Batch
<1> HIDE DEF q
<1>4. P \subseteq 0..Len(queue) /\ P \subseteq DOMAIN queue /\ P \subseteq Nat
  BY <1>1
<1>5. q \in Seq(P) /\ \A n \in P : \E k \in DOMAIN q : q[k] = n
  BY <1>2, <1>4
<1>6. m \in Nat /\ m <= Len(q) /\ (m = 0 => Len(q) = 0)
  BY <1>5, BoundsAssumption
<1> HIDE DEF m, P
<1>7. Batch \in Seq(P) /\ DOMAIN Batch = 1..m /\ \A k \in 1..m : k \in DOMAIN q /\ Batch[k] = q[k]
  BY <1>3, <1>5, <1>6, Prefix
<1>8. Len(Batch) = m
  BY <1>6, <1>7
<1>9. \A k \in DOMAIN Batch : Batch[k] \in P
  BY <1>5, <1>7
<1>10. ASSUME NEW k \in DOMAIN Batch, NEW i \in DOMAIN queue, queue[i].st = "pending", i < Batch[k]
       PROVE  \E j \in 1..k - 1 : j \in DOMAIN Batch /\ Batch[j] = i
  <2>1. i \in P
    BY <1>10 DEF P
  <2>2. PICK j \in DOMAIN q : q[j] = i
    BY <1>5, <2>1
  <2>3. PICK l \in Nat : l = Len(q) /\ DOMAIN q = 1..l
    BY <1>5
  <2>4. j \in 1..l /\ k \in 1..l /\ k \in 1..m /\ Batch[k] = q[k] /\ q[k] \in Nat /\ q[j] \in Nat
    BY <1>4, <1>5, <1>6, <1>7, <1>10, <2>2, <2>3
  <2>5. j < k
    <3>1. j # k
      BY <1>10, <2>2, <2>4
    <3>2. ~(k < j)
      BY <1>2, <1>10, <2>2, <2>3, <2>4
    <3> QED BY <2>4, <3>1, <3>2
  <2>6. j \in 1..m /\ j \in 1..k - 1
    BY <1>6, <2>4, <2>5
  <2> QED BY <1>7, <2>2, <2>6
<1>11. Batch = <<>> => \A i \in DOMAIN queue : queue[i].st # "pending"
  <2>1. SUFFICES ASSUME Batch = <<>> PROVE P = {}
    BY DEF P
  <2>2. m = 0
    BY <1>6, <1>7, <2>1
  <2>3. DOMAIN q = {}
    BY <1>5, <1>6, <2>2
  <2> QED BY <1>5, <2>3
<1>12. DOMAIN Sending = DOMAIN Batch /\ \A k \in DOMAIN Batch : Sending[k] = queue[Batch[k]]
  BY DEF Sending
<1> QED BY <1>4, <1>6, <1>7, <1>8, <1>9, <1>10, <1>11, <1>12

(* What is sent is of the queue, and sound.                                *)
LEMMA SendingIs ==
  ASSUME RowsInv
  PROVE  Sending \in Seq(QueueRow) /\ SoundItems(Sending)
<1>1. Typed /\ OnTheWay
  BY DEF RowsInv
<1>2. Sending \in Seq(QueueRow) /\ ToSet(Sending) \subseteq ToSet(queue)
  BY <1>1, BatchIs
<1>3. ASSUME NEW k \in DOMAIN Sending PROVE SoundItem(Sending[k])
  <2>1. \A q \in Seq(QueueRow) : \A i \in DOMAIN q : q[i] \in QueueRow /\ q[i] \in ToSet(q)
    BY DEF ToSet
  <2>2. Sending[k] \in ToSet(Sending) /\ Sending[k] \in QueueRow
    BY <1>2, <2>1
  <2> QED BY <1>1, <1>2, <2>2 DEF OnTheWay
<1> QED BY <1>2, <1>3 DEF SoundItems

(* The queue's rows and their types.                                       *)
LEMMA QueueRowIs ==
  ASSUME Typed, NEW i \in DOMAIN queue
  PROVE  /\ queue[i] \in QueueRow /\ queue[i].row \in Nat /\ i \in Nat /\ queue[i].isEvent \in BOOLEAN
         /\ queue[i].st \in {"pending", "delivered", "failed"} /\ queue[i] \in ToSet(queue)
<1>1. queue \in Seq(QueueRow)
  BY DEF Typed
<1>2. queue[i] \in QueueRow /\ i \in Nat /\ queue[i] \in ToSet(queue)
  BY <1>1 DEF ToSet
<1> QED BY <1>2 DEF QueueRow

(* The queued events are finitely many.                                    *)
LEMMA ToldIs ==
  ASSUME Typed
  PROVE  Told \in Nat /\ IsFiniteSet({i \in DOMAIN queue : queue[i].isEvent})
<1>1. Len(queue) \in Nat /\ DOMAIN queue = 1..Len(queue)
  BY DEF Typed
<1>2. IsFiniteSet(1..Len(queue))
  BY <1>1, FS_Interval
<1>3. IsFiniteSet({i \in DOMAIN queue : queue[i].isEvent})
  BY <1>1, <1>2, FS_Subset
<1> QED BY <1>3, FS_CardinalityType DEF Told

(* A day whose row is not queued yet is the last, and open.                *)
LEMMA DaysAre ==
  ASSUME AtTill, RowsQueued, NEW d \in Days
  PROVE  /\ d \in Nat /\ d # Sale /\ 1..d \subseteq Days
         /\ d \notin Queued => own[d].st = "open" /\ \A c \in Days : c <= d
         /\ \A c \in 1..d - 1 : c \in Queued
<1>1. PICK k \in 0..MaxDays : Days = 1..k /\ \A c \in 1..k : c < k => own[c].st = "closed"
  BY DEF AtTill, DaysTold
<1>2. k \in Nat /\ d \in 1..k
  BY <1>1, BoundsAssumption
<1>3. ASSUME NEW c \in Days, c \notin Queued PROVE own[c].st = "open" /\ c = k
  <2>1. own[c].st = "open"
    BY <1>3 DEF RowsQueued, Opened
  <2>2. c \in 1..k /\ ~(c < k)
    BY <1>1, <1>3, <2>1
  <2> QED BY <1>2, <2>1, <2>2
<1>4. \A c \in 1..d - 1 : c \in Days /\ c # k
  BY <1>1, <1>2
<1>5. \A c \in Days : c <= k
  BY <1>1, <1>2
<1>6. d # Sale /\ 1..d \subseteq Days
  BY <1>1, <1>2 DEF Sale
<1> QED BY <1>2, <1>3, <1>4, <1>5, <1>6

(* An event that is sent comes after the one before it.                    *)
LEMMA SentInTurn ==
  ASSUME RowsInv, EventsQueued, Delivered, NEW s, s.marks = ev["server"]
  PROVE  InTurn(s, Sending)
<1>1. Typed /\ ev["server"] \in Marks
  BY StateIs DEF RowsInv, Replica
<1>2. PICK l \in Nat : l = Len(s.marks)
  BY <1>1 DEF Marks
<1> SUFFICES ASSUME NEW k \in DOMAIN Sending, Sending[k].isEvent, ~(Sending[k].row - 1 <= Len(s.marks))
             PROVE  EventBefore(Sending, k, Sending[k].row - 1)
  BY DEF InTurn
<1>3. PICK i \in DOMAIN queue : i = Batch[k] /\ Sending[k] = queue[i] /\ k \in DOMAIN Batch
  BY <1>1, BatchOrder
<1>4. PICK r \in Nat : r = queue[i].row /\ i \in Nat
  BY <1>1, QueueRowIs
<1>5. Told \in Nat /\ r \in 1..Told
  BY <1>1, <1>3, <1>4, ToldIs DEF EventsQueued
<1>6. r - 1 \in 1..Told
  BY <1>2, <1>3, <1>4, <1>5
<1>7. PICK j \in DOMAIN queue : queue[j].isEvent /\ queue[j].row = r - 1
  BY <1>6 DEF EventsQueued
<1>8. j \in Nat /\ queue[j].st \in {"pending", "delivered", "failed"}
  BY <1>1, QueueRowIs
<1>9. j < i
  <2>1. j # i
    BY <1>4, <1>7
  <2>2. ~(i < j)
    <3>1. i < j => r < r - 1
      BY <1>3, <1>4, <1>7 DEF EventsQueued
    <3> QED BY <1>4, <3>1
  <2> QED BY <1>4, <1>8, <2>1, <2>2
<1>10. queue[j].st = "pending"
  <2>1. queue[j].st # "failed"
    BY <1>7 DEF Delivered
  <2>2. queue[j].st # "delivered"
    BY <1>3, <1>4, <1>7 DEF Delivered
  <2> QED BY <1>8, <2>1, <2>2
<1>11. PICK m \in 1..k - 1 : m \in DOMAIN Batch /\ Batch[m] = j
  BY <1>1, <1>3, <1>9, <1>10, BatchOrder
<1>12. Sending[m] = queue[j]
  BY <1>1, <1>11, BatchOrder
<1> QED BY <1>3, <1>4, <1>7, <1>11, <1>12 DEF EventBefore

(* A day that is sent is open, and comes after the days before it.         *)
LEMMA SentGrounded ==
  ASSUME RowsInv, RowsQueued, Delivered, Low(copy["server"]), ~GivenUp
  PROVE  Grounded(copy["server"], Sending)
<1>1. Typed /\ AtTill /\ OnTheWay
  BY DEF RowsInv
<1>2. ASSUME NEW k \in DOMAIN Sending, DayItem(Sending[k])
      PROVE  /\ Sending[k].value.st = "open"
             /\ \A c \in 1..Sending[k].row - 1 : c \in DOMAIN copy["server"] \/ RowBefore(Sending, k, c)
  <2>1. PICK i \in DOMAIN queue : i = Batch[k] /\ Sending[k] = queue[i] /\ k \in DOMAIN Batch
    BY <1>1, BatchOrder
  <2>2. PICK d \in Nat : d = queue[i].row /\ i \in Nat
    BY <1>1, QueueRowIs
  <2>3. SoundItem(queue[i])
    BY <1>1, QueueRowIs DEF OnTheWay
  <2>4. d \in Days
    BY <1>2, <2>1, <2>2, <2>3 DEF DayItem, SoundItem, Sound, Days
  <2>5. ASSUME NEW c \in 1..d - 1, c \notin DOMAIN copy["server"] PROVE RowBefore(Sending, k, c)
    <3>1. c \in Queued /\ c \in Nat /\ c # 0
      BY <1>1, <2>4, DaysAre
    <3>2. PICK j \in DOMAIN queue : ~queue[j].isEvent /\ queue[j].row = c
      BY <3>1 DEF Queued
    <3>3. j \in Nat /\ queue[j].st \in {"pending", "delivered", "failed"} /\ DayItem(queue[j])
      BY <1>1, <3>1, <3>2, QueueRowIs DEF DayItem, Sale
    <3>4. j < i
      <4>1. j # i
        BY <2>2, <2>5, <3>2
      <4>2. ~(i < j)
        <5>1. i < j => d < c
          BY <1>2, <2>1, <2>2, <3>2, <3>3 DEF RowsQueued
        <5> QED BY <2>2, <2>5, <5>1
      <4> QED BY <2>2, <3>3, <4>1, <4>2
    <3>5. queue[j].st = "pending"
      <4>1. queue[j].st # "failed"
        BY DEF GivenUp
      <4>2. queue[j].st # "delivered"
        BY <2>5, <3>2 DEF Delivered
      <4> QED BY <3>3, <4>1, <4>2
    <3>6. PICK m \in 1..k - 1 : m \in DOMAIN Batch /\ Batch[m] = j
      BY <1>1, <2>1, <3>4, <3>5, BatchOrder
    <3>7. Sending[m] = queue[j]
      BY <1>1, <3>6, BatchOrder
    <3> QED BY <3>2, <3>6, <3>7 DEF RowBefore
  <2>6. Sending[k].value.st = "open"
    BY <1>2, <2>1 DEF RowsQueued
  <2> QED BY <2>1, <2>2, <2>5, <2>6
<1> QED BY <1>2 DEF Grounded

(* What the server makes of a request: it has the events, and the rows but *)
(* for those its answer names.                                             *)
LEMMA Answered ==
  ASSUME RowsInv, EventsQueued, Delivered, NEW t, t = NodeSync(Sending)
  PROVE  /\ t \in States
         /\ DOMAIN copy["server"] \subseteq DOMAIN t.rows /\ Len(ev["server"]) <= Len(t.marks)
         /\ \A i \in ToSet(Batch) : i \in DOMAIN queue /\
               IF queue[i].isEvent THEN queue[i].row <= Len(t.marks)
               ELSE queue[i].row \in DOMAIN t.rows \cup {t.refused[m].row : m \in DOMAIN t.refused}
         /\ Grounded(copy["server"], Sending) => Low(t.rows)
<1>1. Typed /\ AtTill
  BY DEF RowsInv
<1>2. PICK s : s = State("server")
  OBVIOUS
<1>3. s \in States /\ Copied(s) /\ s.rows = copy["server"] /\ s.marks = ev["server"]
  BY <1>2, StateIs DEF Replica
<1>4. PICK items \in Seq(QueueRow) : items = Sending /\ SoundItems(items)
  BY SendingIs
<1>5. PICK u : u = Take(s, items)
  OBVIOUS
<1>6. t = Retried(Sweep(u), u.refused)
  BY <1>2, <1>4, <1>5 DEF NodeSync, Retried
<1>7. t \in States /\ Holds(s, items, t)
  BY <1>1, <1>3, <1>4, <1>5, <1>6, PassHolds
<1>8. EventsTo(items, Len(items), t)
  <2>1. InTurn(s, items)
    BY <1>3, <1>4, SentInTurn
  <2> QED BY <1>7, <2>1 DEF Holds
<1>9. ASSUME NEW i \in ToSet(Batch)
      PROVE  i \in DOMAIN queue /\ IF queue[i].isEvent THEN queue[i].row <= Len(t.marks)
             ELSE queue[i].row \in DOMAIN t.rows \cup {t.refused[m].row : m \in DOMAIN t.refused}
  <2>1. PICK k \in DOMAIN Batch : i = Batch[k]
    BY <1>9 DEF ToSet
  <2>2. i \in DOMAIN queue /\ k \in 1..Len(items) /\ items[k] = queue[i]
    <3>1. DOMAIN items = 1..Len(items)
      BY <1>4
    <3> QED BY <1>1, <1>4, <2>1, <3>1, BatchOrder
  <2>3. queue[i].isEvent => queue[i].row <= Len(t.marks)
    BY <1>8, <2>2 DEF EventsTo
  <2>4. ~queue[i].isEvent => queue[i].row \in DOMAIN t.rows \/ \E m \in DOMAIN t.refused : t.refused[m] = queue[i]
    BY <1>7, <2>2 DEF Holds, HeldTo
  <2> QED BY <2>2, <2>3, <2>4
<1>10. Grounded(copy["server"], Sending) => Low(t.rows)
  BY <1>3, <1>4, <1>7 DEF Holds, Grounded
<1> QED BY <1>3, <1>7, <1>9, <1>10 DEF Holds, HeldTo

-----------------------------------------------------------------------------
(* Each step leaves nothing out.                                           *)

(* The queue's rows, whatever became of them.                              *)
SameRows ==
    /\ DOMAIN queue' = DOMAIN queue
    /\ \A i \in DOMAIN queue : /\ queue'[i].isEvent = queue[i].isEvent /\ queue'[i].row = queue[i].row
                               /\ queue'[i].value = queue[i].value

(* The queue keeps its order when only the marks of its rows change.       *)
LEMMA QueueStays ==
  ASSUME Typed, Typed', RowsQueued, EventsQueued, SameRows, Len(log) <= Len(log'),
         \A d \in Days' \ Queued : own'[d] = Opened
  PROVE  RowsQueued' /\ EventsQueued'
<1>1. Queued' = Queued
  BY DEF Queued, SameRows
<1>2. Told' = Told
  <2>1. {i \in DOMAIN queue' : queue'[i].isEvent} = {i \in DOMAIN queue : queue[i].isEvent}
    BY DEF SameRows
  <2> QED BY <2>1 DEF Told
<1>3. RowsQueued'
  <2>1. \A i \in DOMAIN queue : DayItem(queue'[i]) <=> DayItem(queue[i])
    BY DEF SameRows, DayItem
  <2> QED BY <1>1, <2>1 DEF RowsQueued, SameRows
<1>4. EventsQueued'
  <2>1. Told <= Len(log')
    <3>1. Told \in Nat /\ Len(log) \in Nat /\ Len(log') \in Nat
      BY ToldIs DEF Typed
    <3> QED BY <3>1 DEF EventsQueued
  <2> QED BY <1>2, <2>1 DEF EventsQueued, SameRows
<1> QED BY <1>3, <1>4

(* The days that are not queued yet are as they were.                      *)
LEMMA DaysLeft ==
  ASSUME RowsQueued, own' = own
  PROVE  \A d \in Days' \ Queued : own'[d] = Opened
BY DEF RowsQueued, Days

(* A step at the till: of the days only one whose row is queued changes.   *)
LEMMA TradeLeaves ==
  ASSUME LeftInv, RowsInv', Trade
  PROVE  LeftInv'
<1>1. Typed /\ Typed' /\ AtTill /\ RowsQueued /\ EventsQueued /\ log \in Seq(EventRow) /\ Len(log) \in Nat
  BY DEF LeftInv, RowsInv, Typed
<1>2. /\ UNCHANGED <<queue, copy, ev, pulled, quar>>
      /\ log' = log \/ \E e : log' = Append(log, e)
  BY DEF Trade, OpenDay, RingSale, VoidSale, RefundSale, CloseDay, ReopenDay, Change, peerVars
<1>3. Len(log) <= Len(log')
  BY <1>1, <1>2
<1>4. \A d \in Days' \ Queued : own'[d] = Opened
  <2>1. ASSUME NEW r, NEW v, own' = With(own, r, v), r = Sale \/ r \in Queued \/ v = Opened
        PROVE  \A d \in Days' \ Queued : own'[d] = Opened
    <3>1. DOMAIN own' = DOMAIN own \cup {r} /\ \A q \in DOMAIN own' : own'[q] = IF q = r THEN v ELSE own[q]
      BY <2>1 DEF With
    <3> QED BY <1>1, <2>1, <3>1 DEF RowsQueued, Days
  <2>2. CASE OpenDay
    BY <2>1, <2>2 DEF OpenDay
  <2>3. CASE RingSale
    BY <2>1, <2>3 DEF RingSale
  <2>4. CASE VoidSale
    BY <2>1, <2>4 DEF VoidSale, Change
  <2>5. CASE RefundSale
    <3>1. own' = [own EXCEPT ![Sale].legs = Leg]
      BY <2>5 DEF RefundSale
    <3>2. DOMAIN own' = DOMAIN own /\ \A d \in DOMAIN own \ {Sale} : own'[d] = own[d]
      BY <3>1
    <3> QED BY <1>1, <3>2 DEF RowsQueued, Days
  <2>6. ASSUME NEW d \in Days, CloseDay(d) PROVE \A c \in Days' \ Queued : own'[c] = Opened
    BY <2>1, <2>6 DEF CloseDay, Change
  <2>7. ASSUME NEW d \in Days, ReopenDay(d) PROVE \A c \in Days' \ Queued : own'[c] = Opened
    <3>1. d \in Queued
      BY <1>1, <2>7 DEF ReopenDay, RowsQueued, Opened
    <3> QED BY <2>1, <2>7, <3>1 DEF ReopenDay, Change
  <2> QED BY <2>2, <2>3, <2>4, <2>5, <2>6, <2>7 DEF Trade
<1>5. SameRows
  BY <1>2 DEF SameRows
<1>6. RowsQueued' /\ EventsQueued'
  BY <1>1, <1>3, <1>4, <1>5, QueueStays
<1>7. Delivered'
  BY <1>2 DEF LeftInv, Delivered
<1>8. (~GivenUp => Passed)'
  BY <1>2 DEF LeftInv, GivenUp, Passed, Low
<1> QED BY <1>6, <1>7, <1>8 DEF LeftInv

(* What the answer names as refused.                                       *)
Bad(t) == {t.refused[m].row : m \in DOMAIN t.refused}
Accepted(t, i) == i \in ToSet(Batch) /\ (queue[i].isEvent \/ queue[i].row \notin Bad(t))

(* A request reaches the server, and its answer the till or not.           *)
LEMMA ServerStep ==
  ASSUME LeftInv, RowsInv', NEW t, t = NodeSync(Sending), Becomes("server", t), SameRows,
         UNCHANGED <<own, log, pulled, quar>>,
         \A i \in DOMAIN queue : queue[i].st = "failed" => queue'[i].st = "failed",
         \A i \in DOMAIN queue : queue[i].isEvent /\ queue'[i].st = "failed" => queue[i].st = "failed",
         \A i \in DOMAIN queue : queue'[i].st = "delivered" => queue[i].st = "delivered" \/ Accepted(t, i)
  PROVE  LeftInv'
<1>1. RowsInv /\ Typed /\ Typed' /\ RowsQueued /\ EventsQueued /\ Delivered
  BY DEF LeftInv, RowsInv
<1>2. /\ t \in States
      /\ DOMAIN copy["server"] \subseteq DOMAIN t.rows /\ Len(ev["server"]) <= Len(t.marks)
      /\ \A i \in ToSet(Batch) : i \in DOMAIN queue /\
            IF queue[i].isEvent THEN queue[i].row <= Len(t.marks)
            ELSE queue[i].row \in DOMAIN t.rows \cup Bad(t)
      /\ Grounded(copy["server"], Sending) => Low(t.rows)
  BY <1>1, Answered DEF Bad
<1>3. copy'["server"] = t.rows /\ copy'["peer"] = copy["peer"] /\ ev'["server"] = t.marks
  <2>1. DOMAIN copy = {"server", "peer"} /\ DOMAIN ev = {"server", "peer"}
    BY <1>1 DEF Typed, Replica
  <2> QED BY <2>1 DEF Becomes
<1>4. Len(ev["server"]) \in Nat /\ Len(t.marks) \in Nat
  BY <1>1, <1>2, StateIs DEF States, Marks, Replica
<1>5. RowsQueued' /\ EventsQueued'
  <2>1. Len(log) <= Len(log')
    <3>1. Len(log) \in Nat
      BY <1>1 DEF Typed
    <3> QED BY <3>1
  <2> QED BY <1>1, <2>1, DaysLeft, QueueStays
<1>6. Delivered'
  <2>1. ASSUME NEW i \in DOMAIN queue, queue[i].isEvent, queue'[i].st = "delivered" PROVE queue[i].row <= Len(t.marks)
    <3>1. CASE queue[i].st = "delivered"
      <4>1. queue[i].row <= Len(ev["server"]) /\ queue[i].row \in Nat
        BY <1>1, <2>1, <3>1, QueueRowIs DEF Delivered
      <4> QED BY <1>2, <1>4, <4>1
    <3>2. CASE i \in ToSet(Batch)
      BY <1>2, <2>1, <3>2
    <3> QED BY <2>1, <3>1, <3>2 DEF Accepted
  <2>2. ASSUME NEW i \in DOMAIN queue, ~queue[i].isEvent, queue'[i].st = "delivered" PROVE queue[i].row \in DOMAIN t.rows
    <3>1. CASE queue[i].st = "delivered"
      BY <1>1, <1>2, <2>2, <3>1 DEF Delivered
    <3>2. CASE i \in ToSet(Batch) /\ queue[i].row \notin Bad(t)
      BY <1>2, <2>2, <3>2
    <3> QED BY <2>2, <3>1, <3>2 DEF Accepted
  <2>3. \A i \in DOMAIN queue : queue[i].isEvent => queue'[i].st # "failed"
    BY <1>1 DEF Delivered
  <2> QED BY <1>3, <2>1, <2>2, <2>3 DEF Delivered, SameRows
<1>7. (~GivenUp => Passed)'
  <2>1. SUFFICES ASSUME ~GivenUp' PROVE Passed'
    OBVIOUS
  <2>2. ~GivenUp
    BY <2>1 DEF GivenUp, SameRows
  <2>3. Passed
    BY <2>2 DEF LeftInv
  <2>4. Low(t.rows)
    BY <1>1, <1>2, <2>2, <2>3, SentGrounded DEF Passed
  <2>5. ASSUME NEW d \in DOMAIN t.rows \ {Sale}, d <= pulled PROVE d \in DOMAIN copy["server"]
    <3>1. t.rows \in Rows /\ pulled \in Row /\ d \in Row
      BY <1>1, <1>2, RowsAre DEF States, Typed
    <3>2. d \in Nat /\ pulled \in Nat /\ d # 0
      BY <2>5, <3>1, BoundsAssumption DEF Row, Sale
    <3>3. pulled # Sale /\ pulled \in DOMAIN copy["server"]
      BY <2>3, <2>5, <3>2 DEF Passed, Sale
    <3>4. CASE d = pulled
      BY <3>3, <3>4
    <3>5. CASE d # pulled
      <4>1. d \in 1..pulled - 1
        BY <2>5, <3>2, <3>5
      <4> QED BY <2>3, <3>3, <4>1 DEF Passed, Low
    <3> QED BY <3>4, <3>5
  <2>6. \A d \in DOMAIN t.rows \ {Sale} :
           d <= pulled => d \in DOMAIN copy["peer"] \/ \E k \in DOMAIN quar : quar[k].row = d
    BY <2>3, <2>5 DEF Passed
  <2>7. pulled # Sale => pulled \in DOMAIN t.rows
    BY <1>2, <2>3 DEF Passed
  <2> QED BY <1>3, <2>4, <2>6, <2>7 DEF Passed, Low
<1> QED BY <1>5, <1>6, <1>7 DEF LeftInv

(* What a queue row is after an answer.                                    *)
LEMMA SettledAt ==
  ASSUME Typed, OnTheWay, NEW t, NEW q, q = Settled(t)
  PROVE  /\ DOMAIN q = DOMAIN queue
         /\ \A i \in DOMAIN queue :
               /\ q[i].isEvent = queue[i].isEvent /\ q[i].row = queue[i].row /\ q[i].value = queue[i].value
               /\ queue[i].st = "failed" => q[i].st = "failed"
               /\ queue[i].isEvent /\ q[i].st = "failed" => queue[i].st = "failed"
               /\ q[i].st = "delivered" => queue[i].st = "delivered" \/ Accepted(t, i)
<1>1. DOMAIN q = DOMAIN queue
  BY DEF Settled
<1>2. ASSUME NEW i \in DOMAIN queue
      PROVE  /\ q[i].isEvent = queue[i].isEvent /\ q[i].row = queue[i].row /\ q[i].value = queue[i].value
             /\ queue[i].st = "failed" => q[i].st = "failed"
             /\ queue[i].isEvent /\ q[i].st = "failed" => queue[i].st = "failed"
             /\ q[i].st = "delivered" => queue[i].st = "delivered" \/ Accepted(t, i)
  <2>1. PICK x \in QueueRow : x = queue[i] /\ (x.st = "pending" => x.att < MaxAttempts)
    BY QueueRowIs DEF OnTheWay
  <2>2. i \in ToSet(Batch) => x.st = "pending"
    BY <2>1, BatchIs DEF ToSet
  <2>3. CASE i \notin ToSet(Batch)
    <3>1. q[i] = x
      BY <2>1, <2>3 DEF Settled
    <3> QED BY <2>1, <3>1
  <2>4. CASE i \in ToSet(Batch) /\ ~x.isEvent /\ x.row \in Bad(t)
    <3>1. q[i] = Refuse(x)
      BY <2>1, <2>4 DEF Settled, Bad
    <3>2. PICK y : y = Refuse(x)
      OBVIOUS
    <3>3. y.isEvent = x.isEvent /\ y.row = x.row /\ y.value = x.value
      BY <2>1, <2>2, <2>4, <3>2, RefuseIs
    <3>4. y.st \in {"pending", "failed"}
      BY <3>2 DEF Refuse, QueueRow
    <3> QED BY <2>1, <2>2, <2>4, <3>1, <3>2, <3>3, <3>4 DEF Accepted
  <2>5. CASE i \in ToSet(Batch) /\ ~(~x.isEvent /\ x.row \in Bad(t))
    <3>1. q[i] = [x EXCEPT !.st = "delivered"]
      BY <2>1, <2>5 DEF Settled, Bad
    <3>2. PICK y : y = [x EXCEPT !.st = "delivered"]
      OBVIOUS
    <3>3. y.isEvent = x.isEvent /\ y.row = x.row /\ y.value = x.value /\ y.st = "delivered"
      BY <3>2, DeliveredIs
    <3> QED BY <2>1, <2>2, <2>5, <3>1, <3>2, <3>3 DEF Accepted
  <2> QED BY <2>3, <2>4, <2>5
<1> QED BY <1>1, <1>2

(* A push leaves nothing out: what it marks delivered is at the server.    *)
LEMMA PushLeaves ==
  ASSUME LeftInv, RowsInv', Push
  PROVE  LeftInv'
<1>1. PICK t : t = NodeSync(Sending)
  OBVIOUS
<1>2. Becomes("server", t) /\ queue' = Settled(t) /\ UNCHANGED <<own, log, pulled, quar>>
  BY <1>1 DEF Push, tillVars, peerVars
<1>3. Typed /\ OnTheWay
  BY DEF LeftInv, RowsInv
<1>4. PICK q : q = Settled(t)
  OBVIOUS
<1>5. /\ DOMAIN q = DOMAIN queue
      /\ \A i \in DOMAIN queue :
            /\ q[i].isEvent = queue[i].isEvent /\ q[i].row = queue[i].row /\ q[i].value = queue[i].value
            /\ queue[i].st = "failed" => q[i].st = "failed"
            /\ queue[i].isEvent /\ q[i].st = "failed" => queue[i].st = "failed"
            /\ q[i].st = "delivered" => queue[i].st = "delivered" \/ Accepted(t, i)
  BY <1>3, <1>4, SettledAt
<1>6. SameRows
  BY <1>2, <1>4, <1>5 DEF SameRows
<1> QED BY <1>1, <1>2, <1>4, <1>5, <1>6, ServerStep

(* A push whose answer is lost leaves nothing out: the rows stay pending.  *)
LEMMA PushAnswerLostLeaves ==
  ASSUME LeftInv, RowsInv', PushAnswerLost
  PROVE  LeftInv'
<1>1. PICK t : t = NodeSync(Sending)
  OBVIOUS
<1>2. Becomes("server", t) /\ queue' = queue /\ UNCHANGED <<own, log, pulled, quar>>
  BY <1>1 DEF PushAnswerLost, tillVars, peerVars
<1>3. SameRows
  BY <1>2 DEF SameRows
<1>4. \A i \in DOMAIN queue : queue'[i] = queue[i]
  BY <1>2
<1> QED BY <1>1, <1>2, <1>3, <1>4, ServerStep

(* The outbox queues what is new, rows then events, after what it has.     *)
Fills(nums, n, r, m) ==
    /\ n \in Nat /\ r \in Nat /\ m \in Nat /\ DOMAIN nums = 1..r
    /\ nums \in Seq(DOMAIN own \ Queued)
    /\ \A d \in DOMAIN own \ Queued : \E k \in 1..r : nums[k] = d
    /\ \A j, k \in 1..r : j < k => nums[j] < nums[k]
    /\ DOMAIN queue = 1..n /\ DOMAIN queue' = 1..n + r + m
    /\ \A k \in 1..n : queue'[k] = queue[k]
    /\ \A k \in 1..r : /\ ~queue'[n + k].isEvent /\ queue'[n + k].row = nums[k]
                       /\ queue'[n + k].value = own[nums[k]] /\ queue'[n + k].st = "pending"
    /\ \A k \in 1..m : /\ queue'[n + r + k].isEvent /\ queue'[n + r + k].row = Told + k
                       /\ queue'[n + r + k].st = "pending"
    /\ UNCHANGED <<own, copy, ev, pulled, quar>>
    /\ Told + m = Len(log')

(* FillNodeOutbox does that.                                               *)
LEMMA FillIs ==
  ASSUME LeftInv, FillNodeOutbox, RowsInv'
  PROVE  \E nums, n, r, m : Fills(nums, n, r, m)
<1>0. PICK nums, n, r, m :
         nums = InOrder(DOMAIN own \ Queued, MaxDays) /\ n = Len(queue) /\ r = Len(nums) /\ m = Len(log') - Told
  OBVIOUS
<1>1. /\ Typed /\ Typed' /\ AtTill /\ EventsQueued /\ log \in Seq(EventRow) /\ queue \in Seq(QueueRow) /\ own \in Rows
      /\ log' \in Seq(EventRow)
  BY DEF LeftInv, RowsInv, Typed
<1>2. log' = Scanned /\ queue' = queue \o NewItems /\ UNCHANGED <<own, copy, ev, pulled, quar>>
  BY DEF FillNodeOutbox, peerVars
<1>3. Len(log) \in Nat /\ Len(log') \in Nat /\ Len(log) <= Len(log')
  <2>1. log' = log \/ \E e \in EventRow : log' = Append(log, e)
    BY <1>1, <1>2, ScannedIs
  <2> QED BY <1>1, <2>1
<1>4. PICK S \in SUBSET DOMAIN own : S = DOMAIN own \ Queued
  OBVIOUS
<1>5. PICK from \in Nat, upto \in Nat, events \in Seq(EventRow) :
         from = Told /\ events = log' /\ upto = Len(log') /\ from <= upto /\ upto <= Len(events)
  <2>1. Told \in Nat /\ Told <= Len(log)
    BY <1>1, ToldIs DEF EventsQueued
  <2>2. Told <= Len(log')
    BY <1>3, <2>1
  <2>3. PICK events \in Seq(EventRow) : events = log'
    BY <1>1
  <2>4. PICK from \in Nat : from = Told
    BY <2>1
  <2>5. PICK upto \in Nat : upto = Len(log')
    BY <1>3
  <2>6. from <= upto /\ upto <= Len(events)
    BY <2>2, <2>3, <2>4, <2>5
  <2> QED BY <2>3, <2>4, <2>5, <2>6
<1>6. m = Span(from, upto)
  BY <1>0, <1>5 DEF Span
<1>7. NewItems = Rowing(own, S, from, upto, events)
  BY <1>2, <1>4, <1>5 DEF NewItems, Rowing, Told
<1>8. PICK q : q = NewItems
  OBVIOUS
<1>9. /\ nums \in Seq(S) /\ m \in Nat /\ q \in Seq(QueueRow) /\ Len(q) = Len(nums) + m
      /\ \A k \in 1..Len(nums) :
            ~q[k].isEvent /\ q[k].row = nums[k] /\ q[k].value = own[nums[k]] /\ q[k].st = "pending"
      /\ \A k \in 1..m : /\ q[Len(nums) + k].isEvent /\ q[Len(nums) + k].row = from + k
                         /\ q[Len(nums) + k].st = "pending"
  <2>1. PICK rows \in Rows : rows = own
    BY <1>1
  <2>2. S \in SUBSET DOMAIN rows
    BY <1>4, <2>1
  <2> DEFINE x == InOrder(S, MaxDays)
             y == Rowing(rows, S, from, upto, events)
             z == Span(from, upto)
  <2>3. x \in Seq(S) /\ z \in Nat /\ y \in Seq(QueueRow) /\ Rowed(rows, from, x, y, z)
    BY <1>5, <2>2, RowedIs
  <2>4. nums = x /\ q = y /\ m = z
    BY <1>0, <1>4, <1>6, <1>7, <1>8, <2>1
  <2> HIDE DEF x, y, z
  <2> QED BY <2>1, <2>3, <2>4 DEF Rowed
<1>10. r \in Nat /\ DOMAIN nums = 1..r /\ n \in Nat /\ DOMAIN queue = 1..n /\ m \in Nat /\ r = Len(nums) /\ n = Len(queue)
  BY <1>0, <1>1, <1>9
<1>11. /\ \A d \in S : \E k \in DOMAIN nums : nums[k] = d
       /\ \A j, k \in DOMAIN nums : j < k => nums[j] < nums[k]
  <2>1. PICK top \in Nat : top = MaxDays
    BY BoundsAssumption
  <2>2. S \cap (0..top) = S
    BY <1>1, <1>4, <2>1, RowsAre DEF Row
  <2> DEFINE x == InOrder(S, top)
  <2>3. /\ x \in Seq(S \cap (0..top))
        /\ \A d \in S \cap (0..top) : \E k \in DOMAIN x : x[k] = d
        /\ \A j, k \in DOMAIN x : j < k => x[j] < x[k]
    BY InOrderAll
  <2>4. nums = x
    BY <1>0, <1>4, <2>1
  <2> QED BY <2>2, <2>3, <2>4
<1>12. /\ Len(queue') = n + (r + m) /\ queue' \in Seq(QueueRow)
       /\ \A k \in 1..n : queue'[k] = queue[k]
       /\ \A k \in 1..r + m : queue'[n + k] = q[k]
  <2>1. PICK x \in Seq(QueueRow), y \in Seq(QueueRow), z \in Seq(QueueRow) : x = queue /\ y = q /\ z = queue'
    BY <1>1, <1>9 DEF Typed
  <2>2. z = x \o y
    BY <1>2, <1>8, <2>1
  <2>3. /\ z \in Seq(QueueRow) /\ Len(z) = Len(x) + Len(y)
        /\ \A k \in 1..Len(x) : z[k] = x[k]
        /\ \A k \in 1..Len(y) : z[Len(x) + k] = y[k]
    BY <2>2, JoinedAt
  <2> QED BY <1>9, <1>10, <2>1, <2>3
<1>13. DOMAIN queue' = 1..n + r + m
  <2>1. n + (r + m) = n + r + m
    BY <1>10
  <2>2. DOMAIN queue' = 1..Len(queue')
    BY <1>12
  <2> QED BY <1>12, <2>1, <2>2
<1>14. \A k \in 1..r : queue'[n + k] = q[k]
  <2>1. \A k \in 1..r : k \in 1..(r + m)
    BY <1>10
  <2> QED BY <1>12, <2>1
<1>15. \A k \in 1..m : queue'[n + r + k] = q[r + k]
  <2>1. \A k \in 1..m : r + k \in 1..r + m /\ n + (r + k) = n + r + k
    BY <1>10
  <2> QED BY <1>12, <2>1
<1>16. \A k \in 1..r : /\ ~queue'[n + k].isEvent /\ queue'[n + k].row = nums[k]
                      /\ queue'[n + k].value = own[nums[k]] /\ queue'[n + k].st = "pending"
  BY <1>9, <1>10, <1>14
<1>17. \A k \in 1..m : /\ queue'[n + r + k].isEvent /\ queue'[n + r + k].row = Told + k
                      /\ queue'[n + r + k].st = "pending"
  BY <1>5, <1>9, <1>10, <1>15
<1>18. nums \in Seq(DOMAIN own \ Queued)
  BY <1>4, <1>9
<1>19. \A d \in DOMAIN own \ Queued : \E k \in 1..r : nums[k] = d
  BY <1>4, <1>10, <1>11
<1>20. \A j, k \in 1..r : j < k => nums[j] < nums[k]
  BY <1>10, <1>11
<1>21. Told + m = Len(log')
  BY <1>0, <1>3, <1>5
<1>22. Fills(nums, n, r, m)
  BY <1>2, <1>10, <1>12, <1>13, <1>16, <1>17, <1>18, <1>19, <1>20, <1>21 DEF Fills
<1> QED BY <1>22

(* Queueing leaves nothing out.                                            *)
LEMMA FillNodeOutboxLeaves ==
  ASSUME LeftInv, RowsInv', FillNodeOutbox
  PROVE  LeftInv'
<1>1. PICK nums, n, r, m : Fills(nums, n, r, m)
  BY FillIs
<1>2. /\ n \in Nat /\ r \in Nat /\ m \in Nat /\ DOMAIN nums = 1..r
      /\ nums \in Seq(DOMAIN own \ Queued)
      /\ \A d \in DOMAIN own \ Queued : \E k \in 1..r : nums[k] = d
      /\ \A j, k \in 1..r : j < k => nums[j] < nums[k]
      /\ DOMAIN queue = 1..n /\ DOMAIN queue' = 1..n + r + m
      /\ \A k \in 1..n : queue'[k] = queue[k]
      /\ \A k \in 1..r : /\ ~queue'[n + k].isEvent /\ queue'[n + k].row = nums[k]
                         /\ queue'[n + k].value = own[nums[k]] /\ queue'[n + k].st = "pending"
      /\ \A k \in 1..m : /\ queue'[n + r + k].isEvent /\ queue'[n + r + k].row = Told + k
                         /\ queue'[n + r + k].st = "pending"
      /\ UNCHANGED <<own, copy, ev, pulled, quar>>
  BY <1>1 DEF Fills
<1>3. Typed /\ Typed' /\ AtTill /\ OnTheWay /\ RowsQueued /\ EventsQueued /\ Delivered
  BY DEF LeftInv, RowsInv
<1>0. n \in Nat /\ r \in Nat /\ m \in Nat
  BY <1>2
<1>4. ASSUME NEW i \in DOMAIN queue'
      PROVE  \/ i \in 1..n
             \/ \E k \in 1..r : i = n + k
             \/ \E k \in 1..m : i = n + r + k
  <2>1. i \in 1..n + r + m
    BY <1>2, <1>4
  <2>2. CASE i <= n
    BY <1>0, <2>1, <2>2
  <2>3. CASE n < i /\ i <= n + r
    <3>1. i - n \in 1..r /\ i = n + (i - n)
      BY <1>0, <2>1, <2>3
    <3> QED BY <3>1
  <2>4. CASE n + r < i
    <3>1. i - (n + r) \in 1..m /\ i = n + r + (i - (n + r))
      BY <1>0, <2>1, <2>4
    <3> QED BY <3>1
  <2>5. i <= n \/ (n < i /\ i <= n + r) \/ n + r < i
    BY <1>0, <2>1
  <2> QED BY <2>2, <2>3, <2>4, <2>5
<1>5. /\ \A k \in 1..n : k \in DOMAIN queue'
      /\ \A k \in 1..r : n + k \in DOMAIN queue' /\ n + k > n
      /\ \A k \in 1..m : n + r + k \in DOMAIN queue' /\ n + r + k > n
  BY <1>2
<1>6. ASSUME NEW k \in 1..r, nums[k] # Sale
      PROVE  /\ nums[k] \in Days \ Queued /\ nums[k] \in Nat /\ own[nums[k]].st = "open"
             /\ \A c \in Days \cap Queued : c < nums[k]
  <2>1. nums[k] \in Days \ Queued
    <3>1. nums[k] \in DOMAIN own \ Queued
      BY <1>2
    <3> QED BY <1>6, <3>1 DEF Days
  <2>2. PICK d \in Days : d = nums[k] /\ d \notin Queued
    BY <2>1
  <2>3. d \in Nat /\ own[d].st = "open" /\ \A c \in Days : c <= d
    BY <1>3, <2>2, DaysAre
  <2>4. ASSUME NEW c \in Days \cap Queued PROVE c < d
    <3>1. c \in Nat /\ c <= d /\ c # d
      BY <1>3, <2>2, <2>3, <2>4, DaysAre
    <3> QED BY <2>3, <3>1
  <2> QED BY <2>1, <2>2, <2>3, <2>4
<1>7. RowsQueued'
  <2>1. ASSUME NEW i \in DOMAIN queue', DayItem(queue'[i]) PROVE queue'[i].value.st = "open"
    <3>1. CASE i \in 1..n
      BY <1>2, <1>3, <2>1, <3>1 DEF RowsQueued
    <3>2. ASSUME NEW k \in 1..r, i = n + k PROVE queue'[i].value.st = "open"
      <4>1. queue'[i].row = nums[k] /\ queue'[i].value = own[nums[k]] /\ nums[k] # Sale
        BY <1>2, <2>1, <3>2 DEF DayItem
      <4>2. own[nums[k]].st = "open"
        BY <1>6, <4>1
      <4> QED BY <4>1, <4>2
    <3>3. ASSUME NEW k \in 1..m, i = n + r + k PROVE FALSE
      BY <1>2, <2>1, <3>3 DEF DayItem
    <3> QED BY <1>4, <2>1, <3>1, <3>2, <3>3
  <2>2. ASSUME NEW i \in DOMAIN queue', NEW j \in DOMAIN queue', i < j, DayItem(queue'[i]), DayItem(queue'[j])
        PROVE  queue'[i].row < queue'[j].row
    <3>1. CASE j \in 1..n
      <4>1. i \in 1..n
        BY <1>2, <2>2, <3>1
      <4> QED BY <1>2, <1>3, <2>2, <3>1, <4>1 DEF RowsQueued
    <3>2. ASSUME NEW k \in 1..r, j = n + k PROVE queue'[i].row < queue'[j].row
      <4>1. queue'[j].row = nums[k] /\ nums[k] # Sale
        BY <1>2, <2>2, <3>2 DEF DayItem
      <4>2. CASE i \in 1..n
        <5>1. queue'[i] = queue[i] /\ i \in DOMAIN queue
          BY <1>2, <4>2
        <5>2. SoundItem(queue[i])
          BY <1>3, <5>1, QueueRowIs DEF OnTheWay
        <5>3. queue[i].row \in Days \cap Queued
          BY <2>2, <5>1, <5>2 DEF DayItem, SoundItem, Sound, Days, Queued
        <5> QED BY <1>6, <4>1, <5>1, <5>3
      <4>3. ASSUME NEW l \in 1..r, i = n + l PROVE queue'[i].row < queue'[j].row
        <5>1. l < k
          BY <1>2, <2>2, <3>2, <4>3
        <5> QED BY <1>2, <3>2, <4>3, <5>1
      <4>4. ASSUME NEW l \in 1..m, i = n + r + l PROVE FALSE
        BY <1>2, <2>2, <4>4 DEF DayItem
      <4> QED BY <1>4, <2>2, <4>2, <4>3, <4>4
    <3>3. ASSUME NEW k \in 1..m, j = n + r + k PROVE FALSE
      BY <1>2, <2>2, <3>3 DEF DayItem
    <3> QED BY <1>4, <2>2, <3>1, <3>2, <3>3
  <2>3. \A d \in Days' : d \in Queued'
    <3>1. SUFFICES ASSUME NEW d \in DOMAIN own PROVE \E i \in DOMAIN queue' : ~queue'[i].isEvent /\ queue'[i].row = d
      <4>1. own' = own
        BY <1>2
      <4> QED BY <4>1 DEF Days, Queued
    <3>2. CASE d \in Queued
      <4>1. PICK i \in DOMAIN queue : ~queue[i].isEvent /\ queue[i].row = d
        BY <3>2 DEF Queued
      <4> QED BY <1>2, <1>5, <4>1
    <3>3. CASE d \notin Queued
      <4>1. PICK k \in 1..r : nums[k] = d
        BY <1>2, <3>3
      <4>2. n + k \in DOMAIN queue'
        BY <1>5
      <4>3. ~queue'[n + k].isEvent /\ queue'[n + k].row = d
        BY <1>2, <4>1
      <4> QED BY <4>2, <4>3
    <3> QED BY <3>2, <3>3
  <2> QED BY <2>1, <2>2, <2>3 DEF RowsQueued
<1>8. Told' = Told + m /\ Told \in Nat
  <2> DEFINE E == {i \in DOMAIN queue : queue[i].isEvent}
             F == n + r + 1..n + r + m
  <2>1. {i \in DOMAIN queue' : queue'[i].isEvent} = E \cup F
    <3>1. ASSUME NEW i \in DOMAIN queue', queue'[i].isEvent PROVE i \in E \cup F
      <4>1. CASE i \in 1..n
        BY <1>2, <3>1, <4>1
      <4>2. ASSUME NEW k \in 1..r, i = n + k PROVE FALSE
        BY <1>2, <3>1, <4>2
      <4>3. ASSUME NEW k \in 1..m, i = n + r + k PROVE i \in F
        BY <1>2, <4>3
      <4> QED BY <1>4, <3>1, <4>1, <4>2, <4>3
    <3>2. ASSUME NEW i \in E PROVE i \in DOMAIN queue' /\ queue'[i].isEvent
      BY <1>2, <1>5
    <3>3. ASSUME NEW i \in F PROVE i \in DOMAIN queue' /\ queue'[i].isEvent
      <4>1. i - (n + r) \in 1..m /\ i = n + r + (i - (n + r))
        BY <1>2
      <4> QED BY <1>2, <1>5, <4>1
    <3> HIDE DEF E, F
    <3> QED BY <3>1, <3>2, <3>3
  <2>2. Told \in Nat /\ IsFiniteSet(E) /\ Cardinality(E) = Told
    BY <1>3, ToldIs DEF Told
  <2>3. IsFiniteSet(F) /\ Cardinality(F) = m
    <3>1. n + r + 1 \in Int /\ n + r + m \in Int
      BY <1>2
    <3>2. IsFiniteSet(F) /\ Cardinality(F) = IF n + r + 1 > n + r + m THEN 0 ELSE (n + r + m) - (n + r + 1) + 1
      BY <3>1, FS_Interval
    <3> HIDE DEF F
    <3> QED BY <1>2, <3>2
  <2>4. E \cap F = {}
    BY <1>2
  <2> HIDE DEF E, F
  <2>5. Cardinality(E \cup F) = Cardinality(E) + Cardinality(F) - Cardinality(E \cap F)
    BY <2>2, <2>3, FS_Union
  <2>6. Cardinality({}) = 0
    BY FS_EmptySet
  <2>7. Told' = Cardinality(E \cup F)
    BY <2>1 DEF Told
  <2>8. Cardinality(E \cap F) = 0
    BY <2>4, <2>6
  <2>9. Cardinality(E \cup F) = Told + m - 0
    BY <2>2, <2>3, <2>5, <2>8
  <2>10. m \in Nat
    BY <1>2
  <2> QED BY <2>2, <2>7, <2>9, <2>10
<1>9. Told' = Len(log') /\ Len(log') \in Nat
  <2>1. Len(log') \in Nat
    BY <1>3 DEF Typed
  <2>2. Told + m = Len(log')
    BY <1>1 DEF Fills
  <2> QED BY <1>8, <2>1, <2>2
<1>10. EventsQueued'
  <2>1. ASSUME NEW k \in 1..Told + m PROVE \E i \in DOMAIN queue' : queue'[i].isEvent /\ queue'[i].row = k
    <3>1. CASE k <= Told
      <4>1. k \in 1..Told
        BY <1>2, <1>8, <3>1
      <4>2. PICK i \in DOMAIN queue : queue[i].isEvent /\ queue[i].row = k
        BY <1>3, <4>1 DEF EventsQueued
      <4> QED BY <1>2, <1>5, <4>2
    <3>2. CASE k > Told
      <4>1. PICK l \in 1..m : k = Told + l
        <5>1. k - Told \in 1..m /\ Told + (k - Told) = k
          BY <1>8, <1>0, <3>2
        <5> QED BY <5>1
      <4>2. n + r + l \in DOMAIN queue'
        BY <1>5
      <4>3. queue'[n + r + l].isEvent /\ queue'[n + r + l].row = k
        BY <1>2, <4>1
      <4> QED BY <4>2, <4>3
    <3> QED BY <1>8, <1>0, <3>1, <3>2
  <2>2. ASSUME NEW i \in DOMAIN queue', queue'[i].isEvent
        PROVE  \/ i \in 1..n /\ queue'[i].row \in 1..Told
               \/ \E k \in 1..m : i = n + r + k /\ queue'[i].row = Told + k
    <3>1. CASE i \in 1..n
      BY <1>2, <1>3, <2>2, <3>1 DEF EventsQueued
    <3>2. ASSUME NEW k \in 1..r, i = n + k PROVE FALSE
      BY <1>2, <2>2, <3>2
    <3>3. ASSUME NEW k \in 1..m, i = n + r + k PROVE queue'[i].row = Told + k
      BY <1>2, <3>3
    <3> QED BY <1>4, <2>2, <3>1, <3>2, <3>3
  <2>3. ASSUME NEW i \in DOMAIN queue', queue'[i].isEvent PROVE queue'[i].row \in 1..Told + m
    BY <1>2, <1>8, <2>2, <2>3
  <2>4. ASSUME NEW i \in DOMAIN queue', NEW j \in DOMAIN queue', i < j, queue'[i].isEvent, queue'[j].isEvent
        PROVE  queue'[i].row < queue'[j].row
    <3>1. CASE j \in 1..n
      <4>1. i \in 1..n
        BY <1>2, <2>4, <3>1
      <4> QED BY <1>2, <1>3, <2>4, <3>1, <4>1 DEF EventsQueued
    <3>2. ASSUME NEW k \in 1..m, j = n + r + k, queue'[j].row = Told + k PROVE queue'[i].row < queue'[j].row
      <4>1. CASE i \in 1..n /\ queue'[i].row \in 1..Told
        BY <1>2, <1>8, <3>2, <4>1
      <4>2. ASSUME NEW l \in 1..m, i = n + r + l, queue'[i].row = Told + l PROVE queue'[i].row < queue'[j].row
        BY <1>2, <1>8, <2>4, <3>2, <4>2
      <4> QED BY <2>2, <2>4, <4>1, <4>2
    <3> QED BY <2>2, <2>4, <3>1, <3>2
  <2>5. Told' <= Len(log')
    BY <1>9
  <2> QED BY <1>8, <2>1, <2>3, <2>4, <2>5 DEF EventsQueued
<1>11. \A i \in DOMAIN queue' : queue'[i].st = "pending" \/ (i \in DOMAIN queue /\ queue'[i] = queue[i])
  <2> TAKE i \in DOMAIN queue'
  <2>1. CASE i \in 1..n
    BY <1>2, <2>1
  <2>2. ASSUME NEW k \in 1..r, i = n + k PROVE queue'[i].st = "pending"
    BY <1>2, <2>2
  <2>3. ASSUME NEW k \in 1..m, i = n + r + k PROVE queue'[i].st = "pending"
    BY <1>2, <2>3
  <2> QED BY <1>4, <2>1, <2>2, <2>3
<1>12. Delivered'
  BY <1>2, <1>3, <1>11 DEF Delivered
<1>13. (~GivenUp => Passed)'
  <2>1. SUFFICES ASSUME ~GivenUp' PROVE Passed'
    OBVIOUS
  <2>2. ~GivenUp
    BY <1>2, <1>5, <2>1 DEF GivenUp
  <2> QED BY <1>2, <2>2 DEF LeftInv, Passed, Low
<1> QED BY <1>7, <1>10, <1>12, <1>13 DEF LeftInv

(* What the server has for the peer: the sale until the peer has it, and   *)
(* the days past its cursor.                                               *)
ToPull == {r \in DOMAIN copy["server"] : IF r = Sale THEN Sale \notin DOMAIN copy["peer"] ELSE r > pulled}

(* A pull offers rows of these in order, leaving out none of those before, *)
(* and nothing only when there is nothing.                                 *)
LEMMA OfferedInOrder ==
  ASSUME RowsInv, NEW q, q = Offered
  PROVE  /\ q \in Seq(QueueRow)
         /\ \A k \in DOMAIN q : ~q[k].isEvent =>
               /\ q[k].row \in ToPull
               /\ \A d \in ToPull : d <= q[k].row => \E j \in DOMAIN q : ~q[j].isEvent /\ q[j].row = d
         /\ q = <<>> => ToPull = {} /\ Len(ev["server"]) <= Len(ev["peer"])
<1>1. Typed /\ log \in Seq(EventRow)
  BY DEF RowsInv, Typed
<1>2. PICK s : s = State("server")
  OBVIOUS
<1>3. PICK rows \in Rows : rows = copy["server"]
  BY <1>2, StateIs DEF Replica
<1>4. PICK from \in Nat, upto \in Nat : from = Len(ev["peer"]) /\ upto = Len(ev["server"]) /\ upto <= Len(log)
  <2>1. s.marks = ev["server"] /\ Copied(s) /\ ev["server"] \in Marks
    BY <1>2, StateIs DEF Replica
  <2>2. Len(ev["server"]) \in Nat /\ Len(ev["server"]) <= Len(log)
    BY <2>1 DEF Copied, Marks
  <2>3. ev["peer"] \in Marks
    BY <1>1, SMTT(30) DEF Typed, Replica
  <2>4. Len(ev["peer"]) \in Nat
    BY <2>3 DEF Marks
  <2> QED BY <2>2, <2>4
<1>5. PICK S \in SUBSET DOMAIN rows : S = ToPull
  BY <1>3 DEF ToPull
<1> DEFINE nums == InOrder(S, MaxDays)
           all == Rowing(rows, S, from, upto, log)
           e == Span(from, upto)
           m == IF Len(all) < PullRows THEN Len(all) ELSE PullRows
<1>6. q = SubSeq(all, 1, m)
  BY <1>3, <1>4, <1>5 DEF Offered, Rowing, ToPull
<1>7. nums \in Seq(S) /\ e \in Nat /\ all \in Seq(QueueRow) /\ Rowed(rows, from, nums, all, e)
  BY <1>1, <1>4, RowedIs
<1>8. MaxDays \in Nat
  BY BoundsAssumption
<1>9. /\ \A n \in S \cap (0..MaxDays) : \E k \in DOMAIN nums : nums[k] = n
      /\ \A j, k \in DOMAIN nums : j < k => nums[j] < nums[k]
  <2>1. PICK top \in Nat : top = MaxDays
    BY <1>8
  <2> DEFINE x == InOrder(S, top)
  <2>2. /\ x \in Seq(S \cap (0..top))
        /\ \A d \in S \cap (0..top) : \E k \in DOMAIN x : x[k] = d
        /\ \A j, k \in DOMAIN x : j < k => x[j] < x[k]
    BY InOrderAll
  <2>3. nums = x
    BY <2>1
  <2> HIDE DEF nums, x
  <2> QED BY <2>1, <2>2, <2>3
<1>10. S \subseteq Nat /\ S \subseteq 0..MaxDays
  BY <1>8, RowsAre DEF Row
<1>11. e = 0 => upto <= from
  BY <1>4 DEF Span
<1> HIDE DEF nums, all, e
<1>12. PICK n \in Nat : n = Len(nums) /\ DOMAIN nums = 1..n
  BY <1>7
<1>13. /\ Len(all) = n + e /\ DOMAIN all = 1..n + e
       /\ \A k \in 1..n : ~all[k].isEvent /\ all[k].row = nums[k]
       /\ \A k \in 1..e : all[n + k].isEvent
  <2>1. Len(all) = n + e
    BY <1>7, <1>12 DEF Rowed
  <2>2. DOMAIN all = 1..Len(all)
    BY <1>7
  <2>3. \A k \in 1..n : ~all[k].isEvent /\ all[k].row = nums[k]
    BY <1>7, <1>12 DEF Rowed
  <2>4. \A k \in 1..e : all[n + k].isEvent
    BY <1>7, <1>12 DEF Rowed
  <2> QED BY <2>1, <2>2, <2>3, <2>4
<1>14. m \in Nat /\ m <= Len(all) /\ (m = 0 => Len(all) = 0)
  BY <1>7, BoundsAssumption
<1> HIDE DEF m
<1>15. q \in Seq(QueueRow) /\ DOMAIN q = 1..m /\ \A k \in 1..m : k \in DOMAIN all /\ q[k] = all[k]
  BY <1>6, <1>7, <1>14, Prefix
<1>16. ASSUME NEW k \in DOMAIN q, ~q[k].isEvent
       PROVE  /\ q[k].row \in ToPull
              /\ \A d \in ToPull : d <= q[k].row => \E j \in DOMAIN q : ~q[j].isEvent /\ q[j].row = d
  <2>1. k \in 1..m /\ k \in 1..n + e /\ q[k] = all[k]
    BY <1>13, <1>15
  <2>2. k \in 1..n
    <3>1. SUFFICES ASSUME ~(k <= n) PROVE FALSE
      BY <1>12, <2>1
    <3>2. k - n \in 1..e /\ n + (k - n) = k
      BY <1>7, <1>12, <2>1, <3>1
    <3>3. all[k].isEvent
      BY <1>13, <3>2
    <3> QED BY <1>16, <2>1, <3>3
  <2>3. q[k].row = nums[k] /\ nums[k] \in S
    BY <1>7, <1>12, <1>13, <2>1, <2>2
  <2>4. ASSUME NEW d \in S, d <= nums[k] PROVE \E j \in DOMAIN q : ~q[j].isEvent /\ q[j].row = d
    <3>1. d \in S \cap (0..MaxDays)
      BY <1>10
    <3>2. PICK j \in 1..n : nums[j] = d
      BY <1>9, <1>12, <3>1
    <3>3. ~(k < j)
      <4>1. k < j => nums[k] < nums[j]
        BY <1>9, <1>12, <2>2
      <4>2. nums[k] \in Nat /\ d \in Nat
        BY <1>10, <2>3
      <4> QED BY <2>4, <3>2, <4>1, <4>2
    <3>4. j \in 1..m
      BY <1>12, <1>14, <2>1, <2>2, <3>3
    <3>5. q[j] = all[j]
      BY <1>15, <3>4
    <3> QED BY <1>13, <1>15, <3>2, <3>4, <3>5
  <2> QED BY <1>5, <2>3, <2>4
<1>17. q = <<>> => ToPull = {} /\ Len(ev["server"]) <= Len(ev["peer"])
  <2>1. SUFFICES ASSUME q = <<>> PROVE S = {} /\ upto <= from
    BY <1>4, <1>5
  <2>2. m = 0
    BY <1>14, <1>15, <2>1
  <2>3. n = 0 /\ e = 0
    BY <1>7, <1>12, <1>13, <1>14, <2>2
  <2>4. S = {}
    <3>1. SUFFICES ASSUME NEW d \in S PROVE FALSE
      OBVIOUS
    <3>2. d \in S \cap (0..MaxDays)
      BY <1>10
    <3>3. \E k \in 1..n : nums[k] = d
      BY <1>9, <1>12, <3>2
    <3> QED BY <2>3, <3>3
  <2> QED BY <1>11, <2>3, <2>4
<1> QED BY <1>15, <1>16, <1>17

(* A pull passes over no day: what it refuses is quarantined.              *)
LEMMA PullLeaves ==
  ASSUME LeftInv, RowsInv', Pull
  PROVE  LeftInv'
<1>1. RowsInv /\ Typed /\ Typed' /\ AtTill /\ OnTheWay /\ RowsQueued /\ EventsQueued /\ Delivered
  BY DEF LeftInv, RowsInv
<1>2. PICK s : s = State("peer")
  OBVIOUS
<1>3. PICK q : q = Offered
  OBVIOUS
<1>4. PICK u : u = Take(s, q)
  OBVIOUS
<1>5. PICK t : t = Retried(Sweep(u), u.refused)
  OBVIOUS
<1> DEFINE days == {q[i].row : i \in {j \in DOMAIN q : ~q[j].isEvent}}
           top == CHOOSE n \in days \cup {pulled} : \A d \in days \cup {pulled} : d <= n
<1>6. /\ Becomes("peer", t) /\ quar' = quar \o t.refused /\ pulled' = top
      /\ UNCHANGED <<own, log, queue>>
  BY <1>2, <1>3, <1>4, <1>5 DEF Pull, tillVars
<1>7. s \in States /\ Copied(s) /\ s.rows = copy["peer"]
  BY <1>1, <1>2, StateIs DEF Replica
<1>8. q \in Seq(QueueRow) /\ SoundItems(q) /\ \A k \in DOMAIN q : ~q[k].isEvent => q[k].row \in Row
  BY <1>1, <1>3, OfferedIs
<1>9. t \in States /\ Holds(s, q, t)
  BY <1>1, <1>4, <1>5, <1>7, <1>8, PassHolds
<1>10. copy'["peer"] = t.rows /\ copy'["server"] = copy["server"] /\ ev'["server"] = ev["server"]
  <2>1. DOMAIN copy = {"server", "peer"} /\ DOMAIN ev = {"server", "peer"}
    BY <1>1 DEF Typed, Replica
  <2> QED BY <1>6, <2>1 DEF Becomes
<1>11. pulled' \in days \cup {pulled} /\ \A d \in days \cup {pulled} : d <= pulled'
  <2>1. days \cup {pulled} \in SUBSET Row /\ days \cup {pulled} # {}
    BY <1>1, <1>8 DEF Typed
  <2> HIDE DEF days
  <2>2. \E n \in days \cup {pulled} : \A d \in days \cup {pulled} : d <= n
    BY <2>1, Greatest
  <2>3. top \in days \cup {pulled} /\ \A d \in days \cup {pulled} : d <= top
    BY <2>2
  <2> HIDE DEF top
  <2> QED BY <1>6, <2>3
<1> HIDE DEF top
<1>12. RowsQueued' /\ EventsQueued'
  <2>1. SameRows
    BY <1>6 DEF SameRows
  <2>2. Len(log) <= Len(log')
    <3>1. Len(log) \in Nat
      BY <1>1 DEF Typed
    <3> QED BY <1>6, <3>1
  <2> QED BY <1>1, <1>6, <2>1, <2>2, DaysLeft, QueueStays
<1>13. Delivered'
  BY <1>1, <1>6, <1>10 DEF Delivered
<1>14. \A k \in DOMAIN q : ~q[k].isEvent =>
          /\ q[k].row \in ToPull
          /\ \A d \in ToPull : d <= q[k].row => \E j \in DOMAIN q : ~q[j].isEvent /\ q[j].row = d
  BY <1>1, <1>3, OfferedInOrder
<1>15. \A r \in DOMAIN copy["server"] : r \in Nat
  <2>1. copy["server"] \in Rows
    BY <1>1 DEF Typed, Replica
  <2>2. MaxDays \in Nat
    BY BoundsAssumption
  <2> QED BY <2>1, <2>2, RowsAre DEF Row
<1>16. pulled \in Nat
  BY <1>1, BoundsAssumption DEF Typed, Row
<1>17. /\ quar \in Seq(QueueRow) /\ t.refused \in Seq(QueueRow)
       /\ \A k \in DOMAIN quar : k \in DOMAIN quar' /\ quar'[k] = quar[k]
       /\ \A m \in DOMAIN t.refused : \E k \in DOMAIN quar' : quar'[k] = t.refused[m]
  <2>1. quar \in Seq(QueueRow) /\ t.refused \in Seq(QueueRow)
    BY <1>1, <1>9 DEF Typed, States
  <2>2. PICK x \in Seq(QueueRow), y \in Seq(QueueRow) : x = quar /\ y = t.refused
    BY <2>1
  <2>3. PICK z : z = x \o y
    OBVIOUS
  <2>4. quar' = z
    BY <1>6, <2>2, <2>3
  <2>5. /\ Len(x) \in Nat /\ Len(y) \in Nat
        /\ DOMAIN x = 1..Len(x) /\ DOMAIN y = 1..Len(y) /\ DOMAIN z = 1..Len(x) + Len(y)
        /\ \A k \in 1..Len(x) : z[k] = x[k]
        /\ \A k \in 1..Len(y) : z[Len(x) + k] = y[k]
    BY <2>3, JoinedAt
  <2>6. \A k \in 1..Len(x) : k \in DOMAIN z
    BY <2>5
  <2>7. \A k \in 1..Len(y) : Len(x) + k \in DOMAIN z
    BY <2>5
  <2>8. \A m \in DOMAIN y : \E k \in DOMAIN z : z[k] = y[m]
    BY <2>5, <2>7
  <2>9. \A k \in DOMAIN x : k \in DOMAIN z /\ z[k] = x[k]
    BY <2>5, <2>6
  <2> QED BY <2>1, <2>2, <2>4, <2>8, <2>9
<1>18. (~GivenUp => Passed)'
  <2>1. SUFFICES ASSUME ~GivenUp' PROVE Passed'
    OBVIOUS
  <2>2. Passed
    BY <1>6, <2>1 DEF GivenUp, LeftInv
  <2>3. pulled' # Sale => pulled' \in DOMAIN copy["server"]
    <3>1. CASE pulled' = pulled
      BY <2>2, <3>1 DEF Passed
    <3>2. CASE pulled' \in days
      <4>1. PICK i \in DOMAIN q : ~q[i].isEvent /\ pulled' = q[i].row
        BY <3>2
      <4> QED BY <1>14, <4>1 DEF ToPull
    <3> QED BY <1>11, <3>1, <3>2
  <2>4. ASSUME NEW d \in DOMAIN copy["server"] \ {Sale}, d <= pulled'
        PROVE  d \in DOMAIN t.rows \/ \E k \in DOMAIN quar' : quar'[k].row = d
    <3>1. CASE d <= pulled
      <4>1. CASE d \in DOMAIN copy["peer"]
        BY <1>7, <1>9, <4>1 DEF Holds, HeldTo
      <4>2. CASE \E k \in DOMAIN quar : quar[k].row = d
        BY <1>17, <4>2
      <4> QED BY <2>2, <2>4, <3>1, <4>1, <4>2 DEF Passed
    <3>2. CASE ~(d <= pulled)
      <4>1. pulled' # pulled
        BY <2>4, <3>2
      <4>2. PICK i \in DOMAIN q : ~q[i].isEvent /\ pulled' = q[i].row
        BY <1>11, <4>1
      <4>3. d \in ToPull
        BY <1>15, <1>16, <2>4, <3>2 DEF ToPull
      <4>4. PICK j \in DOMAIN q : ~q[j].isEvent /\ q[j].row = d
        BY <1>14, <2>4, <4>2, <4>3
      <4>5. j \in 1..Len(q)
        BY <1>8
      <4>6. d \in DOMAIN t.rows \/ \E m \in DOMAIN t.refused : t.refused[m] = q[j]
        BY <1>9, <4>4, <4>5 DEF Holds, HeldTo
      <4>7. CASE \E m \in DOMAIN t.refused : t.refused[m] = q[j]
        BY <1>17, <4>4, <4>7
      <4> QED BY <4>6, <4>7
    <3> QED BY <3>1, <3>2
  <2>5. Low(copy["server"])
    BY <2>2 DEF Passed
  <2> QED BY <1>10, <2>3, <2>4, <2>5 DEF Passed, Low
<1> QED BY <1>12, <1>13, <1>18 DEF LeftInv

(* A retry loses no row: each is held afterwards, or quarantined again.    *)
LEMMA RetryPeerQuarantineLeaves ==
  ASSUME LeftInv, RowsInv', RetryPeerQuarantine
  PROVE  LeftInv'
<1>1. RowsInv /\ Typed /\ Typed' /\ AtTill /\ OnTheWay /\ RowsQueued /\ EventsQueued /\ Delivered
  BY DEF LeftInv, RowsInv
<1>2. PICK s : s = State("peer")
  OBVIOUS
<1>3. PICK items \in Seq(QueueRow) : items = quar
  BY <1>1 DEF Typed
<1>4. PICK t : t = Retried(s, items)
  OBVIOUS
<1>5. Becomes("peer", t) /\ quar' = t.refused /\ UNCHANGED <<own, log, queue, pulled>>
  BY <1>2, <1>3, <1>4 DEF RetryPeerQuarantine, tillVars
<1>6. s \in States /\ Copied(s) /\ s.rows = copy["peer"]
  BY <1>1, <1>2, StateIs DEF Replica
<1>7. \A k \in DOMAIN items : items[k] \in QueueRow /\ items[k] \in ToSet(items)
  BY DEF ToSet
<1>8. SoundItems(items) /\ \A k \in DOMAIN items : ~items[k].isEvent
  BY <1>1, <1>3, <1>7 DEF OnTheWay, SoundItems
<1>9. t \in States /\ Holds(s, items, t)
  BY <1>1, <1>4, <1>6, <1>8, RetriedHolds
<1>10. copy'["peer"] = t.rows /\ copy'["server"] = copy["server"] /\ ev'["server"] = ev["server"]
  <2>1. DOMAIN copy = {"server", "peer"} /\ DOMAIN ev = {"server", "peer"}
    BY <1>1 DEF Typed, Replica
  <2> QED BY <1>5, <2>1 DEF Becomes
<1>11. RowsQueued' /\ EventsQueued'
  <2>1. SameRows
    BY <1>5 DEF SameRows
  <2>2. Len(log) <= Len(log')
    <3>1. Len(log) \in Nat
      BY <1>1 DEF Typed
    <3> QED BY <1>5, <3>1
  <2> QED BY <1>1, <1>5, <2>1, <2>2, DaysLeft, QueueStays
<1>12. Delivered'
  BY <1>1, <1>5, <1>10 DEF Delivered
<1>13. (~GivenUp => Passed)'
  <2>1. SUFFICES ASSUME ~GivenUp' PROVE Passed'
    OBVIOUS
  <2>2. Passed
    BY <1>5, <2>1 DEF GivenUp, LeftInv
  <2>3. ASSUME NEW d \in DOMAIN copy["server"] \ {Sale}, d <= pulled
        PROVE  d \in DOMAIN t.rows \/ \E k \in DOMAIN t.refused : t.refused[k].row = d
    <3>1. CASE d \in DOMAIN copy["peer"]
      BY <1>6, <1>9, <3>1 DEF Holds, HeldTo
    <3>2. CASE \E k \in DOMAIN items : items[k].row = d
      <4>1. PICK j \in DOMAIN items : items[j].row = d /\ ~items[j].isEvent /\ j \in 1..Len(items)
        BY <1>8, <3>2
      <4> QED BY <1>9, <4>1 DEF Holds, HeldTo
    <3> QED BY <1>3, <2>2, <2>3, <3>1, <3>2 DEF Passed
  <2> QED BY <1>5, <1>10, <2>2, <2>3 DEF Passed, Low
<1> QED BY <1>11, <1>12, <1>13 DEF LeftInv

-----------------------------------------------------------------------------
(* The invariant, and what is left when the timers have nothing to do.     *)

(* At first there is nothing.                                              *)
LEMMA InitLeft ==
  ASSUME Init
  PROVE  LeftInv
<1>1. RowsInv
  BY InitRows
<1>2. /\ own = [r \in {} |-> Opened] /\ log = <<>> /\ queue = <<>>
      /\ copy = [x \in Replica |-> own] /\ pulled = 0 /\ quar = <<>>
  BY DEF Init
<1>3. DOMAIN queue = {} /\ DOMAIN own = {} /\ Days = {}
  BY <1>2 DEF Days
<1>4. Told = 0 /\ Len(log) = 0
  <2>1. {i \in DOMAIN queue : queue[i].isEvent} = {}
    BY <1>3
  <2> QED BY <1>2, <2>1, FS_EmptySet DEF Told
<1>5. RowsQueued /\ EventsQueued /\ Delivered
  BY <1>3, <1>4 DEF RowsQueued, EventsQueued, Delivered
<1>6. Passed
  <2>1. DOMAIN copy["server"] = {}
    BY <1>2, <1>3 DEF Replica
  <2> QED BY <1>2, <2>1 DEF Passed, Low, Sale
<1> QED BY <1>1, <1>5, <1>6 DEF LeftInv

(* Every step keeps the invariant.                                         *)
LEMMA LeftStep ==
  ASSUME LeftInv, [Next]_vars
  PROVE  LeftInv'
<1>1. RowsInv'
  BY RowsStep DEF LeftInv
<1>2. CASE Trade
  BY <1>1, <1>2, TradeLeaves
<1>3. CASE FillNodeOutbox
  BY <1>1, <1>3, FillNodeOutboxLeaves
<1>4. CASE Push
  BY <1>1, <1>4, PushLeaves
<1>5. CASE PushAnswerLost
  BY <1>1, <1>5, PushAnswerLostLeaves
<1>6. CASE Pull
  BY <1>1, <1>6, PullLeaves
<1>7. CASE RetryPeerQuarantine
  BY <1>1, <1>7, RetryPeerQuarantineLeaves
<1>8. CASE UNCHANGED vars
  <2>1. UNCHANGED <<own, log, queue, copy, ev, pulled, quar>>
    BY <1>8 DEF vars
  <2>2. RowsQueued' /\ EventsQueued' /\ Delivered'
    BY <2>1 DEF LeftInv, RowsQueued, EventsQueued, Delivered, Days, Queued, Told
  <2>3. (~GivenUp => Passed)'
    BY <2>1 DEF LeftInv, GivenUp, Passed, Low
  <2> QED BY <1>1, <2>2, <2>3 DEF LeftInv
<1> QED BY <1>2, <1>3, <1>4, <1>5, <1>6, <1>7, <1>8 DEF Next

(* With nothing new to queue, every row and event of the till is queued.   *)
LEMMA AllQueued ==
  ASSUME LeftInv, NewItems = <<>>
  PROVE  DOMAIN own \subseteq Queued /\ Told = Len(log) /\ ~RefundUntold
<1>1. Typed /\ AtTill /\ log \in Seq(EventRow) /\ own \in Rows
  BY DEF LeftInv, RowsInv, Typed
<1>2. Told \in Nat /\ Told <= Len(log) /\ Len(log) \in Nat
  BY <1>1, ToldIs DEF LeftInv, EventsQueued
<1>3. PICK events \in Seq(EventRow) :
         events = Scanned /\ Len(log) <= Len(events) /\ (RefundUntold => Len(events) = Len(log) + 1)
  <2>1. CASE RefundUntold
    <3>1. Scanned # log
      <4>1. Scanned = log \o <<Event("order_refunded", Sale, own[Sale])>>
        BY <2>1 DEF Scanned
      <4>2. PICK e : e = Event("order_refunded", Sale, own[Sale])
        OBVIOUS
      <4>3. <<e>> \in Seq({e}) /\ Len(<<e>>) = 1
        OBVIOUS
      <4>4. Len(log \o <<e>>) = Len(log) + 1
        BY <1>1
      <4> QED BY <1>2, <4>1, <4>2, <4>4
    <3>2. PICK e \in EventRow : Scanned = Append(log, e)
      BY <1>1, <3>1, ScannedIs
    <3>3. Append(log, e) \in Seq(EventRow) /\ Len(Append(log, e)) = Len(log) + 1
      BY <1>1
    <3> QED BY <1>2, <3>2, <3>3
  <2>2. CASE ~RefundUntold
    <3>1. Scanned = log \o <<>>
      BY <2>2 DEF Scanned
    <3>2. log \o <<>> = log
      BY <1>1
    <3> QED BY <1>1, <1>2, <2>2, <3>1, <3>2
  <2> QED BY <2>1, <2>2
<1>4. PICK S \in SUBSET DOMAIN own : S = DOMAIN own \ Queued
  OBVIOUS
<1>5. PICK from \in Nat, upto \in Nat : from = Told /\ upto = Len(events) /\ upto <= Len(events)
  <2>1. PICK upto \in Nat : upto = Len(events)
    OBVIOUS
  <2> QED BY <1>2, <2>1
<1>6. PICK rows \in Rows : rows = own
  BY <1>1
<1>7. S \in SUBSET DOMAIN rows
  BY <1>4, <1>6
<1> DEFINE nums == InOrder(S, MaxDays)
           q == Rowing(rows, S, from, upto, events)
           m == Span(from, upto)
<1>8. nums \in Seq(S) /\ m \in Nat /\ q \in Seq(QueueRow) /\ Rowed(rows, from, nums, q, m)
  BY <1>5, <1>7, RowedIs
<1>9. q = <<>>
  BY <1>3, <1>4, <1>5, <1>6 DEF NewItems, Rowing, Told
<1>10. m = 0 => upto <= from
  BY <1>5 DEF Span
<1> HIDE DEF q, m
<1>11. /\ nums \in Seq(S \cap (0..MaxDays))
       /\ \A d \in S \cap (0..MaxDays) : \E k \in DOMAIN nums : nums[k] = d
       /\ \A j, k \in DOMAIN nums : j < k => nums[j] < nums[k]
  <2>1. PICK top \in Nat : top = MaxDays
    BY BoundsAssumption
  <2> DEFINE x == InOrder(S, top)
  <2>2. /\ x \in Seq(S \cap (0..top))
        /\ \A d \in S \cap (0..top) : \E k \in DOMAIN x : x[k] = d
        /\ \A j, k \in DOMAIN x : j < k => x[j] < x[k]
    BY InOrderAll
  <2>3. nums = x
    BY <2>1
  <2> HIDE DEF nums, x
  <2> QED BY <2>1, <2>2, <2>3
<1> HIDE DEF nums
<1>12. Len(nums) = 0 /\ m = 0
  <2>1. Len(q) = Len(nums) + m
    BY <1>8 DEF Rowed
  <2>2. PICK a \in Nat, b \in Nat : a = Len(nums) /\ b = m
    BY <1>8
  <2>3. Len(q) = 0
    BY <1>9
  <2>4. a + b = 0
    BY <2>1, <2>2, <2>3
  <2> QED BY <2>2, <2>4
<1>13. S = {}
  <2>1. SUFFICES ASSUME NEW d \in S PROVE FALSE
    OBVIOUS
  <2>2. d \in S \cap (0..MaxDays)
    BY <1>6, <1>7, RowsAre DEF Row
  <2>3. DOMAIN nums = {}
    BY <1>8, <1>12
  <2> QED BY <1>11, <2>2, <2>3
<1>14. Len(events) <= Told
  BY <1>5, <1>10, <1>12
<1>15. Len(events) = Len(log) /\ Told = Len(log)
  <2>1. Len(events) \in Nat
    BY <1>5
  <2> QED BY <1>2, <1>3, <1>14, <2>1
<1>16. ~RefundUntold
  BY <1>2, <1>3, <1>15
<1> QED BY <1>4, <1>13, <1>15, <1>16

(* A replica with every row and event of the till shows them as they are.  *)
LEMMA Whole ==
  ASSUME RowsInv, ~RefundUntold, NEW x \in Replica, Len(ev[x]) = Len(log), DOMAIN own \subseteq DOMAIN copy[x]
  PROVE  copy[x] = own
<1>1. PICK s : s = State(x)
  OBVIOUS
<1>2. s.rows = copy[x] /\ Copied(s) /\ copy[x] \in Rows
  BY <1>1, StateIs
<1>3. DOMAIN copy[x] = DOMAIN own
  BY <1>2 DEF Copied, Sound
<1>4. \A r \in DOMAIN own : copy[x][r] = own[r]
  BY <1>3, RowsAgree DEF CopiesAgree
<1>5. own \in Rows
  BY DEF RowsInv, Typed
<1>6. PICK c \in Rows : c = copy[x]
  BY <1>2
<1>7. c = own
  BY <1>3, <1>4, <1>5, <1>6 DEF Rows
<1> QED BY <1>6, <1>7

(* A quarantine none of which would be taken says that a day is open.      *)
LEMMA StuckIsOpen ==
  ASSUME RowsInv, ~RefundUntold, Len(ev["peer"]) = Len(log), quar # <<>>, Retried(State("peer"), quar).refused = quar
  PROVE  \E d \in Days : own[d].st = "open"
<1>1. Typed /\ AtTill /\ OnTheWay /\ LogMeant
  BY DEF RowsInv, AtTill
<1>2. PICK s : s = State("peer")
  OBVIOUS
<1>3. s \in States /\ Copied(s) /\ s.rows = copy["peer"]
  BY <1>2, StateIs DEF Replica
<1>4. PICK items \in Seq(QueueRow) : items = quar
  BY <1>1 DEF Typed
<1>5. \A k \in DOMAIN items : items[k] \in QueueRow /\ items[k] \in ToSet(items)
  BY DEF ToSet
<1>6. SoundItems(items)
  BY <1>1, <1>4, <1>5 DEF OnTheWay, SoundItems
<1>7. PICK t : t = Retried(s, items)
  OBVIOUS
<1>8. t.refused = Take(s, items).refused
  BY <1>1, <1>3, <1>6, <1>7, RetriedHolds
<1>9. t.refused = items
  BY <1>2, <1>4, <1>7
<1>10. Len(Take(s, items).refused) = Len(items) /\ items # <<>>
  BY <1>4, <1>8, <1>9
<1>11. OpenClash(s.rows, items[1].row)
  BY <1>1, <1>3, <1>6, <1>10, TakeStuck
<1>12. PICK d \in DOMAIN copy["peer"] \ {Sale} : copy["peer"][d].st = "open"
  BY <1>3, <1>11 DEF OpenClash
<1>13. copy["peer"][d] = own[d]
  BY <1>12, RowsAgree DEF CopiesAgree, Replica
<1>14. d \in DOMAIN own
  BY <1>3, <1>12 DEF Copied, Sound
<1> QED BY <1>12, <1>13, <1>14 DEF Days

(* With nothing left to do, nothing is left out.                           *)
LEMMA QuietIsWhole ==
  ASSUME LeftInv, ~GivenUp
  PROVE  NothingLeftOut
<1>1. RowsInv /\ Typed /\ AtTill /\ RowsQueued /\ EventsQueued /\ Delivered /\ Passed
  BY DEF LeftInv, RowsInv
<1> SUFFICES ASSUME Quiet
             PROVE  /\ \A x \in Replica : Len(ev[x]) = Len(log)
                    /\ copy["server"] = own
                    /\ copy["peer"] = own \/ (quar # <<>> /\ \E d \in Days : own[d].st = "open")
  BY DEF NothingLeftOut
<1>2. NewItems = <<>> /\ Batch = <<>> /\ Offered = <<>> /\ Retried(State("peer"), quar).refused = quar
  BY DEF Quiet
<1>3. DOMAIN own \subseteq Queued /\ Told = Len(log) /\ ~RefundUntold
  BY <1>2, AllQueued
<1>4. ASSUME NEW i \in DOMAIN queue PROVE queue[i].st = "delivered"
  <2>1. queue[i].st # "pending"
    BY <1>1, <1>2, BatchOrder
  <2>2. queue[i].st # "failed"
    BY DEF GivenUp
  <2> QED BY <1>1, <2>1, <2>2, QueueRowIs
<1>5. DOMAIN own \subseteq DOMAIN copy["server"]
  <2>1. ASSUME NEW r \in DOMAIN own PROVE r \in DOMAIN copy["server"]
    <3>1. PICK i \in DOMAIN queue : ~queue[i].isEvent /\ queue[i].row = r
      BY <1>3 DEF Queued
    <3> QED BY <1>1, <1>4, <3>1 DEF Delivered
  <2> QED BY <2>1
<1>6. ASSUME NEW x \in Replica PROVE Len(ev[x]) \in Nat /\ Len(ev[x]) <= Len(log)
  <2>1. PICK s : s = State(x)
    OBVIOUS
  <2>2. s.marks = ev[x] /\ Copied(s) /\ ev[x] \in Marks
    BY <1>1, <2>1, StateIs
  <2> QED BY <2>2 DEF Copied, Marks
<1>7. Len(log) \in Nat
  BY <1>1 DEF Typed
<1>8. "server" \in Replica /\ "peer" \in Replica /\ \A x \in Replica : x = "server" \/ x = "peer"
  BY DEF Replica
<1>9. Len(ev["server"]) = Len(log)
  <2>1. CASE Len(log) = 0
    BY <1>6, <1>8, <2>1
  <2>2. CASE Len(log) # 0
    <3>1. Len(log) \in 1..Told
      BY <1>3, <1>7, <2>2
    <3>2. PICK i \in DOMAIN queue : queue[i].isEvent /\ queue[i].row = Len(log)
      BY <1>1, <3>1 DEF EventsQueued
    <3>3. Len(log) <= Len(ev["server"])
      BY <1>1, <1>4, <3>2 DEF Delivered
    <3> QED BY <1>6, <1>7, <1>8, <3>3
  <2> QED BY <2>1, <2>2
<1>10. copy["server"] = own
  BY <1>1, <1>3, <1>5, <1>8, <1>9, Whole
<1>11. ToPull = {} /\ Len(ev["server"]) <= Len(ev["peer"])
  BY <1>1, <1>2, OfferedInOrder
<1>12. Len(ev["peer"]) = Len(log)
  BY <1>6, <1>7, <1>8, <1>9, <1>11
<1>13. CASE DOMAIN own \subseteq DOMAIN copy["peer"]
  <2>1. copy["peer"] = own
    BY <1>1, <1>3, <1>8, <1>12, <1>13, Whole
  <2> QED BY <1>8, <1>9, <1>10, <1>12, <2>1
<1>14. CASE ~(DOMAIN own \subseteq DOMAIN copy["peer"])
  <2>1. PICK d \in DOMAIN copy["server"] : d \notin DOMAIN copy["peer"]
    BY <1>10, <1>14
  <2>2. d # Sale
    BY <1>11, <2>1 DEF ToPull
  <2>3. d <= pulled
    <3>1. ~(d > pulled)
      BY <1>11, <2>1, <2>2 DEF ToPull
    <3>2. d \in Nat /\ pulled \in Nat
      <4>1. own \in Rows /\ pulled \in Row /\ MaxDays \in Nat
        BY <1>1, BoundsAssumption DEF Typed
      <4> QED BY <1>10, <2>1, <4>1, RowsAre DEF Row
    <3> QED BY <3>1, <3>2
  <2>4. PICK k \in DOMAIN quar : quar[k].row = d
    BY <1>1, <2>1, <2>2, <2>3 DEF Passed
  <2>5. quar # <<>>
    BY <2>4
  <2>6. \E c \in Days : own[c].st = "open"
    BY <1>1, <1>2, <1>3, <1>12, <2>5, StuckIsOpen
  <2> QED BY <1>8, <1>9, <1>10, <1>12, <2>5, <2>6
<1> QED BY <1>13, <1>14

(* What is queued, sent, offered and quarantined, of every reachable       *)
(* state.                                                                  *)
THEOREM LeftInvariant == Spec => []LeftInv
<1>1. Init => LeftInv
  BY InitLeft
<1>2. LeftInv /\ [Next]_vars => LeftInv'
  BY LeftStep
<1> QED BY <1>1, <1>2, PTL DEF Spec

(* When nothing is left to queue, to send, to pull or to retry, the server *)
(* holds every row and event of the till, and the peer too but for days    *)
(* quarantined while a day is open: for any number of days, batches and    *)
(* pulls cut anywhere, and answers lost; unless a row was refused          *)
(* MaxAttempts times, which the code leaves to an operator (fillNodeOutbox,*)
(* settleNodeBatch, collectDistribution, applyDistribution,                *)
(* retryPeerQuarantine).                                                   *)
THEOREM NothingIsLeftOut == Spec => [](~GivenUp => NothingLeftOut)
<1>1. LeftInv => (~GivenUp => NothingLeftOut)
  BY QuietIsWhole
<1> QED BY <1>1, LeftInvariant, PTL
=============================================================================
