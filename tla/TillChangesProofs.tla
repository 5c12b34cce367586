------------------------- MODULE TillChangesProofs --------------------------
(***************************************************************************)
(* Proofs about TillChanges: a change that waits shows on its till, the    *)
(* cloud has judged every edit that does not wait any more, no edit        *)
(* overwrites what its maker was never shown, and the owner is not asked   *)
(* about the till's own changes.                                           *)
(*                                                                         *)
(* The model filters and replays its queue with folds.  Facts about folds  *)
(* come from an induction over the naturals, which rests on the library's  *)
(* theorem that strict inclusion of finite sets is well-founded.           *)
(***************************************************************************)
EXTENDS TillChanges, FiniteSets, Integers, TLAPS, FiniteSetTheorems, WellFoundedInduction

(* Deletes come last and creates first; what waits to be sent, or has the  *)
(* newest id, comes last too, but for a delete.                            *)
Ordered(q, newest) ==
    \A k, l \in DOMAIN q : k < l =>
        /\ q[k].op # "delete" /\ q[l].op # "create"
        /\ q[k].st = "pending" \/ q[k].id = newest => q[k].op = "update" /\ q[l].op = "delete"
Distinct(q) == \A k, l \in DOMAIN q : q[k].id = q[l].id => k = l
Whole(c) == c.op = "create" => c.data \in Thing
Known(c) == c.id <= made /\ c.at <= edits /\ Whole(c)
(* The last change shows if it waits or is the newest.                     *)
Shows(q, newest, row) ==
    q # <<>> /\ (Last(q).st = "pending" \/ Last(q).id = newest) => Lay(Last(q), row) = row
(* What holds of the till's changes, and again after each answer.          *)
Good(s) ==
    /\ s.q \in Seq(Change) /\ s.made \in 0..edits /\ s.here \in Thing \cup {Absent}
    /\ s.told \in [Ids -> {"none", "done", "refused", "rejected"}]
    /\ Distinct(s.q) /\ Ordered(s.q, s.made) /\ Shows(s.q, s.made, s.here)
    /\ \A k \in DOMAIN s.q :
          /\ s.q[k].id <= s.made /\ s.q[k].at <= edits /\ Whole(s.q[k])
          /\ s.q[k].op = "delete" => s.here = Absent

(* A request of the till whose answer it still waits for.                  *)
Awaited(h) == handler[h] # Absent /\ handler[h].from = "till" /\ handler[h].heard
Handled(h) ==
    LET r == handler[h] IN
    r # Absent =>
        /\ r.rows # <<>> /\ Len(r.said) <= Len(r.rows)
        /\ (r.step = "end") <=> (Len(r.said) = Len(r.rows))
        /\ r.step = "end" => r.heard
        /\ r.step = "record" => r.verdict # "none"
        /\ \A k \in DOMAIN r.rows : Known(r.rows[k])
        /\ Awaited(h) => /\ Distinct(r.rows) /\ pass["till"] = "posted"
                         /\ \A o \in Slots : Awaited(o) => o = h
(* A row of such a request is the till's change as it is, or an edit has   *)
(* joined the change since.                                                *)
Fresh(row, c) ==
    row.id = c.id =>
        IF row.at = c.at THEN row.op = c.op /\ row.data = c.data
        ELSE c.st = "pending" /\ c.op # "delete" /\ made < edits
OnTheWay ==
    \A h \in Slots : Awaited(h) =>
        \A j \in DOMAIN handler[h].rows, k \in DOMAIN queue["till"] : Fresh(handler[h].rows[j], queue["till"][k])
Types ==
    /\ TypeOK
    /\ \A h \in Slots : Handled(h)
    /\ \A k \in DOMAIN queue["server"] : Known(queue["server"][k])
    /\ \A i \in Ids : request[i].st # "none" => i <= made /\ Whole(request[i])
ChangesInv == Types /\ Good(TillNow) /\ OnTheWay

(* Unless other values went out under an id already handed over, what was  *)
(* handed over of a change is what was first handed over.                  *)
SameAs(x, c) == c.sent = x.data /\ c.op = x.op
AsFirstSent ==
    \A k \in DOMAIN queue["till"] : LET c == queue["till"][k] IN
        /\ \A h \in Slots : handler[h] # Absent =>
              \A j \in DOMAIN handler[h].rows : handler[h].rows[j].id = c.id => SameAs(handler[h].rows[j], c)
        /\ \A j \in DOMAIN queue["server"] : queue["server"][j].id = c.id => SameAs(queue["server"][j], c)
        /\ request[c.id].st # "none" => SameAs(request[c.id], c)
(* An edit not yet judged is one of the last change, which waits and has   *)
(* no answer yet to what it is now.                                        *)
StillOwed ==
    owed # {} =>
        /\ queue["till"] # <<>> /\ Last(queue["till"]).st = "pending"
        /\ LET c == Last(queue["till"]) IN
           /\ owed \subseteq Values(c)
           /\ request[c.id].st # "none" => owed \cap Values(request[c.id]) = {}
           /\ \A h \in Slots : Awaited(h) =>
                 \A j \in DOMAIN handler[h].said : LET r == handler[h].rows[j] IN
                     r.id = c.id /\ r.at = c.at => handler[h].said[j] = "later"
EditsInv == "mixed" \notin odd => AsFirstSent /\ StillOwed

-----------------------------------------------------------------------------
(* Induction over the naturals, and folds over sequences.                  *)

(* A set of naturals has a least element.                                  *)
LEMMA Least ==
  ASSUME NEW T \in SUBSET Nat, T # {}
  PROVE  \E m \in T : \A n \in T : m <= n
<1> DEFINE U == {1..n : n \in T}
<1>1. U \subseteq FiniteSubsetsOf(Nat) /\ U # {}
  <2>1. \A n \in Nat : IsFiniteSet(1..n)
    BY FS_Interval
  <2>2. ASSUME NEW u \in U PROVE u \in SUBSET Nat /\ IsFiniteSet(u)
    <3>1. PICK n \in T : u = 1..n
      OBVIOUS
    <3>2. n \in Nat /\ 1..n \in SUBSET Nat
      OBVIOUS
    <3> QED BY <2>1, <3>1, <3>2
  <2>3. U # {}
    OBVIOUS
  <2> HIDE DEF U
  <2> QED BY <2>2, <2>3 DEF FiniteSubsetsOf
<1>2. \E x \in U : \A y \in U : ~(<<y,x>> \in StrictSubsetOrdering(Nat))
  <2> HIDE DEF U
  <2> QED BY <1>1, FS_StrictSubsetOrderingWellFounded, WFMin
<1>3. PICK m \in T : \A n \in T : ~(<<1..n,1..m>> \in StrictSubsetOrdering(Nat))
  BY <1>2
<1>4. ASSUME NEW n \in T, n < m PROVE FALSE
  <2>1. m \in 1..m /\ m \notin 1..n
    BY <1>4
  <2>2. 1..n \in SUBSET Nat /\ 1..m \in SUBSET Nat /\ 1..n \subseteq 1..m /\ 1..n # 1..m
    BY <1>4, <2>1
  <2> QED BY <2>2, <1>3 DEF StrictSubsetOrdering
<1> QED BY <1>4

(* What holds of 0, and of n + 1 whenever of n, holds of every natural.    *)
LEMMA Induction ==
  ASSUME NEW T, 0 \in T, \A n \in Nat : n \in T => n + 1 \in T
  PROVE  Nat \subseteq T
<1> DEFINE V == Nat \ T
<1>1. SUFFICES ASSUME V # {} PROVE FALSE
  OBVIOUS
<1>2. PICK m \in V : \A n \in V : m <= n
  <2>1. V \in SUBSET Nat
    OBVIOUS
  <2> HIDE DEF V
  <2> QED BY <1>1, <2>1, Least
<1>3. m \in Nat /\ m # 0
  BY <1>2
<1>4. m - 1 \in Nat /\ m - 1 \notin V
  BY <1>2, <1>3
<1>5. m - 1 \in T
  BY <1>4
<1>6. (m - 1) + 1 \in T
  BY <1>4, <1>5
<1> QED BY <1>2, <1>3, <1>6

(* Max finds the greatest of a set of indices.                             *)
LEMMA MaxOf ==
  ASSUME NEW n \in Nat, NEW s \in SUBSET (1..n), s # {}
  PROVE  Max(s) \in s /\ \A y \in s : y <= Max(s)
<1> DEFINE T == {n - x : x \in s}
<1>1. T \in SUBSET Nat /\ T # {}
  <2>1. \A x \in s : n - x \in Nat
    OBVIOUS
  <2>2. PICK x \in s : TRUE
    OBVIOUS
  <2>3. n - x \in T
    BY <2>2
  <2>4. \A y \in T : y \in Nat
    BY <2>1
  <2> HIDE DEF T
  <2> QED BY <2>3, <2>4
<1>2. PICK m \in T : \A y \in T : m <= y
  <2> HIDE DEF T
  <2> QED BY <1>1, Least
<1>3. PICK x \in s : m = n - x
  BY <1>2
<1>4. ASSUME NEW y \in s PROVE x >= y
  <2>1. n - y \in T
    OBVIOUS
  <2>2. m <= n - y
    BY <1>2, <2>1
  <2> QED BY <1>3, <2>2
<1> QED BY <1>4 DEF Max

LEMMA MaxOfFirst ==
  ASSUME NEW n \in Nat \ {0}
  PROVE  Max(1..n) = n /\ (1..n) \ {Max(1..n)} = 1..(n-1)
<1>1. Max(1..n) \in 1..n /\ \A y \in 1..n : y <= Max(1..n)
  <2>1. 1..n \in SUBSET (1..n) /\ 1..n # {}
    OBVIOUS
  <2> HIDE DEF Max
  <2> QED BY <2>1, MaxOf
<1>2. Max(1..n) = n
  BY <1>1
<1> QED BY <1>2

(* The function by which FoldLeft is defined exists.                       *)
Folded(F, b, q, n, g) ==
    \A s \in SUBSET (1..n) :
        g[s] = IF s = {} THEN b ELSE F[<<g[s \ {Max(s)}], q[Max(s)]>>]

LEMMA FoldExists ==
  ASSUME NEW S, NEW C, NEW F \in [S \X C -> S], NEW b \in S, NEW n \in Nat, NEW q \in [1..n -> C]
  PROVE  \E g \in [SUBSET (1..n) -> S] : Folded(F, b, q, n, g)
<1> DEFINE P(k) == k <= n => \E g \in [SUBSET (1..k) -> S] : Folded(F, b, q, k, g)
<1>1. P(0)
  <2> DEFINE g == [s \in SUBSET (1..0) |-> b]
  <2>1. SUBSET (1..0) = {{}}
    OBVIOUS
  <2>2. g \in [SUBSET (1..0) -> S] /\ Folded(F, b, q, 0, g)
    BY <2>1 DEF Folded
  <2> QED BY <2>2
<1>2. ASSUME NEW k \in Nat, P(k) PROVE P(k + 1)
  <2>1. SUFFICES ASSUME k + 1 <= n
                 PROVE  \E g \in [SUBSET (1..(k+1)) -> S] : Folded(F, b, q, k + 1, g)
    OBVIOUS
  <2>2. PICK h \in [SUBSET (1..k) -> S] : Folded(F, b, q, k, h)
    <3>1. k <= n
      BY <2>1
    <3> QED BY <1>2, <3>1, Zenon
  <2> DEFINE g == [s \in SUBSET (1..(k+1)) |->
                     IF k + 1 \in s THEN F[<<h[s \ {k + 1}], q[k + 1]>>] ELSE h[s]]
  <2>3. ASSUME NEW s \in SUBSET (1..(k+1)), k + 1 \in s
        PROVE  /\ s \ {k + 1} \in SUBSET (1..k) /\ Max(s) = k + 1
               /\ g[s] = F[<<g[s \ {Max(s)}], q[Max(s)]>>] /\ g[s] \in S
    <3>1. s \ {k + 1} \in SUBSET (1..k) /\ s \ {k + 1} \in SUBSET (1..(k+1))
      OBVIOUS
    <3>2. Max(s) \in s /\ \A y \in s : y <= Max(s)
      <4> HIDE DEF Max
      <4> QED BY <2>3, MaxOf, k + 1 \in Nat
    <3>3. Max(s) = k + 1
      <4>1. k + 1 <= Max(s) /\ Max(s) \in 1..(k+1)
        BY <2>3, <3>2
      <4> QED BY <4>1
    <3>4. g[s \ {k + 1}] = h[s \ {k + 1}]
      BY <3>1
    <3>5. q[k + 1] \in C
      BY <2>1
    <3>6. <<h[s \ {k + 1}], q[k + 1]>> \in S \X C
      BY <3>1, <3>5
    <3>7. g[s] = F[<<h[s \ {k + 1}], q[k + 1]>>]
      BY <2>3
    <3> QED BY <3>1, <3>3, <3>4, <3>6, <3>7
  <2>4. ASSUME NEW s \in SUBSET (1..(k+1)), k + 1 \notin s
        PROVE  /\ g[s] \in S
               /\ g[s] = IF s = {} THEN b ELSE F[<<g[s \ {Max(s)}], q[Max(s)]>>]
    <3>1. s \in SUBSET (1..k) /\ s \ {Max(s)} \in SUBSET (1..k)
      <4>1. \A x \in s : x \in 1..k
        BY <2>4
      <4> QED BY <4>1
    <3>2. g[s] = h[s] /\ g[s \ {Max(s)}] = h[s \ {Max(s)}]
      <4> HIDE DEF Max
      <4> QED BY <2>4, <3>1
    <3> QED BY <2>2, <3>1, <3>2 DEF Folded
  <2>5. g \in [SUBSET (1..(k+1)) -> S]
    BY <2>3, <2>4
  <2>6. Folded(F, b, q, k + 1, g)
    <3> HIDE DEF g
    <3> QED BY <2>3, <2>4 DEF Folded
  <2> QED BY <2>5, <2>6
<1>3. P(n)
  <2> DEFINE T == {k \in Nat : P(k)}
  <2> HIDE DEF P
  <2>1. 0 \in T /\ \A k \in Nat : k \in T => k + 1 \in T
    BY <1>1, <1>2
  <2> HIDE DEF T
  <2>2. n \in T
    BY <2>1, Induction
  <2> QED BY <2>2 DEF T
<1>4. n <= n
  OBVIOUS
<1> QED BY <1>3, <1>4, Zenon

(* What a fold of F over q does, element by element.                       *)
Steps(F, b, q, n, S, t, end) ==
    /\ t \in [0..n -> S] /\ t[0] = b /\ t[n] = end
    /\ \A k \in 1..n : t[k] = F[<<t[k-1], q[k]>>]

Folding(F, b, q, n, S, h) ==
    /\ h[{}] = b
    /\ \A s \in SUBSET (1..n) : s # {} /\ h[s \ {Max(s)}] \in S =>
          h[s] = F[<<h[s \ {Max(s)}], q[Max(s)]>>]

LEMMA FoldSteps ==
  ASSUME NEW S, NEW C, NEW F \in [S \X C -> S], NEW b \in S, NEW n \in Nat, NEW q \in [1..n -> C],
         NEW h, Folding(F, b, q, n, S, h)
  PROVE  \E t : Steps(F, b, q, n, S, t, h[1..n])
<1> DEFINE t == [k \in 0..n |-> h[1..k]]
<1>1. t[0] = b /\ t[n] = h[1..n]
  BY DEF Folding
<1>2. ASSUME NEW k \in 1..n, t[k-1] \in S PROVE t[k] = F[<<t[k-1], q[k]>>] /\ t[k] \in S
  <2>1. Max(1..k) = k /\ (1..k) \ {Max(1..k)} = 1..(k-1)
    BY MaxOfFirst
  <2>2. 1..k \in SUBSET (1..n) /\ 1..k # {} /\ t[k] = h[1..k] /\ t[k-1] = h[1..(k-1)]
    <3>1. k \in 0..n /\ k - 1 \in 0..n /\ 1 \in 1..k
      OBVIOUS
    <3>2. \A x \in 1..k : x \in 1..n
      OBVIOUS
    <3> QED BY <3>1, <3>2
  <2>3. t[k] = F[<<t[k-1], q[k]>>]
    <3> HIDE DEF t
    <3>1. h[(1..k) \ {Max(1..k)}] \in S
      BY <1>2, <2>1, <2>2
    <3>2. h[1..k] = F[<<h[(1..k) \ {Max(1..k)}], q[Max(1..k)]>>]
      <4> HIDE DEF Max
      <4> QED BY <3>1, <2>2 DEF Folding
    <3> QED BY <2>1, <2>2, <3>2
  <2>4. <<t[k-1], q[k]>> \in S \X C
    <3> HIDE DEF t
    <3> QED BY <1>2
  <2> QED BY <2>3, <2>4
<1>3. t \in [0..n -> S]
  <2> DEFINE P(k) == k <= n => t[k] \in S
             T == {k \in Nat : P(k)}
  <2> HIDE DEF t
  <2>1. P(0)
    BY <1>1
  <2>2. ASSUME NEW k \in Nat, P(k) PROVE P(k + 1)
    <3>1. SUFFICES ASSUME k + 1 <= n PROVE t[k + 1] \in S
      OBVIOUS
    <3>2. k + 1 \in 1..n /\ (k + 1) - 1 = k /\ t[k] \in S
      BY <2>2, <3>1
    <3> QED BY <1>2, <3>2
  <2> HIDE DEF P
  <2>3. 0 \in T /\ \A k \in Nat : k \in T => k + 1 \in T
    BY <2>1, <2>2
  <2> HIDE DEF T
  <2>4. Nat \subseteq T
    BY <2>3, Induction
  <2> USE DEF P, T
  <2>5. \A k \in 0..n : t[k] \in S
    BY <2>4
  <2> QED BY <2>5 DEF t
<1>4. \A k \in 1..n : t[k] = F[<<t[k-1], q[k]>>]
  <2>1. \A k \in 1..n : k - 1 \in 0..n
    OBVIOUS
  <2> HIDE DEF t
  <2> QED BY <1>2, <1>3, <2>1
<1> HIDE DEF t
<1> QED BY <1>1, <1>3, <1>4 DEF Steps

(* Those keeps the changes of q that are in S, and adds them one by one.   *)
KeepIn(C, S) == [p \in Seq(C) \X C |-> IF p[2] \in S THEN Append(p[1], p[2]) ELSE p[1]]
LEMMA ThoseSteps ==
  ASSUME NEW C, NEW q \in Seq(C), NEW S
  PROVE  \E t : Steps(KeepIn(C, S), <<>>, q, Len(q), Seq(C), t, Those(q, S))
<1> DEFINE n == Len(q)
           F == KeepIn(C, S)
           Value(g, s) == IF s = {} THEN <<>>
                          ELSE IF q[Max(s)] \in S THEN Append(g[s \ {Max(s)}], q[Max(s)])
                          ELSE g[s \ {Max(s)}]
           It(g) == g = [s \in SUBSET DOMAIN q |-> Value(g, s)]
<1>1. n \in Nat /\ DOMAIN q = 1..n /\ q \in [1..n -> C]
  OBVIOUS
<1>2. F \in [Seq(C) \X C -> Seq(C)] /\ <<>> \in Seq(C)
  BY DEF KeepIn
<1>3. ASSUME NEW g, NEW s \in SUBSET (1..n), s # {}, g[s \ {Max(s)}] \in Seq(C)
      PROVE  F[<<g[s \ {Max(s)}], q[Max(s)]>>] = Value(g, s)
  <2>1. Max(s) \in 1..n
    <3> HIDE DEF Max
    <3> QED BY <1>1, <1>3, MaxOf
  <2> QED BY <1>1, <1>3, <2>1 DEF KeepIn
<1> HIDE DEF F, n
<1>4. PICK g \in [SUBSET (1..n) -> Seq(C)] : Folded(F, <<>>, q, n, g)
  BY <1>1, <1>2, FoldExists
<1>5. It(g)
  <2>1. \A s \in SUBSET (1..n) : g[s] = Value(g, s)
    <3>1. \A s \in SUBSET (1..n) : s # {} => g[s] = Value(g, s)
      <4> HIDE DEF Value
      <4>1. \A s \in SUBSET (1..n) : g[s \ {Max(s)}] \in Seq(C)
        BY <1>4
      <4> QED BY <1>3, <1>4, <4>1 DEF Folded
    <3>2. g[{}] = Value(g, {})
      BY <1>4 DEF Folded
    <3> HIDE DEF Value
    <3> QED BY <3>1, <3>2
  <2> HIDE DEF Value
  <2> QED BY <1>1, <1>4, <2>1
<1>6. PICK h : It(h) /\ Those(q, S) = h[DOMAIN q]
  <2> DEFINE h == CHOOSE x : It(x)
  <2>1. Those(q, S) = h[DOMAIN q]
    BY DEF Those, FoldLeft, MapThenFoldSet
  <2> HIDE DEF It
  <2>2. It(h)
    BY <1>5
  <2> QED BY <2>1, <2>2
<1>7. h[{}] = <<>> /\ \A s \in SUBSET (1..n) : h[s] = Value(h, s)
  <2>1. \A s \in SUBSET (1..n) : h[s] = Value(h, s)
    <3> HIDE DEF Value
    <3> QED BY <1>1, <1>6
  <2> QED BY <2>1
<1> HIDE DEF Value
<1>8. \E t : Steps(F, <<>>, q, n, Seq(C), t, h[1..n])
  <2> DEFINE Sq == Seq(C)
             b == <<>>
  <2>1. Folding(F, b, q, n, Sq, h)
    BY <1>3, <1>7 DEF Folding
  <2>2. F \in [Sq \X C -> Sq] /\ b \in Sq
    BY <1>2
  <2> HIDE DEF Max, Sq, b
  <2>3. \E t : Steps(F, b, q, n, Sq, t, h[1..n])
    BY <1>1, <2>1, <2>2, FoldSteps
  <2> QED BY <2>3 DEF Sq, b
<1> QED BY <1>1, <1>6, <1>8 DEF F, n

(* r is what of q's first k elements is in S, in order: its j-th element   *)
(* is q's g[j]-th.                                                         *)
Picks(q, k, S, r, g) ==
    /\ g \in [1..Len(r) -> 1..k]
    /\ \A i, j \in 1..Len(r) : i < j => g[i] < g[j]
    /\ \A j \in 1..Len(r) : r[j] = q[g[j]] /\ r[j] \in S
    /\ \A i \in 1..k : q[i] \in S => \E j \in 1..Len(r) : g[j] = i

LEMMA ThosePicks ==
  ASSUME NEW C, NEW q \in Seq(C), NEW S
  PROVE  /\ Those(q, S) \in Seq(C)
         /\ \E g : Picks(q, Len(q), S, Those(q, S), g)
<1> DEFINE n == Len(q)
<1>1. n \in Nat /\ \A i \in 1..n : q[i] \in C
  OBVIOUS
<1>2. PICK t : Steps(KeepIn(C, S), <<>>, q, n, Seq(C), t, Those(q, S))
  BY ThoseSteps
<1>3. t \in [0..n -> Seq(C)] /\ t[0] = <<>> /\ t[n] = Those(q, S)
  BY <1>2 DEF Steps
<1> DEFINE P(k) == k <= n => \E g : Picks(q, k, S, t[k], g)
<1>4. P(0)
  <2> DEFINE g == [j \in 1..0 |-> 1]
  <2>1. Picks(q, 0, S, <<>>, g)
    BY DEF Picks
  <2> QED BY <1>3, <2>1
<1>5. ASSUME NEW k \in Nat, P(k) PROVE P(k + 1)
  <2>1. SUFFICES ASSUME k + 1 <= n PROVE \E g : Picks(q, k + 1, S, t[k + 1], g)
    OBVIOUS
  <2>2. k + 1 \in 1..n /\ (k + 1) - 1 = k /\ k <= n /\ k \in 0..n
    BY <1>1, <2>1
  <2> HIDE DEF n
  <2>3. t[k] \in Seq(C) /\ q[k + 1] \in C
    BY <1>1, <1>3, <2>2
  <2>4. t[k + 1] = IF q[k + 1] \in S THEN Append(t[k], q[k + 1]) ELSE t[k]
    <3>1. t[k + 1] = KeepIn(C, S)[<<t[k], q[k + 1]>>]
      BY <1>2, <2>2 DEF Steps
    <3>2. <<t[k], q[k + 1]>> \in Seq(C) \X C
      BY <2>3
    <3> QED BY <3>1, <3>2 DEF KeepIn
  <2> DEFINE r == t[k]
  <2>5. PICK g : Picks(q, k, S, r, g)
    BY <1>5, <2>2, Zenon
  <2>6. CASE q[k + 1] \in S
    <3> DEFINE m == Len(r)
               f == [j \in 1..(m + 1) |-> IF j = m + 1 THEN k + 1 ELSE g[j]]
    <3>1. m \in Nat /\ Append(r, q[k + 1]) \in Seq(C) /\ Len(Append(r, q[k + 1])) = m + 1
      BY <2>3
    <3>2. \A j \in 1..m : Append(r, q[k + 1])[j] = r[j] /\ f[j] = g[j] /\ g[j] \in 1..k
      <4>1. \A j \in 1..m : Append(r, q[k + 1])[j] = r[j]
        BY <2>3
      <4>2. \A j \in 1..m : f[j] = g[j]
        BY <3>1
      <4>3. \A j \in 1..m : g[j] \in 1..k
        BY <2>5 DEF Picks
      <4> HIDE DEF f, m
      <4> QED BY <4>1, <4>2, <4>3
    <3>3. Append(r, q[k + 1])[m + 1] = q[k + 1] /\ f[m + 1] = k + 1
      BY <2>3, <3>1
    <3>4. \A j \in 1..(m + 1) : j = m + 1 \/ j \in 1..m
      BY <3>1
    <3>5. \A i \in 1..(k + 1) : i = k + 1 \/ i \in 1..k
      OBVIOUS
    <3>6. DOMAIN f = 1..(m + 1) /\ f = [j \in 1..(m + 1) |-> f[j]]
      OBVIOUS
    <3> HIDE DEF f, m
    <3>7. f \in [1..(m + 1) -> 1..(k + 1)]
      <4>1. \A j \in 1..(m + 1) : f[j] \in 1..(k + 1)
        BY <3>2, <3>3, <3>4
      <4> QED BY <3>6, <4>1
    <3>8. \A i, j \in 1..(m + 1) : i < j => f[i] < f[j]
      <4>1. ASSUME NEW i \in 1..(m + 1), NEW j \in 1..(m + 1), i < j PROVE f[i] < f[j]
        <5>1. i \in 1..m
          BY <4>1, <3>1
        <5>2. CASE j = m + 1
          BY <5>1, <5>2, <3>2, <3>3
        <5>3. CASE j \in 1..m
          BY <4>1, <5>1, <5>3, <3>2, <2>5 DEF Picks, m
        <5> QED BY <5>2, <5>3, <3>4
      <4> QED BY <4>1
    <3>9. \A j \in 1..(m + 1) : Append(r, q[k + 1])[j] = q[f[j]] /\ q[f[j]] \in S
      BY <2>5, <2>6, <3>2, <3>3, <3>4 DEF Picks, m
    <3>10. \A i \in 1..(k + 1) : q[i] \in S => \E j \in 1..(m + 1) : f[j] = i
      <4>1. \A i \in 1..k : q[i] \in S => \E j \in 1..m : g[j] = i
        BY <2>5 DEF Picks, m
      <4>2. \A j \in 1..m : j \in 1..(m + 1)
        BY <3>1
      <4>3. m + 1 \in 1..(m + 1)
        BY <3>1
      <4> QED BY <4>1, <4>2, <4>3, <3>2, <3>3, <3>5
    <3>11. Picks(q, k + 1, S, Append(r, q[k + 1]), f)
      BY <3>1, <3>7, <3>8, <3>9, <3>10 DEF Picks
    <3> QED BY <2>4, <2>6, <3>11
  <2>7. CASE q[k + 1] \notin S
    <3>1. g \in [1..Len(r) -> 1..(k + 1)]
      BY <2>5 DEF Picks
    <3>2. \A i \in 1..(k + 1) : i = k + 1 \/ i \in 1..k
      OBVIOUS
    <3>3. \A i \in 1..(k + 1) : q[i] \in S => \E j \in 1..Len(r) : g[j] = i
      BY <2>5, <2>7, <3>2 DEF Picks
    <3>4. Picks(q, k + 1, S, r, g)
      BY <2>5, <3>1, <3>3 DEF Picks
    <3> QED BY <2>4, <2>7, <3>4
  <2> QED BY <2>6, <2>7
<1>6. P(n)
  <2> DEFINE T == {k \in Nat : P(k)}
  <2> HIDE DEF P, n
  <2>1. 0 \in T /\ \A k \in Nat : k \in T => k + 1 \in T
    BY <1>4, <1>5
  <2> HIDE DEF T
  <2>2. n \in T
    BY <1>1, <2>1, Induction
  <2> QED BY <2>2 DEF T
<1>7. n <= n /\ n \in 0..n
  BY <1>1
<1>8. Those(q, S) \in Seq(C)
  <2> HIDE DEF n
  <2> QED BY <1>3, <1>7
<1>9. \E g : Picks(q, n, S, t[n], g)
  <2> HIDE DEF n
  <2> QED BY <1>6, <1>7, Zenon
<1> QED BY <1>3, <1>8, <1>9

(* The same, without the indices.                                          *)
LEMMA ThoseKeeps ==
  ASSUME NEW C, NEW q \in Seq(C), NEW S, NEW r, r = Those(q, S)
  PROVE  /\ r \in Seq(C)
         /\ \A j \in DOMAIN r : r[j] \in S /\ \E k \in DOMAIN q : r[j] = q[k]
         /\ \A k \in DOMAIN q : q[k] \in S => \E j \in DOMAIN r : r[j] = q[k]
         /\ \A i, j \in DOMAIN r : i < j =>
               \E k, l \in DOMAIN q : k < l /\ r[i] = q[k] /\ r[j] = q[l]
<1>1. PICK g : Picks(q, Len(q), S, r, g)
  BY ThosePicks
<1>2. r \in Seq(C)
  BY ThosePicks
<1>3. DOMAIN q = 1..Len(q) /\ DOMAIN r = 1..Len(r)
  BY <1>2
<1>4. \A j \in DOMAIN r : g[j] \in DOMAIN q /\ r[j] = q[g[j]] /\ r[j] \in S
  BY <1>1, <1>3 DEF Picks
<1>5. \A i, j \in DOMAIN r : i < j => g[i] < g[j]
  BY <1>1, <1>3 DEF Picks
<1>6. \A k \in DOMAIN q : q[k] \in S => \E j \in DOMAIN r : g[j] = k
  BY <1>1, <1>3 DEF Picks
<1>7. \A j \in DOMAIN r : r[j] \in S /\ \E k \in DOMAIN q : r[j] = q[k]
  BY <1>4
<1>8. \A k \in DOMAIN q : q[k] \in S => \E j \in DOMAIN r : r[j] = q[k]
  BY <1>4, <1>6
<1>9. \A i, j \in DOMAIN r : i < j =>
         \E k, l \in DOMAIN q : k < l /\ r[i] = q[k] /\ r[j] = q[l]
  BY <1>4, <1>5
<1> QED BY <1>2, <1>7, <1>8, <1>9

LEMMA ThoseLast ==
  ASSUME NEW C, NEW q \in Seq(C), NEW S, NEW r, r = Those(q, S)
  PROVE  /\ q # <<>> /\ Last(q) \in S => r # <<>> /\ Last(r) = Last(q)
         /\ r # <<>> => \/ q # <<>> /\ Last(r) = Last(q)
                        \/ \E k, l \in DOMAIN q : k < l /\ Last(r) = q[k]
         /\ r = <<>> <=> \A k \in DOMAIN q : q[k] \notin S
<1>1. PICK g : Picks(q, Len(q), S, r, g)
  BY ThosePicks
<1>2. r \in Seq(C)
  BY ThosePicks
<1>3. DOMAIN q = 1..Len(q) /\ DOMAIN r = 1..Len(r) /\ Len(q) \in Nat /\ Len(r) \in Nat
  BY <1>2
<1>4. (q = <<>> <=> Len(q) = 0) /\ (r = <<>> <=> Len(r) = 0)
  BY <1>2
<1>5. \A j \in 1..Len(r) : g[j] \in 1..Len(q) /\ r[j] = q[g[j]] /\ r[j] \in S
  BY <1>1 DEF Picks
<1>6. \A i, j \in 1..Len(r) : i < j => g[i] < g[j]
  BY <1>1 DEF Picks
<1>7. \A k \in 1..Len(q) : q[k] \in S => \E j \in 1..Len(r) : g[j] = k
  BY <1>1 DEF Picks
<1>8. ASSUME q # <<>>, Last(q) \in S PROVE r # <<>> /\ Last(r) = Last(q)
  <2>1. Len(q) \in 1..Len(q) /\ q[Len(q)] \in S
    BY <1>3, <1>4, <1>8 DEF Last
  <2>2. PICK j \in 1..Len(r) : g[j] = Len(q)
    BY <1>7, <2>1
  <2>3. j = Len(r)
    <3>1. Len(r) \in 1..Len(r) /\ (j = Len(r) \/ j < Len(r))
      <4> DEFINE m == Len(r)
      <4>1. m \in Nat /\ j \in 1..m
        BY <1>3
      <4> HIDE DEF m
      <4>2. m \in 1..m /\ (j = m \/ j < m)
        BY <4>1
      <4> QED BY <4>2 DEF m
    <3>2. g[Len(r)] \in 1..Len(q)
      BY <1>5, <3>1
    <3>3. ASSUME j < Len(r) PROVE FALSE
      <4>1. g[j] < g[Len(r)]
        BY <1>6, <3>1, <3>3
      <4> QED BY <1>3, <2>2, <3>2, <4>1
    <3> QED BY <3>1, <3>3
  <2> QED BY <1>3, <1>4, <1>5, <2>2, <2>3 DEF Last
<1>9. ASSUME r # <<>>
      PROVE  \/ q # <<>> /\ Last(r) = Last(q)
             \/ \E k, l \in DOMAIN q : k < l /\ Last(r) = q[k]
  <2>1. Len(r) \in 1..Len(r)
    BY <1>3, <1>4, <1>9
  <2>2. g[Len(r)] \in 1..Len(q) /\ Last(r) = q[g[Len(r)]]
    BY <1>5, <2>1 DEF Last
  <2>3. CASE g[Len(r)] = Len(q)
    BY <1>3, <1>4, <2>2, <2>3 DEF Last
  <2>4. CASE g[Len(r)] < Len(q)
    BY <1>3, <2>2, <2>4
  <2> QED BY <1>3, <2>2, <2>3, <2>4
<1>10. r = <<>> <=> \A k \in DOMAIN q : q[k] \notin S
  <2>1. ASSUME r = <<>> PROVE \A k \in DOMAIN q : q[k] \notin S
    BY <1>3, <1>4, <1>7, <2>1
  <2>2. ASSUME r # <<>> PROVE ~(\A k \in DOMAIN q : q[k] \notin S)
    BY <1>3, <1>4, <2>2, <1>5
  <2> QED BY <2>1, <2>2
<1> QED BY <1>8, <1>9, <1>10

-----------------------------------------------------------------------------
(* What a change does to the thing, and all of the queue's.                *)

Things == Thing \cup {Absent}

LEMMA OverIs ==
  ASSUME NEW data \in Data
  PROVE  /\ \A row \in Thing : Over(data, row) \in Thing
         /\ \A row \in Data : Over(data, row) \in Data
         /\ \A row \in Thing : Over(data, Over(data, row)) = Over(data, row)
         /\ data \in Thing => Over(data, data) = data
<1>1. \A row \in Thing : Over(data, row) \in Thing
  BY DEF Over, Thing, Data
<1>2. \A row \in Data : Over(data, row) \in Data
  BY DEF Over, Data
<1>3. \A row \in Thing : Over(data, Over(data, row)) = Over(data, row)
  BY DEF Over, Thing, Data
<1>4. data \in Thing => Over(data, data) = data
  BY DEF Over, Thing
<1> QED BY <1>1, <1>2, <1>3, <1>4

LEMMA LayIs ==
  ASSUME NEW c, c.op \in Ops, c.data \in Data, Whole(c), NEW row \in Things
  PROVE  /\ Lay(c, row) \in Things
         /\ Lay(c, Lay(c, row)) = Lay(c, row)
         /\ c.op = "delete" => Lay(c, row) = Absent
         /\ c.op = "update" => Lay(c, Absent) = Absent
<1>1. Absent \notin Thing
  BY AbsentAssumption DEF Thing, Data
<1>2. CASE c.op = "delete"
  BY <1>2 DEF Lay, Things
<1>3. CASE c.op = "update"
  BY OverIs, <1>1, <1>3 DEF Things, Lay
<1>4. CASE c.op = "create"
  <2>1. row # Absent => Over(c.data, row) \in Thing /\ Over(c.data, Over(c.data, row)) = Over(c.data, row)
    BY OverIs DEF Things
  <2>2. c.data \in Thing /\ Over(c.data, c.data) = c.data
    BY <1>4, OverIs DEF Whole
  <2> QED BY <1>1, <1>4, <2>1, <2>2 DEF Lay, Things
<1> QED BY <1>2, <1>3, <1>4 DEF Ops

(* The types of folds over a till's changes, ids as yet without a bound.   *)
Open == [id: Nat, op: Ops, base: Data, data: Data, st: {"pending", "awaiting"},
         at: Nat, sent: Data \cup {Absent}]
TillStates == [q: Seq(Open), told: [Ids -> {"none", "done", "refused", "rejected"}],
               made: Nat, here: Things]
Pushed == {c \in Open : Whole(c)}
LayIn == [p \in Things \X Pushed |-> Lay(p[2], p[1])]

(* The overlay lays the queue's changes over the thing one by one.         *)
LEMMA OverlaySteps ==
  ASSUME NEW row \in Things, NEW q \in Seq(Pushed), q = queue["till"]
  PROVE  \E t : Steps(LayIn, row, q, Len(q), Things, t, overlayLocalChanges(row))
<1> DEFINE n == Len(q)
           F == LayIn
           Value(g, s) == IF s = {} THEN row ELSE Lay(q[Max(s)], g[s \ {Max(s)}])
           It(g) == g = [s \in SUBSET DOMAIN q |-> Value(g, s)]
<1>1. n \in Nat /\ DOMAIN q = 1..n /\ q \in [1..n -> Pushed]
  OBVIOUS
<1>2. F \in [Things \X Pushed -> Things] /\ row \in Things
  <2>1. ASSUME NEW c \in Pushed, NEW x \in Things PROVE Lay(c, x) \in Things
    BY LayIs DEF Pushed, Open
  <2>2. \A p \in Things \X Pushed : p[1] \in Things /\ p[2] \in Pushed
    OBVIOUS
  <2> QED BY <2>1, <2>2 DEF LayIn
<1>3. ASSUME NEW g, NEW s \in SUBSET (1..n), s # {}, g[s \ {Max(s)}] \in Things
      PROVE  F[<<g[s \ {Max(s)}], q[Max(s)]>>] = Value(g, s)
  <2>1. Max(s) \in 1..n
    <3> HIDE DEF Max
    <3> QED BY <1>1, <1>3, MaxOf
  <2>2. <<g[s \ {Max(s)}], q[Max(s)]>> \in Things \X Pushed
    <3> HIDE DEF Max
    <3> QED BY <1>1, <1>3, <2>1
  <2> QED BY <1>3, <2>2 DEF LayIn
<1> HIDE DEF F, n
<1>4. PICK g \in [SUBSET (1..n) -> Things] : Folded(F, row, q, n, g)
  BY <1>1, <1>2, FoldExists
<1>5. It(g)
  <2>1. \A s \in SUBSET (1..n) : s # {} => g[s] = Value(g, s)
    <3> HIDE DEF Value
    <3>1. \A s \in SUBSET (1..n) : g[s \ {Max(s)}] \in Things
      BY <1>4
    <3> QED BY <1>3, <1>4, <3>1 DEF Folded
  <2>2. g[{}] = Value(g, {})
    BY <1>4 DEF Folded
  <2> HIDE DEF Value
  <2>3. \A s \in SUBSET (1..n) : g[s] = Value(g, s)
    BY <2>1, <2>2
  <2> QED BY <1>1, <1>4, <2>3
<1>6. PICK h : It(h) /\ overlayLocalChanges(row) = h[DOMAIN q]
  <2> DEFINE h == CHOOSE x : It(x)
  <2>1. overlayLocalChanges(row) = h[DOMAIN q]
    BY DEF overlayLocalChanges, FoldLeft, MapThenFoldSet
  <2> HIDE DEF It
  <2>2. It(h)
    BY <1>5
  <2> QED BY <2>1, <2>2
<1>7. Folding(F, row, q, n, Things, h)
  <2> HIDE DEF Value
  <2>1. \A s \in SUBSET (1..n) : h[s] = Value(h, s)
    BY <1>1, <1>6
  <2>2. h[{}] = row
    BY <2>1 DEF Value
  <2> QED BY <1>3, <2>1, <2>2 DEF Folding
<1>8. \E t : Steps(F, row, q, n, Things, t, h[1..n])
  BY <1>1, <1>2, <1>7, FoldSteps
<1> QED BY <1>1, <1>6, <1>8 DEF F, n

LEMMA OverlayIs ==
  ASSUME NEW row \in Things, queue["till"] \in Seq(Pushed)
  PROVE  /\ overlayLocalChanges(row) \in Things
         /\ queue["till"] # <<>> =>
               \E x \in Things : overlayLocalChanges(row) = Lay(Last(queue["till"]), x)
<1> DEFINE q == queue["till"]
           n == Len(q)
           o == overlayLocalChanges(row)
<1>1. n \in Nat /\ (q = <<>> <=> n = 0) /\ \A k \in 1..n : q[k] \in Pushed
  OBVIOUS
<1>2. PICK t : Steps(LayIn, row, q, n, Things, t, o)
  BY OverlaySteps
<1> HIDE DEF q, n, o
<1>3. o \in Things
  BY <1>1, <1>2 DEF Steps
<1>4. ASSUME q # <<>> PROVE \E x \in Things : o = Lay(Last(q), x)
  <2>1. n \in 1..n /\ n - 1 \in 0..n
    BY <1>1, <1>4
  <2>2. t[n-1] \in Things /\ o = LayIn[<<t[n-1], q[n]>>]
    BY <1>2, <2>1 DEF Steps
  <2>3. <<t[n-1], q[n]>> \in Things \X Pushed
    BY <1>1, <2>1, <2>2
  <2>4. o = Lay(q[n], t[n-1])
    BY <2>2, <2>3 DEF LayIn
  <2> QED BY <2>2, <2>4 DEF Last, n
<1> QED BY <1>3, <1>4 DEF q, o

-----------------------------------------------------------------------------
(* Parts of the till's changes.                                            *)

Told == [Ids -> {"none", "done", "refused", "rejected"}]

(* What is left when changes are settled is good, and so when that undoes  *)
(* the only create.                                                        *)
LEMMA GoodThose ==
  ASSUME NEW s, Good(s), NEW S, NEW r,
         r.q = Those(s.q, S), r.made = s.made, r.told \in Told,
         \/ r.here = s.here
         \/ r.here = Absent /\ \A k \in DOMAIN s.q : s.q[k].op = "create" => s.q[k] \notin S
  PROVE  Good(r)
<1> DEFINE p == s.q
           q == r.q
<1>1. p \in Seq(Change) /\ q = Those(p, S)
  BY DEF Good
<1>2. q \in Seq(Change)
  BY <1>1, ThoseKeeps
<1>3. \A j \in DOMAIN q : q[j] \in S /\ \E k \in DOMAIN p : q[j] = p[k]
  BY <1>1, ThoseKeeps
<1>4. \A i, j \in DOMAIN q : i < j => \E k, l \in DOMAIN p : k < l /\ q[i] = p[k] /\ q[j] = p[l]
  <2> HIDE DEF p, q
  <2> QED BY <1>1, ThoseKeeps
<1>5. Distinct(q)
  <2>1. SUFFICES ASSUME NEW i \in DOMAIN q, NEW j \in DOMAIN q, q[i].id = q[j].id, i < j PROVE FALSE
    BY <1>2 DEF Distinct
  <2>2. PICK k \in DOMAIN p, l \in DOMAIN p : k < l /\ q[i] = p[k] /\ q[j] = p[l]
    BY <1>4, <2>1
  <2>3. k = l
    BY <2>1, <2>2 DEF Good, Distinct
  <2> QED BY <1>1, <2>2, <2>3
<1>6. Ordered(q, r.made)
  <2>1. Ordered(p, s.made)
    BY DEF Good
  <2> HIDE DEF p, q
  <2> QED BY <1>4, <2>1 DEF Ordered
<1>7. r.made \in 0..edits /\ r.here \in Things
  BY DEF Good, Things
<1>8. \A k \in DOMAIN q :
          /\ q[k].id <= r.made /\ q[k].at <= edits /\ Whole(q[k])
          /\ q[k].op = "delete" => r.here = Absent
  <2>1. \A k \in DOMAIN p :
          /\ p[k].id <= s.made /\ p[k].at <= edits /\ Whole(p[k])
          /\ p[k].op = "delete" => s.here = Absent
    BY DEF Good
  <2> HIDE DEF p, q
  <2> QED BY <1>3, <2>1
<1>9. Shows(q, r.made, r.here)
  <2>1. SUFFICES ASSUME q # <<>>, Last(q).st = "pending" \/ Last(q).id = r.made
                 PROVE  Lay(Last(q), r.here) = r.here
    BY DEF Shows
  <2>2. \A c \in Change : c.op \in Ops /\ c.data \in Data
    BY DEF Change
  <2>3. Last(q) \in Change /\ Last(q) \in S /\ \E k \in DOMAIN p : Last(q) = p[k]
    <3>1. Len(q) \in DOMAIN q
      <4> HIDE DEF q
      <4> QED BY <1>2, <2>1
    <3>2. q[Len(q)] \in Change
      <4> HIDE DEF q
      <4> QED BY <1>2, <3>1
    <3> QED BY <1>3, <3>1, <3>2 DEF Last
  <2>4. Whole(Last(q))
    BY <2>3 DEF Good
  <2>5. Last(q).op = "update" => Lay(Last(q), Absent) = Absent
    BY <2>2, <2>3, <2>4, LayIs DEF Things
  <2>6. Last(q).op = "delete" => Lay(Last(q), Absent) = Absent
    BY <2>2, <2>3, <2>4, LayIs DEF Things
  <2>7. CASE r.here # s.here
    BY <2>3, <2>7, <2>2, <2>5, <2>6 DEF Ops
  <2>8. CASE r.here = s.here /\ p # <<>> /\ Last(q) = Last(p)
    BY <2>1, <2>8 DEF Good, Shows
  <2>9. CASE r.here = s.here /\ \E k, l \in DOMAIN p : k < l /\ Last(q) = p[k]
    <3>1. PICK k \in DOMAIN p, l \in DOMAIN p : k < l /\ Last(q) = p[k]
      BY <2>9
    <3>2. p[k].op = "update" /\ p[l].op = "delete"
      BY <2>1, <3>1 DEF Good, Ordered
    <3>3. s.here = Absent
      BY <3>1, <3>2 DEF Good
    <3> QED BY <2>5, <2>9, <3>1, <3>2, <3>3
  <2> QED BY <1>1, <2>1, <2>7, <2>8, <2>9, ThoseLast
<1> QED BY <1>2, <1>5, <1>6, <1>7, <1>8, <1>9 DEF Good, Told, Things

LEMMA PutIs ==
  ASSUME NEW C, NEW q \in Seq(C), NEW id, NEW c \in C,
         NEW p, p = [k \in DOMAIN q |-> IF q[k].id = id THEN c ELSE q[k]]
  PROVE  /\ p \in Seq(C) /\ DOMAIN p = DOMAIN q /\ Len(p) = Len(q) /\ (p = <<>> <=> q = <<>>)
         /\ \A k \in DOMAIN q : p[k] = IF q[k].id = id THEN c ELSE q[k]
<1>1. DOMAIN q = 1..Len(q) /\ Len(q) \in Nat /\ \A k \in 1..Len(q) : q[k] \in C
  OBVIOUS
<1>2. p \in [1..Len(q) -> C]
  BY <1>1
<1>3. p \in Seq(C) /\ Len(p) = Len(q)
  BY <1>1, <1>2
<1> QED BY <1>1, <1>2, <1>3

(* A change goes to the owner.                                             *)
LEMMA GoodParked ==
  ASSUME NEW s, Good(s), NEW k \in DOMAIN s.q, NEW r,
         r.q = Put(s.q, [s.q[k] EXCEPT !.st = "awaiting"]),
         r.made = s.made, r.told \in Told, r.here = s.here
  PROVE  Good(r)
<1> DEFINE p == s.q
           q == r.q
           c == [p[k] EXCEPT !.st = "awaiting"]
<1>1. p \in Seq(Change) /\ p[k] \in Change
  BY DEF Good
<1>2. c \in Change /\ c.id = p[k].id /\ c.op = p[k].op /\ c.data = p[k].data /\ c.at = p[k].at
      /\ c.st = "awaiting"
  BY <1>1 DEF Change
<1> HIDE DEF c
<1>3. q = [j \in DOMAIN p |-> IF p[j].id = p[k].id THEN c ELSE p[j]]
  BY <1>2 DEF Put, c
<1>4. /\ q \in Seq(Change) /\ DOMAIN q = DOMAIN p /\ Len(q) = Len(p) /\ (q = <<>> <=> p = <<>>)
      /\ \A j \in DOMAIN p : q[j] = IF p[j].id = p[k].id THEN c ELSE p[j]
  <2> HIDE DEF p, q
  <2> QED BY <1>1, <1>2, <1>3, PutIs, SMTT(30)
<1>5. \A j \in DOMAIN p : IF j = k THEN q[j] = c ELSE q[j] = p[j]
  BY <1>4 DEF Good, Distinct
<1>6. /\ Distinct(p) /\ Ordered(p, s.made) /\ Shows(p, s.made, s.here)
      /\ \A j \in DOMAIN p : /\ p[j].id <= s.made /\ p[j].at <= edits /\ Whole(p[j])
                             /\ p[j].op = "delete" => s.here = Absent
      /\ r.made \in 0..edits /\ r.here \in Things
  BY DEF Good, Things
<1> HIDE DEF p, q
<1>7. \A j \in DOMAIN p :
        /\ q[j].id = p[j].id /\ q[j].op = p[j].op /\ q[j].data = p[j].data /\ q[j].at = p[j].at
        /\ q[j].st = "pending" => p[j].st = "pending"
  BY <1>2, <1>5
<1>8. Distinct(q) /\ Ordered(q, r.made)
  BY <1>4, <1>6, <1>7 DEF Distinct, Ordered
<1>9. Shows(q, r.made, r.here)
  <2>1. ASSUME q # <<>> PROVE Len(p) \in DOMAIN p
    BY <1>1, <1>4, <2>1 DEF p
  <2>2. ASSUME NEW x, NEW y, x.op = y.op, x.data = y.data PROVE Lay(x, r.here) = Lay(y, r.here)
    BY <2>2 DEF Lay
  <2> QED BY <1>4, <1>6, <1>7, <2>1, <2>2 DEF Shows, Last
<1>10. \A j \in DOMAIN q : /\ q[j].id <= r.made /\ q[j].at <= edits /\ Whole(q[j])
                           /\ q[j].op = "delete" => r.here = Absent
  BY <1>4, <1>6, <1>7, SMTT(30) DEF Whole
<1> QED BY <1>4, <1>6, <1>8, <1>9, <1>10 DEF Good, Told, Things, q

(* A change an edit has joined gets a new id.                              *)
LEMMA GoodRenewed ==
  ASSUME NEW s, Good(s), edits \in Nat, NEW k \in DOMAIN s.q, s.q[k].st = "pending", s.made < edits,
         NEW m \in Change, m.id = s.made + 1, m.st = "pending", m.data = s.q[k].data, m.at = s.q[k].at,
         m.op = s.q[k].op \/ (s.q[k].op = "create" /\ m.op = "update"),
         NEW r, r.q = [j \in DOMAIN s.q |-> IF s.q[j].id = s.q[k].id THEN m ELSE s.q[j]],
         r.made = s.made + 1, r.told \in Told, r.here = s.here
  PROVE  Good(r)
<1> DEFINE p == s.q
           q == r.q
<1>1. p \in Seq(Change) /\ p[k] \in Change
  BY DEF Good
<1>2. q = [j \in DOMAIN p |-> IF p[j].id = p[k].id THEN m ELSE p[j]]
  OBVIOUS
<1>3. /\ q \in Seq(Change) /\ DOMAIN q = DOMAIN p /\ Len(q) = Len(p) /\ (q = <<>> <=> p = <<>>)
      /\ \A j \in DOMAIN p : q[j] = IF p[j].id = p[k].id THEN m ELSE p[j]
  <2> HIDE DEF p, q
  <2> QED BY <1>1, <1>2, PutIs
<1>4. \A j \in DOMAIN p : IF j = k THEN q[j] = m ELSE q[j] = p[j]
  BY <1>3 DEF Good, Distinct
<1>5. /\ Distinct(p) /\ Ordered(p, s.made) /\ Shows(p, s.made, s.here)
      /\ \A j \in DOMAIN p : /\ p[j].id <= s.made /\ p[j].at <= edits /\ Whole(p[j])
                             /\ p[j].op = "delete" => s.here = Absent
      /\ s.made \in 0..edits /\ r.here \in Things /\ edits \in Nat
  BY DEF Good, Things
<1>6. k \in DOMAIN p /\ p[k].st = "pending" /\ m.data = p[k].data /\ m.at = p[k].at
      /\ (m.op = p[k].op \/ (p[k].op = "create" /\ m.op = "update"))
  OBVIOUS
<1> HIDE DEF p, q
<1>7. \A j \in DOMAIN p : p[j].id \in Nat
  <2>1. \A j \in DOMAIN p : p[j] \in Change
    BY <1>1
  <2>2. Ids \subseteq Nat
    BY BoundsAssumption DEF Ids
  <2> QED BY <2>1, <2>2 DEF Change
<1>8. r.made \in 0..edits
  BY <1>5
<1>9. Distinct(q)
  BY <1>3, <1>4, <1>5, <1>7 DEF Distinct
<1>10. Ordered(q, r.made)
  <2>1. SUFFICES ASSUME NEW i \in DOMAIN p, NEW j \in DOMAIN p, i < j
                 PROVE  /\ q[i].op # "delete" /\ q[j].op # "create"
                        /\ q[i].st = "pending" \/ q[i].id = r.made => q[i].op = "update" /\ q[j].op = "delete"
    BY <1>3 DEF Ordered
  <2>2. /\ p[i].op # "delete" /\ p[j].op # "create"
        /\ p[i].st = "pending" => p[i].op = "update" /\ p[j].op = "delete"
    BY <1>5, <2>1 DEF Ordered
  <2>3. i # j
    BY <1>1, <2>1
  <2>4. CASE i = k
    BY <1>4, <1>6, <2>2, <2>3, <2>4
  <2>5. CASE i # k
    BY <1>5, <1>7, <1>4, <1>6, <2>2, <2>5
  <2> QED BY <2>4, <2>5
<1>11. Shows(q, r.made, r.here)
  <2>1. SUFFICES ASSUME q # <<>>, Last(q).st = "pending" \/ Last(q).id = r.made
                 PROVE  Lay(Last(q), r.here) = r.here
    BY DEF Shows
  <2>2. Len(p) \in DOMAIN p /\ p # <<>>
    BY <1>1, <1>3, <2>1
  <2>3. CASE Len(p) = k
    <3>1. Last(q) = m /\ Lay(p[k], r.here) = r.here
      BY <1>3, <1>4, <1>5, <1>6, <2>2, <2>3 DEF Shows, Last
    <3>2. CASE m.op = p[k].op
      BY <1>6, <3>1, <3>2 DEF Lay
    <3>3. CASE p[k].op = "create" /\ m.op = "update"
      <4>1. p[k].data \in Thing
        BY <1>5, <1>6, <3>3 DEF Whole
      <4>2. Absent \notin Thing
        BY AbsentAssumption DEF Thing, Data
      <4>3. r.here = IF r.here # Absent THEN Over(p[k].data, r.here) ELSE p[k].data
        BY <3>1, <3>3 DEF Lay
      <4>4. r.here # Absent
        BY <4>1, <4>2, <4>3
      <4>5. r.here = Over(p[k].data, r.here)
        BY <4>3, <4>4
      <4> QED BY <1>6, <3>1, <3>3, <4>4, <4>5 DEF Lay
    <3> QED BY <1>6, <3>2, <3>3
  <2>4. CASE Len(p) # k
    <3>1. Last(q) = Last(p)
      BY <1>3, <1>4, <2>2, <2>4 DEF Last
    <3>2. Last(p).id # r.made
      BY <1>5, <1>7, <2>2 DEF Last
    <3> QED BY <1>5, <2>1, <2>2, <3>1, <3>2 DEF Shows
  <2> QED BY <2>3, <2>4
<1>12. \A j \in DOMAIN q : /\ q[j].id <= r.made /\ q[j].at <= edits /\ Whole(q[j])
                           /\ q[j].op = "delete" => r.here = Absent
  <2>1. \A j \in DOMAIN p : p[j].id <= r.made
    BY <1>5, <1>7
  <2>2. \A j \in DOMAIN p : IF j = k THEN q[j] = m ELSE q[j] = p[j]
    BY <1>4
  <2> QED BY <1>3, <1>5, <1>6, <2>1, <2>2 DEF Whole
<1> QED BY <1>3, <1>5, <1>8, <1>9, <1>10, <1>11, <1>12 DEF Good, Told, Things, q

-----------------------------------------------------------------------------
(* One answer.                                                             *)

Answers == Statuses \cup {"later"}

(* A change is taken out of the queue; so is the thing, if it was a create *)
(* that came to nothing.                                                   *)
Drops(s, c, r) ==
    /\ r.q = Without(s.q, c.id) /\ r.made = s.made /\ r.told \in Told
    /\ r.here = s.here \/ (r.here = Absent /\ c.op = "create")
(* A change an edit has joined stays, under a new id.                      *)
Renews(s, c, m, r) ==
    /\ m \in Open /\ m.id = s.made + 1 /\ m.st = c.st /\ m.data = c.data /\ m.at = c.at
    /\ m.op = c.op \/ (c.op = "create" /\ m.op = "update")
    /\ r.q = [j \in DOMAIN s.q |-> IF s.q[j].id = c.id THEN m ELSE s.q[j]]
    /\ r.made = s.made + 1 /\ r.told = s.told /\ r.here = s.here
(* It starts from what the cloud now has of it, and is yet to be sent.     *)
StartsFrom(row, c) == {c.base, row.data, Over(row.data, c.base)}
Restarts(row, answer, c, m) ==
    /\ m.sent = Absent
    /\ ~Took(answer) => m.op = c.op /\ m.base = c.base
    /\ Took(answer) /\ c.op = "create" => m.op = "update" /\ m.base = row.data
    /\ Took(answer) /\ c.op # "create" => m.op = c.op /\ m.base = Over(row.data, c.base)
(* The till shows what came of it.                                         *)
TellsOf(s, c, as, r) ==
    /\ \A i \in Ids : r.told[i] = IF i = c.id THEN as ELSE s.told[i]
    /\ as = "done" => r.here = s.here
Parks(s, c, r) ==
    /\ r.q = Put(s.q, [c EXCEPT !.st = "awaiting"])
    /\ r.made = s.made /\ r.told = s.told /\ r.here = s.here
Comes(s, c, row, answer, r) ==
    \/ c.at # row.at /\ \E m \in Open : Renews(s, c, m, r) /\ m.base \in StartsFrom(row, c) /\ Restarts(row, answer, c, m)
    \/ /\ c.at = row.at /\ answer \notin {"later", "awaiting"}
       /\ Drops(s, c, r) /\ TellsOf(s, c, IF Took(answer) THEN "done" ELSE "refused", r)
    \/ c.at = row.at /\ answer = "awaiting" /\ Parks(s, c, r)

LEMMA SettledIs ==
  ASSUME NEW s \in TillStates, NEW c \in Open, NEW as \in {"done", "refused", "rejected"}
  PROVE  Settled(s, c, as) \in TillStates /\ Drops(s, c, Settled(s, c, as)) /\ TellsOf(s, c, as, Settled(s, c, as))
<1> DEFINE q == Without(s.q, c.id)
           told1 == [s.told EXCEPT ![c.id] = as]
           here1 == IF as # "done" /\ c.op = "create" THEN Absent ELSE s.here
<1>1. s.q \in Seq(Open) /\ s.told \in Told /\ s.made \in Nat /\ s.here \in Things
  BY DEF TillStates, Told
<1>2. q \in Seq(Open)
  BY <1>1, ThoseKeeps DEF Without
<1>3. told1 \in Told /\ \A i \in Ids : told1[i] = IF i = c.id THEN as ELSE s.told[i]
  BY <1>1 DEF Told
<1>4. here1 \in Things /\ (here1 = s.here \/ (here1 = Absent /\ c.op = "create")) /\ (as = "done" => here1 = s.here)
  BY <1>1 DEF Things
<1>5. Settled(s, c, as) = [q |-> q, told |-> told1, made |-> s.made, here |-> here1]
  <2> DEFINE s1 == [s EXCEPT !.q = q]
             s2 == [s1 EXCEPT !.told[c.id] = as]
             s3 == [s2 EXCEPT !.here = here1]
  <2>1. Settled(s, c, as) = s3
    BY <1>1 DEF Settled, TillStates
  <2> HIDE DEF q
  <2>2. s1 = [q |-> q, told |-> s.told, made |-> s.made, here |-> s.here]
    BY DEF TillStates
  <2> HIDE DEF s1
  <2>3. s2 = [q |-> q, told |-> told1, made |-> s.made, here |-> s.here]
    <3>1. s2 = [s1 EXCEPT !.told = told1]
      BY <2>2
    <3> HIDE DEF told1
    <3> QED BY <2>2, <3>1
  <2> HIDE DEF s2, told1, here1
  <2>4. s3 = [q |-> q, told |-> told1, made |-> s.made, here |-> here1]
    BY <2>3
  <2> QED BY <2>1, <2>4
<1> HIDE DEF q, told1, here1
<1>6. Settled(s, c, as) \in TillStates
  BY <1>1, <1>2, <1>3, <1>4, <1>5 DEF TillStates, Told
<1>7. Drops(s, c, Settled(s, c, as))
  BY <1>3, <1>4, <1>5 DEF Drops, q
<1>8. TellsOf(s, c, as, Settled(s, c, as))
  <2>1. Settled(s, c, as).told = told1 /\ Settled(s, c, as).here = here1
    BY <1>5
  <2>2. (\A i \in Ids : told1[i] = IF i = c.id THEN as ELSE s.told[i]) /\ (as = "done" => here1 = s.here)
    BY <1>3, <1>4
  <2> QED BY <2>1, <2>2, Zenon DEF TellsOf
<1> QED BY <1>6, <1>7, <1>8

LEMMA RequeuedIs ==
  ASSUME NEW s \in TillStates, NEW c \in Open, NEW row \in Open, NEW answer \in Answers,
         NEW r, r = requeueMergedChange(s, row, c, answer)
  PROVE  r \in TillStates /\ \E m \in Open : Renews(s, c, m, r) /\ m.base \in StartsFrom(row, c) /\ Restarts(row, answer, c, m)
<1> DEFINE fresh == [c EXCEPT !.id = s.made + 1, !.sent = Absent]
           m == IF ~Took(answer) THEN fresh
                ELSE IF c.op = "create" THEN [fresh EXCEPT !.op = "update", !.base = row.data]
                ELSE [fresh EXCEPT !.base = Over(row.data, @)]
           q == [j \in DOMAIN s.q |-> IF s.q[j].id = c.id THEN m ELSE s.q[j]]
<1>1. s.q \in Seq(Open) /\ s.told \in Told /\ s.made \in Nat /\ s.here \in Things
  BY DEF TillStates, Told
<1>2. Over(row.data, c.base) \in Data
  BY OverIs DEF Open
<1>3. fresh \in Open /\ fresh.base = c.base /\ fresh.id = s.made + 1 /\ fresh.st = c.st
      /\ fresh.data = c.data /\ fresh.at = c.at /\ fresh.op = c.op /\ fresh.sent = Absent
  <2> DEFINE f == [c EXCEPT !.id = s.made + 1]
  <2>3. f = [id |-> s.made + 1, op |-> c.op, base |-> c.base, data |-> c.data, st |-> c.st,
             at |-> c.at, sent |-> c.sent]
    BY DEF Open
  <2>4. fresh = [f EXCEPT !.sent = Absent]
    OBVIOUS
  <2> HIDE DEF f
  <2>1. fresh = [id |-> s.made + 1, op |-> c.op, base |-> c.base, data |-> c.data, st |-> c.st,
                 at |-> c.at, sent |-> Absent]
    BY <2>3, <2>4
  <2>2. s.made + 1 \in Nat
    BY <1>1
  <2> HIDE DEF fresh
  <2> QED BY <2>1, <2>2 DEF Open
<1> HIDE DEF fresh
<1>4. /\ m \in Open /\ m.id = s.made + 1 /\ m.st = c.st /\ m.data = c.data /\ m.at = c.at
      /\ m.op = c.op \/ (c.op = "create" /\ m.op = "update")
      /\ m.base \in StartsFrom(row, c) /\ Restarts(row, answer, c, m)
  BY <1>2, <1>3 DEF Open, Ops, StartsFrom, Restarts
<1>5. r = [s EXCEPT !.q = q, !.made = s.made + 1]
  BY DEF requeueMergedChange, fresh
<1> HIDE DEF m
<1>6. q \in Seq(Open)
  BY <1>1, <1>4, PutIs
<1> HIDE DEF q
<1>7. r = [q |-> q, told |-> s.told, made |-> s.made + 1, here |-> s.here]
  BY <1>5 DEF TillStates
<1>8. r \in TillStates
  BY <1>1, <1>6, <1>7 DEF TillStates, Told
<1>9. Renews(s, c, m, r)
  BY <1>4, <1>7 DEF Renews, q
<1> QED BY <1>4, <1>8, <1>9

LEMMA AnsweredIs ==
  ASSUME NEW s \in TillStates, NEW row \in Open, NEW answer \in Answers,
         NEW r, r = Answered(s, row, answer)
  PROVE  /\ r \in TillStates
         /\ \/ r = s
            \/ \E k \in DOMAIN s.q : s.q[k].id = row.id /\ Comes(s, s.q[k], row, answer, r)
<1> DEFINE p == s.q
           S == {x \in ToSet(p) : x.id = row.id}
           c == Those(p, S)
<1>1. p \in Seq(Open)
  BY DEF TillStates
<1> HIDE DEF p
<1>2. c \in Seq(Open) /\ \A j \in DOMAIN c : c[j] \in S /\ \E k \in DOMAIN p : c[j] = p[k]
  <2> HIDE DEF S
  <2> QED BY <1>1, ThoseKeeps
<1>3. Answered(s, row, answer) =
        CASE c = <<>>                         -> s
          [] c # <<>> /\ c[1].at # row.at    -> requeueMergedChange(s, row, c[1], answer)
          [] c # <<>> /\ c[1].at = row.at ->
            (CASE Took(answer)            -> Settled(s, c[1], "done")
               [] answer = "awaiting"     -> [s EXCEPT !.q = Put(@, [c[1] EXCEPT !.st = "awaiting"])]
               [] answer = "later"        -> s
               [] OTHER                   -> Settled(s, c[1], "refused"))
  BY DEF Answered, p
<1>4. CASE c = <<>>
  <2>1. r = s
    <3> HIDE DEF c
    <3> QED BY <1>3, <1>4
  <2> QED BY <2>1
<1>5. ASSUME c # <<>> PROVE \E k \in DOMAIN p : c[1] = p[k] /\ p[k].id = row.id /\ c[1] \in Open
  <2>1. 1 \in DOMAIN c
    <3> HIDE DEF c
    <3> QED BY <1>2, <1>5
  <2>2. c[1] \in S /\ \E k \in DOMAIN p : c[1] = p[k]
    <3> HIDE DEF c, S
    <3> QED BY <1>2, <2>1
  <2>3. c[1] \in Open
    <3> HIDE DEF c
    <3> QED BY <1>2, <2>1
  <2> QED BY <2>2, <2>3
<1> HIDE DEF c
<1>6. CASE c # <<>> /\ c[1].at # row.at
  <2>1. PICK k \in DOMAIN p : c[1] = p[k] /\ p[k].id = row.id /\ c[1] \in Open
    BY <1>5, <1>6
  <2>2. r = requeueMergedChange(s, row, p[k], answer)
    BY <1>3, <1>6, <2>1
  <2>3. r \in TillStates /\ \E m \in Open : Renews(s, p[k], m, r) /\ m.base \in StartsFrom(row, p[k]) /\ Restarts(row, answer, p[k], m)
    BY <2>1, <2>2, RequeuedIs
  <2>4. Comes(s, p[k], row, answer, r)
    BY <1>6, <2>1, <2>3 DEF Comes
  <2> QED BY <2>1, <2>3, <2>4 DEF p
<1>7. CASE c # <<>> /\ c[1].at = row.at
  <2>1. PICK k \in DOMAIN p : c[1] = p[k] /\ p[k].id = row.id /\ c[1] \in Open
    BY <1>5, <1>7
  <2>2. r = CASE Took(answer)             -> Settled(s, p[k], "done")
               [] answer = "awaiting"     -> [s EXCEPT !.q = Put(@, [p[k] EXCEPT !.st = "awaiting"])]
               [] answer = "later"        -> s
               [] OTHER                   -> Settled(s, p[k], "refused")
    BY <1>3, <1>7, <2>1
  <2>3. CASE answer = "later"
    BY <2>2, <2>3 DEF Took
  <2>4. CASE answer = "awaiting"
    <3>1. r = [s EXCEPT !.q = Put(@, [p[k] EXCEPT !.st = "awaiting"])]
      BY <2>2, <2>4 DEF Took
    <3>2. [p[k] EXCEPT !.st = "awaiting"] \in Open
      BY <2>1 DEF Open
    <3>3. Put(s.q, [p[k] EXCEPT !.st = "awaiting"]) \in Seq(Open)
      BY <1>1, <3>2, PutIs DEF Put, p
    <3> DEFINE q == Put(s.q, [p[k] EXCEPT !.st = "awaiting"])
    <3>4. r = [s EXCEPT !.q = q]
      BY <3>1
    <3> HIDE DEF q
    <3>5. r = [q |-> q, told |-> s.told, made |-> s.made, here |-> s.here]
      BY <3>4 DEF TillStates
    <3>6. r \in TillStates
      BY <3>3, <3>5 DEF TillStates, q
    <3>7. Parks(s, p[k], r)
      BY <3>5 DEF Parks, q
    <3>8. Comes(s, p[k], row, answer, r)
      BY <1>7, <2>1, <2>4, <3>7 DEF Comes
    <3> QED BY <2>1, <3>6, <3>8 DEF p
  <2>5. CASE answer # "later" /\ answer # "awaiting"
    <3>1. r = Settled(s, p[k], IF Took(answer) THEN "done" ELSE "refused")
      BY <2>2, <2>5
    <3>2. r \in TillStates /\ Drops(s, p[k], r) /\ TellsOf(s, p[k], IF Took(answer) THEN "done" ELSE "refused", r)
      BY <2>1, <3>1, SettledIs
    <3>3. Comes(s, p[k], row, answer, r)
      BY <1>7, <2>1, <2>5, <3>2 DEF Comes
    <3> QED BY <2>1, <3>2, <3>3 DEF p
  <2> QED BY <2>3, <2>4, <2>5
<1> QED BY <1>4, <1>6, <1>7 DEF p

(* All answers to a request, one by one.                                   *)
AnswerIn == [p \in TillStates \X (Open \X Answers) |-> Answered(p[1], p[2][1], p[2][2])]

(* They are taken one after the other.                                     *)
LEMMA AnsweredSteps ==
  ASSUME NEW now \in TillStates, NEW each \in Seq(Open \X Answers)
  PROVE  \E t : Steps(AnswerIn, now, each, Len(each), TillStates, t, AllAnswered(now, each))
<1> DEFINE n == Len(each)
           F == AnswerIn
           Value(g, s) == IF s = {} THEN now ELSE Answered(g[s \ {Max(s)}], each[Max(s)][1], each[Max(s)][2])
           It(g) == g = [s \in SUBSET DOMAIN each |-> Value(g, s)]
<1>1. n \in Nat /\ DOMAIN each = 1..n /\ each \in [1..n -> (Open \X Answers)]
  OBVIOUS
<1>2. F \in [TillStates \X (Open \X Answers) -> TillStates] /\ now \in TillStates
  <2>1. ASSUME NEW s \in TillStates, NEW e \in Open \X Answers PROVE Answered(s, e[1], e[2]) \in TillStates
    BY AnsweredIs
  <2>2. \A p \in TillStates \X (Open \X Answers) : p[1] \in TillStates /\ p[2] \in Open \X Answers
    OBVIOUS
  <2> QED BY <2>1, <2>2 DEF AnswerIn
<1>3. ASSUME NEW g, NEW s \in SUBSET (1..n), s # {}, g[s \ {Max(s)}] \in TillStates
      PROVE  F[<<g[s \ {Max(s)}], each[Max(s)]>>] = Value(g, s)
  <2>1. Max(s) \in 1..n
    <3> HIDE DEF Max
    <3> QED BY <1>1, <1>3, MaxOf
  <2>2. <<g[s \ {Max(s)}], each[Max(s)]>> \in TillStates \X (Open \X Answers)
    <3> HIDE DEF Max
    <3> QED BY <1>1, <1>3, <2>1
  <2> QED BY <1>3, <2>2 DEF AnswerIn
<1> HIDE DEF F, n
<1>4. PICK g \in [SUBSET (1..n) -> TillStates] : Folded(F, now, each, n, g)
  BY <1>1, <1>2, FoldExists
<1>5. It(g)
  <2>1. \A s \in SUBSET (1..n) : s # {} => g[s] = Value(g, s)
    <3> HIDE DEF Value
    <3>1. \A s \in SUBSET (1..n) : g[s \ {Max(s)}] \in TillStates
      BY <1>4
    <3> QED BY <1>3, <1>4, <3>1 DEF Folded
  <2>2. g[{}] = Value(g, {})
    BY <1>4 DEF Folded
  <2> HIDE DEF Value
  <2>3. \A s \in SUBSET (1..n) : g[s] = Value(g, s)
    BY <2>1, <2>2
  <2> QED BY <1>1, <1>4, <2>3
<1>6. PICK h : It(h) /\ AllAnswered(now, each) = h[DOMAIN each]
  <2> DEFINE h == CHOOSE x : It(x)
  <2>1. AllAnswered(now, each) = h[DOMAIN each]
    BY DEF AllAnswered, FoldLeft, MapThenFoldSet
  <2> HIDE DEF It
  <2>2. It(h)
    BY <1>5
  <2> QED BY <2>1, <2>2
<1>7. Folding(F, now, each, n, TillStates, h)
  <2> HIDE DEF Value
  <2>1. \A s \in SUBSET (1..n) : h[s] = Value(h, s)
    BY <1>1, <1>6
  <2>2. h[{}] = now
    BY <2>1 DEF Value
  <2> QED BY <1>3, <2>1, <2>2 DEF Folding
<1>8. \E t : Steps(F, now, each, n, TillStates, t, h[1..n])
  BY <1>1, <1>2, <1>7, FoldSteps
<1> QED BY <1>1, <1>6, <1>8 DEF F, n


(* What the owner decided of the changes that wait, one by one.            *)
Ruled(c) == IF request[c.id].st = "approved" THEN "done" ELSE "rejected"
SettleIn == [p \in TillStates \X Open |-> Settled(p[1], p[2], Ruled(p[2]))]

(* They are settled one after the other.                                   *)
LEMMA DecidedSteps ==
  ASSUME NEW now \in TillStates, NEW over \in Seq(Open)
  PROVE  \E t : Steps(SettleIn, now, over, Len(over), TillStates, t, AllDecided(now, over))
<1> DEFINE n == Len(over)
           F == SettleIn
           Value(g, s) == IF s = {} THEN now ELSE Settled(g[s \ {Max(s)}], over[Max(s)], Ruled(over[Max(s)]))
           It(g) == g = [s \in SUBSET DOMAIN over |-> Value(g, s)]
<1>1. n \in Nat /\ DOMAIN over = 1..n /\ over \in [1..n -> Open]
  OBVIOUS
<1>2. F \in [TillStates \X Open -> TillStates] /\ now \in TillStates
  <2>1. ASSUME NEW s \in TillStates, NEW c \in Open PROVE Settled(s, c, Ruled(c)) \in TillStates
    BY SettledIs DEF Ruled
  <2>2. \A p \in TillStates \X Open : p[1] \in TillStates /\ p[2] \in Open
    OBVIOUS
  <2> QED BY <2>1, <2>2 DEF SettleIn
<1>3. ASSUME NEW g, NEW s \in SUBSET (1..n), s # {}, g[s \ {Max(s)}] \in TillStates
      PROVE  F[<<g[s \ {Max(s)}], over[Max(s)]>>] = Value(g, s)
  <2>1. Max(s) \in 1..n
    <3> HIDE DEF Max
    <3> QED BY <1>1, <1>3, MaxOf
  <2>2. <<g[s \ {Max(s)}], over[Max(s)]>> \in TillStates \X Open
    <3> HIDE DEF Max
    <3> QED BY <1>1, <1>3, <2>1
  <2> QED BY <1>3, <2>2 DEF SettleIn
<1> HIDE DEF F, n
<1>4. PICK g \in [SUBSET (1..n) -> TillStates] : Folded(F, now, over, n, g)
  BY <1>1, <1>2, FoldExists
<1>5. It(g)
  <2>1. \A s \in SUBSET (1..n) : s # {} => g[s] = Value(g, s)
    <3> HIDE DEF Value
    <3>1. \A s \in SUBSET (1..n) : g[s \ {Max(s)}] \in TillStates
      BY <1>4
    <3> QED BY <1>3, <1>4, <3>1 DEF Folded
  <2>2. g[{}] = Value(g, {})
    BY <1>4 DEF Folded
  <2> HIDE DEF Value
  <2>3. \A s \in SUBSET (1..n) : g[s] = Value(g, s)
    BY <2>1, <2>2
  <2> QED BY <1>1, <1>4, <2>3
<1>6. PICK h : It(h) /\ AllDecided(now, over) = h[DOMAIN over]
  <2> DEFINE h == CHOOSE x : It(x)
  <2>1. AllDecided(now, over) = h[DOMAIN over]
    BY DEF AllDecided, Ruled, FoldLeft, MapThenFoldSet
  <2> HIDE DEF It
  <2>2. It(h)
    BY <1>5
  <2> QED BY <2>1, <2>2
<1>7. Folding(F, now, over, n, TillStates, h)
  <2> HIDE DEF Value
  <2>1. \A s \in SUBSET (1..n) : h[s] = Value(h, s)
    BY <1>1, <1>6
  <2>2. h[{}] = now
    BY <2>1 DEF Value
  <2> QED BY <1>3, <2>1, <2>2 DEF Folding
<1>8. \E t : Steps(F, now, over, n, TillStates, t, h[1..n])
  BY <1>1, <1>2, <1>7, FoldSteps
<1> QED BY <1>1, <1>6, <1>8 DEF F, n


(* The answers to the branch server.                                       *)
ForwardIn == [p \in Seq(Change) \X (Change \X Answers) |-> Forwarded(p[1], p[2][1], p[2][2])]

(* A copy is kept, goes to the owner, or is done with.                     *)
Copies(q, c, r) ==
    \A j \in DOMAIN r : (\E k \in DOMAIN q : r[j] = q[k]) \/ r[j] = [c EXCEPT !.st = "awaiting"]
LEMMA ForwardedIs ==
  ASSUME NEW q \in Seq(Change), NEW c \in Change, NEW answer \in Answers
  PROVE  /\ Forwarded(q, c, answer) \in Seq(Change)
         /\ Copies(q, c, Forwarded(q, c, answer))
<1> DEFINE r == Forwarded(q, c, answer)
           d == [c EXCEPT !.st = "awaiting"]
<1>1. d \in Change
  BY DEF Change
<1>2. CASE answer = "later"
  BY <1>2 DEF Forwarded, Copies
<1>3. CASE answer = "awaiting"
  <2>1. r = [k \in DOMAIN q |-> IF q[k].id = d.id THEN d ELSE q[k]]
    BY <1>3 DEF Forwarded, Put
  <2> HIDE DEF d, r
  <2>2. r \in Seq(Change) /\ DOMAIN r = DOMAIN q /\ \A k \in DOMAIN q : r[k] = IF q[k].id = d.id THEN d ELSE q[k]
    BY <1>1, <2>1, PutIs
  <2> QED BY <2>2 DEF d, r, Copies
<1>4. CASE answer # "later" /\ answer # "awaiting"
  <2> DEFINE S == {x \in ToSet(q) : x.id # c.id}
  <2>1. r = Those(q, S)
    BY <1>4 DEF Forwarded, Without
  <2> HIDE DEF d, r, S
  <2>2. r \in Seq(Change) /\ \A j \in DOMAIN r : \E k \in DOMAIN q : r[j] = q[k]
    BY <2>1, ThoseKeeps
  <2> QED BY <2>2 DEF r, Copies
<1> QED BY <1>2, <1>3, <1>4

(* They are taken one after the other.                                     *)
LEMMA ForwardedSteps ==
  ASSUME NEW now \in Seq(Change), NEW each \in Seq(Change \X Answers)
  PROVE  \E t : Steps(ForwardIn, now, each, Len(each), Seq(Change), t, AllForwarded(now, each))
<1> DEFINE n == Len(each)
           F == ForwardIn
           Value(g, s) == IF s = {} THEN now ELSE Forwarded(g[s \ {Max(s)}], each[Max(s)][1], each[Max(s)][2])
           It(g) == g = [s \in SUBSET DOMAIN each |-> Value(g, s)]
<1>1. n \in Nat /\ DOMAIN each = 1..n /\ each \in [1..n -> (Change \X Answers)]
  OBVIOUS
<1>2. F \in [Seq(Change) \X (Change \X Answers) -> Seq(Change)] /\ now \in Seq(Change)
  <2>1. ASSUME NEW s \in Seq(Change), NEW e \in Change \X Answers PROVE Forwarded(s, e[1], e[2]) \in Seq(Change)
    BY ForwardedIs
  <2>2. \A p \in Seq(Change) \X (Change \X Answers) : p[1] \in Seq(Change) /\ p[2] \in Change \X Answers
    OBVIOUS
  <2> QED BY <2>1, <2>2 DEF ForwardIn
<1>3. ASSUME NEW g, NEW s \in SUBSET (1..n), s # {}, g[s \ {Max(s)}] \in Seq(Change)
      PROVE  F[<<g[s \ {Max(s)}], each[Max(s)]>>] = Value(g, s)
  <2>1. Max(s) \in 1..n
    <3> HIDE DEF Max
    <3> QED BY <1>1, <1>3, MaxOf
  <2>2. <<g[s \ {Max(s)}], each[Max(s)]>> \in Seq(Change) \X (Change \X Answers)
    <3> HIDE DEF Max
    <3> QED BY <1>1, <1>3, <2>1
  <2> QED BY <1>3, <2>2 DEF ForwardIn
<1> HIDE DEF F, n
<1>4. PICK g \in [SUBSET (1..n) -> Seq(Change)] : Folded(F, now, each, n, g)
  BY <1>1, <1>2, FoldExists
<1>5. It(g)
  <2>1. \A s \in SUBSET (1..n) : s # {} => g[s] = Value(g, s)
    <3> HIDE DEF Value
    <3>1. \A s \in SUBSET (1..n) : g[s \ {Max(s)}] \in Seq(Change)
      BY <1>4
    <3> QED BY <1>3, <1>4, <3>1 DEF Folded
  <2>2. g[{}] = Value(g, {})
    BY <1>4 DEF Folded
  <2> HIDE DEF Value
  <2>3. \A s \in SUBSET (1..n) : g[s] = Value(g, s)
    BY <2>1, <2>2
  <2> QED BY <1>1, <1>4, <2>3
<1>6. PICK h : It(h) /\ AllForwarded(now, each) = h[DOMAIN each]
  <2> DEFINE h == CHOOSE x : It(x)
  <2>1. AllForwarded(now, each) = h[DOMAIN each]
    BY DEF AllForwarded, FoldLeft, MapThenFoldSet
  <2> HIDE DEF It
  <2>2. It(h)
    BY <1>5
  <2> QED BY <2>1, <2>2
<1>7. Folding(F, now, each, n, Seq(Change), h)
  <2> HIDE DEF Value
  <2>1. \A s \in SUBSET (1..n) : h[s] = Value(h, s)
    BY <1>1, <1>6
  <2>2. h[{}] = now
    BY <2>1 DEF Value
  <2> QED BY <1>3, <2>1, <2>2 DEF Folding
<1>8. \E t : Steps(F, now, each, n, Seq(Change), t, h[1..n])
  BY <1>1, <1>2, <1>7, FoldSteps
<1> QED BY <1>1, <1>6, <1>8 DEF F, n

-----------------------------------------------------------------------------
(* The till's changes after some of the answers.                           *)

Parked(c) == [c EXCEPT !.st = "awaiting"]
(* Each is one from before, as it was or, had it an answer, with the owner *)
(* now; or it is the one whose id is new.                                  *)
FromTill(s, ids) ==
    \A j \in DOMAIN s.q :
        \/ s.q[j].id = made + 1
        \/ \E l \in DOMAIN queue["till"] :
              \/ s.q[j] = queue["till"][l]
              \/ queue["till"][l].id \in ids /\ s.q[j] = Parked(queue["till"][l])
(* At most one got a new id, and it waits.                                 *)
Renewed(s) ==
    s.made # made =>
        /\ s.made = made + 1 /\ made < edits
        /\ \E j \in DOMAIN s.q : s.q[j].id = made + 1 /\ s.q[j].st = "pending" /\ s.q[j].op # "delete"
Progress(s, ids) == Good(s) /\ FromTill(s, ids) /\ Renewed(s)
(* What the cloud has not judged still waits, and comes last.              *)
Keeps(s) ==
    owed # {} =>
        /\ s.q # <<>> /\ Last(s.q).st = "pending" /\ Values(Last(s.q)) = Values(Last(queue["till"]))
        /\ Last(s.q).id \in {Last(queue["till"]).id, made + 1}

LEMMA DropProgress ==
  ASSUME made \in Nat, NEW s, NEW ids, Progress(s, ids), NEW c, c.id # made + 1,
         \A j \in DOMAIN s.q : s.q[j].op = "create" /\ c.op = "create" => s.q[j].id = c.id,
         NEW r, Drops(s, c, r)
  PROVE  Progress(r, ids) /\ \A j \in DOMAIN r.q : r.q[j].id # c.id /\ \E i \in DOMAIN s.q : r.q[j] = s.q[i]
<1> DEFINE p == s.q
           q == r.q
           S == {x \in ToSet(p) : x.id # c.id}
<1>1. Good(s) /\ FromTill(s, ids) /\ Renewed(s) /\ p \in Seq(Change)
  BY DEF Progress, Good
<1>2. q = Those(p, S) /\ r.made = s.made /\ r.told \in Told
      /\ (r.here = s.here \/ (r.here = Absent /\ c.op = "create"))
  BY DEF Drops, Without
<1>3. \A j \in DOMAIN p : p[j] \in ToSet(p)
  BY <1>1 DEF ToSet
<1>4. \/ r.here = s.here
      \/ r.here = Absent /\ \A k \in DOMAIN p : p[k].op = "create" => p[k] \notin S
  BY <1>2
<1>5. \A j \in DOMAIN p : p[j] \in S <=> p[j].id # c.id
  BY <1>3
<1> HIDE DEF S
<1>6. Good(r)
  BY <1>1, <1>2, <1>4, GoodThose
<1> HIDE DEF p, q
<1>7. /\ \A j \in DOMAIN q : q[j] \in S /\ \E k \in DOMAIN p : q[j] = p[k]
      /\ \A k \in DOMAIN p : p[k] \in S => \E j \in DOMAIN q : q[j] = p[k]
  BY <1>1, <1>2, ThoseKeeps
<1>8. FromTill(r, ids)
  <2>1. SUFFICES ASSUME NEW j \in DOMAIN q
                 PROVE  \/ q[j].id = made + 1
                        \/ \E l \in DOMAIN queue["till"] :
                              \/ q[j] = queue["till"][l]
                              \/ queue["till"][l].id \in ids /\ q[j] = Parked(queue["till"][l])
    BY DEF FromTill, q
  <2>2. PICK k \in DOMAIN p : q[j] = p[k]
    BY <1>7
  <2> QED BY <1>1, <2>2 DEF FromTill, p
<1>9. Renewed(r)
  <2>1. SUFFICES ASSUME s.made # made
                 PROVE  \E j \in DOMAIN q : q[j].id = made + 1 /\ q[j].st = "pending" /\ q[j].op # "delete"
    BY <1>1, <1>2 DEF Renewed, q
  <2>2. PICK i \in DOMAIN p : p[i].id = made + 1 /\ p[i].st = "pending" /\ p[i].op # "delete"
    BY <1>1, <2>1 DEF Renewed, p
  <2>3. p[i] \in S
    BY <1>5, <2>2
  <2> QED BY <1>7, <2>2, <2>3
<1>10. \A j \in DOMAIN q : q[j].id # c.id /\ \E i \in DOMAIN p : q[j] = p[i]
  BY <1>5, <1>7
<1> QED BY <1>6, <1>8, <1>9, <1>10 DEF Progress, p, q

(* A request's row and the change it is about, as the answer comes.        *)
AboutIt(s, ids, row, k) ==
    /\ made \in Nat /\ edits \in 0..MaxEdits
    /\ Good(TillNow) /\ Progress(s, ids)
    /\ row.id \notin ids /\ row.id \in 1..made
    /\ \A l \in DOMAIN queue["till"] : Fresh(row, queue["till"][l])
    /\ k \in DOMAIN s.q /\ s.q[k].id = row.id

LEMMA AboutItIs ==
  ASSUME NEW s, NEW ids, NEW row, NEW k, AboutIt(s, ids, row, k)
  PROVE  /\ s.q \in Seq(Change) /\ s.q[k] \in Change
         /\ \E l \in DOMAIN queue["till"] : s.q[k] = queue["till"][l]
         /\ s.q[k].at # row.at =>
               s.q[k].st = "pending" /\ s.q[k].op # "delete" /\ made < edits /\ s.made = made
<1> DEFINE p == s.q
<1>1. p \in Seq(Change) /\ k \in DOMAIN p /\ p[k].id = row.id
  BY DEF AboutIt, Progress, Good
<1>2. p[k] \in Change
  BY <1>1
<1>3. queue["till"] \in Seq(Change)
  BY DEF AboutIt, Good, TillNow
<1>4. PICK l \in DOMAIN queue["till"] : p[k] = queue["till"][l]
  <2>1. row.id # made + 1
    BY DEF AboutIt
  <2>2. FromTill(s, ids) /\ row.id \notin ids
    BY DEF AboutIt, Progress
  <2>3. PICK l \in DOMAIN queue["till"] :
          \/ p[k] = queue["till"][l]
          \/ queue["till"][l].id \in ids /\ p[k] = Parked(queue["till"][l])
    BY <1>1, <2>1, <2>2 DEF FromTill
  <2>4. queue["till"][l] \in Change
    BY <1>3
  <2>5. Parked(queue["till"][l]).id = queue["till"][l].id
    BY <2>4 DEF Parked, Change
  <2> QED BY <1>1, <2>2, <2>3, <2>5
<1>5. ASSUME p[k].at # row.at
      PROVE  p[k].st = "pending" /\ p[k].op # "delete" /\ made < edits /\ s.made = made
  <2>1. Fresh(row, p[k])
    BY <1>4 DEF AboutIt
  <2>2. p[k].st = "pending" /\ p[k].op # "delete" /\ made < edits
    BY <1>1, <1>5, <2>1 DEF Fresh
  <2>3. s.made = made
    <3>1. SUFFICES ASSUME s.made # made PROVE FALSE
      OBVIOUS
    <3>2. PICK j \in DOMAIN p : p[j].id = made + 1 /\ p[j].st = "pending" /\ p[j].op # "delete"
      BY <3>1 DEF AboutIt, Progress, Renewed
    <3>3. j # k
      BY <1>1, <3>2 DEF AboutIt
    <3>4. k < j \/ j < k
      BY <1>1, <3>3
    <3>5. Ordered(p, s.made)
      BY DEF AboutIt, Progress, Good
    <3> HIDE DEF p
    <3> QED BY <1>1, <2>2, <3>2, <3>4, <3>5 DEF Ordered
  <2> QED BY <2>2, <2>3
<1> QED BY <1>1, <1>2, <1>4, <1>5

(* The change at k of s.q has become m in r.q.                             *)
Turns(s, k, m, r) ==
    /\ r.q \in Seq(Change) /\ DOMAIN r.q = DOMAIN s.q /\ Len(r.q) = Len(s.q)
    /\ \A j \in DOMAIN s.q : IF j = k THEN r.q[j] = m ELSE r.q[j] = s.q[j]
(* As it does when an edit has joined it.                                  *)
TurnsNew(s, k, m, r) ==
    /\ Good(r) /\ r.made = made + 1 /\ made < edits
    /\ m.st = "pending" /\ m.op # "delete" /\ m.id = made + 1 /\ m.data = s.q[k].data
    /\ s.q[k].op # "delete" /\ Turns(s, k, m, r)

LEMMA RenewedIs ==
  ASSUME NEW s, NEW ids, NEW row, NEW k, NEW m, NEW r, AboutIt(s, ids, row, k),
         s.q[k].at # row.at, Renews(s, s.q[k], m, r)
  PROVE  TurnsNew(s, k, m, r)
<1> DEFINE p == s.q
<1>1. p \in Seq(Change) /\ k \in DOMAIN p /\ p[k].id = row.id
  BY DEF AboutIt, Progress, Good
<1>2. p[k] \in Change /\ p[k].st = "pending" /\ p[k].op # "delete" /\ made < edits /\ s.made = made
  BY AboutItIs
<1>3. /\ m \in Open /\ m.id = made + 1 /\ m.st = p[k].st /\ m.data = p[k].data /\ m.at = p[k].at
      /\ m.op = p[k].op \/ (p[k].op = "create" /\ m.op = "update")
      /\ r.q = [j \in DOMAIN p |-> IF p[j].id = p[k].id THEN m ELSE p[j]]
      /\ r.made = made + 1 /\ r.told = s.told /\ r.here = s.here
  BY <1>2 DEF Renews
<1>4. made + 1 \in Ids /\ edits \in Nat
  BY BoundsAssumption, <1>2 DEF AboutIt, Ids
<1>5. m \in Change
  BY <1>2, <1>3, <1>4 DEF Change, Open
<1>6. Good(s) /\ r.told \in Told /\ Distinct(p)
  BY <1>3 DEF AboutIt, Progress, Good, Told
<1>7. Good(r)
  BY <1>1, <1>2, <1>3, <1>4, <1>5, <1>6, GoodRenewed
<1> HIDE DEF p
<1>8. /\ r.q \in Seq(Change) /\ DOMAIN r.q = DOMAIN p /\ Len(r.q) = Len(p)
      /\ \A j \in DOMAIN p : r.q[j] = IF p[j].id = p[k].id THEN m ELSE p[j]
  BY <1>1, <1>3, <1>5, PutIs
<1>9. \A j \in DOMAIN p : IF j = k THEN r.q[j] = m ELSE r.q[j] = p[j]
  BY <1>1, <1>6, <1>8 DEF Distinct
<1> QED BY <1>2, <1>3, <1>7, <1>8, <1>9 DEF p, Turns, TurnsNew

LEMMA ParkedIs ==
  ASSUME NEW s, NEW ids, NEW row, NEW k, AboutIt(s, ids, row, k), NEW r, Parks(s, s.q[k], r)
  PROVE  Good(r) /\ r.made = s.made /\ Turns(s, k, Parked(s.q[k]), r)
<1> DEFINE p == s.q
           c == Parked(p[k])
<1>1. p \in Seq(Change) /\ k \in DOMAIN p /\ p[k] \in Change /\ Good(s) /\ Distinct(p)
  BY AboutItIs DEF AboutIt, Progress, Good
<1>2. r.q = Put(p, c) /\ r.made = s.made /\ r.told \in Told /\ r.here = s.here
  BY <1>1 DEF Parks, Parked, Good, Told
<1>3. Good(r)
  BY <1>1, <1>2, GoodParked DEF Parked
<1>4. c \in Change /\ c.id = p[k].id
  BY <1>1 DEF Parked, Change
<1> HIDE DEF c, p
<1>5. r.q = [j \in DOMAIN p |-> IF p[j].id = p[k].id THEN c ELSE p[j]]
  BY <1>2, <1>4 DEF Put
<1>6. /\ r.q \in Seq(Change) /\ DOMAIN r.q = DOMAIN p /\ Len(r.q) = Len(p)
      /\ \A j \in DOMAIN p : r.q[j] = IF p[j].id = p[k].id THEN c ELSE p[j]
  BY <1>1, <1>4, <1>5, PutIs
<1>7. \A j \in DOMAIN p : IF j = k THEN r.q[j] = c ELSE r.q[j] = p[j]
  BY <1>1, <1>6 DEF Distinct
<1> QED BY <1>2, <1>3, <1>6, <1>7 DEF p, c, Turns

(* Another answer keeps all of this.                                       *)
LEMMA AnswerProgress ==
  ASSUME NEW s, NEW ids, NEW row, NEW k, AboutIt(s, ids, row, k),
         NEW answer, NEW r, Comes(s, s.q[k], row, answer, r)
  PROVE  Progress(r, ids \cup {row.id})
<1> DEFINE p == s.q
           c == p[k]
           more == ids \cup {row.id}
<1>1. p \in Seq(Change) /\ k \in DOMAIN p /\ c.id = row.id /\ made \in Nat /\ row.id # made + 1
  BY DEF AboutIt, Progress, Good
<1>2. Progress(s, ids) /\ FromTill(s, ids) /\ Renewed(s) /\ Ordered(p, s.made)
  BY DEF AboutIt, Progress, Good
<1>3. PICK l \in DOMAIN queue["till"] : c = queue["till"][l]
  BY AboutItIs
<1> HIDE DEF p, c
<1>4. \A j \in DOMAIN p :
        \/ p[j].id = made + 1
        \/ \E x \in DOMAIN queue["till"] :
              \/ p[j] = queue["till"][x]
              \/ queue["till"][x].id \in more /\ p[j] = Parked(queue["till"][x])
  BY <1>2 DEF FromTill, p
<1> HIDE DEF more
<1>5. ASSUME NEW m, Renews(s, c, m, r), c.at # row.at PROVE Progress(r, more)
  <2>1. /\ Good(r) /\ r.made = made + 1 /\ made < edits
        /\ m.st = "pending" /\ m.op # "delete" /\ m.id = made + 1
        /\ DOMAIN r.q = DOMAIN p
        /\ \A j \in DOMAIN p : IF j = k THEN r.q[j] = m ELSE r.q[j] = p[j]
    <3>1. s.q[k].at # row.at /\ Renews(s, s.q[k], m, r) /\ AboutIt(s, ids, row, k)
      BY <1>5 DEF p, c
    <3>2. TurnsNew(s, k, m, r)
      BY <3>1, RenewedIs
    <3> QED BY <3>2 DEF p, TurnsNew, Turns
  <2>2. Renewed(r)
    BY <1>1, <2>1 DEF Renewed
  <2>3. FromTill(r, more)
    BY <1>4, <2>1 DEF FromTill
  <2> QED BY <2>1, <2>2, <2>3 DEF Progress
<1>6. ASSUME Drops(s, c, r) PROVE Progress(r, more)
  <2>1. \A j \in DOMAIN p : p[j].op = "create" /\ c.op = "create" => p[j].id = c.id
    BY <1>1, <1>2 DEF Ordered, c
  <2>2. Progress(r, ids)
    BY <1>1, <1>2, <1>6, <2>1, DropProgress DEF p
  <2> QED BY <2>2 DEF Progress, FromTill, more
<1>7. ASSUME Parks(s, c, r) PROVE Progress(r, more)
  <2>1. /\ Good(r) /\ r.made = s.made /\ DOMAIN r.q = DOMAIN p
        /\ \A j \in DOMAIN p : IF j = k THEN r.q[j] = Parked(c) ELSE r.q[j] = p[j]
    BY <1>7, ParkedIs DEF p, c, Turns
  <2>2. FromTill(r, more)
    BY <1>1, <1>3, <1>4, <2>1 DEF more, FromTill
  <2>3. Renewed(r)
    <3>1. SUFFICES ASSUME s.made # made
                   PROVE  \E j \in DOMAIN r.q : r.q[j].id = made + 1 /\ r.q[j].st = "pending" /\ r.q[j].op # "delete"
      BY <1>2, <2>1 DEF Renewed
    <3>2. PICK j \in DOMAIN p : p[j].id = made + 1 /\ p[j].st = "pending" /\ p[j].op # "delete"
      BY <1>2, <3>1 DEF Renewed, p
    <3>3. j # k
      BY <1>1, <3>2 DEF c
    <3> QED BY <2>1, <3>2, <3>3
  <2> QED BY <2>1, <2>2, <2>3 DEF Progress
<1> QED BY <1>5, <1>6, <1>7 DEF Comes, p, c, more

(* And what is owed is still waited for.                                   *)
LEMMA AnswerKeeps ==
  ASSUME NEW s, NEW ids, NEW row, NEW k, AboutIt(s, ids, row, k), Keeps(s),
         NEW answer, NEW r, Comes(s, s.q[k], row, answer, r),
         owed # {} => queue["till"] # <<>>,
         owed # {} /\ row.id = Last(queue["till"]).id /\ row.at = Last(queue["till"]).at => answer = "later"
  PROVE  Keeps(r)
<1> DEFINE p == s.q
           c == p[k]
           n == Len(p)
           e == Last(queue["till"])
<1>1. p \in Seq(Change) /\ k \in DOMAIN p /\ c.id = row.id /\ row.id # made + 1 /\ Distinct(p) /\ c \in Change
  BY AboutItIs DEF AboutIt, Progress, Good
<1>2. SUFFICES ASSUME owed # {}
               PROVE  /\ r.q # <<>> /\ Last(r.q).st = "pending" /\ Values(Last(r.q)) = Values(e)
                      /\ Last(r.q).id \in {e.id, made + 1}
  BY DEF Keeps
<1>3. p # <<>> /\ p[n].st = "pending" /\ Values(p[n]) = Values(e) /\ p[n].id \in {e.id, made + 1}
  BY <1>2 DEF Keeps, Last
<1>4. n \in DOMAIN p
  <2> HIDE DEF p
  <2> QED BY <1>1, <1>3
<1> HIDE DEF p, c, n, e
<1>5. ASSUME k = n PROVE c.at # row.at \/ answer = "later"
  <2>1. c.id = e.id
    BY <1>1, <1>3, <1>5 DEF c
  <2>2. PICK l \in DOMAIN queue["till"] : c = queue["till"][l]
    BY AboutItIs DEF c, p
  <2>3. queue["till"] \in Seq(Change) /\ Distinct(queue["till"])
    BY DEF AboutIt, Good, TillNow
  <2>4. Len(queue["till"]) \in DOMAIN queue["till"]
    BY <1>2, <2>3
  <2>5. l = Len(queue["till"])
    BY <2>1, <2>2, <2>3, <2>4 DEF Distinct, e, Last
  <2> QED BY <1>1, <1>2, <2>1, <2>2, <2>5 DEF e, Last
<1>6. ASSUME NEW m, Renews(s, c, m, r), c.at # row.at
      PROVE  /\ r.q # <<>> /\ Last(r.q).st = "pending" /\ Values(Last(r.q)) = Values(e)
             /\ Last(r.q).id \in {e.id, made + 1}
  <2>1. /\ m.st = "pending" /\ m.op # "delete" /\ m.id = made + 1 /\ m.data = c.data /\ c.op # "delete"
        /\ r.q \in Seq(Change) /\ DOMAIN r.q = DOMAIN p /\ Len(r.q) = Len(p)
        /\ \A j \in DOMAIN p : IF j = k THEN r.q[j] = m ELSE r.q[j] = p[j]
    <3>1. s.q[k].at # row.at /\ Renews(s, s.q[k], m, r) /\ AboutIt(s, ids, row, k)
      BY <1>6 DEF p, c
    <3>2. TurnsNew(s, k, m, r)
      BY <3>1, RenewedIs
    <3> QED BY <3>2 DEF p, c, TurnsNew, Turns
  <2>2. r.q # <<>> /\ Last(r.q) = r.q[n]
    BY <1>1, <1>4, <2>1 DEF Last, n
  <2>3. Values(m) = Values(c)
    BY <2>1 DEF Values, Keys
  <2> QED BY <1>3, <1>4, <2>1, <2>2, <2>3 DEF c
<1>7. ASSUME Drops(s, c, r), c.at = row.at, answer # "later"
      PROVE  /\ r.q # <<>> /\ Last(r.q).st = "pending" /\ Values(Last(r.q)) = Values(e)
             /\ Last(r.q).id \in {e.id, made + 1}
  <2> DEFINE S == {x \in ToSet(p) : x.id # c.id}
  <2>1. r.q = Those(p, S)
    BY <1>7 DEF Drops, Without, p
  <2>2. p[n] \in S
    <3>1. p[n] \in ToSet(p)
      BY <1>4 DEF ToSet
    <3>2. p[n].id # c.id
      BY <1>1, <1>4, <1>5, <1>7 DEF Distinct, c
    <3> QED BY <3>1, <3>2
  <2> HIDE DEF S
  <2>3. r.q # <<>> /\ Last(r.q) = Last(p)
    BY <1>1, <1>3, <2>1, <2>2, ThoseLast DEF Last, n
  <2> QED BY <1>3, <2>3 DEF Last, n
<1>8. ASSUME Parks(s, c, r), c.at = row.at, answer # "later"
      PROVE  /\ r.q # <<>> /\ Last(r.q).st = "pending" /\ Values(Last(r.q)) = Values(e)
             /\ Last(r.q).id \in {e.id, made + 1}
  <2>1. /\ r.q \in Seq(Change) /\ DOMAIN r.q = DOMAIN p /\ Len(r.q) = Len(p)
        /\ \A j \in DOMAIN p : IF j = k THEN r.q[j] = Parked(c) ELSE r.q[j] = p[j]
    BY <1>8, ParkedIs DEF p, c, Turns
  <2>2. r.q # <<>> /\ Last(r.q) = r.q[n]
    BY <1>1, <1>4, <2>1 DEF Last, n
  <2> QED BY <1>3, <1>4, <1>5, <1>8, <2>1, <2>2
<1> QED BY <1>6, <1>7, <1>8 DEF Comes, p, c

(* What a settled change leaves: what is owed was not its.                 *)
LEMMA DropKeeps ==
  ASSUME NEW s, s.q \in Seq(Change), Keeps(s), NEW c, owed # {} => Last(s.q).id # c.id,
         NEW r, Drops(s, c, r)
  PROVE  Keeps(r)
<1> DEFINE p == s.q
           S == {x \in ToSet(p) : x.id # c.id}
<1>1. SUFFICES ASSUME owed # {} PROVE r.q # <<>> /\ Last(r.q) = Last(p)
  BY DEF Keeps
<1>2. r.q = Those(p, S)
  BY DEF Drops, Without
<1>3. p # <<>> /\ p \in Seq(Change)
  BY <1>1 DEF Keeps
<1>4. Last(p) \in S
  <2>1. Len(p) \in DOMAIN p
    <3> HIDE DEF p
    <3> QED BY <1>3
  <2>2. Last(p) \in ToSet(p)
    BY <2>1 DEF ToSet, Last
  <2> QED BY <1>1, <2>2
<1> HIDE DEF S, p
<1> QED BY <1>2, <1>3, <1>4, ThoseLast

LEMMA ChangeIsOpen == Change \subseteq Open
BY BoundsAssumption DEF Ids, Change, Open

LEMMA TillNowIs ==
  ASSUME Good(TillNow), made \in Nat
  PROVE  TillNow \in TillStates /\ Progress(TillNow, {})
<1>1. Change \subseteq Open
  BY ChangeIsOpen
<1>2. queue["till"] \in Seq(Change) /\ told \in Told /\ here \in Things
  BY DEF Good, TillNow, Told, Things
<1>3. queue["till"] \in Seq(Open)
  BY <1>1, <1>2
<1>4. TillNow \in TillStates
  BY <1>2, <1>3 DEF TillNow, TillStates, Told
<1>5. FromTill(TillNow, {}) /\ Renewed(TillNow)
  BY DEF FromTill, Renewed, TillNow
<1> QED BY <1>4, <1>5 DEF Progress

(* The rows of a request, each with its answer.                            *)
LEMMA EachIs ==
  ASSUME NEW C, NEW D, NEW rows \in Seq(C), NEW said \in Seq(D), Len(said) = Len(rows),
         NEW each, each = [k \in DOMAIN rows |-> <<rows[k], said[k]>>]
  PROVE  /\ each \in Seq(C \X D) /\ Len(each) = Len(rows)
         /\ \A k \in 1..Len(rows) : each[k] = <<rows[k], said[k]>>
<1> DEFINE n == Len(rows)
           E == C \X D
<1>1. n \in Nat /\ DOMAIN rows = 1..n /\ \A k \in 1..n : rows[k] \in C /\ said[k] \in D
  OBVIOUS
<1> HIDE DEF n
<1>2. \A k \in 1..n : <<rows[k], said[k]>> \in E
  BY <1>1
<1> HIDE DEF E
<1>3. each \in [1..n -> E] /\ \A k \in 1..n : each[k] = <<rows[k], said[k]>>
  BY <1>1, <1>2
<1>4. each \in Seq(E) /\ Len(each) = n
  BY <1>1, <1>3
<1> QED BY <1>3, <1>4 DEF E, n

EachOf(r) == [k \in DOMAIN r.rows |-> <<r.rows[k], r.said[k]>>]

(* The till's changes once a request of its own is answered.               *)
Judges(h) ==
    /\ made \in Nat /\ edits \in 0..MaxEdits /\ Good(TillNow) /\ OnTheWay
    /\ handler[h] \in Handler /\ Awaited(h) /\ Handled(h) /\ handler[h].step = "end"
RowIds(rows, k) == {rows[i].id : i \in 1..k}
LEMMA AllAnsweredIs ==
  ASSUME NEW h \in Slots, Judges(h)
  PROVE  LET r == AllAnswered(TillNow, EachOf(handler[h])) IN
         /\ r \in TillStates /\ Progress(r, RowIds(handler[h].rows, Len(handler[h].rows)))
         /\ StillOwed => Keeps(r)
<1> DEFINE rows == handler[h].rows
           said == handler[h].said
           each == EachOf(handler[h])
           n == Len(rows)
<1>1. /\ made \in Nat /\ edits \in 0..MaxEdits /\ Good(TillNow)
      /\ rows \in Seq(Change) /\ said \in Seq(Answers) /\ Len(said) = n /\ n \in Nat
      /\ Distinct(rows) /\ \A k \in DOMAIN rows : Known(rows[k])
  <2>1. handler[h] \in Handler /\ Handled(h) /\ handler[h].step = "end" /\ handler[h] # Absent /\ Awaited(h)
    BY DEF Judges, Awaited
  <2>2. rows \in Seq(Change) /\ said \in Seq(Answers)
    BY <2>1 DEF Handler, Answers
  <2>3. Len(said) = n /\ Distinct(rows) /\ \A k \in DOMAIN rows : Known(rows[k])
    BY <2>1 DEF Handled
  <2>4. made \in Nat /\ edits \in 0..MaxEdits /\ Good(TillNow)
    BY DEF Judges
  <2> QED BY <2>2, <2>3, <2>4
<1>2. \A j \in DOMAIN rows, l \in DOMAIN queue["till"] : Fresh(rows[j], queue["till"][l])
  BY DEF Judges, OnTheWay
<1>3. StillOwed /\ owed # {} =>
        /\ queue["till"] # <<>>
        /\ \A j \in DOMAIN said :
              rows[j].id = Last(queue["till"]).id /\ rows[j].at = Last(queue["till"]).at => said[j] = "later"
  BY DEF StillOwed, Judges
<1>4. each = [k \in DOMAIN rows |-> <<rows[k], said[k]>>]
  BY DEF EachOf
<1>5. TillNow \in TillStates /\ Progress(TillNow, {})
  BY <1>1, TillNowIs
<1>6. StillOwed => Keeps(TillNow)
  BY DEF StillOwed, Keeps, TillNow
<1> HIDE DEF rows, said, each
<1>7. each \in Seq(Open \X Answers) /\ Len(each) = n /\ \A k \in 1..n : each[k] = <<rows[k], said[k]>>
  BY <1>1, ChangeIsOpen, <1>4, EachIs
<1> HIDE DEF n
<1>8. PICK t : Steps(AnswerIn, TillNow, each, n, TillStates, t, AllAnswered(TillNow, each))
  BY <1>5, <1>7, AnsweredSteps
<1>9. t \in [0..n -> TillStates] /\ t[0] = TillNow /\ t[n] = AllAnswered(TillNow, each)
  BY <1>8 DEF Steps
<1> DEFINE P(k) == k <= n => Progress(t[k], RowIds(rows, k)) /\ (StillOwed => Keeps(t[k]))
<1>10. P(0)
  <2>1. RowIds(rows, 0) = {}
    BY DEF RowIds
  <2> QED BY <1>5, <1>6, <1>9, <2>1
<1>11. ASSUME NEW k \in Nat, P(k) PROVE P(k + 1)
  <2>1. SUFFICES ASSUME k + 1 <= n
                 PROVE  Progress(t[k + 1], RowIds(rows, k + 1)) /\ (StillOwed => Keeps(t[k + 1]))
    OBVIOUS
  <2>2. k + 1 \in 1..n /\ (k + 1) - 1 = k /\ k <= n /\ k \in 0..n
    BY <1>1, <2>1
  <2> DEFINE s == t[k]
             r == t[k + 1]
             row == rows[k + 1]
             answer == said[k + 1]
             ids == RowIds(rows, k)
  <2>3. Progress(s, ids) /\ (StillOwed => Keeps(s))
    BY <1>11, <2>2
  <2>4. s \in TillStates /\ row \in Open /\ answer \in Answers /\ row \in Change
    <3>1. \A i \in 1..n : rows[i] \in Change /\ said[i] \in Answers
      BY <1>1 DEF n
    <3>2. \A i \in 1..n : rows[i] \in Open
      BY ChangeIsOpen, <3>1
    <3> QED BY <1>9, <2>2, <3>1, <3>2
  <2>5. r = Answered(s, row, answer)
    <3>1. r = AnswerIn[<<s, each[k + 1]>>]
      BY <1>8, <2>2 DEF Steps
    <3>2. each[k + 1] = <<row, answer>>
      BY <1>7, <2>2
    <3>3. <<s, <<row, answer>>>> \in TillStates \X (Open \X Answers)
      BY <2>4
    <3> HIDE DEF s, row, answer
    <3> QED BY <3>1, <3>2, <3>3 DEF AnswerIn
  <2>6. RowIds(rows, k + 1) = ids \cup {row.id}
    BY <2>2 DEF RowIds
  <2>7. row.id \notin ids
    <3>1. SUFFICES ASSUME NEW i \in 1..k, rows[i].id = row.id PROVE FALSE
      BY DEF RowIds
    <3>2. i \in DOMAIN rows /\ k + 1 \in DOMAIN rows /\ i # k + 1
      BY <1>1, <2>2 DEF n
    <3> QED BY <1>1, <3>1, <3>2 DEF Distinct
  <2>8. row.id \in 1..made /\ \A l \in DOMAIN queue["till"] : Fresh(row, queue["till"][l])
    <3>1. k + 1 \in DOMAIN rows
      BY <1>1, <2>2 DEF n
    <3>2. row.id <= made
      BY <1>1, <3>1 DEF Known
    <3>3. row.id \in Nat /\ row.id >= 1
      BY <2>4, BoundsAssumption DEF Change, Ids
    <3> QED BY <1>1, <1>2, <3>1, <3>2, <3>3
  <2> HIDE DEF s, r, row, answer, ids
  <2>9. \/ r = s
        \/ \E j \in DOMAIN s.q : s.q[j].id = row.id /\ Comes(s, s.q[j], row, answer, r)
    BY <2>4, <2>5, AnsweredIs
  <2>10. CASE r = s
    BY <2>3, <2>10, <2>6 DEF Progress, FromTill, r, s
  <2>11. ASSUME NEW j \in DOMAIN s.q, s.q[j].id = row.id, Comes(s, s.q[j], row, answer, r)
         PROVE  Progress(r, ids \cup {row.id}) /\ (StillOwed => Keeps(r))
    <3>1. AboutIt(s, ids, row, j)
      BY <1>1, <2>3, <2>7, <2>8, <2>11 DEF AboutIt
    <3>2. Progress(r, ids \cup {row.id})
      BY <2>11, <3>1, AnswerProgress
    <3>3. ASSUME StillOwed PROVE Keeps(r)
      <4>1. owed # {} => queue["till"] # <<>>
        BY <1>3, <3>3
      <4>2. owed # {} /\ row.id = Last(queue["till"]).id /\ row.at = Last(queue["till"]).at => answer = "later"
        BY <1>1, <2>2, <1>3, <3>3 DEF row, answer
      <4>3. Keeps(s)
        BY <2>3, <3>3
      <4> QED BY <2>11, <3>1, <4>1, <4>2, <4>3, AnswerKeeps
    <3> QED BY <3>2, <3>3
  <2> QED BY <2>6, <2>9, <2>10, <2>11 DEF r
<1>12. P(n)
  <2> DEFINE T == {k \in Nat : P(k)}
  <2> HIDE DEF P
  <2>1. 0 \in T /\ \A k \in Nat : k \in T => k + 1 \in T
    BY <1>10, <1>11
  <2> HIDE DEF T
  <2>2. n \in T
    BY <1>1, <2>1, Induction DEF n
  <2> QED BY <2>2 DEF T
<1>13. n <= n /\ n \in 0..n
  BY <1>1 DEF n
<1> QED BY <1>9, <1>12, <1>13 DEF n, rows, each

(* The branch server's copies once a request of its own is answered.       *)
MadeOf(q, x, r) == \A j \in DOMAIN r : \/ \E k \in DOMAIN q : r[j] = q[k]
                                       \/ \E k \in DOMAIN x.rows : r[j] = Parked(x.rows[k])
LEMMA AllForwardedIs ==
  ASSUME NEW q \in Seq(Change), NEW x \in Handler, Len(x.said) = Len(x.rows)
  PROVE  AllForwarded(q, EachOf(x)) \in Seq(Change) /\ MadeOf(q, x, AllForwarded(q, EachOf(x)))
<1> DEFINE rows == x.rows
           said == x.said
           each == EachOf(x)
           n == Len(rows)
           Made(r) == \A j \in DOMAIN r : \/ \E k \in DOMAIN q : r[j] = q[k]
                                          \/ \E k \in DOMAIN rows : r[j] = Parked(rows[k])
<1>10. /\ rows \in Seq(Change) /\ said \in Seq(Answers) /\ Len(said) = Len(rows)
       /\ each = [k \in DOMAIN rows |-> <<rows[k], said[k]>>]
  BY DEF Handler, Answers, EachOf
<1>11. \A r : Made(r) => MadeOf(q, x, r)
  BY DEF MadeOf
<1> HIDE DEF rows, said, each
<1>1. n \in Nat /\ DOMAIN rows = 1..n /\ \A k \in 1..n : rows[k] \in Change /\ said[k] \in Answers
  BY <1>10
<1>2. each \in Seq(Change \X Answers) /\ Len(each) = n /\ \A k \in 1..n : each[k] = <<rows[k], said[k]>>
  BY <1>10, EachIs
<1> HIDE DEF n
<1>3. PICK t : Steps(ForwardIn, q, each, n, Seq(Change), t, AllForwarded(q, each))
  BY <1>2, ForwardedSteps
<1>4. t \in [0..n -> Seq(Change)] /\ t[0] = q /\ t[n] = AllForwarded(q, each)
  BY <1>3 DEF Steps
<1> DEFINE P(k) == k <= n => Made(t[k])
<1>5. P(0)
  BY <1>4
<1>6. ASSUME NEW k \in Nat, P(k) PROVE P(k + 1)
  <2>1. SUFFICES ASSUME k + 1 <= n PROVE Made(t[k + 1])
    OBVIOUS
  <2>2. k + 1 \in 1..n /\ (k + 1) - 1 = k /\ k <= n /\ k \in 0..n
    BY <1>1, <2>1
  <2> DEFINE s == t[k]
             r == t[k + 1]
             row == rows[k + 1]
             answer == said[k + 1]
  <2>3. s \in Seq(Change) /\ row \in Change /\ answer \in Answers
    BY <1>1, <1>4, <2>2
  <2>4. r = Forwarded(s, row, answer)
    <3>1. r = ForwardIn[<<s, each[k + 1]>>]
      BY <1>3, <2>2 DEF Steps
    <3>2. each[k + 1] = <<row, answer>>
      BY <1>2, <2>2
    <3> DEFINE Qs == Seq(Change)
    <3>3. s \in Qs /\ row \in Change /\ answer \in Answers
      BY <2>3
    <3>4. ForwardIn = [p \in Qs \X (Change \X Answers) |-> Forwarded(p[1], p[2][1], p[2][2])]
      BY DEF ForwardIn
    <3> HIDE DEF s, row, answer, Qs
    <3>5. <<s, <<row, answer>>>> \in Qs \X (Change \X Answers)
      BY <3>3
    <3>6. ForwardIn[<<s, <<row, answer>>>>] = Forwarded(s, row, answer)
      BY <3>4, <3>5
    <3> QED BY <3>1, <3>2, <3>6
  <2>5. Made(s)
    BY <1>6, <2>2
  <2>6. k + 1 \in DOMAIN rows
    BY <1>1, <2>2
  <2> HIDE DEF s, r
  <2>7. \A j \in DOMAIN r : (\E i \in DOMAIN s : r[j] = s[i]) \/ r[j] = Parked(row)
    <3>1. Copies(s, row, r)
      BY <2>3, <2>4, ForwardedIs
    <3> QED BY <3>1 DEF Copies, Parked
  <2>8. Made(r)
    BY <2>5, <2>6, <2>7
  <2> QED BY <2>8 DEF r
<1>7. P(n)
  <2> DEFINE T == {k \in Nat : P(k)}
  <2> HIDE DEF P
  <2>1. 0 \in T /\ \A k \in Nat : k \in T => k + 1 \in T
    BY <1>5, <1>6
  <2> HIDE DEF T
  <2>2. n \in T
    BY <1>1, <2>1, Induction
  <2> QED BY <2>2 DEF T
<1>8. n <= n /\ n \in 0..n
  BY <1>1
<1>9. AllForwarded(q, each) \in Seq(Change) /\ Made(AllForwarded(q, each))
  <2> HIDE DEF Made
  <2> QED BY <1>4, <1>7, <1>8
<1> QED BY <1>9, <1>11 DEF each

(* The till's changes once what the owner decided is settled.              *)
Due == Those(queue["till"], {c \in ToSet(queue["till"]) : Decided(c)})
LEMMA AllDecidedIs ==
  ASSUME made \in Nat, Good(TillNow)
  PROVE  LET r == AllDecided(TillNow, Due) IN
         r \in TillStates /\ Progress(r, {}) /\ r.made = made /\ (StillOwed => Keeps(r))
<1> DEFINE over == Due
           Q == queue["till"]
           S == {c \in ToSet(Q) : Decided(c)}
           n == Len(over)
<1>1. Q \in Seq(Change) /\ Distinct(Q) /\ Ordered(Q, made) /\ \A k \in DOMAIN Q : Q[k].id <= made
  BY DEF Good, TillNow
<1>2. over = Those(Q, S)
  BY DEF Due
<1> HIDE DEF over
<1>3. over \in Seq(Change) /\ \A j \in DOMAIN over : over[j] \in S /\ \E k \in DOMAIN Q : over[j] = Q[k]
  <2>1. Q \in Seq(Change)
    BY <1>1
  <2> HIDE DEF Q, S
  <2> QED BY <1>2, <2>1, ThoseKeeps
<1>4. \A j \in DOMAIN over : over[j].st = "awaiting" /\ \E k \in DOMAIN Q : over[j] = Q[k]
  <2> HIDE DEF Q
  <2> QED BY <1>3 DEF Decided
<1>5. n \in Nat /\ DOMAIN over = 1..n /\ over \in Seq(Open)
  BY ChangeIsOpen, <1>3
<1>6. TillNow \in TillStates /\ Progress(TillNow, {}) /\ TillNow.made = made
  BY TillNowIs DEF TillNow
<1>7. StillOwed => Keeps(TillNow)
  BY DEF StillOwed, Keeps, TillNow
<1> HIDE DEF n
<1>8. PICK t : Steps(SettleIn, TillNow, over, n, TillStates, t, AllDecided(TillNow, over))
  BY <1>5, <1>6, DecidedSteps DEF n
<1>9. t \in [0..n -> TillStates] /\ t[0] = TillNow /\ t[n] = AllDecided(TillNow, over)
  BY <1>8 DEF Steps
<1> DEFINE Holds(s) == Progress(s, {}) /\ s.made = made /\ (StillOwed => Keeps(s))
           P(k) == k <= n => Holds(t[k])
<1>10. P(0)
  BY <1>6, <1>7, <1>9
<1> HIDE DEF Q, S
<1>11. ASSUME NEW k \in Nat, P(k) PROVE P(k + 1)
  <2>1. SUFFICES ASSUME k + 1 <= n PROVE Holds(t[k + 1])
    OBVIOUS
  <2>2. k + 1 \in 1..n /\ (k + 1) - 1 = k /\ k <= n /\ k \in 0..n
    BY <1>5, <2>1
  <2> DEFINE s == t[k]
             r == t[k + 1]
             c == over[k + 1]
  <2>3. s \in TillStates /\ c \in Open
    BY <1>5, <1>9, <2>2
  <2>4. Drops(s, c, r)
    <3>1. r = SettleIn[<<s, c>>]
      BY <1>8, <2>2 DEF Steps
    <3>2. <<s, c>> \in TillStates \X Open
      BY <2>3
    <3> HIDE DEF s, c, r
    <3>3. r = Settled(s, c, Ruled(c))
      BY <3>1, <3>2 DEF SettleIn
    <3>4. Ruled(c) \in {"done", "refused", "rejected"}
      BY DEF Ruled
    <3> QED BY <2>3, <3>3, <3>4, SettledIs
  <2>5. Holds(s)
    BY <1>11, <2>2
  <2>6. PICK l \in DOMAIN Q : c = Q[l] /\ c.st = "awaiting"
    BY <1>4, <1>5, <2>2
  <2> HIDE DEF s, r, c
  <2>7. s.q \in Seq(Change) /\ \A j \in DOMAIN s.q : \E i \in DOMAIN Q : s.q[j] = Q[i]
    <3>1. s.q \in Seq(Change) /\ \A j \in DOMAIN s.q : s.q[j].id <= made
      BY <2>5 DEF Progress, Good
    <3>2. \A j \in DOMAIN s.q : s.q[j].id \in Nat
      <4>1. \A j \in DOMAIN s.q : s.q[j] \in Change
        BY <3>1
      <4>2. Ids \subseteq Nat
        BY BoundsAssumption DEF Ids
      <4> QED BY <4>1, <4>2 DEF Change
    <3>3. \A j \in DOMAIN s.q : s.q[j].id # made + 1
      BY <3>1, <3>2
    <3> QED BY <2>5, <3>1, <3>3 DEF Progress, FromTill, Q
  <2>8. c.id # made + 1
    BY <1>1, <2>3, <2>6 DEF Open
  <2>9. \A j \in DOMAIN s.q : s.q[j].op = "create" /\ c.op = "create" => s.q[j].id = c.id
    <3>1. \A i \in DOMAIN Q : i < l \/ i = l \/ l < i
      BY <1>1, <2>6
    <3>2. \A i \in DOMAIN Q : Q[i].op = "create" /\ c.op = "create" => Q[i].id = c.id
      BY <1>1, <2>6, <3>1 DEF Ordered
    <3> QED BY <2>7, <3>2
  <2>10. Progress(r, {}) /\ r.made = made
    BY <2>4, <2>5, <2>8, <2>9, DropProgress DEF Drops
  <2>11. ASSUME StillOwed PROVE Keeps(r)
    <3>1. Keeps(s)
      BY <2>5, <2>11
    <3>2. ASSUME owed # {} PROVE Last(s.q).id # c.id
      <4>1. s.q # <<>> /\ Last(s.q).st = "pending"
        BY <3>1, <3>2 DEF Keeps
      <4>2. Len(s.q) \in DOMAIN s.q
        BY <2>7, <4>1
      <4>3. PICK i \in DOMAIN Q : Last(s.q) = Q[i]
        BY <2>7, <4>2 DEF Last
      <4>4. i # l
        BY <2>6, <4>1, <4>3
      <4> QED BY <1>1, <2>6, <4>3, <4>4 DEF Distinct
    <3> QED BY <2>4, <2>7, <3>1, <3>2, DropKeeps
  <2> QED BY <2>10, <2>11 DEF r
<1>12. P(n)
  <2> DEFINE T == {k \in Nat : P(k)}
  <2> HIDE DEF P
  <2>1. 0 \in T /\ \A k \in Nat : k \in T => k + 1 \in T
    BY <1>10, <1>11
  <2> HIDE DEF T
  <2>2. n \in T
    BY <1>5, <2>1, Induction
  <2> QED BY <2>2 DEF T
<1>13. n <= n /\ n \in 0..n
  BY <1>5
<1>14. Holds(AllDecided(TillNow, over)) /\ AllDecided(TillNow, over) \in TillStates
  <2> HIDE DEF Holds
  <2> QED BY <1>9, <1>12, <1>13
<1> QED BY <1>14 DEF over

-----------------------------------------------------------------------------
(* The cloud at work on a request.                                         *)

(* Requests keep their rows, or end.                                       *)
RowsKept ==
    \A o \in Slots : handler'[o] # Absent =>
        /\ handler[o] # Absent /\ handler'[o].rows = handler[o].rows
        /\ handler'[o].from = handler[o].from
        /\ handler'[o].heard => handler[o].heard
(* A step on the change at hand: on to the next stage, or its answer.      *)
GoesOn(h) == \E step \in {"read", "write", "record"}, v \in Statuses \cup {"none"} :
                 (step = "record" => v # "none") /\ Goes(h, step, v)
Moves(h) == handler[h] # Absent /\ handler[h].step # "end" /\ (GoesOn(h) \/ \E a \in Answers : Says(h, a))

LEMMA NowIs ==
  ASSUME TypeOK, NEW h \in Slots, Handled(h), handler[h] # Absent, handler[h].step # "end"
  PROVE  /\ handler[h] \in Handler /\ Len(handler[h].said) \in Nat
         /\ Len(handler[h].said) + 1 \in DOMAIN handler[h].rows
         /\ Len(handler[h].said) + 1 <= Len(handler[h].rows)
         /\ Now(h) \in Change /\ Known(Now(h))
<1> DEFINE r == handler[h]
           n == Len(r.said)
<1>1. r \in Handler
  BY DEF TypeOK
<1>2. r.rows \in Seq(Change) /\ r.said \in Seq(Answers)
  BY <1>1 DEF Handler, Answers
<1>3. Len(r.said) <= Len(r.rows) /\ Len(r.said) # Len(r.rows) /\ \A k \in DOMAIN r.rows : Known(r.rows[k])
  BY DEF Handled
<1> HIDE DEF r
<1>4. n \in Nat /\ n + 1 \in DOMAIN r.rows /\ n + 1 <= Len(r.rows)
  BY <1>2, <1>3
<1>5. r.rows[n + 1] \in Change /\ Known(r.rows[n + 1])
  BY <1>2, <1>3, <1>4
<1> QED BY <1>1, <1>4, <1>5 DEF Now, r

GoneOn(r, step, v) == [r EXCEPT !.step = step, !.verdict = v]
SaidOn(r, step, v, said) == [r EXCEPT !.step = step, !.verdict = v, !.said = said]
LEMMA HandlerWith ==
  ASSUME NEW r \in Handler, NEW step, NEW v, NEW said
  PROVE  /\ GoneOn(r, step, v) =
               [from |-> r.from, heard |-> r.heard, rows |-> r.rows, step |-> step, verdict |-> v, said |-> r.said]
         /\ SaidOn(r, step, v, said) =
               [from |-> r.from, heard |-> r.heard, rows |-> r.rows, step |-> step, verdict |-> v, said |-> said]
<1> DEFINE r1 == [r EXCEPT !.step = step]
           r2 == [r1 EXCEPT !.verdict = v]
           r3 == [r2 EXCEPT !.said = said]
<1>1. r1 = [from |-> r.from, heard |-> r.heard, rows |-> r.rows, step |-> step, verdict |-> r.verdict, said |-> r.said]
  BY DEF Handler
<1> HIDE DEF r1
<1>2. r2 = [from |-> r.from, heard |-> r.heard, rows |-> r.rows, step |-> step, verdict |-> v, said |-> r.said]
  BY <1>1
<1> HIDE DEF r2
<1>3. r3 = [from |-> r.from, heard |-> r.heard, rows |-> r.rows, step |-> step, verdict |-> v, said |-> said]
  BY <1>2
<1> QED BY <1>2, <1>3 DEF r1, r2, GoneOn, SaidOn

LEMMA MovesIs ==
  ASSUME TypeOK, \A o \in Slots : Handled(o), NEW h \in Slots, Moves(h),
         UNCHANGED <<pass, made, edits>>
  PROVE  handler' \in [Slots -> Handler \cup {Absent}] /\ RowsKept /\ \A o \in Slots : Handled(o)'
<1> DEFINE r == handler[h]
           s == handler'[h]
           n == Len(r.said)
<1>1. /\ r \in Handler /\ n \in Nat /\ n + 1 <= Len(r.rows) /\ r # Absent /\ Handled(h) /\ r.step # "end"
      /\ handler \in [Slots -> Handler \cup {Absent}]
  BY NowIs DEF Moves, TypeOK
<1>2. /\ r.rows \in Seq(Change) /\ r.said \in Seq(Answers) /\ r.rows # <<>>
      /\ \A k \in DOMAIN r.rows : Known(r.rows[k])
  BY <1>1 DEF Handler, Answers, Handled
<1>3. ASSUME GoesOn(h)
      PROVE  /\ handler' = [handler EXCEPT ![h] = s] /\ s \in Handler
             /\ s.rows = r.rows /\ s.from = r.from /\ s.heard = r.heard /\ s.said = r.said
             /\ s.step # "end" /\ (s.step = "record" => s.verdict # "none")
  <2>1. PICK step \in {"read", "write", "record"}, v \in Statuses \cup {"none"} :
          (step = "record" => v # "none") /\ Goes(h, step, v)
    BY <1>3 DEF GoesOn
  <2> DEFINE x == GoneOn(r, step, v)
  <2>2. handler' = [handler EXCEPT ![h] = x] /\ s = x
    BY <1>1, <2>1 DEF Goes, GoneOn
  <2>3. x = [from |-> r.from, heard |-> r.heard, rows |-> r.rows, step |-> step, verdict |-> v, said |-> r.said]
    BY <1>1, HandlerWith
  <2> HIDE DEF x
  <2> QED BY <1>1, <2>1, <2>2, <2>3 DEF Handler
<1>4. ASSUME NEW a \in Answers, Says(h, a)
      PROVE  /\ handler' = [handler EXCEPT ![h] = s]
             /\ s # Absent =>
                   /\ s \in Handler /\ s.rows = r.rows /\ s.from = r.from /\ s.heard = r.heard
                   /\ s.said = Append(r.said, a)
                   /\ s.step = IF n + 1 = Len(r.rows) THEN "end" ELSE "look"
                   /\ n + 1 = Len(r.rows) => r.heard
  <2> DEFINE step == IF n + 1 = Len(r.rows) THEN "end" ELSE "look"
             said == Append(r.said, a)
             x == SaidOn(r, step, "none", said)
             y == IF n + 1 = Len(r.rows) /\ ~r.heard THEN Absent ELSE x
  <2>1. handler' = [handler EXCEPT ![h] = y] /\ s = y
    BY <1>1, <1>4 DEF Says, SaidOn
  <2>2. said \in Seq(Answers) /\ step \in {"look", "end"}
    BY <1>2, <1>4
  <2>3. s # Absent => s = x /\ (n + 1 = Len(r.rows) => r.heard)
    BY <2>1
  <2>4. handler' = [handler EXCEPT ![h] = s]
    BY <2>1
  <2> HIDE DEF step, said, s
  <2>5. x = [from |-> r.from, heard |-> r.heard, rows |-> r.rows, step |-> step, verdict |-> "none", said |-> said]
    <3>1. r \in Handler
      BY <1>1
    <3> HIDE DEF r
    <3> QED BY <3>1, HandlerWith
  <2> HIDE DEF x
  <2>6. x \in Handler /\ x.rows = r.rows /\ x.from = r.from /\ x.heard = r.heard /\ x.said = said /\ x.step = step
    BY <1>1, <2>2, <2>5 DEF Handler, Answers
  <2> QED BY <2>3, <2>4, <2>6 DEF said, step
<1>5. handler' = [handler EXCEPT ![h] = s] /\ s \in Handler \cup {Absent}
  BY <1>3, <1>4 DEF Moves
<1> HIDE DEF s, r
<1>6. \A o \in Slots : handler'[o] = IF o = h THEN s ELSE handler[o]
  BY <1>1, <1>5
<1>7. handler' \in [Slots -> Handler \cup {Absent}]
  BY <1>1, <1>5
<1>8. s # Absent => s.rows = r.rows /\ s.from = r.from /\ s.heard = r.heard
  BY <1>3, <1>4 DEF Moves
<1>9. RowsKept
  BY <1>1, <1>6, <1>8 DEF RowsKept, r
<1>10. \A o \in Slots : Awaited(o)' => Awaited(o)
  BY <1>9 DEF RowsKept, Awaited
<1>11. \A o \in Slots : o # h => Handled(o)'
  BY <1>6, <1>10 DEF Handled, Awaited, Known, Whole
<1>12. Handled(h)'
  <2>1. SUFFICES ASSUME s # Absent
                 PROVE  /\ s.rows # <<>> /\ Len(s.said) <= Len(s.rows)
                        /\ (s.step = "end") <=> (Len(s.said) = Len(s.rows))
                        /\ s.step = "end" => s.heard
                        /\ s.step = "record" => s.verdict # "none"
                        /\ \A k \in DOMAIN s.rows : Known(s.rows[k])
                        /\ Awaited(h) => /\ Distinct(s.rows) /\ pass["till"] = "posted"
                                         /\ \A o \in Slots : Awaited(o) => o = h
    BY <1>6, <1>10 DEF Handled, Known, Whole
  <2>2. s.rows = r.rows /\ s.heard = r.heard
    BY <1>8, <2>1
  <2>3. /\ Len(s.said) <= Len(s.rows)
        /\ (s.step = "end") <=> (Len(s.said) = Len(s.rows))
        /\ s.step = "end" => s.heard
        /\ s.step = "record" => s.verdict # "none"
    <3>1. CASE GoesOn(h)
      BY <1>1, <1>3, <3>1
    <3>2. ASSUME NEW a \in Answers, Says(h, a)
          PROVE  /\ Len(s.said) <= Len(s.rows)
                 /\ (s.step = "end") <=> (Len(s.said) = Len(s.rows))
                 /\ s.step = "end" => s.heard
                 /\ s.step = "record" => s.verdict # "none"
      BY <1>2, <1>4, <2>1, <3>2, <1>1
    <3> QED BY <3>1, <3>2 DEF Moves
  <2>4. Awaited(h) => /\ Distinct(r.rows) /\ pass["till"] = "posted" /\ \A o \in Slots : Awaited(o) => o = h
    BY <1>1 DEF Handled, r
  <2> QED BY <1>2, <2>2, <2>3, <2>4
<1> QED BY <1>7, <1>9, <1>11, <1>12

IndInv == ChangesInv /\ EditsInv

LEMMA WayKept ==
  ASSUME OnTheWay, RowsKept, UNCHANGED <<queue, made, edits>>
  PROVE  OnTheWay'
<1>1. SUFFICES ASSUME NEW h \in Slots, Awaited(h)', NEW j \in DOMAIN handler'[h].rows, NEW k \in DOMAIN queue["till"]
               PROVE  Fresh(handler[h].rows[j], queue["till"][k])
  BY DEF OnTheWay, Fresh, RowsKept, Awaited
<1>2. Awaited(h) /\ j \in DOMAIN handler[h].rows
  BY <1>1 DEF RowsKept, Awaited
<1> QED BY <1>2 DEF OnTheWay

(* A request now on record was so, or is of a change in a request's rows.  *)
OnRecord(i) ==
    request'[i].st # "none" =>
        \/ request[i].st # "none" /\ request'[i].op = request[i].op /\ request'[i].data = request[i].data
        \/ \E o \in Slots : handler[o] # Absent /\ \E j \in DOMAIN handler[o].rows :
              LET c == handler[o].rows[j] IN c.id = i /\ request'[i].op = c.op /\ request'[i].data = c.data

LEMMA SentKept ==
  ASSUME AsFirstSent, RowsKept, queue' = queue, \A i \in Ids : OnRecord(i), queue["till"] \in Seq(Change)
  PROVE  AsFirstSent'
<1>1. SUFFICES ASSUME NEW k \in DOMAIN queue["till"]
               PROVE  LET c == queue["till"][k] IN
                      /\ \A h \in Slots : handler'[h] # Absent =>
                            \A j \in DOMAIN handler'[h].rows :
                                handler'[h].rows[j].id = c.id => SameAs(handler'[h].rows[j], c)
                      /\ \A j \in DOMAIN queue["server"] : queue["server"][j].id = c.id => SameAs(queue["server"][j], c)
                      /\ request'[c.id].st # "none" => SameAs(request'[c.id], c)
  BY DEF AsFirstSent, SameAs
<1> DEFINE c == queue["till"][k]
<1>2. c \in Change
  BY <1>1
<1>3. /\ \A h \in Slots : handler[h] # Absent =>
            \A j \in DOMAIN handler[h].rows : handler[h].rows[j].id = c.id => SameAs(handler[h].rows[j], c)
      /\ \A j \in DOMAIN queue["server"] : queue["server"][j].id = c.id => SameAs(queue["server"][j], c)
      /\ request[c.id].st # "none" => SameAs(request[c.id], c)
  BY DEF AsFirstSent
<1>4. c.id \in Ids
  BY <1>2 DEF Change
<1> HIDE DEF c
<1>5. \A h \in Slots : handler'[h] # Absent =>
            \A j \in DOMAIN handler'[h].rows : handler'[h].rows[j].id = c.id => SameAs(handler'[h].rows[j], c)
  BY <1>3 DEF RowsKept
<1>6. ASSUME request'[c.id].st # "none" PROVE SameAs(request'[c.id], c)
  <2>1. CASE request[c.id].st # "none" /\ request'[c.id].op = request[c.id].op /\ request'[c.id].data = request[c.id].data
    BY <1>3, <2>1 DEF SameAs
  <2>2. ASSUME NEW o \in Slots, handler[o] # Absent, NEW j \in DOMAIN handler[o].rows, handler[o].rows[j].id = c.id,
               request'[c.id].op = handler[o].rows[j].op, request'[c.id].data = handler[o].rows[j].data
        PROVE  SameAs(request'[c.id], c)
    BY <1>3, <2>2 DEF SameAs
  <2> QED BY <1>4, <1>6, <2>1, <2>2 DEF OnRecord
<1> QED BY <1>3, <1>5, <1>6 DEF c

(* An answer to what is still owed leaves nothing owed; nor does a request *)
(* on record for it.                                                       *)
NotOwed(h, a) ==
    a # "later" /\ queue["till"] # <<>> /\ Now(h).id = Last(queue["till"]).id => owed' \cap Values(Now(h)) = {}
Tells(h) == GoesOn(h) \/ \E a \in Answers : Says(h, a) /\ NotOwed(h, a)
NotOnRecord(i) ==
    request'[i].st # "none" =>
        \/ request[i].st # "none" /\ request'[i].op = request[i].op /\ request'[i].data = request[i].data
        \/ owed' \cap Values(request'[i]) = {}

LEMMA OwedKept ==
  ASSUME TypeOK, \A o \in Slots : Handled(o), OnTheWay, StillOwed, NEW h \in Slots, Moves(h),
         UNCHANGED <<queue, pass, made, edits>>, owed' \subseteq owed,
         Tells(h), \A i \in Ids : NotOnRecord(i)
  PROVE  StillOwed'
<1> DEFINE q == queue["till"]
           c == Last(q)
<1>1. SUFFICES ASSUME owed' # {}
               PROVE  /\ q # <<>> /\ c.st = "pending" /\ owed' \subseteq Values(c)
                      /\ request'[c.id].st # "none" => owed' \cap Values(request'[c.id]) = {}
                      /\ \A o \in Slots : Awaited(o)' =>
                            \A j \in DOMAIN handler'[o].said : LET r == handler'[o].rows[j] IN
                                r.id = c.id /\ r.at = c.at => handler'[o].said[j] = "later"
  BY DEF StillOwed, Values, Keys
<1>2. /\ q # <<>> /\ c.st = "pending" /\ owed \subseteq Values(c)
      /\ request[c.id].st # "none" => owed \cap Values(request[c.id]) = {}
      /\ \A o \in Slots : Awaited(o) =>
            \A j \in DOMAIN handler[o].said : LET r == handler[o].rows[j] IN
                r.id = c.id /\ r.at = c.at => handler[o].said[j] = "later"
  BY <1>1 DEF StillOwed
<1>3. q \in Seq(Change)
  BY DEF TypeOK, Senders
<1>4. Len(q) \in DOMAIN q /\ c = q[Len(q)] /\ c.id \in Ids
  <2>1. Len(q) \in DOMAIN q
    <3> HIDE DEF q
    <3> QED BY <1>2, <1>3
  <2>2. q[Len(q)] \in Change
    BY <1>3, <2>1
  <2> QED BY <2>1, <2>2 DEF Last, Change
<1>5. /\ handler' \in [Slots -> Handler \cup {Absent}] /\ RowsKept
  BY MovesIs
<1>6. \A o \in Slots : o # h => handler'[o] = handler[o]
  BY DEF Moves, GoesOn, Goes, Says, TypeOK
<1>7. handler[h].said \in Seq(Answers) /\ Now(h) = handler[h].rows[Len(handler[h].said) + 1]
      /\ Len(handler[h].said) + 1 \in DOMAIN handler[h].rows
  BY NowIs DEF Moves, Now, Handler, Answers
<1> HIDE DEF q, c
<1>8. ASSUME NEW o \in Slots, Awaited(o)', NEW j \in DOMAIN handler'[o].said,
             handler'[o].rows[j].id = c.id, handler'[o].rows[j].at = c.at
      PROVE  handler'[o].said[j] = "later"
  <2>1. Awaited(o) /\ handler'[o].rows = handler[o].rows
    BY <1>5, <1>8 DEF RowsKept, Awaited
  <2>2. CASE j \in DOMAIN handler[o].said /\ handler'[o].said[j] = handler[o].said[j]
    BY <1>2, <1>8, <2>1, <2>2
  <2>3. CASE o = h
    <3>1. handler \in [Slots -> Handler \cup {Absent}] /\ handler[h] \in Handler
      BY NowIs DEF Moves, TypeOK
    <3>2. CASE GoesOn(h)
      <4>1. PICK step \in {"read", "write", "record"}, v \in Statuses \cup {"none"} : Goes(h, step, v)
        BY <3>2 DEF GoesOn
      <4>2. handler'[h] = GoneOn(handler[h], step, v)
        BY <3>1, <4>1 DEF Goes, GoneOn
      <4>3. handler'[h].said = handler[h].said
        BY <3>1, <4>2, HandlerWith
      <4> QED BY <1>8, <2>2, <2>3, <4>3
    <3>3. ASSUME NEW a \in Answers, Says(h, a), NotOwed(h, a) PROVE handler'[h].said[j] = "later"
      <4> DEFINE step == IF Len(handler[h].said) + 1 = Len(handler[h].rows) THEN "end" ELSE "look"
                 said == Append(handler[h].said, a)
                 n == Len(handler[h].said)
      <4>1. handler'[h] # Absent
        BY <1>8, <2>3 DEF Awaited
      <4>2. handler'[h] = SaidOn(handler[h], step, "none", said)
        BY <3>1, <3>3, <4>1 DEF Says, SaidOn
      <4>3. handler'[h].said = said
        <5> HIDE DEF step, said
        <5> QED BY <3>1, <4>2, HandlerWith
      <4>4. j \in 1..(n + 1) /\ n \in Nat /\ said[n + 1] = a /\ \A i \in 1..n : said[i] = handler[h].said[i]
        BY <1>7, <1>8, <2>3, <4>3
      <4>5. CASE j \in 1..n
        BY <1>7, <4>3, <4>4, <4>5, <2>2, <2>3
      <4>6. CASE j = n + 1
        <5>1. Now(h) = handler'[h].rows[j]
          BY <1>7, <2>1, <2>3, <4>6
        <5>2. Now(h).id = c.id /\ Now(h).at = c.at
          BY <1>8, <2>3, <5>1
        <5>3. Fresh(Now(h), c)
          BY <1>4, <1>7, <2>1, <2>3, <4>6 DEF OnTheWay, q
        <5>4. Values(Now(h)) = Values(c)
          BY <5>2, <5>3 DEF Fresh, Values, Keys
        <5>5. NotOwed(h, a)
          BY <3>3
        <5>6. a = "later"
          BY <1>1, <1>2, <5>2, <5>4, <5>5 DEF NotOwed, q, c
        <5> QED BY <4>3, <4>4, <4>6, <5>6
      <4> QED BY <4>4, <4>5, <4>6
    <3> QED BY <2>3, <3>2, <3>3 DEF Tells
  <2> QED BY <1>6, <1>8, <2>2, <2>3
<1>9. request'[c.id].st # "none" => owed' \cap Values(request'[c.id]) = {}
  <2>1. NotOnRecord(c.id)
    BY <1>4
  <2>2. CASE request[c.id].st # "none" /\ request'[c.id].op = request[c.id].op /\ request'[c.id].data = request[c.id].data
    BY <2>2, <1>2 DEF Values, Keys
  <2> QED BY <2>1, <2>2 DEF NotOnRecord
<1> QED BY <1>2, <1>8, <1>9

(* The types of what the cloud changes.                                    *)
CloudKinds ==
    /\ cloud \in Things /\ news \in BOOLEAN /\ faults \in 0..MaxFaults
    /\ request \in [Ids -> [st: Statuses \cup {"none"}, op: Ops \cup {"none"}, data: Data]]
    /\ owed \subseteq Edit /\ shown \subseteq Fields \X Vals /\ odd \subseteq OddThings
    /\ \A i \in Ids : request[i].st # "none" => i <= made /\ Whole(request[i])

LEMMA TillKept ==
  ASSUME Good(TillNow), UNCHANGED <<queue, told, made, here, edits>>
  PROVE  Good(TillNow)'
BY DEF TillNow, Good

LEMMA CloudStep ==
  ASSUME IndInv, NEW h \in Slots, Moves(h), AtCloud, CloudKinds', odd \subseteq odd', owed' \subseteq owed,
         \A i \in Ids : OnRecord(i),
         "mixed" \notin odd => Tells(h) /\ \A i \in Ids : NotOnRecord(i)
  PROVE  IndInv'
<1>1. UNCHANGED <<server, here, queue, told, made, known, edits, pass, fetched, webs>>
  BY DEF AtCloud, till
<1>2. Types /\ TypeOK /\ Good(TillNow) /\ OnTheWay /\ EditsInv /\ \A o \in Slots : Handled(o)
  BY DEF IndInv, ChangesInv, Types
<1>3. handler' \in [Slots -> Handler \cup {Absent}] /\ RowsKept /\ \A o \in Slots : Handled(o)'
  BY <1>1, <1>2, MovesIs
<1>4. TypeOK'
  <2> HIDE DEF Handler, Change, Edit, OddThings, Thing, Data
  <2> QED BY <1>1, <1>2, <1>3 DEF TypeOK, CloudKinds, Things
<1>5. Types'
  BY <1>1, <1>2, <1>3, <1>4 DEF Types, CloudKinds, Known, Whole
<1>6. Good(TillNow)'
  BY <1>1, <1>2, TillKept
<1>7. OnTheWay'
  BY <1>1, <1>2, <1>3, WayKept
<1>8. queue["till"] \in Seq(Change)
  BY <1>2 DEF TypeOK, Senders
<1>9. EditsInv'
  <2>1. SUFFICES ASSUME "mixed" \notin odd' PROVE AsFirstSent' /\ StillOwed'
    BY DEF EditsInv
  <2>2. "mixed" \notin odd /\ AsFirstSent /\ StillOwed
    BY <1>2, <2>1 DEF EditsInv
  <2>3. AsFirstSent'
    BY <1>1, <1>3, <1>8, <2>2, SentKept
  <2>4. StillOwed'
    BY <1>1, <1>2, <2>2, OwedKept
  <2> QED BY <2>3, <2>4
<1> QED BY <1>5, <1>6, <1>7, <1>9 DEF IndInv, ChangesInv

LEMMA KindsNow ==
  ASSUME IndInv
  PROVE  /\ CloudKinds /\ TypeOK /\ Good(TillNow) /\ made \in Nat /\ edits \in 0..MaxEdits
         /\ \A o \in Slots : Handled(o)
<1>1. Types /\ TypeOK /\ Good(TillNow)
  BY DEF IndInv, ChangesInv, Types
<1>2. made \in Nat /\ edits \in 0..MaxEdits
  BY <1>1 DEF TypeOK
<1>3. CloudKinds
  <2> HIDE DEF Handler, Change, Edit, OddThings, Thing, Data
  <2> QED BY <1>1 DEF TypeOK, Types, CloudKinds, Things
<1> QED BY <1>1, <1>2, <1>3 DEF Types

LEMMA FailsIs ==
  ASSUME CloudKinds, NEW f, Fails(f)
  PROVE  faults' \in 0..MaxFaults
BY BoundsAssumption DEF CloudKinds, Fails

LEMMA AtIs ==
  ASSUME IndInv, NEW h \in Slots, NEW step \in {"look", "read", "write", "record"}, At(h, step)
  PROVE  /\ handler[h] # Absent /\ handler[h].step # "end" /\ handler[h] \in Handler
         /\ Now(h) \in Change /\ Known(Now(h)) /\ Now(h).id \in Ids
         /\ \E j \in DOMAIN handler[h].rows : Now(h) = handler[h].rows[j]
<1>1. handler[h] # Absent /\ handler[h].step # "end"
  BY DEF At
<1>2. TypeOK /\ Handled(h)
  BY KindsNow
<1>3. handler[h] \in Handler /\ Now(h) \in Change /\ Known(Now(h)) /\ \E j \in DOMAIN handler[h].rows : Now(h) = handler[h].rows[j]
  BY <1>1, <1>2, NowIs DEF Now
<1>4. Now(h).id \in Ids
  BY <1>3 DEF Change
<1> QED BY <1>1, <1>3, <1>4

LEMMA LookKeeps ==
  ASSUME IndInv, NEW h \in Slots, Look(h)
  PROVE  IndInv'
<1> DEFINE i == Now(h).id
<1>1. /\ handler[h] # Absent /\ handler[h].step # "end" /\ Now(h).id \in Ids
      /\ \E j \in DOMAIN handler[h].rows : Now(h) = handler[h].rows[j]
  BY AtIs DEF Look
<1>2. CloudKinds /\ AtCloud /\ cloud' = cloud /\ request' = request /\ news' = news /\ owed' = owed
      /\ shown' = shown /\ made' = made
  BY KindsNow DEF Look, AtCloud, till
<1>3. \A x \in Ids : OnRecord(x) /\ NotOnRecord(x)
  BY <1>2 DEF OnRecord, NotOnRecord
<1>4. ASSUME faults' \in 0..MaxFaults, odd' \subseteq OddThings PROVE CloudKinds'
  BY <1>2, <1>4 DEF CloudKinds, Whole
<1>5. CASE request[i].st # "none"
  <2>1. Says(h, request[i].st) /\ odd' = odd /\ faults' = faults
    BY <1>5 DEF Look
  <2>2. request[i].st \in Answers
    BY <1>1, <1>2, <1>5 DEF CloudKinds, Answers
  <2>3. Moves(h)
    BY <1>1, <2>1, <2>2 DEF Moves
  <2>4. CloudKinds'
    BY <1>2, <1>4, <2>1 DEF CloudKinds
  <2>5. ASSUME "mixed" \notin odd PROVE Tells(h)
    <3>1. SUFFICES ASSUME queue["till"] # <<>>, i = Last(queue["till"]).id, owed # {}
                   PROVE  owed \cap Values(Now(h)) = {}
      BY <1>2, <2>1, <2>2 DEF Tells, NotOwed
    <3>2. StillOwed /\ AsFirstSent
      BY <2>5 DEF IndInv, EditsInv
    <3>3. Len(queue["till"]) \in DOMAIN queue["till"]
      BY KindsNow, <3>1 DEF TypeOK, Senders
    <3>4. SameAs(request[i], Last(queue["till"])) /\ SameAs(Now(h), Last(queue["till"]))
      BY <1>1, <1>5, <3>1, <3>2, <3>3 DEF AsFirstSent, Last
    <3>5. Values(request[i]) = Values(Now(h))
      BY <3>4 DEF SameAs, Values, Keys
    <3>6. owed \cap Values(request[i]) = {}
      BY <1>5, <3>1, <3>2 DEF StillOwed
    <3> QED BY <3>5, <3>6
  <2> QED BY <1>2, <1>3, <2>1, <2>3, <2>4, <2>5, CloudStep
<1>6. CASE request[i].st = "none"
  <2>1. \/ \E step \in {"read", "record"}, v \in {"none", "refused", "awaiting"} :
              (step = "record" => v # "none") /\ Goes(h, step, v) /\ faults' = faults
        \/ Fails("later") /\ Says(h, "later")
    BY <1>6 DEF Look
  <2>2. GoesOn(h) \/ Says(h, "later")
    BY <2>1 DEF GoesOn, Statuses
  <2>3. "later" \in Answers
    BY DEF Answers
  <2>4. Moves(h) /\ Tells(h)
    BY <1>1, <2>2, <2>3 DEF Moves, Tells, NotOwed
  <2>5. odd \subseteq odd' /\ odd' \subseteq odd \cup {"twice", "held"}
    BY <1>6 DEF Look
  <2>6. faults' \in 0..MaxFaults
    BY <1>2, <2>1, FailsIs DEF CloudKinds
  <2>7. odd' \subseteq OddThings
    BY <1>2, <2>5 DEF CloudKinds, OddThings
  <2>8. CloudKinds'
    BY <1>4, <2>6, <2>7
  <2> QED BY <1>2, <1>3, <2>4, <2>5, <2>8, CloudStep
<1> QED BY <1>5, <1>6

LEMMA ReadKeeps ==
  ASSUME IndInv, NEW h \in Slots, Read(h)
  PROVE  IndInv'
<1>1. /\ handler[h] # Absent /\ handler[h].step # "end" /\ Now(h) \in Change
  BY AtIs DEF Read
<1>2. CloudKinds /\ AtCloud /\ UNCHANGED <<cloud, request, news, faults, owed, shown, odd, made>>
  BY KindsNow DEF Read, AtCloud, till
<1>3. \A x \in Ids : OnRecord(x) /\ NotOnRecord(x)
  BY <1>2 DEF OnRecord, NotOnRecord
<1>4. CloudKinds'
  BY <1>2 DEF CloudKinds, Whole
<1>5. Judged(Now(h)) \in {"applied", "identical", "refused", "awaiting"}
  <2>1. Now(h).op \in {"create", "update", "delete"}
    BY <1>1 DEF Change, Ops
  <2>2. cloud = Absent => Judged(Now(h)) \in {"applied", "identical", "refused"}
    BY <2>1 DEF Judged
  <2>3. judgeUpdate(Now(h)) \in {"applied", "identical", "awaiting"} /\ judgeCreate(Now(h)) \in {"identical", "awaiting"}
    BY DEF judgeUpdate, judgeCreate
  <2>4. cloud # Absent => Judged(Now(h)) \in {"applied", "identical", "awaiting"}
    BY <2>1, <2>3 DEF Judged
  <2> QED BY <2>2, <2>4
<1>6. GoesOn(h)
  BY <1>5 DEF Read, GoesOn, Statuses
<1>7. Moves(h) /\ Tells(h)
  BY <1>1, <1>6 DEF Moves, Tells
<1> QED BY <1>2, <1>3, <1>4, <1>7, CloudStep

LEMMA WrittenIs ==
  ASSUME NEW c, c.data \in Data, Whole(c), NEW row \in Things
  PROVE  Written(c, row) \in Things
<1>1. row # Absent => Over(c.data, row) \in Thing
  BY OverIs DEF Things
<1>2. c.op = "create" => c.data \in Thing
  BY DEF Whole
<1> QED BY <1>1, <1>2 DEF Written, Things

LEMMA WriteKeeps ==
  ASSUME IndInv, NEW h \in Slots, Write(h)
  PROVE  IndInv'
<1> DEFINE c == Now(h)
<1>1. /\ handler[h] # Absent /\ handler[h].step # "end" /\ c \in Change /\ Known(c)
  BY AtIs DEF Write
<1>2. CloudKinds /\ AtCloud /\ UNCHANGED <<request, shown, made>>
  BY KindsNow DEF Write, AtCloud, till
<1>3. {"later", "refused"} \subseteq Answers /\ "raced" \in OddThings
  BY DEF Answers, Statuses, OddThings
<1>4. \A x \in Ids : OnRecord(x) /\ NotOnRecord(x)
  BY <1>2 DEF OnRecord, NotOnRecord
<1>5. CASE c.op = "create" /\ cloud # Absent
  <2>1. Says(h, "refused") /\ owed' = owed \ Values(c) /\ UNCHANGED <<cloud, news, faults, odd>>
    BY <1>5 DEF Write
  <2>2. CloudKinds'
    BY <1>2, <2>1 DEF CloudKinds, Whole
  <2>3. NotOwed(h, "refused") /\ owed' \subseteq owed
    BY <2>1 DEF NotOwed
  <2>4. Moves(h) /\ Tells(h)
    BY <1>1, <1>3, <2>1, <2>3 DEF Moves, Tells
  <2> QED BY <1>2, <1>4, <2>1, <2>2, <2>3, <2>4, CloudStep
<1>6. CASE ~(c.op = "create" /\ cloud # Absent)
  <2>1. /\ Becomes(Written(c, cloud)) /\ owed' = owed
        /\ \/ Goes(h, "record", "applied") /\ odd' = odd \cup RacedBy(Slots \ {h}) /\ UNCHANGED faults
           \/ Fails("halfway") /\ Says(h, "later") /\ odd' = odd \cup RacedBy(Slots \ {h})
    BY <1>6 DEF Write
  <2>2. Written(c, cloud) \in Things
    BY <1>1, <1>2, WrittenIs DEF Change, Known, CloudKinds
  <2>3. faults' \in 0..MaxFaults
    BY <1>2, <2>1, FailsIs DEF CloudKinds
  <2>4. odd \subseteq odd' /\ odd' \subseteq OddThings
    BY <1>2, <1>3, <2>1 DEF RacedBy, CloudKinds
  <2>5. cloud' \in Things /\ news' \in BOOLEAN
    BY <2>1, <2>2 DEF Becomes
  <2>6. CloudKinds'
    BY <1>2, <2>1, <2>3, <2>4, <2>5 DEF CloudKinds, Whole
  <2>7. GoesOn(h) \/ Says(h, "later")
    BY <2>1 DEF GoesOn, Statuses
  <2>8. Moves(h) /\ Tells(h)
    BY <1>1, <1>3, <2>7 DEF Moves, Tells, NotOwed
  <2> QED BY <1>2, <1>4, <2>1, <2>4, <2>6, <2>8, CloudStep
<1> QED BY <1>5, <1>6

LEMMA RecordKeeps ==
  ASSUME IndInv, NEW h \in Slots, Record(h)
  PROVE  IndInv'
<1> DEFINE c == Now(h)
           v == handler[h].verdict
           entry == [st |-> v, op |-> c.op, data |-> c.data]
           kept == [request EXCEPT ![c.id] = IF request[c.id].st = "none" THEN entry ELSE request[c.id]]
<1>1. /\ handler[h] # Absent /\ handler[h].step # "end" /\ handler[h] \in Handler
      /\ c \in Change /\ Known(c) /\ c.id \in Ids
      /\ \E j \in DOMAIN handler[h].rows : c = handler[h].rows[j]
  BY AtIs DEF Record
<1>2. CloudKinds /\ AtCloud /\ UNCHANGED <<cloud, news, shown, odd, made>> /\ Handled(h)
  BY KindsNow DEF Record, AtCloud, till
<1>3. v \in Statuses
  BY <1>1, <1>2 DEF Record, At, Handled, Handler
<1>4. owed' = owed \ Values(c) /\ Says(h, v) /\ (request' = kept \/ request' = request)
      /\ (faults' = faults \/ Fails("unrecorded"))
  BY DEF Record
<1>5. \A i \in Ids : request'[i] = request[i] \/ (i = c.id /\ request'[i] = entry)
  BY <1>1, <1>2, <1>4 DEF CloudKinds
<1>6. entry \in [st: Statuses \cup {"none"}, op: Ops \cup {"none"}, data: Data] /\ Whole(entry) /\ c.id <= made
      /\ entry.op = c.op /\ entry.data = c.data
  BY <1>1, <1>3 DEF Change, Known, Whole
<1>7. request' \in [Ids -> [st: Statuses \cup {"none"}, op: Ops \cup {"none"}, data: Data]]
  <2> HIDE DEF entry, c
  <2> QED BY <1>1, <1>2, <1>4, <1>6 DEF CloudKinds
<1>8. faults' \in 0..MaxFaults
  BY <1>2, <1>4, FailsIs DEF CloudKinds
<1> HIDE DEF entry, kept, v
<1>9. \A i \in Ids : request'[i].st # "none" => i <= made' /\ Whole(request'[i])
  BY <1>2, <1>5, <1>6 DEF CloudKinds
<1>10. CloudKinds'
  BY <1>2, <1>4, <1>7, <1>8, <1>9 DEF CloudKinds, Whole
<1>11. \A i \in Ids : OnRecord(i)
  <2>1. SUFFICES ASSUME NEW i \in Ids PROVE OnRecord(i)
    OBVIOUS
  <2>2. CASE request'[i] = request[i]
    BY <2>2 DEF OnRecord
  <2>3. CASE i = c.id /\ request'[i] = entry
    BY <1>1, <1>6, <2>3 DEF OnRecord
  <2> QED BY <1>5, <2>2, <2>3
<1>12. \A i \in Ids : NotOnRecord(i)
  <2>1. SUFFICES ASSUME NEW i \in Ids PROVE NotOnRecord(i)
    OBVIOUS
  <2>2. CASE request'[i] = request[i]
    BY <2>2 DEF NotOnRecord
  <2>3. CASE i = c.id /\ request'[i] = entry
    BY <1>6, <2>3, <1>4 DEF Values, Keys, NotOnRecord
  <2> QED BY <1>5, <2>2, <2>3
<1>13. v \in Answers /\ NotOwed(h, v) /\ owed' \subseteq owed
  BY <1>3, <1>4 DEF NotOwed, Answers
<1>14. Moves(h) /\ Tells(h)
  BY <1>1, <1>4, <1>13 DEF Moves, Tells
<1> QED BY <1>2, <1>10, <1>11, <1>12, <1>13, <1>14, CloudStep

(* Nothing of a request or of what waits changes.                          *)
LEMMA AwayStep ==
  ASSUME IndInv, UNCHANGED <<server, here, queue, told, made, known, edits, pass, handler, owed>>,
         CloudKinds', odd \subseteq odd', webs' \in 0..MaxWeb, fetched' \in Seq(Things), Len(fetched') <= 1,
         \A i \in Ids : /\ request'[i].op = request[i].op /\ request'[i].data = request[i].data
                        /\ request'[i].st # "none" => request[i].st # "none"
  PROVE  IndInv'
<1>1. Types /\ TypeOK /\ Good(TillNow) /\ OnTheWay /\ EditsInv /\ \A o \in Slots : Handled(o)
  BY DEF IndInv, ChangesInv, Types
<1>2. TypeOK'
  <2> HIDE DEF Handler, Change, Edit, OddThings, Thing, Data
  <2> QED BY <1>1 DEF TypeOK, CloudKinds, Things
<1>3. RowsKept
  BY DEF RowsKept
<1>4. \A o \in Slots : Handled(o)'
  BY <1>1 DEF Handled, Awaited, Known, Whole
<1>5. Types'
  BY <1>1, <1>2, <1>4 DEF Types, CloudKinds, Known, Whole
<1>6. Good(TillNow)'
  BY <1>1, TillKept
<1>7. OnTheWay'
  BY <1>1, <1>3, WayKept
<1>8. queue["till"] \in Seq(Change)
  BY <1>1 DEF TypeOK, Senders
<1>9. EditsInv'
  <2>1. SUFFICES ASSUME "mixed" \notin odd' PROVE AsFirstSent' /\ StillOwed'
    BY DEF EditsInv
  <2>2. "mixed" \notin odd /\ AsFirstSent /\ StillOwed
    BY <1>1, <2>1 DEF EditsInv
  <2>3. \A i \in Ids : OnRecord(i)
    BY DEF OnRecord
  <2>4. AsFirstSent'
    BY <1>3, <1>8, <2>2, <2>3, SentKept
  <2>5. StillOwed'
    <3>1. owed # {} => Last(queue["till"]).id \in Ids
      <4>1. ASSUME owed # {} PROVE Last(queue["till"]) \in Change
        <5> DEFINE q == queue["till"]
        <5>1. q # <<>> /\ q \in Seq(Change)
          BY <1>8, <2>2, <4>1 DEF StillOwed
        <5> HIDE DEF q
        <5>2. q[Len(q)] \in Change
          BY <5>1
        <5> QED BY <5>2 DEF Last, q
      <4> QED BY <4>1 DEF Change
    <3>2. \A i \in Ids : Values(request'[i]) = Values(request[i])
      BY DEF Values, Keys
    <3>3. \A o \in Slots : Awaited(o)' => Awaited(o)
      BY DEF Awaited
    <3> HIDE DEF Values
    <3> QED BY <2>2, <3>1, <3>2, <3>3 DEF StillOwed
  <2> QED BY <2>4, <2>5
<1> QED BY <1>5, <1>6, <1>7, <1>9 DEF IndInv, ChangesInv

LEMMA PulledNow ==
  ASSUME IndInv
  PROVE  webs \in 0..MaxWeb /\ fetched \in Seq(Things) /\ Len(fetched) <= 1 /\ Absent \in Things /\ here \in Things
<1>1. TypeOK
  BY KindsNow
<1>2. webs \in 0..MaxWeb /\ fetched \in Seq(Things) /\ Len(fetched) <= 1 /\ here \in Things
  BY <1>1 DEF TypeOK, Things
<1> QED BY <1>2 DEF Things

LEMMA DecideKeeps ==
  ASSUME IndInv, NEW i \in Ids, NEW approve \in BOOLEAN, Decide(i, approve)
  PROVE  IndInv'
<1> DEFINE st == IF approve THEN "approved" ELSE "rejected"
<1>1. CloudKinds /\ request[i].st = "awaiting" /\ request' = [request EXCEPT ![i].st = st]
      /\ UNCHANGED <<server, here, queue, told, made, known, edits, pass, fetched, webs, handler, faults, owed, shown>>
  BY KindsNow, PulledNow DEF Decide, AtCloud, till
<1>2. st \in Statuses /\ st # "none"
  BY DEF Statuses
<1> HIDE DEF st
<1>3. /\ request' \in [Ids -> [st: Statuses \cup {"none"}, op: Ops \cup {"none"}, data: Data]]
      /\ \A x \in Ids : /\ request'[x].op = request[x].op /\ request'[x].data = request[x].data
                        /\ request'[x].st # "none" => request[x].st # "none"
  BY <1>1, <1>2 DEF CloudKinds
<1>4. cloud' \in Things /\ news' \in BOOLEAN
  <2>1. request[i].data \in Data /\ Whole(request[i])
    BY <1>1 DEF CloudKinds
  <2>2. Written(request[i], cloud) \in Things
    BY <1>1, <2>1, WrittenIs DEF CloudKinds
  <2> QED BY <1>1, <2>2 DEF Decide, Becomes, CloudKinds
<1>5. odd \subseteq odd' /\ odd' \subseteq OddThings
  BY <1>1 DEF Decide, RacedBy, CloudKinds, OddThings
<1>6. \A x \in Ids : request'[x].st # "none" => x <= made' /\ Whole(request'[x])
  BY <1>1, <1>3 DEF CloudKinds, Whole
<1>7. CloudKinds'
  BY <1>1, <1>3, <1>4, <1>5, <1>6 DEF CloudKinds, Whole
<1>8. webs' \in 0..MaxWeb /\ fetched' \in Seq(Things) /\ Len(fetched') <= 1
  BY <1>1, PulledNow
<1> QED BY <1>1, <1>3, <1>5, <1>7, <1>8, AwayStep

LEMMA WebKeeps ==
  ASSUME IndInv, Web, NEW row \in Things, Becomes(row)
  PROVE  IndInv'
<1>1. CloudKinds /\ UNCHANGED <<server, here, queue, told, made, known, edits, pass, fetched, request, handler, faults, owed, shown>>
      /\ odd' = odd \cup RacedBy(Slots) /\ cloud' = row /\ news' = (news \/ row # cloud)
  BY KindsNow DEF Web, till, Becomes
<1>2. odd \subseteq odd' /\ odd' \subseteq OddThings
  BY <1>1 DEF RacedBy, CloudKinds, OddThings
<1>3. CloudKinds'
  BY <1>1, <1>2 DEF CloudKinds, Whole
<1>4. webs' \in 0..MaxWeb
  BY PulledNow, BoundsAssumption DEF Web
<1>5. fetched' \in Seq(Things) /\ Len(fetched') <= 1
  BY <1>1, PulledNow
<1> QED BY <1>1, <1>2, <1>3, <1>4, <1>5, AwayStep

LEMMA FetchKeeps ==
  ASSUME IndInv, Fetch
  PROVE  IndInv'
<1>1. CloudKinds /\ fetched' = <<cloud>> /\ news' = FALSE
      /\ UNCHANGED <<server, here, queue, told, made, known, edits, pass, cloud, request, handler,
                     webs, faults, owed, shown, odd>>
  BY KindsNow DEF Fetch
<1>2. CloudKinds'
  BY <1>1 DEF CloudKinds, Whole
<1>3. fetched' \in Seq(Things) /\ Len(fetched') <= 1
  BY <1>1 DEF CloudKinds
<1>4. webs' \in 0..MaxWeb
  BY <1>1, PulledNow
<1> QED BY <1>1, <1>2, <1>3, <1>4, AwayStep

(* A pull puts back what waits.                                            *)
LEMMA StoreKeeps ==
  ASSUME IndInv, Store
  PROVE  IndInv'
<1> DEFINE q == queue["till"]
           o == overlayLocalChanges(fetched[1])
<1>1. Types /\ TypeOK /\ Good(TillNow) /\ OnTheWay /\ EditsInv /\ CloudKinds /\ \A x \in Slots : Handled(x)
  BY KindsNow DEF IndInv, ChangesInv, Types
<1>2. /\ fetched' = <<>> /\ here' = o /\ shown' = shown \cup Pairs(here')
      /\ UNCHANGED <<server, queue, told, made, known, edits, pass, cloud, request, handler, news, webs, faults, owed>>
      /\ odd' \in {odd, odd \cup {"stale"}}
  BY DEF Store, cloudside
<1>3. q \in Seq(Change) /\ \A k \in DOMAIN q : Whole(q[k])
  BY <1>1 DEF Good, TillNow
<1>4. fetched[1] \in Things
  BY PulledNow DEF Store
<1>5. q \in Seq(Pushed)
  <2>1. \A k \in DOMAIN q : q[k] \in Open
    BY <1>3, ChangeIsOpen
  <2> HIDE DEF q
  <2> QED BY <1>3, <2>1 DEF Pushed
<1>6. /\ o \in Things
      /\ q # <<>> => \E x \in Things : o = Lay(Last(q), x)
  BY <1>4, <1>5, OverlayIs
<1>7. ASSUME q # <<>> PROVE Lay(Last(q), o) = o /\ (Last(q).op = "delete" => o = Absent)
  <2>1. Len(q) \in DOMAIN q
    <3> HIDE DEF q
    <3> QED BY <1>3, <1>7
  <2>2. Last(q) \in Change /\ Whole(Last(q))
    BY <1>3, <2>1 DEF Last
  <2>3. Last(q).op \in Ops /\ Last(q).data \in Data
    BY <2>2 DEF Change
  <2>4. PICK x \in Things : o = Lay(Last(q), x)
    BY <1>6, <1>7
  <2> HIDE DEF q, o
  <2> QED BY <2>2, <2>3, <2>4, LayIs
<1>8. Pairs(here') \subseteq Fields \X Vals
  BY <1>2, <1>6 DEF Things, Thing, Pairs
<1> HIDE DEF o
<1>9. CloudKinds'
  BY <1>1, <1>2, <1>8 DEF CloudKinds, Whole, OddThings
<1>10. TypeOK'
  <2>1. here' \in Thing \cup {Absent}
    BY <1>2, <1>6 DEF Things
  <2>2. fetched' \in Seq(Thing \cup {Absent}) /\ Len(fetched') <= 1
    BY <1>2
  <2> HIDE DEF Handler, Change, Edit, OddThings, Thing, Data
  <2> QED BY <1>1, <1>2, <1>9, <2>1, <2>2 DEF TypeOK, CloudKinds, Things
<1>11. Types'
  BY <1>1, <1>2, <1>9, <1>10 DEF Types, CloudKinds, Known, Whole, Handled, Awaited
<1>12. Good(TillNow)'
  <2>1. \A k \in DOMAIN q : q[k].op = "delete" => here' = Absent
    <3>1. SUFFICES ASSUME NEW k \in DOMAIN q, q[k].op = "delete" PROVE here' = Absent
      OBVIOUS
    <3>2. Len(q) \in DOMAIN q /\ q # <<>> /\ (k = Len(q) \/ k < Len(q))
      <4> HIDE DEF q
      <4> QED BY <1>3, <3>1
    <3>3. Ordered(q, made)
      BY <1>1 DEF Good, TillNow
    <3>4. k = Len(q)
      BY <3>1, <3>2, <3>3 DEF Ordered
    <3> QED BY <1>2, <1>7, <3>1, <3>2, <3>4 DEF Last
  <2>2. Shows(q, made, here')
    BY <1>2, <1>7 DEF Shows
  <2> DEFINE s == [q |-> q, told |-> told, made |-> made, here |-> here']
  <2>3. Good(s)
    BY <1>1, <1>2, <1>6, <2>1, <2>2 DEF Good, TillNow, Things
  <2>4. TillNow' = s
    BY <1>2 DEF TillNow
  <2> HIDE DEF s
  <2> QED BY <1>2, <2>3, <2>4 DEF Good
<1>13. RowsKept
  BY <1>2 DEF RowsKept
<1>14. OnTheWay'
  BY <1>1, <1>2, <1>13, WayKept
<1>15. EditsInv'
  BY <1>1, <1>2 DEF EditsInv, AsFirstSent, StillOwed, SameAs, Values, Keys, Awaited
<1> QED BY <1>11, <1>12, <1>14, <1>15 DEF IndInv, ChangesInv

(* Requests end, or are given up by their senders.                         *)
LeftAlone ==
    \A o \in Slots : handler'[o] # Absent =>
        /\ handler[o] # Absent /\ handler'[o].rows = handler[o].rows /\ handler'[o].said = handler[o].said
        /\ handler'[o].from = handler[o].from /\ handler'[o].step = handler[o].step
        /\ handler'[o].verdict = handler[o].verdict
        /\ handler'[o].heard => handler[o].heard
        /\ handler[o].step = "end" => handler'[o].heard = handler[o].heard

LEMMA PassStep ==
  ASSUME IndInv,
         UNCHANGED <<server, here, queue, told, made, known, edits, fetched, cloud, request, news, webs, owed, shown, odd>>,
         faults' \in 0..MaxFaults, pass' \in [Senders -> {"idle", "handed", "posted"}],
         handler' \in [Slots -> Handler \cup {Absent}], LeftAlone,
         \A o \in Slots : Awaited(o)' => pass'["till"] = pass["till"]
  PROVE  IndInv'
<1>1. Types /\ TypeOK /\ Good(TillNow) /\ OnTheWay /\ EditsInv /\ CloudKinds /\ \A x \in Slots : Handled(x)
  BY KindsNow DEF IndInv, ChangesInv, Types
<1>2. TypeOK'
  <2> HIDE DEF Handler, Change, Edit, OddThings, Thing, Data
  <2> QED BY <1>1 DEF TypeOK, CloudKinds, Things
<1>3. RowsKept /\ \A o \in Slots : Awaited(o)' => Awaited(o)
  BY DEF RowsKept, LeftAlone, Awaited
<1>4. ASSUME NEW o \in Slots PROVE Handled(o)'
  <2>1. SUFFICES ASSUME handler'[o] # Absent
                 PROVE  /\ handler'[o].rows # <<>> /\ Len(handler'[o].said) <= Len(handler'[o].rows)
                        /\ (handler'[o].step = "end") <=> (Len(handler'[o].said) = Len(handler'[o].rows))
                        /\ handler'[o].step = "end" => handler'[o].heard
                        /\ handler'[o].step = "record" => handler'[o].verdict # "none"
                        /\ \A k \in DOMAIN handler'[o].rows : Known(handler'[o].rows[k])
                        /\ Awaited(o)' => /\ Distinct(handler'[o].rows) /\ pass'["till"] = "posted"
                                          /\ \A x \in Slots : Awaited(x)' => x = o
    BY DEF Handled, Known, Whole
  <2>2. /\ handler'[o].rows = handler[o].rows /\ handler'[o].said = handler[o].said /\ handler[o] # Absent
        /\ handler'[o].step = handler[o].step /\ handler'[o].verdict = handler[o].verdict
        /\ handler[o].step = "end" => handler'[o].heard = handler[o].heard
    BY <2>1 DEF LeftAlone
  <2>3. Awaited(o)' => /\ Distinct(handler'[o].rows) /\ pass'["till"] = "posted"
                       /\ \A x \in Slots : Awaited(x)' => x = o
    BY <1>1, <1>3, <2>2 DEF Handled
  <2> QED BY <1>1, <2>2, <2>3 DEF Handled
<1>5. Types'
  BY <1>1, <1>2, <1>4 DEF Types, Known, Whole
<1>6. Good(TillNow)'
  BY <1>1, TillKept
<1>7. OnTheWay'
  BY <1>1, <1>3, WayKept
<1>8. queue["till"] \in Seq(Change)
  BY <1>1 DEF TypeOK, Senders
<1>9. EditsInv'
  <2>1. SUFFICES ASSUME "mixed" \notin odd' PROVE AsFirstSent' /\ StillOwed'
    BY DEF EditsInv
  <2>2. "mixed" \notin odd /\ AsFirstSent /\ StillOwed
    BY <1>1, <2>1 DEF EditsInv
  <2>3. \A i \in Ids : OnRecord(i)
    BY DEF OnRecord
  <2>4. AsFirstSent'
    BY <1>3, <1>8, <2>2, <2>3, SentKept
  <2>5. StillOwed'
    BY <1>3, <2>2 DEF StillOwed, LeftAlone, Values, Keys, Awaited
  <2> QED BY <2>4, <2>5
<1> QED BY <1>5, <1>6, <1>7, <1>9 DEF IndInv, ChangesInv

LEMMA PassNow ==
  ASSUME IndInv
  PROVE  pass \in [Senders -> {"idle", "handed", "posted"}] /\ handler \in [Slots -> Handler \cup {Absent}]
BY KindsNow DEF TypeOK

LEMMA SkipKeeps ==
  ASSUME IndInv, Skip
  PROVE  IndInv'
<1>1. /\ pass["till"] = "handed" /\ pass' = [pass EXCEPT !["till"] = "idle"] /\ handler' = handler
      /\ faults' = faults \/ Fails("giveup")
      /\ UNCHANGED <<server, here, queue, told, made, known, edits, fetched, cloud, request, news, webs, owed, shown, odd>>
  BY DEF Skip, InSending
<1>2. faults' \in 0..MaxFaults
  BY <1>1, KindsNow, FailsIs DEF CloudKinds
<1>3. pass' \in [Senders -> {"idle", "handed", "posted"}] /\ handler' \in [Slots -> Handler \cup {Absent}]
  BY <1>1, PassNow
<1>4. LeftAlone
  BY <1>1 DEF LeftAlone
<1>5. \A o \in Slots : ~Awaited(o)'
  BY <1>1, KindsNow DEF Handled, Awaited
<1> QED BY <1>1, <1>2, <1>3, <1>4, <1>5, PassStep

LEMMA LeftOff ==
  ASSUME NEW r \in Handler, NEW b
  PROVE  [r EXCEPT !.heard = b] =
            [from |-> r.from, heard |-> b, rows |-> r.rows, step |-> r.step, verdict |-> r.verdict, said |-> r.said]
BY DEF Handler

LEMMA GiveUpKeeps ==
  ASSUME IndInv, NEW m \in Senders, GiveUp(m)
  PROVE  IndInv'
<1> DEFINE left(h) == IF handler[h] = Absent \/ handler[h].from # m \/ ~handler[h].heard THEN handler[h]
                      ELSE IF handler[h].step = "end" THEN Absent ELSE [handler[h] EXCEPT !.heard = FALSE]
<1>1. /\ Fails("giveup") /\ pass' = [pass EXCEPT ![m] = "idle"]
      /\ handler' = [h \in Slots |-> left(h)]
      /\ UNCHANGED <<server, here, queue, told, made, known, edits, fetched, cloud, request, news, webs, owed, shown, odd>>
  BY DEF GiveUp, InSending
<1>2. faults' \in 0..MaxFaults
  BY <1>1, KindsNow, FailsIs
<1>3. pass' \in [Senders -> {"idle", "handed", "posted"}]
  BY <1>1, PassNow
<1>4. ASSUME NEW h \in Slots, left(h) # Absent
      PROVE  /\ left(h) \in Handler /\ handler[h] # Absent
             /\ left(h).rows = handler[h].rows /\ left(h).said = handler[h].said
             /\ left(h).from = handler[h].from /\ left(h).step = handler[h].step
             /\ left(h).verdict = handler[h].verdict /\ (left(h).heard => handler[h].heard /\ handler[h].from # m)
             /\ (handler[h].step = "end" => left(h).heard = handler[h].heard)
  <2>1. handler[h] # Absent /\ handler[h] \in Handler
    BY <1>4, PassNow
  <2>2. CASE left(h) = handler[h] /\ (handler[h].from # m \/ ~handler[h].heard)
    <3> HIDE DEF left
    <3> QED BY <2>1, <2>2
  <2>3. CASE left(h) = [handler[h] EXCEPT !.heard = FALSE] /\ handler[h].step # "end"
    <3>1. [handler[h] EXCEPT !.heard = FALSE] =
            [from |-> handler[h].from, heard |-> FALSE, rows |-> handler[h].rows, step |-> handler[h].step,
             verdict |-> handler[h].verdict, said |-> handler[h].said]
      BY <2>1, LeftOff
    <3> HIDE DEF left
    <3> QED BY <2>1, <2>3, <3>1 DEF Handler
  <2> QED BY <1>4, <2>1, <2>2, <2>3
<1> HIDE DEF left
<1>5. handler' \in [Slots -> Handler \cup {Absent}]
  BY <1>1, <1>4
<1>6. LeftAlone
  BY <1>1, <1>4 DEF LeftAlone
<1>7. \A o \in Slots : Awaited(o)' => pass'["till"] = pass["till"]
  <2>1. ASSUME NEW o \in Slots, Awaited(o)' PROVE m # "till"
    BY <1>1, <1>4, <2>1 DEF Awaited
  <2>2. m # "till" => pass'["till"] = pass["till"]
    BY <1>1, PassNow DEF Senders
  <2> QED BY <2>1, <2>2
<1> QED BY <1>1, <1>2, <1>3, <1>5, <1>6, <1>7, PassStep

LEMMA DieKeeps ==
  ASSUME IndInv, NEW h \in Slots, Die(h)
  PROVE  IndInv'
<1>1. /\ Fails("die") /\ handler[h] # Absent /\ handler' = [handler EXCEPT ![h] = Absent]
      /\ pass' = [m \in Senders |-> IF handler[h].heard /\ handler[h].from = m THEN "idle" ELSE pass[m]]
      /\ UNCHANGED <<server, here, queue, told, made, known, edits, fetched, cloud, request, news, webs, owed, shown, odd>>
  BY DEF Die
<1>2. faults' \in 0..MaxFaults
  BY <1>1, KindsNow, FailsIs
<1>3. pass' \in [Senders -> {"idle", "handed", "posted"}] /\ handler' \in [Slots -> Handler \cup {Absent}]
  BY <1>1, PassNow
<1>4. \A o \in Slots : handler'[o] = IF o = h THEN Absent ELSE handler[o]
  BY <1>1, PassNow
<1>5. LeftAlone
  BY <1>4 DEF LeftAlone
<1>6. ASSUME NEW o \in Slots, Awaited(o)' PROVE pass'["till"] = pass["till"]
  <2>1. o # h /\ Awaited(o)
    BY <1>4, <1>6 DEF Awaited
  <2>2. ~Awaited(h)
    BY <2>1, KindsNow DEF Handled, Awaited
  <2> QED BY <1>1, <2>2 DEF Awaited, Senders
<1> QED BY <1>1, <1>2, <1>3, <1>5, <1>6, PassStep

(* Sending keeps a change as it is, but for what is noted as handed over.  *)
Alike(c, d) == /\ d.id = c.id /\ d.op = c.op /\ d.base = c.base /\ d.data = c.data
               /\ d.st = c.st /\ d.at = c.at
SentAs(c, d) == Alike(c, d) /\ (c.sent # Absent => d.sent = c.sent)

LEMMA MarkIs ==
  ASSUME NEW c \in Change, NEW v \in Data
  PROVE  [c EXCEPT !.sent = v] \in Change /\ Alike(c, [c EXCEPT !.sent = v]) /\ [c EXCEPT !.sent = v].sent = v
<1> DEFINE d == [c EXCEPT !.sent = v]
<1>1. d = [id |-> c.id, op |-> c.op, base |-> c.base, data |-> c.data, st |-> c.st, at |-> c.at, sent |-> v]
  BY DEF Change
<1> HIDE DEF d
<1>2. d \in Change /\ Alike(c, d) /\ d.sent = v
  BY <1>1 DEF Change, Alike
<1> QED BY <1>2 DEF d

LEMMA MarkedIs ==
  ASSUME NEW q \in Seq(Change), NEW p, p = Marked(q)
  PROVE  /\ p \in Seq(Change) /\ DOMAIN p = DOMAIN q
         /\ \A k \in DOMAIN q :
               /\ SentAs(q[k], p[k])
               /\ q[k].st = "pending" /\ q[k].sent \in {Absent, q[k].data} => p[k].sent = q[k].data
<1> DEFINE mark(c) == [c EXCEPT !.sent = c.data]
           M(c) == IF c.st = "pending" /\ c.sent = Absent THEN mark(c) ELSE c
<1>1. DOMAIN q = 1..Len(q) /\ Len(q) \in Nat /\ \A k \in 1..Len(q) : q[k] \in Change
  OBVIOUS
<1>2. \A c \in Change : c.data \in Data
  BY DEF Change
<1>3. \A c \in Change : mark(c) \in Change /\ Alike(c, mark(c)) /\ mark(c).sent = c.data
  BY <1>2, MarkIs
<1>4. p = [k \in DOMAIN q |-> M(q[k])]
  BY DEF Marked
<1> HIDE DEF mark
<1>5. \A c \in Change : /\ M(c) \in Change /\ SentAs(c, M(c))
                        /\ c.st = "pending" /\ c.sent \in {Absent, c.data} => M(c).sent = c.data
  BY <1>3 DEF SentAs, Alike
<1> HIDE DEF M
<1>6. p \in [1..Len(q) -> Change]
  BY <1>1, <1>4, <1>5
<1>7. p \in Seq(Change)
  BY <1>1, <1>6
<1> QED BY <1>1, <1>4, <1>5, <1>7

LEMMA GoodAlike ==
  ASSUME NEW s, Good(s), NEW r, r.q \in Seq(Change), DOMAIN r.q = DOMAIN s.q,
         \A k \in DOMAIN s.q : Alike(s.q[k], r.q[k]),
         r.made = s.made, r.told = s.told, r.here = s.here
  PROVE  Good(r)
<1> DEFINE p == s.q
           q == r.q
<1>1. /\ p \in Seq(Change) /\ Distinct(p) /\ Ordered(p, s.made) /\ Shows(p, s.made, s.here)
      /\ \A k \in DOMAIN p : /\ p[k].id <= s.made /\ p[k].at <= edits /\ Whole(p[k])
                             /\ p[k].op = "delete" => s.here = Absent
  BY DEF Good
<1>2. q \in Seq(Change) /\ DOMAIN q = DOMAIN p /\ \A k \in DOMAIN p : Alike(p[k], q[k])
  OBVIOUS
<1> HIDE DEF p, q
<1>3. Distinct(q) /\ Ordered(q, r.made)
  BY <1>1, <1>2 DEF Distinct, Ordered, Alike
<1>4. \A k \in DOMAIN q : /\ q[k].id <= r.made /\ q[k].at <= edits /\ Whole(q[k])
                          /\ q[k].op = "delete" => r.here = Absent
  BY <1>1, <1>2 DEF Alike, Whole
<1>5. Shows(q, r.made, r.here)
  <2>1. SUFFICES ASSUME q # <<>>, Last(q).st = "pending" \/ Last(q).id = r.made
                 PROVE  Lay(Last(q), r.here) = r.here
    BY DEF Shows
  <2>2. Len(q) = Len(p) /\ Len(q) \in DOMAIN q /\ p # <<>>
    BY <1>1, <1>2, <2>1
  <2>3. Alike(Last(p), Last(q))
    BY <1>2, <2>2 DEF Last
  <2>4. Lay(Last(p), r.here) = r.here
    BY <1>1, <2>1, <2>2, <2>3 DEF Shows, Alike
  <2>5. Lay(Last(q), r.here) = Lay(Last(p), r.here)
    BY <2>3 DEF Lay, Over, Alike
  <2> QED BY <2>4, <2>5
<1>6. r.made \in 0..edits /\ r.here \in Thing \cup {Absent} /\ r.told \in [Ids -> {"none", "done", "refused", "rejected"}]
  BY DEF Good
<1> QED BY <1>2, <1>3, <1>4, <1>5, <1>6 DEF Good, q

(* What goes out is a change of the till that waits, or a server's copy.   *)
FromQueue(x) == \E k \in DOMAIN queue["till"] :
    /\ x = queue["till"][k] /\ x.st = "pending"
    /\ "mixed" \notin odd' => queue'["till"][k].sent = x.data
GoesOut(x) == FromQueue(x) \/ \E k \in DOMAIN queue["server"] : x = queue["server"][k]
(* A request is as it was, or has just been posted.                        *)
PostedNow(o) ==
    /\ handler'[o].said = <<>>
    /\ \A j \in DOMAIN handler'[o].rows :
          GoesOut(handler'[o].rows[j]) /\ (handler'[o].from = "till" => FromQueue(handler'[o].rows[j]))

LEMMA SendStep ==
  ASSUME IndInv,
         UNCHANGED <<server, here, told, made, edits, fetched, cloud, request, news, webs, owed, shown, faults>>,
         known' \subseteq 1..made, pass' \in [Senders -> {"idle", "handed", "posted"}],
         queue' \in [Senders -> Seq(Change)], handler' \in [Slots -> Handler \cup {Absent}],
         \A o \in Slots : Handled(o)',
         DOMAIN queue'["till"] = DOMAIN queue["till"],
         \A k \in DOMAIN queue["till"] : SentAs(queue["till"][k], queue'["till"][k]),
         \A j \in DOMAIN queue'["server"] : GoesOut(queue'["server"][j]),
         odd' \in {odd, odd \cup {"mixed"}},
         \A o \in Slots : handler'[o] # Absent => handler'[o] = handler[o] \/ PostedNow(o)
  PROVE  IndInv'
<1> DEFINE q == queue["till"]
           p == queue'["till"]
<1>1. /\ Types /\ TypeOK /\ Good(TillNow) /\ OnTheWay /\ EditsInv /\ CloudKinds /\ \A x \in Slots : Handled(x)
      /\ made \in Nat
  BY KindsNow DEF IndInv, ChangesInv, Types
<1>2. q \in Seq(Change) /\ p \in Seq(Change) /\ queue["server"] \in Seq(Change) /\ queue'["server"] \in Seq(Change)
  <2> DEFINE Qs == Seq(Change)
  <2>1. queue \in [Senders -> Qs] /\ queue' \in [Senders -> Qs]
    BY <1>1 DEF TypeOK
  <2> HIDE DEF Qs
  <2>2. q \in Qs /\ p \in Qs /\ queue["server"] \in Qs /\ queue'["server"] \in Qs
    BY <2>1 DEF Senders
  <2> QED BY <2>2 DEF Qs
<1>3. TypeOK'
  <2>1. odd' \subseteq OddThings
    BY <1>1 DEF CloudKinds, OddThings
  <2> HIDE DEF Handler, Change, Edit, OddThings, Thing, Data
  <2> QED BY <1>1, <2>1 DEF TypeOK, CloudKinds, Things
<1>4. \A k \in DOMAIN q : q[k] \in Change /\ Known(q[k])
  BY <1>1, <1>2 DEF Good, TillNow, Known
<1>5. Distinct(q)
  BY <1>1 DEF Good, TillNow
<1>6. Types'
  <2>1. \A x : FromQueue(x) => Known(x)
    BY <1>4 DEF FromQueue
  <2>2. \A x : GoesOut(x) => Known(x)
    BY <1>1, <2>1 DEF GoesOut, Types
  <2>3. \A j \in DOMAIN queue'["server"] : Known(queue'["server"][j])
    BY <2>2
  <2>5. (\A k \in DOMAIN queue["server"] : Known(queue["server"][k]))'
    BY <2>3 DEF Known, Whole
  <2>6. \A i \in Ids : request'[i].st # "none" => i <= made' /\ Whole(request'[i])
    BY <1>1 DEF Types
  <2>7. \A i \in Ids : (request[i].st # "none" => i <= made /\ Whole(request[i]))'
    BY <2>6 DEF Whole
  <2> QED BY <1>3, <2>5, <2>7 DEF Types
<1>7. Good(TillNow)'
  <2> DEFINE s == [q |-> p, told |-> told, made |-> made, here |-> here]
  <2>1. TillNow.q = q /\ TillNow.made = made /\ TillNow.told = told /\ TillNow.here = here
    BY DEF TillNow
  <2>2. \A k \in DOMAIN q : Alike(q[k], p[k])
    BY DEF SentAs
  <2>3. s.q = p /\ s.made = made /\ s.told = told /\ s.here = here
    OBVIOUS
  <2>4. TillNow' = s
    BY DEF TillNow
  <2> HIDE DEF s, q, p
  <2>5. DOMAIN p = DOMAIN q
    BY DEF p, q
  <2>6. Good(s)
    BY <1>1, <1>2, <2>1, <2>2, <2>3, <2>5, GoodAlike
  <2> QED BY <2>4, <2>6 DEF Good
<1>8. OnTheWay'
  <2>1. SUFFICES ASSUME NEW h \in Slots, Awaited(h)', NEW j \in DOMAIN handler'[h].rows, NEW k \in DOMAIN p
                 PROVE  Fresh(handler'[h].rows[j], p[k])
    BY DEF OnTheWay, Fresh
  <2>2. k \in DOMAIN q /\ Alike(q[k], p[k])
    BY <2>1 DEF SentAs
  <2>3. Fresh(handler'[h].rows[j], q[k])
    <3>1. CASE handler'[h] = handler[h]
      BY <2>1, <3>1, <1>1, <2>2 DEF Awaited, OnTheWay
    <3>2. CASE PostedNow(h)
      <4>1. FromQueue(handler'[h].rows[j])
        BY <2>1, <3>2 DEF PostedNow, Awaited
      <4>2. PICK l \in DOMAIN q : handler'[h].rows[j] = q[l]
        BY <4>1 DEF FromQueue
      <4> QED BY <1>5, <2>2, <4>2 DEF Fresh, Distinct
    <3> QED BY <2>1, <3>1, <3>2 DEF Awaited
  <2> HIDE DEF p, q
  <2> QED BY <2>2, <2>3 DEF Fresh, Alike
<1>9. EditsInv'
  <2>1. SUFFICES ASSUME "mixed" \notin odd' PROVE AsFirstSent' /\ StillOwed'
    BY DEF EditsInv
  <2>2. "mixed" \notin odd /\ AsFirstSent /\ StillOwed
    BY <1>1, <2>1 DEF EditsInv
  <2>3. ASSUME NEW k \in DOMAIN q, NEW x, x.data \in Data, x.id = q[k].id, SameAs(x, q[k])
        PROVE  SameAs(x, p[k])
    BY <2>3, AbsentAssumption DEF SameAs, SentAs, Alike
  <2>4. ASSUME NEW k \in DOMAIN q, NEW x, FromQueue(x), x.id = q[k].id
        PROVE  SameAs(x, p[k])
    <3>1. PICK l \in DOMAIN q : x = q[l] /\ p[l].sent = x.data
      BY <2>1, <2>4 DEF FromQueue
    <3>2. l = k
      BY <1>5, <2>4, <3>1 DEF Distinct
    <3> QED BY <3>1, <3>2 DEF SameAs, SentAs, Alike
  <2>5. ASSUME NEW k \in DOMAIN q, NEW x, GoesOut(x), x.id = q[k].id
        PROVE  SameAs(x, p[k])
    <3>1. CASE \E l \in DOMAIN queue["server"] : x = queue["server"][l]
      <4>1. SameAs(x, q[k])
        BY <2>2, <2>5, <3>1 DEF AsFirstSent
      <4>2. x \in Change
        BY <1>2, <3>1
      <4>3. x.data \in Data
        BY <4>2 DEF Change
      <4> QED BY <2>3, <2>5, <4>1, <4>3
    <3> QED BY <2>4, <2>5, <3>1 DEF GoesOut
  <2>6. ASSUME NEW k \in DOMAIN q, NEW h \in Slots, handler'[h] # Absent, NEW j \in DOMAIN handler'[h].rows,
               handler'[h].rows[j].id = q[k].id
        PROVE  SameAs(handler'[h].rows[j], p[k])
    <3>1. CASE handler'[h] = handler[h]
      <4>1. SameAs(handler'[h].rows[j], q[k])
        BY <2>2, <2>6, <3>1 DEF AsFirstSent
      <4>2. handler'[h] \in Handler
        BY <2>6
      <4>3. handler'[h].rows \in Seq(Change)
        BY <4>2 DEF Handler
      <4>4. handler'[h].rows[j] \in Change
        BY <2>6, <4>3
      <4>5. handler'[h].rows[j].data \in Data
        BY <4>4 DEF Change
      <4> QED BY <2>3, <2>6, <4>1, <4>5
    <3>2. CASE PostedNow(h)
      BY <2>5, <2>6, <3>2 DEF PostedNow
    <3> QED BY <2>6, <3>1, <3>2
  <2>7. ASSUME NEW k \in DOMAIN q, request[q[k].id].st # "none"
        PROVE  SameAs(request[q[k].id], p[k])
    <3>1. q[k].id \in Ids
      BY <1>4 DEF Change
    <3>2. request[q[k].id].data \in Data
      BY <1>1, <3>1 DEF CloudKinds
    <3>3. SameAs(request[q[k].id], q[k])
      BY <2>2, <2>7 DEF AsFirstSent
    <3> QED BY <2>7, <3>2, <3>3, AbsentAssumption DEF SameAs, SentAs, Alike
  <2>8. AsFirstSent'
    <3>1. SUFFICES ASSUME NEW k \in DOMAIN p
                   PROVE  LET c == p[k] IN
                          /\ \A h \in Slots : handler'[h] # Absent =>
                                \A j \in DOMAIN handler'[h].rows :
                                    handler'[h].rows[j].id = c.id => SameAs(handler'[h].rows[j], c)
                          /\ \A j \in DOMAIN queue'["server"] : queue'["server"][j].id = c.id => SameAs(queue'["server"][j], c)
                          /\ request[c.id].st # "none" => SameAs(request[c.id], c)
      BY DEF AsFirstSent, SameAs
    <3>2. k \in DOMAIN q /\ p[k].id = q[k].id
      BY <3>1 DEF SentAs, Alike
    <3> HIDE DEF p, q
    <3> QED BY <2>5, <2>6, <2>7, <3>2
  <2>9. StillOwed'
    <3>1. SUFFICES ASSUME owed # {}
                   PROVE  /\ p # <<>> /\ Last(p).st = "pending" /\ owed \subseteq Values(Last(p))
                          /\ request[Last(p).id].st # "none" => owed \cap Values(request[Last(p).id]) = {}
                          /\ \A h \in Slots : Awaited(h)' =>
                                \A j \in DOMAIN handler'[h].said : LET r == handler'[h].rows[j] IN
                                    r.id = Last(p).id /\ r.at = Last(p).at => handler'[h].said[j] = "later"
      BY DEF StillOwed, Values, Keys
    <3>2. /\ q # <<>> /\ Last(q).st = "pending" /\ owed \subseteq Values(Last(q))
          /\ request[Last(q).id].st # "none" => owed \cap Values(request[Last(q).id]) = {}
          /\ \A h \in Slots : Awaited(h) =>
                \A j \in DOMAIN handler[h].said : LET r == handler[h].rows[j] IN
                    r.id = Last(q).id /\ r.at = Last(q).at => handler[h].said[j] = "later"
      BY <2>2, <3>1 DEF StillOwed
    <3>3. DOMAIN p = DOMAIN q /\ \A k \in DOMAIN q : Alike(q[k], p[k])
      BY DEF SentAs
    <3>4. Alike(Last(q), Last(p)) /\ p # <<>>
      <4> HIDE DEF p, q
      <4>1. Len(p) = Len(q) /\ Len(q) \in DOMAIN q /\ p # <<>>
        BY <1>2, <3>2, <3>3
      <4> QED BY <3>3, <4>1 DEF Last
    <3>5. Values(Last(p)) = Values(Last(q)) /\ Last(p).st = "pending" /\ Last(p).id = Last(q).id /\ Last(p).at = Last(q).at
      BY <3>2, <3>4 DEF Alike, Values, Keys
    <3>6. ASSUME NEW h \in Slots, Awaited(h)', NEW j \in DOMAIN handler'[h].said,
                 handler'[h].rows[j].id = Last(q).id, handler'[h].rows[j].at = Last(q).at
          PROVE  handler'[h].said[j] = "later"
      <4>1. CASE handler'[h] = handler[h]
        BY <3>2, <3>6, <4>1 DEF Awaited
      <4>2. CASE PostedNow(h)
        BY <3>6, <4>2 DEF PostedNow
      <4> QED BY <3>6, <4>1, <4>2 DEF Awaited
    <3> HIDE DEF p, q
    <3> QED BY <3>2, <3>4, <3>5, <3>6
  <2> QED BY <2>8, <2>9
<1> QED BY <1>6, <1>7, <1>8, <1>9 DEF IndInv, ChangesInv

LEMMA ThoseDistinct ==
  ASSUME NEW q \in Seq(Change), Distinct(q), NEW S, NEW r, r = Those(q, S)
  PROVE  Distinct(r)
<1>1. r \in Seq(Change)
  BY ThoseKeeps
<1>2. \A i, j \in DOMAIN r : i < j => \E k, l \in DOMAIN q : k < l /\ r[i] = q[k] /\ r[j] = q[l]
  BY ThoseKeeps
<1>3. \A i, j \in DOMAIN r : i = j \/ i < j \/ j < i
  BY <1>1
<1>4. SUFFICES ASSUME NEW i \in DOMAIN r, NEW j \in DOMAIN r, r[i].id = r[j].id, i < j PROVE FALSE
  BY <1>3 DEF Distinct
<1>5. PICK k \in DOMAIN q, l \in DOMAIN q : k < l /\ r[i] = q[k] /\ r[j] = q[l]
  BY <1>2, <1>4
<1>6. k = l
  BY <1>4, <1>5 DEF Distinct
<1>7. k \in Nat
  OBVIOUS
<1> QED BY <1>5, <1>6, <1>7

(* What a sender sends are its changes that wait.                          *)
AllSent(q, r) == \A k \in DOMAIN q : q[k].st = "pending" => \E j \in DOMAIN r : r[j] = q[k]
LEMMA ToSendIs ==
  ASSUME NEW m, NEW q \in Seq(Change), q = queue[m], NEW r, r = ToSend(m)
  PROVE  /\ r \in Seq(Change)
         /\ \A j \in DOMAIN r : r[j].st = "pending" /\ \E k \in DOMAIN q : r[j] = q[k]
         /\ AllSent(q, r)
         /\ Distinct(q) => Distinct(r)
<1> DEFINE S == {c \in ToSet(q) : c.st = "pending"}
<1>1. r = Those(q, S)
  BY DEF ToSend
<1>2. \A k \in DOMAIN q : q[k] \in S <=> q[k].st = "pending"
  BY DEF ToSet
<1>3. \A c \in S : c.st = "pending"
  OBVIOUS
<1> HIDE DEF S
<1>4. /\ r \in Seq(Change)
      /\ \A j \in DOMAIN r : r[j] \in S /\ \E k \in DOMAIN q : r[j] = q[k]
      /\ \A k \in DOMAIN q : q[k] \in S => \E j \in DOMAIN r : r[j] = q[k]
  <2>1. q \in Seq(Change)
    OBVIOUS
  <2>2. r \in Seq(Change)
    BY <1>1, <2>1, ThoseKeeps
  <2>3. \A j \in DOMAIN r : r[j] \in S /\ \E k \in DOMAIN q : r[j] = q[k]
    BY <1>1, <2>1, ThoseKeeps
  <2>4. \A k \in DOMAIN q : q[k] \in S => \E j \in DOMAIN r : r[j] = q[k]
    BY <1>1, <2>1, ThoseKeeps
  <2> QED BY <2>2, <2>3, <2>4
<1>5. Distinct(q) => Distinct(r)
  BY <1>1, ThoseDistinct
<1>6. \A j \in DOMAIN r : r[j].st = "pending"
  BY <1>3, <1>4
<1>7. AllSent(q, r)
  BY <1>2, <1>4 DEF AllSent
<1> QED BY <1>4, <1>5, <1>6, <1>7

LEMMA TillSends ==
  ASSUME IndInv, Mixes, queue'["till"] = Marked(queue["till"])
  PROVE  /\ odd' \in {odd, odd \cup {"mixed"}}
         /\ queue'["till"] \in Seq(Change) /\ DOMAIN queue'["till"] = DOMAIN queue["till"]
         /\ \A k \in DOMAIN queue["till"] : SentAs(queue["till"][k], queue'["till"][k])
         /\ Waiting \in Seq(Change) /\ Distinct(Waiting)
         /\ \A j \in DOMAIN Waiting : FromQueue(Waiting[j]) /\ Known(Waiting[j])
<1> DEFINE q == queue["till"]
           p == queue'["till"]
           w == Waiting
<1>1. q \in Seq(Change) /\ Distinct(q) /\ \A k \in DOMAIN q : Known(q[k])
  BY KindsNow DEF Good, TillNow, Known
<1>2. p = Marked(q) /\ q = queue["till"]
  OBVIOUS
<1>3. w = ToSend("till")
  BY DEF Waiting
<1>4. odd' \in {odd, odd \cup {"mixed"}}
  BY DEF Mixes
<1>5. ASSUME "mixed" \notin odd' PROVE \A j \in DOMAIN w : w[j].sent \in {Absent, w[j].data}
  BY <1>5 DEF Mixes
<1> HIDE DEF q, p, w
<1>6. /\ p \in Seq(Change) /\ DOMAIN p = DOMAIN q
      /\ \A k \in DOMAIN q :
            /\ SentAs(q[k], p[k])
            /\ q[k].st = "pending" /\ q[k].sent \in {Absent, q[k].data} => p[k].sent = q[k].data
  BY <1>1, <1>2, MarkedIs
<1>7. /\ w \in Seq(Change) /\ Distinct(w)
      /\ \A j \in DOMAIN w : w[j].st = "pending" /\ \E k \in DOMAIN q : w[j] = q[k]
  BY <1>1, <1>2, <1>3, ToSendIs
<1>8. ASSUME NEW j \in DOMAIN w PROVE FromQueue(w[j]) /\ Known(w[j])
  <2>1. PICK k \in DOMAIN q : w[j] = q[k]
    BY <1>7
  <2>2. w[j].st = "pending"
    BY <1>7
  <2>3. "mixed" \notin odd' => p[k].sent = w[j].data
    BY <1>5, <1>6, <2>1, <2>2
  <2>4. Known(w[j])
    BY <1>1, <2>1
  <2> QED BY <2>1, <2>2, <2>3, <2>4 DEF FromQueue, q, p
<1> QED BY <1>4, <1>6, <1>7, <1>8 DEF q, p, w

(* The branch server takes each id once.                                   *)
LEMMA HandOverKeeps ==
  ASSUME IndInv, HandOver
  PROVE  IndInv'
<1> DEFINE news1 == Those(Waiting, {c \in ToSet(Waiting) : c.id \notin known})
           marked == Marked(queue["till"])
           copies == queue["server"] \o news1
<1>1. /\ TypeOK /\ \A o \in Slots : Handled(o)
      /\ pass["till"] = "idle" /\ pass' = [pass EXCEPT !["till"] = "handed"] /\ handler' = handler
      /\ queue' = [queue EXCEPT !["till"] = marked, !["server"] = copies]
      /\ known' = known \cup {Waiting[k].id : k \in DOMAIN Waiting} /\ Mixes
      /\ UNCHANGED <<server, here, told, made, edits, fetched, cloud, request, news, webs, owed, shown, faults>>
  BY KindsNow DEF HandOver, InSending
<1> HIDE DEF marked, copies, news1
<1>2. queue'["till"] = marked /\ queue'["server"] = copies /\ DOMAIN queue' = Senders
  <2> DEFINE Qs == Seq(Change)
  <2>1. queue \in [Senders -> Qs]
    BY <1>1 DEF TypeOK
  <2> HIDE DEF Qs
  <2> QED BY <1>1, <2>1 DEF Senders
<1>3. /\ odd' \in {odd, odd \cup {"mixed"}}
      /\ queue'["till"] \in Seq(Change) /\ DOMAIN queue'["till"] = DOMAIN queue["till"]
      /\ \A k \in DOMAIN queue["till"] : SentAs(queue["till"][k], queue'["till"][k])
      /\ Waiting \in Seq(Change)
      /\ \A j \in DOMAIN Waiting : FromQueue(Waiting[j]) /\ Known(Waiting[j])
  BY <1>1, <1>2, TillSends DEF marked
<1>4. news1 \in Seq(Change) /\ \A j \in DOMAIN news1 : GoesOut(news1[j])
  <2> DEFINE S == {c \in ToSet(Waiting) : c.id \notin known}
             w == Waiting
  <2>1. news1 \in Seq(Change) /\ \A j \in DOMAIN news1 : \E k \in DOMAIN w : news1[j] = w[k]
    <3>1. news1 = Those(w, S) /\ w \in Seq(Change)
      BY <1>3 DEF news1
    <3> HIDE DEF S, w
    <3>2. news1 \in Seq(Change)
      BY <3>1, ThoseKeeps
    <3>3. \A j \in DOMAIN news1 : news1[j] \in S /\ \E k \in DOMAIN w : news1[j] = w[k]
      BY <3>1, ThoseKeeps
    <3> QED BY <3>2, <3>3
  <2> QED BY <1>3, <2>1 DEF GoesOut
<1>5. copies \in Seq(Change) /\ \A j \in DOMAIN copies : GoesOut(copies[j])
  <2> DEFINE a == queue["server"]
             b == news1
  <2>1. a \in Seq(Change) /\ b \in Seq(Change)
    BY <1>1, <1>4 DEF TypeOK, Senders
  <2>2. (\A j \in DOMAIN a : GoesOut(a[j])) /\ \A j \in DOMAIN b : GoesOut(b[j])
    BY <1>4 DEF GoesOut
  <2>3. copies = a \o b
    BY DEF copies
  <2> HIDE DEF a, b
  <2>4. copies \in Seq(Change)
    BY <2>1, <2>3
  <2>5. ASSUME NEW j \in DOMAIN copies PROVE GoesOut(copies[j])
    BY <2>1, <2>3, <2>5, <2>2
  <2> QED BY <2>4, <2>5
<1>6. queue' \in [Senders -> Seq(Change)]
  <2> DEFINE Qs == Seq(Change)
  <2>1. queue'["till"] \in Qs /\ queue'["server"] \in Qs /\ \A m \in Senders : m = "till" \/ m = "server"
    BY <1>2, <1>3, <1>5 DEF Senders
  <2>2. queue' = [m \in Senders |-> queue'[m]]
    <3>1. queue \in [Senders -> Qs]
      BY <1>1 DEF TypeOK
    <3> HIDE DEF Qs
    <3> QED BY <1>1, <3>1
  <2> HIDE DEF Qs
  <2>3. queue' \in [Senders -> Qs]
    BY <2>1, <2>2
  <2> QED BY <2>3 DEF Qs
<1>7. known' \subseteq 1..made
  <2>1. ASSUME NEW k \in DOMAIN Waiting PROVE Waiting[k].id \in 1..made
    <3>1. Waiting[k] \in Change /\ Known(Waiting[k])
      BY <1>3
    <3>2. Waiting[k].id \in 1..MaxEdits /\ made \in Nat /\ MaxEdits \in Nat
      BY <3>1, KindsNow, BoundsAssumption DEF Change, Ids
    <3> QED BY <3>1, <3>2 DEF Known
  <2> QED BY <1>1, <2>1 DEF TypeOK
<1>8. pass' \in [Senders -> {"idle", "handed", "posted"}] /\ handler' \in [Slots -> Handler \cup {Absent}]
  BY <1>1, PassNow
<1>9. \A o \in Slots : Handled(o)'
  BY <1>1 DEF Handled, Awaited, Known, Whole
<1> QED BY <1>1, <1>2, <1>3, <1>5, <1>6, <1>7, <1>8, <1>9, SendStep

(* All that waits goes to the cloud in one request.                        *)
LEMMA PostKeeps ==
  ASSUME IndInv, NEW m \in Senders, Post(m)
  PROVE  IndInv'
<1> DEFINE rows == ToSend(m)
           new == [from |-> m, heard |-> TRUE, rows |-> rows, step |-> "look", verdict |-> "none", said |-> <<>>]
<1>1. /\ TypeOK /\ \A o \in Slots : Handled(o)
      /\ Ready(m) /\ rows # <<>> /\ pass' = [pass EXCEPT ![m] = "posted"]
      /\ UNCHANGED <<server, here, told, made, edits, fetched, cloud, request, news, webs, owed, shown, faults>>
      /\ known' = known
  BY KindsNow DEF Post, InSending
<1>2. PICK h \in Slots : handler[h] = Absent /\ handler' = [handler EXCEPT ![h] = new]
  BY DEF Post
<1>3. queue \in [Senders -> Seq(Change)]
  BY <1>1 DEF TypeOK
<1>4. \A k \in DOMAIN queue["server"] : Known(queue["server"][k])
  BY DEF IndInv, ChangesInv, Types
<1>5. /\ odd' \in {odd, odd \cup {"mixed"}}
      /\ queue' \in [Senders -> Seq(Change)] /\ DOMAIN queue'["till"] = DOMAIN queue["till"]
      /\ \A k \in DOMAIN queue["till"] : SentAs(queue["till"][k], queue'["till"][k])
      /\ queue'["server"] = queue["server"]
      /\ rows \in Seq(Change) /\ \A j \in DOMAIN rows : GoesOut(rows[j]) /\ Known(rows[j])
      /\ m = "till" => Distinct(rows) /\ \A j \in DOMAIN rows : FromQueue(rows[j])
  <2>1. CASE m = "till"
    <3> DEFINE marked == Marked(queue["till"])
    <3>1. queue' = [queue EXCEPT !["till"] = marked] /\ Mixes
      BY <2>1 DEF Post
    <3>2. queue'["till"] = marked /\ queue'["server"] = queue["server"]
      BY <1>3, <3>1 DEF Senders
    <3>3. /\ odd' \in {odd, odd \cup {"mixed"}}
          /\ queue'["till"] \in Seq(Change) /\ DOMAIN queue'["till"] = DOMAIN queue["till"]
          /\ \A k \in DOMAIN queue["till"] : SentAs(queue["till"][k], queue'["till"][k])
          /\ Waiting \in Seq(Change) /\ Distinct(Waiting)
          /\ \A j \in DOMAIN Waiting : FromQueue(Waiting[j]) /\ Known(Waiting[j])
      BY <3>1, <3>2, TillSends
    <3>4. queue' \in [Senders -> Seq(Change)]
      <4> HIDE DEF marked
      <4>1. marked \in Seq(Change)
        BY <3>2, <3>3
      <4> QED BY <1>3, <3>1, <4>1
    <3>5. rows = Waiting
      BY <2>1 DEF Waiting
    <3> HIDE DEF rows, marked
    <3> QED BY <3>2, <3>3, <3>4, <3>5 DEF GoesOut
  <2>2. CASE m = "server"
    <3>1. queue' = queue /\ odd' = odd
      BY <2>2 DEF Post
    <3> DEFINE q == queue["server"]
    <3>2. q \in Seq(Change) /\ q = queue[m]
      BY <1>3, <2>2
    <3>3. rows \in Seq(Change) /\ \A j \in DOMAIN rows : \E k \in DOMAIN q : rows[j] = q[k]
      <4> HIDE DEF q
      <4>1. /\ rows \in Seq(Change)
            /\ \A j \in DOMAIN rows : rows[j].st = "pending" /\ \E k \in DOMAIN q : rows[j] = q[k]
        BY <3>2, ToSendIs
      <4> QED BY <4>1
    <3> HIDE DEF rows
    <3>4. \A j \in DOMAIN rows : GoesOut(rows[j]) /\ Known(rows[j])
      BY <1>4, <3>3 DEF GoesOut
    <3>5. \A k \in DOMAIN queue["till"] : SentAs(queue["till"][k], queue'["till"][k])
      BY <3>1 DEF SentAs, Alike
    <3> QED BY <1>3, <2>2, <3>1, <3>3, <3>4, <3>5
  <2> QED BY <2>1, <2>2 DEF Senders
<1> HIDE DEF rows
<1>6. new \in Handler
  BY <1>5 DEF Handler
<1>7. h \in Slots /\ new # Absent => handler'[h] = new
  BY <1>2, PassNow
<1>8. \A o \in Slots : handler'[o] = IF o = h THEN new ELSE handler[o]
  BY <1>2, PassNow
<1>9. handler' \in [Slots -> Handler \cup {Absent}]
  <2> HIDE DEF new
  <2> QED BY <1>2, <1>6, PassNow
<1>10. pass' \in [Senders -> {"idle", "handed", "posted"}]
  BY <1>1, PassNow
<1>11. \A j \in DOMAIN queue'["server"] : GoesOut(queue'["server"][j])
  BY <1>5 DEF GoesOut
<1>12. \A o \in Slots : handler'[o] # Absent => handler'[o] = handler[o] \/ PostedNow(o)
  BY <1>5, <1>8 DEF PostedNow
<1>13. \A o \in Slots : Handled(o)'
  <2>1. ASSUME m = "till" PROVE \A o \in Slots : ~Awaited(o)
    BY <1>1, <2>1 DEF Ready, Handled, Awaited
  <2>2. pass'["till"] = (IF m = "till" THEN "posted" ELSE pass["till"])
    BY <1>1, PassNow DEF Senders
  <2>3. ASSUME NEW o \in Slots, Awaited(o)'
        PROVE  IF m = "till" THEN o = h ELSE o # h /\ Awaited(o)
    BY <1>8, <2>1, <2>3 DEF Awaited
  <2>4. \A x : Known(x) => Known(x)'
    BY <1>1 DEF Known, Whole
  <2>5. new.rows = rows /\ new.said = <<>> /\ new.step = "look" /\ new.from = m
    OBVIOUS
  <2>6. ASSUME NEW o \in Slots, handler'[o] # Absent
        PROVE  /\ handler'[o].rows # <<>> /\ Len(handler'[o].said) <= Len(handler'[o].rows)
               /\ (handler'[o].step = "end") <=> (Len(handler'[o].said) = Len(handler'[o].rows))
               /\ handler'[o].step = "end" => handler'[o].heard
               /\ handler'[o].step = "record" => handler'[o].verdict # "none"
               /\ \A k \in DOMAIN handler'[o].rows : Known(handler'[o].rows[k])
               /\ Awaited(o)' => /\ Distinct(handler'[o].rows) /\ pass'["till"] = "posted"
                                 /\ \A x \in Slots : Awaited(x)' => x = o
    <3>1. CASE o = h
      <4>1. handler'[o] = new
        BY <1>8, <3>1
      <4>2. Awaited(o)' => m = "till"
        BY <2>5, <4>1 DEF Awaited
      <4>3. Len(rows) \in Nat /\ Len(rows) # 0 /\ Len(new.said) = 0
        BY <1>1, <1>5
      <4> HIDE DEF new
      <4> QED BY <1>1, <1>5, <2>2, <2>3, <2>5, <3>1, <4>1, <4>2, <4>3
    <3>2. CASE o # h
      <4>1. handler'[o] = handler[o]
        BY <1>8, <3>2
      <4>2. Awaited(o)' => m # "till" /\ Awaited(o)
        BY <2>3, <3>2
      <4> QED BY <1>1, <2>2, <2>3, <2>6, <4>1, <4>2 DEF Handled
    <3> QED BY <3>1, <3>2
  <2> QED BY <2>4, <2>6 DEF Handled
<1> QED BY <1>1, <1>5, <1>9, <1>10, <1>11, <1>12, <1>13, SendStep DEF TypeOK

LEMMA ParkedWith ==
  ASSUME NEW c \in Change
  PROVE  /\ Parked(c) \in Change /\ Parked(c).sent = c.sent
         /\ Parked(c).id = c.id /\ Parked(c).op = c.op /\ Parked(c).data = c.data /\ Parked(c).at = c.at
<1> DEFINE d == [c EXCEPT !.st = "awaiting"]
<1>1. d = [id |-> c.id, op |-> c.op, base |-> c.base, data |-> c.data, st |-> "awaiting", at |-> c.at, sent |-> c.sent]
  BY DEF Change
<1> HIDE DEF d
<1>2. /\ d \in Change /\ d.sent = c.sent
      /\ d.id = c.id /\ d.op = c.op /\ d.data = c.data /\ d.at = c.at
  BY <1>1 DEF Change
<1> QED BY <1>2 DEF Parked, d

(* Requests are as they were, or over.                                     *)
SomeOver == \A o \in Slots : handler'[o] # Absent => handler'[o] = handler[o]

(* What the till holds after answers, or after the owner has decided.      *)
LEMMA TillStep ==
  ASSUME IndInv, NEW ids, NEW r, r \in TillStates, Progress(r, ids), StillOwed => Keeps(r), TillBecomes(r),
         UNCHANGED <<server, known, edits, fetched, cloud, request, news, webs, faults, owed, shown>>,
         pass' \in [Senders -> {"idle", "handed", "posted"}], handler' \in [Slots -> Handler \cup {Absent}],
         SomeOver, \A o \in Slots : ~Awaited(o)', odd \subseteq odd', odd' \subseteq OddThings
  PROVE  IndInv'
<1> DEFINE q == queue["till"]
           p == r.q
<1>1. /\ Types /\ TypeOK /\ Good(TillNow) /\ OnTheWay /\ EditsInv /\ CloudKinds /\ \A x \in Slots : Handled(x)
      /\ made \in Nat /\ edits \in 0..MaxEdits
  BY KindsNow DEF IndInv, ChangesInv, Types
<1>2. /\ queue' = [queue EXCEPT !["till"] = p] /\ told' = r.told /\ made' = r.made /\ here' = r.here
      /\ Good(r) /\ FromTill(r, ids) /\ Renewed(r)
  BY DEF TillBecomes, Queued, Progress
<1>3. /\ p \in Seq(Change) /\ r.made \in 0..edits /\ r.here \in Thing \cup {Absent}
      /\ r.told \in [Ids -> {"none", "done", "refused", "rejected"}]
  BY <1>2 DEF Good
<1>4. queue \in [Senders -> Seq(Change)] /\ q \in Seq(Change)
  BY <1>1 DEF TypeOK, Senders
<1> HIDE DEF q, p
<1>5. queue' \in [Senders -> Seq(Change)] /\ queue'["till"] = p /\ queue'["server"] = queue["server"]
  <2> DEFINE Qs == Seq(Change)
  <2>1. queue \in [Senders -> Qs] /\ p \in Qs
    BY <1>3, <1>4
  <2> HIDE DEF Qs
  <2>2. queue' \in [Senders -> Qs] /\ queue'["till"] = p /\ queue'["server"] = queue["server"]
    BY <1>2, <2>1 DEF Senders
  <2> QED BY <2>2 DEF Qs
<1>6. made' \in 0..edits /\ made' >= made /\ (made' # made => made' = made + 1)
  BY <1>1, <1>2, <1>3 DEF Renewed
<1>7. TypeOK'
  <2>1. known' \subseteq 1..made'
    BY <1>1, <1>6 DEF TypeOK
  <2> HIDE DEF Handler, Change, Edit, OddThings, Thing, Data
  <2> QED BY <1>1, <1>2, <1>3, <1>5, <1>6, <2>1 DEF TypeOK, CloudKinds, Things
<1>8. \A x : Known(x) /\ x \in Change => Known(x)'
  BY <1>1, <1>6, BoundsAssumption DEF Change, Known, Whole, Ids
<1>9. ASSUME NEW o \in Slots, handler[o] # Absent
      PROVE  /\ handler[o].rows \in Seq(Change)
             /\ \A j \in DOMAIN handler[o].rows : handler[o].rows[j] \in Change /\ Known(handler[o].rows[j])
  <2>1. handler[o] \in Handler
    BY <1>9, PassNow
  <2>2. handler[o].rows \in Seq(Change)
    BY <2>1 DEF Handler
  <2>3. \A j \in DOMAIN handler[o].rows : Known(handler[o].rows[j])
    BY <1>1, <1>9 DEF Handled
  <2> QED BY <2>2, <2>3
<1>10. Types'
  <2>1. \A o \in Slots : Handled(o)'
    <3>1. SUFFICES ASSUME NEW o \in Slots, handler'[o] # Absent
                   PROVE  Handled(o)'
      BY DEF Handled
    <3>2. handler'[o] = handler[o] /\ handler[o] # Absent
      BY <3>1 DEF SomeOver
    <3>3. \A j \in DOMAIN handler[o].rows : Known(handler[o].rows[j])'
      BY <1>8, <1>9, <3>2
    <3>4. ~Awaited(o)'
      OBVIOUS
    <3>5. /\ handler[o].rows # <<>> /\ Len(handler[o].said) <= Len(handler[o].rows)
          /\ (handler[o].step = "end") <=> (Len(handler[o].said) = Len(handler[o].rows))
          /\ handler[o].step = "end" => handler[o].heard
          /\ handler[o].step = "record" => handler[o].verdict # "none"
      BY <1>1, <3>2 DEF Handled
    <3>6. (\A j \in DOMAIN handler[o].rows : Known(handler[o].rows[j]))'
      BY <3>2, <3>3 DEF Known, Whole
    <3> QED BY <3>2, <3>4, <3>5, <3>6 DEF Handled
  <2>2. (\A k \in DOMAIN queue["server"] : Known(queue["server"][k]))'
    <3>1. PICK d : d = queue["server"]
      OBVIOUS
    <3>2. d \in Seq(Change) /\ \A k \in DOMAIN d : Known(d[k])
      BY <1>1, <1>4, <3>1 DEF Types, Senders
    <3>3. \A k \in DOMAIN d : Known(d[k])'
      BY <1>8, <3>2
    <3> QED BY <1>5, <3>1, <3>3
  <2>3. (\A i \in Ids : request[i].st # "none" => i <= made /\ Whole(request[i]))'
    <3>1. ASSUME NEW i \in Ids, request[i].st # "none" PROVE i <= made' /\ Whole(request[i])
      BY <1>1, <1>6, <3>1, BoundsAssumption DEF CloudKinds, Ids
    <3> QED BY <3>1 DEF Whole
  <2> QED BY <1>7, <2>1, <2>2, <2>3 DEF Types
<1>11. Good(TillNow)'
  <2>1. r = [q |-> r.q, told |-> r.told, made |-> r.made, here |-> r.here]
    BY DEF TillStates
  <2>2. TillNow' = r
    BY <1>2, <1>5, <2>1 DEF TillNow, p
  <2> QED BY <1>2, <2>2 DEF Good
<1>12. OnTheWay'
  BY DEF OnTheWay
<1>13. EditsInv'
  <2>1. SUFFICES ASSUME "mixed" \notin odd' PROVE AsFirstSent' /\ StillOwed'
    BY DEF EditsInv
  <2>2. "mixed" \notin odd /\ AsFirstSent /\ StillOwed /\ Keeps(r)
    BY <1>1, <2>1 DEF EditsInv
  <2>3. \A i \in Ids : request[i].st # "none" => i <= made
    BY <1>1 DEF Types
  <2>4. AsFirstSent'
    <3>1. SUFFICES ASSUME NEW k \in DOMAIN p
                   PROVE  LET c == p[k] IN
                          /\ \A h \in Slots : handler'[h] # Absent =>
                                \A j \in DOMAIN handler'[h].rows :
                                    handler'[h].rows[j].id = c.id => SameAs(handler'[h].rows[j], c)
                          /\ \A j \in DOMAIN queue["server"] : queue["server"][j].id = c.id => SameAs(queue["server"][j], c)
                          /\ request[c.id].st # "none" => SameAs(request[c.id], c)
      BY <1>5 DEF AsFirstSent, SameAs
    <3> DEFINE c == p[k]
    <3>2. c \in Change /\ c.id \in Ids
      <4>1. c \in Change
        BY <1>3
      <4> QED BY <4>1 DEF Change
    <3>3. CASE c.id = made + 1
      <4>1. \A x : Known(x) /\ x.id \in Ids => x.id # made + 1
        BY <1>1, BoundsAssumption DEF Known, Ids
      <4>2. \A x \in Change : x.id \in Ids
        BY DEF Change
      <4>3. \A j \in DOMAIN queue["server"] : queue["server"][j].id # made + 1
        <5> DEFINE d == queue["server"]
        <5>1. d \in Seq(Change) /\ \A j \in DOMAIN d : Known(d[j])
          BY <1>1, <1>4 DEF Types, Senders
        <5> QED BY <4>1, <4>2, <5>1
      <4>4. \A h \in Slots : handler'[h] # Absent =>
               \A j \in DOMAIN handler'[h].rows : handler'[h].rows[j].id # made + 1
        BY <1>9, <4>1, <4>2 DEF SomeOver
      <4>5. request[c.id].st = "none"
        BY <1>1, <2>3, <3>2, <3>3
      <4> QED BY <3>3, <4>3, <4>4, <4>5
    <3>4. ASSUME NEW l \in DOMAIN q, c.id = q[l].id, c.op = q[l].op, c.sent = q[l].sent
          PROVE  /\ \A h \in Slots : handler'[h] # Absent =>
                        \A j \in DOMAIN handler'[h].rows :
                            handler'[h].rows[j].id = c.id => SameAs(handler'[h].rows[j], c)
                 /\ \A j \in DOMAIN queue["server"] : queue["server"][j].id = c.id => SameAs(queue["server"][j], c)
                 /\ request[c.id].st # "none" => SameAs(request[c.id], c)
      <4> HIDE DEF c
      <4>1. \A x : SameAs(x, q[l]) => SameAs(x, c)
        BY <3>4 DEF SameAs
      <4>2. /\ \A h \in Slots : handler[h] # Absent =>
                   \A j \in DOMAIN handler[h].rows :
                       handler[h].rows[j].id = q[l].id => SameAs(handler[h].rows[j], q[l])
            /\ \A j \in DOMAIN queue["server"] : queue["server"][j].id = q[l].id => SameAs(queue["server"][j], q[l])
            /\ request[q[l].id].st # "none" => SameAs(request[q[l].id], q[l])
        BY <2>2, <3>4 DEF AsFirstSent, q
      <4> QED BY <3>4, <4>1, <4>2 DEF SomeOver
    <3>5. ASSUME c.id # made + 1
          PROVE  \E l \in DOMAIN q : c.id = q[l].id /\ c.op = q[l].op /\ c.sent = q[l].sent
      <4>1. PICK l \in DOMAIN q : c = q[l] \/ c = Parked(q[l])
        BY <1>2, <3>1, <3>5 DEF FromTill, q, p
      <4>2. q[l] \in Change
        BY <1>4
      <4> HIDE DEF c
      <4> QED BY <4>1, <4>2, ParkedWith
    <3> HIDE DEF c
    <3>6. /\ \A h \in Slots : handler'[h] # Absent =>
                 \A j \in DOMAIN handler'[h].rows :
                     handler'[h].rows[j].id = c.id => SameAs(handler'[h].rows[j], c)
          /\ \A j \in DOMAIN queue["server"] : queue["server"][j].id = c.id => SameAs(queue["server"][j], c)
          /\ request[c.id].st # "none" => SameAs(request[c.id], c)
      BY <3>3, <3>4, <3>5 DEF c
    <3> QED BY <3>6 DEF c
  <2>5. StillOwed'
    <3>1. SUFFICES ASSUME owed # {}
                   PROVE  /\ p # <<>> /\ Last(p).st = "pending" /\ owed \subseteq Values(Last(p))
                          /\ request[Last(p).id].st # "none" => owed \cap Values(request[Last(p).id]) = {}
      BY <1>5 DEF StillOwed, Values, Keys
    <3>2. /\ p # <<>> /\ Last(p).st = "pending" /\ Values(Last(p)) = Values(Last(q))
          /\ Last(p).id \in {Last(q).id, made + 1}
      BY <2>2, <3>1 DEF Keeps, p, q
    <3>3. /\ owed \subseteq Values(Last(q))
          /\ request[Last(q).id].st # "none" => owed \cap Values(request[Last(q).id]) = {}
      BY <2>2, <3>1 DEF StillOwed, q
    <3>4. Last(p).id \in Ids
      <4>1. Len(p) \in DOMAIN p
        BY <1>3, <3>2
      <4>2. Last(p) \in Change
        BY <1>3, <4>1 DEF Last
      <4> QED BY <4>2 DEF Change
    <3>5. Last(p).id = made + 1 => request[Last(p).id].st = "none"
      BY <1>1, <2>3, <3>4
    <3> QED BY <3>2, <3>3, <3>5
  <2> QED BY <2>4, <2>5
<1> QED BY <1>10, <1>11, <1>12, <1>13 DEF IndInv, ChangesInv

(* A server's copy is an old one, or one from a request, with the owner.   *)
CopyFrom(c) ==
    \/ \E k \in DOMAIN queue["server"] : c = queue["server"][k]
    \/ \E o \in Slots : handler[o] # Absent /\ \E k \in DOMAIN handler[o].rows : c = Parked(handler[o].rows[k])

(* What the branch server holds after answers, or what the owner decided.  *)
LEMMA CopiesStep ==
  ASSUME IndInv, NEW r, r \in Seq(Change), \A j \in DOMAIN r : CopyFrom(r[j]),
         queue' = [queue EXCEPT !["server"] = r],
         UNCHANGED <<server, here, told, made, known, edits, fetched, cloud, request, news, webs, faults, owed, shown, odd>>,
         pass' \in [Senders -> {"idle", "handed", "posted"}], pass'["till"] = pass["till"],
         handler' \in [Slots -> Handler \cup {Absent}], SomeOver
  PROVE  IndInv'
<1> DEFINE q == queue["till"]
<1>1. /\ Types /\ TypeOK /\ Good(TillNow) /\ OnTheWay /\ EditsInv /\ CloudKinds /\ \A x \in Slots : Handled(x)
      /\ made \in Nat /\ edits \in 0..MaxEdits
  BY KindsNow DEF IndInv, ChangesInv, Types
<1>2. queue \in [Senders -> Seq(Change)]
  BY <1>1 DEF TypeOK
<1>3. queue' \in [Senders -> Seq(Change)] /\ queue'["till"] = q /\ queue'["server"] = r
  <2> DEFINE Qs == Seq(Change)
  <2>1. queue \in [Senders -> Qs] /\ r \in Qs
    BY <1>2
  <2> HIDE DEF Qs
  <2>2. queue' \in [Senders -> Qs] /\ queue'["till"] = q /\ queue'["server"] = r
    BY <2>1 DEF Senders
  <2> QED BY <2>2 DEF Qs
<1>4. TypeOK'
  <2> HIDE DEF Handler, Change, Edit, OddThings, Thing, Data
  <2> QED BY <1>1, <1>3 DEF TypeOK, CloudKinds, Things
<1>5. \A x : Known(x) => Known(x)'
  BY DEF Known, Whole
<1>6. ASSUME NEW o \in Slots, handler[o] # Absent, NEW j \in DOMAIN handler[o].rows
      PROVE  handler[o].rows[j] \in Change /\ Known(handler[o].rows[j])
  <2>1. handler[o] \in Handler
    BY <1>6, PassNow
  <2>2. handler[o].rows \in Seq(Change)
    BY <2>1 DEF Handler
  <2>3. Known(handler[o].rows[j])
    BY <1>1, <1>6 DEF Handled
  <2> QED BY <1>6, <2>2, <2>3
<1>7. \A o \in Slots : Awaited(o)' => Awaited(o)
  BY DEF SomeOver, Awaited
<1>8. \A j \in DOMAIN r : Known(r[j])
  <2>1. SUFFICES ASSUME NEW j \in DOMAIN r PROVE Known(r[j])
    OBVIOUS
  <2>2. CASE \E k \in DOMAIN queue["server"] : r[j] = queue["server"][k]
    BY <1>1, <2>2 DEF Types
  <2>3. ASSUME NEW o \in Slots, handler[o] # Absent, NEW k \in DOMAIN handler[o].rows, r[j] = Parked(handler[o].rows[k])
        PROVE  Known(r[j])
    BY <1>6, <2>3, ParkedWith DEF Known, Whole
  <2> QED BY <2>1, <2>2, <2>3 DEF CopyFrom
<1>9. Types'
  <2>1. \A o \in Slots : Handled(o)'
    <3>1. SUFFICES ASSUME NEW o \in Slots, handler'[o] # Absent
                   PROVE  Handled(o)'
      BY DEF Handled
    <3>2. handler'[o] = handler[o] /\ handler[o] # Absent
      BY <3>1 DEF SomeOver
    <3>3. Handled(o)
      BY <1>1
    <3> QED BY <1>7, <3>2, <3>3 DEF Handled, Known, Whole, Awaited
  <2>2. (\A k \in DOMAIN queue["server"] : Known(queue["server"][k]))'
    BY <1>3, <1>5, <1>8
  <2>3. (\A i \in Ids : request[i].st # "none" => i <= made /\ Whole(request[i]))'
    BY <1>1 DEF CloudKinds, Whole
  <2> QED BY <1>4, <2>1, <2>2, <2>3 DEF Types
<1>10. Good(TillNow)'
  BY <1>3, <1>1 DEF TillNow, Good
<1>11. OnTheWay'
  <2>1. SUFFICES ASSUME NEW h \in Slots, Awaited(h)', NEW j \in DOMAIN handler'[h].rows, NEW k \in DOMAIN q
                 PROVE  Fresh(handler[h].rows[j], q[k])
    BY <1>3 DEF OnTheWay, Fresh, SomeOver, Awaited
  <2>2. Awaited(h) /\ j \in DOMAIN handler[h].rows
    BY <1>7, <2>1 DEF SomeOver, Awaited
  <2> QED BY <1>1, <2>2 DEF OnTheWay
<1>12. EditsInv'
  <2>1. SUFFICES ASSUME "mixed" \notin odd PROVE AsFirstSent' /\ StillOwed'
    BY DEF EditsInv
  <2>2. AsFirstSent /\ StillOwed
    BY <1>1, <2>1 DEF EditsInv
  <2>3. AsFirstSent'
    <3>1. SUFFICES ASSUME NEW k \in DOMAIN q
                   PROVE  LET c == q[k] IN
                          /\ \A h \in Slots : handler'[h] # Absent =>
                                \A j \in DOMAIN handler'[h].rows :
                                    handler'[h].rows[j].id = c.id => SameAs(handler'[h].rows[j], c)
                          /\ \A j \in DOMAIN r : r[j].id = c.id => SameAs(r[j], c)
                          /\ request[c.id].st # "none" => SameAs(request[c.id], c)
      BY <1>3 DEF AsFirstSent, SameAs
    <3> DEFINE c == q[k]
    <3>2. /\ \A h \in Slots : handler[h] # Absent =>
                 \A j \in DOMAIN handler[h].rows : handler[h].rows[j].id = c.id => SameAs(handler[h].rows[j], c)
          /\ \A j \in DOMAIN queue["server"] : queue["server"][j].id = c.id => SameAs(queue["server"][j], c)
          /\ request[c.id].st # "none" => SameAs(request[c.id], c)
      BY <2>2, <3>1 DEF AsFirstSent
    <3> HIDE DEF c, q
    <3>3. \A h \in Slots : handler'[h] # Absent =>
             \A j \in DOMAIN handler'[h].rows : handler'[h].rows[j].id = c.id => SameAs(handler'[h].rows[j], c)
      BY <3>2 DEF SomeOver
    <3>4. ASSUME NEW j \in DOMAIN r, r[j].id = c.id PROVE SameAs(r[j], c)
      <4>1. CASE \E l \in DOMAIN queue["server"] : r[j] = queue["server"][l]
        BY <3>2, <3>4, <4>1
      <4>2. ASSUME NEW o \in Slots, handler[o] # Absent, NEW l \in DOMAIN handler[o].rows, r[j] = Parked(handler[o].rows[l])
            PROVE  SameAs(r[j], c)
        <5>1. handler[o].rows[l] \in Change
          BY <1>6, <4>2
        <5>2. r[j].id = handler[o].rows[l].id /\ r[j].op = handler[o].rows[l].op /\ r[j].data = handler[o].rows[l].data
          BY <4>2, <5>1, ParkedWith
        <5> QED BY <3>2, <3>4, <4>2, <5>2 DEF SameAs
      <4> QED BY <3>4, <4>1, <4>2 DEF CopyFrom
    <3> QED BY <3>2, <3>3, <3>4 DEF c
  <2>4. StillOwed'
    <3>1. SUFFICES ASSUME owed # {}
                   PROVE  /\ q # <<>> /\ Last(q).st = "pending" /\ owed \subseteq Values(Last(q))
                          /\ request[Last(q).id].st # "none" => owed \cap Values(request[Last(q).id]) = {}
                          /\ \A h \in Slots : Awaited(h)' =>
                                \A j \in DOMAIN handler'[h].said : LET x == handler'[h].rows[j] IN
                                    x.id = Last(q).id /\ x.at = Last(q).at => handler'[h].said[j] = "later"
      BY <1>3 DEF StillOwed, Values, Keys
    <3>2. \A h \in Slots : Awaited(h)' => handler'[h] = handler[h]
      BY DEF SomeOver, Awaited
    <3> QED BY <1>7, <2>2, <3>1, <3>2 DEF StillOwed
  <2> QED BY <2>3, <2>4
<1> QED BY <1>9, <1>10, <1>11, <1>12 DEF IndInv, ChangesInv

LEMMA HearKeeps ==
  ASSUME IndInv, NEW h \in Slots, Hear(h)
  PROVE  IndInv'
<1> DEFINE each == EachOf(handler[h])
<1>1. /\ TypeOK /\ Good(TillNow) /\ OnTheWay /\ CloudKinds /\ \A o \in Slots : Handled(o)
      /\ made \in Nat /\ edits \in 0..MaxEdits
  BY KindsNow DEF IndInv, ChangesInv
<1>2. /\ handler[h] # Absent /\ handler[h].step = "end" /\ handler' = [handler EXCEPT ![h] = Absent]
      /\ pass' = [pass EXCEPT ![handler[h].from] = "idle"]
      /\ UNCHANGED <<server, known, edits, fetched, cloud, request, news, webs, faults, owed, shown>>
  BY DEF Hear, At
<1>3. handler[h] \in Handler
  BY <1>2, PassNow
<1>4. /\ handler[h].from \in Senders /\ handler[h].rows \in Seq(Change) /\ handler[h].said \in Seq(Answers)
      /\ Len(handler[h].said) = Len(handler[h].rows) /\ handler[h].heard
  BY <1>1, <1>2, <1>3 DEF Handler, Answers, Handled
<1>5. pass' \in [Senders -> {"idle", "handed", "posted"}] /\ handler' \in [Slots -> Handler \cup {Absent}]
  BY <1>2, <1>4, PassNow
<1>6. \A o \in Slots : handler'[o] = IF o = h THEN Absent ELSE handler[o]
  BY <1>2, PassNow
<1>7. SomeOver
  BY <1>6 DEF SomeOver
<1>8. CASE handler[h].from = "till"
  <2> DEFINE r == AllAnswered(TillNow, each)
  <2>1. TillBecomes(r) /\ odd \subseteq odd' /\ odd' \subseteq OddThings
    <3>1. TillBecomes(r)
      BY <1>8 DEF Hear, EachOf
    <3>2. odd' = odd \cup OddAnswers(h, queue'["till"])
      BY <1>8 DEF Hear
    <3>3. OddAnswers(h, queue'["till"]) \subseteq {"copied", "half"}
      BY DEF OddAnswers
    <3> HIDE DEF r
    <3> QED BY <1>1, <3>1, <3>2, <3>3 DEF CloudKinds, OddThings
  <2>2. Awaited(h)
    BY <1>2, <1>4, <1>8 DEF Awaited
  <2>3. Judges(h)
    BY <1>1, <1>2, <1>3, <2>2 DEF Judges
  <2>4. /\ r \in TillStates /\ Progress(r, RowIds(handler[h].rows, Len(handler[h].rows)))
        /\ StillOwed => Keeps(r)
    BY <2>3, AllAnsweredIs
  <2>5. \A o \in Slots : ~Awaited(o)'
    BY <1>1, <1>6, <2>2 DEF Handled, Awaited
  <2> HIDE DEF r
  <2> QED BY <1>2, <1>5, <1>7, <2>1, <2>4, <2>5, TillStep
<1>9. CASE handler[h].from = "server"
  <2> DEFINE r == AllForwarded(queue["server"], each)
             q == queue["server"]
             rows == handler[h].rows
  <2>1. queue' = [queue EXCEPT !["server"] = r] /\ UNCHANGED <<told, made, here, odd>>
    BY <1>1, <1>9 DEF Hear, EachOf, TypeOK, Senders
  <2>2. q \in Seq(Change)
    BY <1>1 DEF TypeOK, Senders
  <2>3. /\ r \in Seq(Change)
        /\ \A j \in DOMAIN r : \/ \E k \in DOMAIN q : r[j] = q[k]
                               \/ \E k \in DOMAIN rows : r[j] = Parked(rows[k])
    BY <1>3, <1>4, <2>2, AllForwardedIs DEF MadeOf
  <2> HIDE DEF r
  <2>4. \A j \in DOMAIN r : CopyFrom(r[j])
    BY <1>2, <2>3 DEF CopyFrom
  <2>5. pass'["till"] = pass["till"]
    BY <1>2, <1>9, PassNow DEF Senders
  <2> QED BY <1>2, <1>5, <1>7, <2>1, <2>3, <2>4, <2>5, CopiesStep
<1> QED BY <1>4, <1>8, <1>9 DEF Senders

(* What is with the owner is asked after.                                  *)
LEMMA AskKeeps ==
  ASSUME IndInv, NEW m \in Senders, Ask(m)
  PROVE  IndInv'
<1>1. /\ TypeOK /\ Good(TillNow) /\ CloudKinds /\ made \in Nat /\ \A o \in Slots : Handled(o)
  BY KindsNow
<1>2. /\ pass[m] = "idle"
      /\ UNCHANGED <<server, known, edits, pass, fetched, cloud, request, handler, news, webs, faults, owed, shown, odd>>
  BY DEF Ask, cloudside
<1>3. pass' \in [Senders -> {"idle", "handed", "posted"}] /\ handler' \in [Slots -> Handler \cup {Absent}] /\ SomeOver
  BY <1>2, PassNow DEF SomeOver
<1>4. CASE m = "till"
  <2> DEFINE r == AllDecided(TillNow, Due)
  <2>1. TillBecomes(r)
    BY <1>4 DEF Ask, Due
  <2>2. r \in TillStates /\ Progress(r, {}) /\ r.made = made /\ (StillOwed => Keeps(r))
    BY <1>1, AllDecidedIs
  <2>3. \A o \in Slots : ~Awaited(o)'
    BY <1>1, <1>2, <1>4 DEF Handled, Awaited
  <2>4. odd \subseteq odd' /\ odd' \subseteq OddThings
    BY <1>1, <1>2 DEF CloudKinds
  <2> HIDE DEF r
  <2> QED BY <1>2, <1>3, <2>1, <2>2, <2>3, <2>4, TillStep
<1>5. CASE m = "server"
  <2> DEFINE q == queue["server"]
             S == {c \in ToSet(q) : ~Decided(c)}
             r == Those(q, S)
  <2>1. queue' = [queue EXCEPT !["server"] = r] /\ UNCHANGED <<told, made, here>>
    BY <1>1, <1>5 DEF Ask, TypeOK
  <2>2. q \in Seq(Change)
    BY <1>1 DEF TypeOK, Senders
  <2>3. r \in Seq(Change) /\ \A j \in DOMAIN r : \E k \in DOMAIN q : r[j] = q[k]
    <3>1. q \in Seq(Change) /\ r = Those(q, S)
      BY <2>2
    <3> HIDE DEF q, S, r
    <3>2. r \in Seq(Change)
      BY <3>1, ThoseKeeps
    <3>3. \A j \in DOMAIN r : r[j] \in S /\ \E k \in DOMAIN q : r[j] = q[k]
      BY <3>1, ThoseKeeps
    <3> QED BY <3>2, <3>3
  <2> HIDE DEF r
  <2>4. \A j \in DOMAIN r : CopyFrom(r[j])
    BY <2>3 DEF CopyFrom
  <2> QED BY <1>2, <1>3, <2>1, <2>3, <2>4, CopiesStep
<1> QED BY <1>4, <1>5 DEF Senders

(* What is made at the till: a change is new, or one from before.          *)
FromBefore(c) ==
    \/ c.id = made + 1
    \/ \E l \in DOMAIN queue["till"] :
          LET d == queue["till"][l] IN c.id = d.id /\ c.op = d.op /\ c.sent = d.sent
(* It is no answer to it that a request of the till is about to get.       *)
NewerThan(h, p) ==
    \A j \in DOMAIN handler[h].rows, k \in DOMAIN p : LET x == handler[h].rows[j] IN
        x.id = p[k].id =>
            IF x.at = p[k].at THEN x.op = p[k].op /\ x.data = p[k].data
            ELSE p[k].st = "pending" /\ p[k].op # "delete" /\ made' < edits'
(* What is owed is of the last one, of which the cloud has seen nothing.   *)
OwesLast(p) ==
    /\ p # <<>> /\ Last(p).st = "pending" /\ owed' \subseteq Values(Last(p))
    /\ request[Last(p).id].st # "none" => owed' \cap Values(request[Last(p).id]) = {}
    /\ Last(p).id = made + 1 \/ Last(p).at = edits + 1

LEMMA EditStep ==
  ASSUME IndInv, AtTill, NEW p, p \in Seq(Change), queue' = [queue EXCEPT !["till"] = p],
         made' \in {made, made + 1}, here' \in Things, Good(TillNow)',
         owed' \subseteq Edit, shown' \subseteq Fields \X Vals, odd \subseteq odd', odd' \subseteq OddThings,
         \A h \in Slots : Awaited(h) => NewerThan(h, p),
         \A k \in DOMAIN p : FromBefore(p[k]), "mixed" \notin odd' /\ owed' # {} => OwesLast(p)
  PROVE  IndInv'
<1> DEFINE q == queue["till"]
<1>1. /\ Types /\ TypeOK /\ Good(TillNow) /\ OnTheWay /\ EditsInv /\ CloudKinds /\ \A x \in Slots : Handled(x)
      /\ made \in Nat /\ edits \in 0..MaxEdits
  BY KindsNow DEF IndInv, ChangesInv, Types
<1>2. /\ edits < MaxEdits /\ edits' = edits + 1
      /\ UNCHANGED <<server, told, known, pass, fetched, cloud, request, handler, news, webs, faults>>
  BY DEF AtTill, cloudside
<1>3. queue \in [Senders -> Seq(Change)] /\ made \in 0..edits
  BY <1>1 DEF TypeOK
<1>4. queue' \in [Senders -> Seq(Change)] /\ queue'["till"] = p /\ queue'["server"] = queue["server"]
  <2> DEFINE Qs == Seq(Change)
  <2>1. queue \in [Senders -> Qs] /\ p \in Qs
    BY <1>3
  <2> HIDE DEF Qs
  <2>2. queue' \in [Senders -> Qs] /\ queue'["till"] = p /\ queue'["server"] = queue["server"]
    BY <2>1 DEF Senders
  <2> QED BY <2>2 DEF Qs
<1>5. made' \in 0..edits' /\ made' >= made /\ edits' \in 0..MaxEdits /\ MaxEdits \in Nat
  BY <1>1, <1>2, <1>3, BoundsAssumption
<1>6. TypeOK'
  <2>1. known' \subseteq 1..made'
    BY <1>1, <1>2, <1>5 DEF TypeOK
  <2> HIDE DEF Handler, Change, Edit, OddThings, Thing, Data
  <2> QED BY <1>1, <1>2, <1>4, <1>5, <2>1 DEF TypeOK, CloudKinds, Things
<1>7. \A x \in Change : x.id \in Ids /\ x.at \in 1..MaxEdits
  BY DEF Change
<1>8. \A x \in Change : Known(x) => Known(x)'
  BY <1>1, <1>2, <1>5, <1>7 DEF Known, Whole, Ids
<1>9. ASSUME NEW o \in Slots, handler[o] # Absent, NEW j \in DOMAIN handler[o].rows
      PROVE  handler[o].rows[j] \in Change /\ Known(handler[o].rows[j])
  <2>1. handler[o] \in Handler
    BY <1>9, PassNow
  <2>2. handler[o].rows \in Seq(Change)
    BY <2>1 DEF Handler
  <2>3. Known(handler[o].rows[j])
    BY <1>1, <1>9 DEF Handled
  <2> QED BY <1>9, <2>2, <2>3
<1>10. Types'
  <2>1. \A o \in Slots : Handled(o)'
    <3>1. SUFFICES ASSUME NEW o \in Slots, handler[o] # Absent
                   PROVE  Handled(o)'
      BY <1>2 DEF Handled
    <3>2. Handled(o) /\ handler' = handler /\ pass' = pass
      BY <1>1, <1>2
    <3>3. \A j \in DOMAIN handler[o].rows : Known(handler[o].rows[j])'
      <4>1. PICK d : d = handler[o].rows
        OBVIOUS
      <4>2. \A j \in DOMAIN d : Known(d[j])'
        BY <1>8, <1>9, <3>1, <4>1
      <4> QED BY <3>2, <4>1, <4>2 DEF Known, Whole
    <3>4. (\A j \in DOMAIN handler[o].rows : Known(handler[o].rows[j]))'
      BY <3>2, <3>3 DEF Known, Whole
    <3> QED BY <3>1, <3>2, <3>4 DEF Handled, Awaited
  <2>2. (\A k \in DOMAIN queue["server"] : Known(queue["server"][k]))'
    <3>1. PICK d : d = queue["server"]
      OBVIOUS
    <3>2. d \in Seq(Change) /\ \A k \in DOMAIN d : Known(d[k])
      BY <1>1, <1>3, <3>1 DEF Types, Senders
    <3>3. \A k \in DOMAIN d : Known(d[k])'
      BY <1>8, <3>2
    <3> QED BY <1>4, <3>1, <3>3
  <2>3. (\A i \in Ids : request[i].st # "none" => i <= made /\ Whole(request[i]))'
    <3>1. ASSUME NEW i \in Ids, request[i].st # "none" PROVE i <= made' /\ Whole(request[i])
      BY <1>1, <1>5, <3>1 DEF CloudKinds, Ids
    <3> QED BY <1>2, <3>1 DEF Whole
  <2> QED BY <1>6, <2>1, <2>2, <2>3 DEF Types
<1>11. OnTheWay'
  <2>1. SUFFICES ASSUME NEW h \in Slots, Awaited(h), NEW j \in DOMAIN handler[h].rows, NEW k \in DOMAIN p
                 PROVE  (Fresh(handler[h].rows[j], queue["till"][k]))'
    BY <1>2, <1>4 DEF OnTheWay, Awaited
  <2>2. PICK x : x = handler[h].rows[j]
    OBVIOUS
  <2>3. PICK y : y = p[k]
    OBVIOUS
  <2>4. Fresh(x, y)'
    BY <2>1, <2>2, <2>3 DEF Fresh, NewerThan
  <2> QED BY <1>2, <1>4, <2>2, <2>3, <2>4 DEF Fresh
<1>12. EditsInv'
  <2>1. SUFFICES ASSUME "mixed" \notin odd' PROVE AsFirstSent' /\ StillOwed'
    BY DEF EditsInv
  <2>2. "mixed" \notin odd /\ AsFirstSent
    BY <1>1, <2>1 DEF EditsInv
  <2>3. \A i \in Ids : request[i].st # "none" => i <= made
    BY <1>1 DEF Types
  <2>4. \A x : Known(x) /\ x \in Change => x.id # made + 1
    BY <1>1, <1>5, <1>7 DEF Known, Ids
  <2>5. AsFirstSent'
    <3>1. SUFFICES ASSUME NEW k \in DOMAIN p
                   PROVE  LET c == p[k] IN
                          /\ \A h \in Slots : handler[h] # Absent =>
                                \A j \in DOMAIN handler[h].rows :
                                    handler[h].rows[j].id = c.id => SameAs(handler[h].rows[j], c)
                          /\ \A j \in DOMAIN queue["server"] : queue["server"][j].id = c.id => SameAs(queue["server"][j], c)
                          /\ request[c.id].st # "none" => SameAs(request[c.id], c)
      BY <1>2, <1>4 DEF AsFirstSent, SameAs
    <3> DEFINE c == p[k]
    <3>2. c \in Change /\ c.id \in Ids /\ FromBefore(c)
      BY <1>7, <3>1
    <3> HIDE DEF c
    <3>3. CASE c.id = made + 1
      <4>1. \A j \in DOMAIN queue["server"] : queue["server"][j].id # made + 1
        <5>1. PICK d : d = queue["server"]
          OBVIOUS
        <5>2. d \in Seq(Change) /\ \A j \in DOMAIN d : Known(d[j])
          BY <1>1, <1>3, <5>1 DEF Types, Senders
        <5> QED BY <2>4, <5>1, <5>2
      <4>2. \A h \in Slots : handler[h] # Absent => \A j \in DOMAIN handler[h].rows : handler[h].rows[j].id # made + 1
        BY <1>9, <2>4
      <4>3. request[c.id].st = "none"
        BY <1>1, <2>3, <3>2, <3>3
      <4>4. /\ \A h \in Slots : handler[h] # Absent =>
                  \A j \in DOMAIN handler[h].rows : handler[h].rows[j].id = c.id => SameAs(handler[h].rows[j], c)
            /\ \A j \in DOMAIN queue["server"] : queue["server"][j].id = c.id => SameAs(queue["server"][j], c)
            /\ request[c.id].st # "none" => SameAs(request[c.id], c)
        BY <3>3, <4>1, <4>2, <4>3
      <4> QED BY <4>4 DEF c
    <3>4. ASSUME NEW l \in DOMAIN q, c.id = q[l].id, c.op = q[l].op, c.sent = q[l].sent
          PROVE  /\ \A h \in Slots : handler[h] # Absent =>
                        \A j \in DOMAIN handler[h].rows :
                            handler[h].rows[j].id = c.id => SameAs(handler[h].rows[j], c)
                 /\ \A j \in DOMAIN queue["server"] : queue["server"][j].id = c.id => SameAs(queue["server"][j], c)
                 /\ request[c.id].st # "none" => SameAs(request[c.id], c)
      <4>1. \A x : SameAs(x, q[l]) => SameAs(x, c)
        BY <3>4 DEF SameAs
      <4>2. /\ \A h \in Slots : handler[h] # Absent =>
                   \A j \in DOMAIN handler[h].rows :
                       handler[h].rows[j].id = q[l].id => SameAs(handler[h].rows[j], q[l])
            /\ \A j \in DOMAIN queue["server"] : queue["server"][j].id = q[l].id => SameAs(queue["server"][j], q[l])
            /\ request[q[l].id].st # "none" => SameAs(request[q[l].id], q[l])
        BY <2>2, <3>4 DEF AsFirstSent
      <4> HIDE DEF q
      <4> QED BY <3>4, <4>1, <4>2
    <3>5. c.id = made + 1 \/ \E l \in DOMAIN q : c.id = q[l].id /\ c.op = q[l].op /\ c.sent = q[l].sent
      BY <3>2 DEF FromBefore
    <3> HIDE DEF q
    <3> QED BY <3>3, <3>4, <3>5 DEF c
  <2>6. StillOwed'
    <3>1. SUFFICES ASSUME owed' # {}
                   PROVE  /\ p # <<>> /\ Last(p).st = "pending" /\ owed' \subseteq Values(Last(p))
                          /\ request[Last(p).id].st # "none" => owed' \cap Values(request[Last(p).id]) = {}
                          /\ \A h \in Slots : Awaited(h) =>
                                \A j \in DOMAIN handler[h].said : LET x == handler[h].rows[j] IN
                                    x.id = Last(p).id /\ x.at = Last(p).at => handler[h].said[j] = "later"
      BY <1>2, <1>4 DEF StillOwed, Values, Keys, Awaited
    <3>2. OwesLast(p) /\ (Last(p).id = made + 1 \/ Last(p).at = edits + 1)
      BY <2>1, <3>1 DEF OwesLast
    <3>3. \A x : Known(x) /\ x \in Change => x.at # edits + 1
      BY <1>1, <1>5, <1>7 DEF Known
    <3>4. ASSUME NEW h \in Slots, Awaited(h), NEW j \in DOMAIN handler[h].said,
                 handler[h].rows[j].id = Last(p).id, handler[h].rows[j].at = Last(p).at
          PROVE  FALSE
      <4>1. handler[h] # Absent /\ j \in DOMAIN handler[h].rows
        <5>1. handler[h] # Absent
          BY <3>4 DEF Awaited
        <5>2. handler[h] \in Handler
          BY <5>1, PassNow
        <5>3. handler[h].rows \in Seq(Change) /\ handler[h].said \in Seq(Answers)
          BY <5>2 DEF Handler, Answers
        <5>4. Len(handler[h].said) <= Len(handler[h].rows)
          BY <1>1, <5>1 DEF Handled
        <5> QED BY <3>4, <5>1, <5>3, <5>4
      <4>2. handler[h].rows[j] \in Change /\ Known(handler[h].rows[j])
        BY <1>9, <4>1
      <4> QED BY <2>4, <3>2, <3>3, <3>4, <4>2
    <3> QED BY <3>2, <3>4 DEF OwesLast
  <2> QED BY <2>5, <2>6
<1> QED BY <1>10, <1>11, <1>12 DEF IndInv, ChangesInv

LEMMA GoodNext ==
  ASSUME NEW p \in Seq(Change), queue'["till"] = p,
         told' \in [Ids -> {"none", "done", "refused", "rejected"}], made' \in 0..edits', here' \in Things,
         Distinct(p), Ordered(p, made'), Shows(p, made', here'),
         \A k \in DOMAIN p : /\ p[k].id <= made' /\ p[k].at <= edits' /\ Whole(p[k])
                             /\ p[k].op = "delete" => here' = Absent
  PROVE  Good(TillNow)'
<1> DEFINE s == [q |-> p, told |-> told', made |-> made', here |-> here']
<1>1. TillNow' = s
  BY DEF TillNow
<1>2. s.q = p /\ s.told = told' /\ s.made = made' /\ s.here = here'
  OBVIOUS
<1> HIDE DEF s
<1> QED BY <1>1, <1>2 DEF Good, Things, Whole

(* With the thing there, no delete waits, and what waits comes last.       *)
LEMMA LastWaits ==
  ASSUME IndInv, here # Absent, NEW q, q = queue["till"]
  PROVE  /\ q \in Seq(Change)
         /\ \A k \in DOMAIN q : q[k].op # "delete" /\ (q[k].st = "pending" => k = Len(q))
         /\ Waiting # <<>> => q # <<>> /\ Last(Waiting) = Last(q) /\ Last(q).st = "pending"
         /\ Waiting = <<>> => \A k \in DOMAIN q : q[k].st # "pending"
<1> DEFINE w == Waiting
<1>1. /\ q \in Seq(Change) /\ Ordered(q, made)
      /\ \A k \in DOMAIN q : q[k].op # "delete"
  BY KindsNow DEF Good, TillNow
<1>2. ASSUME NEW k \in DOMAIN q, q[k].st = "pending" PROVE k = Len(q)
  <2>1. SUFFICES ASSUME k # Len(q) PROVE FALSE
    OBVIOUS
  <2>2. Len(q) \in DOMAIN q /\ k < Len(q)
    BY <1>1, <1>2, <2>1
  <2>3. q[Len(q)].op = "delete"
    BY <1>1, <1>2, <2>2 DEF Ordered
  <2> QED BY <1>1, <2>2, <2>3
<1>3. /\ w \in Seq(Change)
      /\ \A j \in DOMAIN w : w[j].st = "pending" /\ \E k \in DOMAIN q : w[j] = q[k]
      /\ \A k \in DOMAIN q : q[k].st = "pending" => \E j \in DOMAIN w : w[j] = q[k]
  <2>1. w = ToSend("till")
    BY DEF Waiting
  <2> HIDE DEF w
  <2>2. /\ w \in Seq(Change)
        /\ \A j \in DOMAIN w : w[j].st = "pending" /\ \E k \in DOMAIN q : w[j] = q[k]
    BY <1>1, <2>1, ToSendIs
  <2>3. AllSent(q, w)
    BY <1>1, <2>1, ToSendIs
  <2> QED BY <2>2, <2>3 DEF AllSent
<1> HIDE DEF w
<1>4. ASSUME w # <<>> PROVE q # <<>> /\ Last(w) = Last(q) /\ Last(q).st = "pending"
  <2>1. Len(w) \in DOMAIN w
    BY <1>3, <1>4
  <2>2. PICK k \in DOMAIN q : w[Len(w)] = q[k]
    BY <1>3, <2>1
  <2>3. q[k].st = "pending" /\ k = Len(q)
    BY <1>2, <1>3, <2>1, <2>2
  <2>4. q # <<>>
    BY <2>2
  <2> QED BY <2>2, <2>3, <2>4 DEF Last
<1>5. ASSUME w = <<>> PROVE \A k \in DOMAIN q : q[k].st # "pending"
  BY <1>3, <1>5
<1> QED BY <1>1, <1>2, <1>4, <1>5 DEF w

(* A sequence with one more at its end.                                    *)
Added(q, c, p) ==
    \A k \in DOMAIN p : \/ k = Len(p) /\ p[k] = c
                        \/ k \in DOMAIN q /\ k < Len(p) /\ p[k] = q[k]
LEMMA Appended ==
  ASSUME NEW q \in Seq(Change), NEW c \in Change, NEW p, p = Append(q, c)
  PROVE  /\ p \in Seq(Change) /\ Len(p) = Len(q) + 1 /\ Len(q) \in Nat /\ p # <<>> /\ Last(p) = c
         /\ Added(q, c, p)
<1>1. /\ p \in Seq(Change) /\ Len(p) = Len(q) + 1 /\ Len(q) \in Nat /\ p[Len(q) + 1] = c
      /\ \A k \in 1..Len(q) : p[k] = q[k]
  OBVIOUS
<1>2. p # <<>>
  BY <1>1
<1>3. Last(p) = c
  BY <1>1 DEF Last
<1>4. Added(q, c, p)
  BY <1>1 DEF Added
<1> QED BY <1>1, <1>2, <1>3, <1>4

(* A change of its own is the last, and shows.                             *)
LEMMA RecordStep ==
  ASSUME IndInv, AtTill, NEW op \in Ops, NEW base \in Data, NEW data \in Data, Recorded(op, base, data),
         here' \in Things, shown' \subseteq Fields \X Vals, odd' = odd, owed' \subseteq Edit,
         here # Absent \/ queue["till"] = <<>>,
         op = "create" => data \in Thing /\ queue["till"] = <<>>,
         op = "delete" => here' = Absent,
         \A k \in DOMAIN queue["till"] :
             queue["till"][k].st = "pending" => op = "delete" /\ queue["till"][k].op = "update",
         Lay(NewChange(op, base, data), here') = here',
         "mixed" \notin odd => owed' \subseteq Values(NewChange(op, base, data))
  PROVE  IndInv'
<1> DEFINE q == queue["till"]
<1>23. PICK c : c = NewChange(op, base, data)
  OBVIOUS
<1>21. PICK p : p = Append(q, c)
  OBVIOUS
<1>1. /\ TypeOK /\ Good(TillNow) /\ OnTheWay /\ CloudKinds
      /\ made \in 0..edits /\ edits \in 0..MaxEdits /\ MaxEdits \in Nat
      /\ edits < MaxEdits /\ edits' = edits + 1 /\ handler' = handler
  BY KindsNow, BoundsAssumption DEF IndInv, ChangesInv, TypeOK, AtTill, cloudside
<1>2. queue' = [queue EXCEPT !["till"] = p] /\ made' = made + 1
  BY <1>21, <1>23 DEF Recorded, Queued
<1>3. /\ c \in Change /\ c.id = made + 1 /\ c.at = edits + 1 /\ c.st = "pending" /\ c.op = op /\ c.data = data
  BY <1>1, <1>23 DEF NewChange, Change, Ids
<1>4. /\ q \in Seq(Change) /\ Distinct(q) /\ Ordered(q, made)
      /\ \A k \in DOMAIN q : /\ q[k].id <= made /\ q[k].at <= edits /\ Whole(q[k]) /\ q[k] \in Change
                             /\ q[k].op = "delete" => here = Absent
  BY <1>1 DEF Good, TillNow
<1>5. \A k \in DOMAIN q : q[k].op # "delete" /\ q[k].id \in Ids /\ q[k].at \in 1..MaxEdits
  BY <1>4 DEF Change
<1>6. \A k \in DOMAIN q : q[k].st = "pending" => op = "delete" /\ q[k].op = "update"
  OBVIOUS
<1>7. op = "create" => q = <<>>
  OBVIOUS
<1>8. Lay(c, here') = here' /\ ("mixed" \notin odd => owed' \subseteq Values(c))
  BY <1>23
<1> HIDE DEF q
<1>9. /\ p \in Seq(Change) /\ Len(p) = Len(q) + 1 /\ Len(q) \in Nat /\ p # <<>> /\ Last(p) = c
      /\ \A k \in DOMAIN p : \/ k = Len(p) /\ p[k] = c
                             \/ k \in DOMAIN q /\ k < Len(p) /\ p[k] = q[k]
  <2>1. /\ p \in Seq(Change) /\ Len(p) = Len(q) + 1 /\ Len(q) \in Nat /\ p # <<>> /\ Last(p) = c
    BY <1>3, <1>4, <1>21, Appended
  <2>2. Added(q, c, p)
    BY <1>3, <1>4, <1>21, Appended
  <2> QED BY <2>1, <2>2 DEF Added
<1>10. Distinct(p)
  BY <1>1, <1>4, <1>5, <1>3, <1>9 DEF Ids, Distinct
<1>11. Ordered(p, made')
  <2>1. SUFFICES ASSUME NEW k \in DOMAIN p, NEW l \in DOMAIN p, k < l
                 PROVE  /\ p[k].op # "delete" /\ p[l].op # "create"
                        /\ p[k].st = "pending" \/ p[k].id = made' => p[k].op = "update" /\ p[l].op = "delete"
    BY DEF Ordered
  <2>2. k \in Nat /\ l \in Nat /\ l <= Len(p)
    BY <1>9
  <2>3. k \in DOMAIN q /\ p[k] = q[k]
    BY <1>9, <2>1, <2>2
  <2>4. p[k].op # "delete" /\ p[k].id # made'
    BY <1>1, <1>2, <1>4, <1>5, <2>3 DEF Ids
  <2>5. CASE p[l] = c
    BY <1>7, <2>3, <1>3, <1>6, <2>4, <2>5
  <2>6. CASE l \in DOMAIN q /\ p[l] = q[l]
    BY <1>4, <2>1, <2>3, <2>4, <2>6 DEF Ordered
  <2> QED BY <1>9, <2>5, <2>6
<1>12. Shows(p, made', here')
  BY <1>8, <1>9 DEF Shows
<1>13. \A k \in DOMAIN p : /\ p[k].id <= made' /\ p[k].at <= edits' /\ Whole(p[k])
                           /\ p[k].op = "delete" => here' = Absent
  <2>1. Whole(c) /\ c.id <= made' /\ c.at <= edits' /\ (c.op = "delete" => here' = Absent)
    BY <1>1, <1>2, <1>3 DEF Whole
  <2>2. \A k \in DOMAIN q : q[k].id <= made' /\ q[k].at <= edits' /\ Whole(q[k]) /\ q[k].op # "delete"
    BY <1>1, <1>2, <1>4, <1>5 DEF Ids
  <2> QED BY <1>9, <2>1, <2>2
<1>14. queue'["till"] = p
  <2> DEFINE Qs == Seq(Change)
  <2>1. queue \in [Senders -> Qs]
    BY <1>1 DEF TypeOK
  <2> HIDE DEF Qs
  <2> QED BY <1>2, <2>1 DEF Senders
<1>15. Good(TillNow)'
  <2>1. told' \in [Ids -> {"none", "done", "refused", "rejected"}] /\ made' \in 0..edits'
    BY <1>1, <1>2 DEF TypeOK, AtTill
  <2> QED BY <1>9, <1>10, <1>11, <1>12, <1>13, <1>14, <2>1, GoodNext
<1>16. ASSUME NEW h \in Slots, Awaited(h) PROVE NewerThan(h, p)
  <2>1. SUFFICES ASSUME NEW j \in DOMAIN handler[h].rows, NEW k \in DOMAIN p, NEW x, x = handler[h].rows[j],
                        x.id = p[k].id
                 PROVE  IF x.at = p[k].at THEN x.op = p[k].op /\ x.data = p[k].data
                        ELSE p[k].st = "pending" /\ p[k].op # "delete" /\ made' < edits'
    BY DEF NewerThan
  <2>2. x.id <= made /\ x \in Change
    <3>1. handler[h] # Absent /\ handler[h] \in Handler
      BY <1>16, PassNow DEF Awaited
    <3>2. handler[h].rows \in Seq(Change)
      BY <3>1 DEF Handler
    <3>3. Known(x)
      BY <2>1, <3>1, KindsNow DEF Handled
    <3> QED BY <2>1, <3>2, <3>3 DEF Known
  <2>3. x.id # made + 1
    BY <1>1, <2>2 DEF Change, Ids
  <2>4. k \in DOMAIN q /\ p[k] = q[k]
    BY <1>3, <1>9, <2>1, <2>3
  <2>5. Fresh(x, p[k])
    BY <1>1, <1>16, <2>1, <2>4 DEF OnTheWay, q
  <2> QED BY <1>1, <1>2, <2>1, <2>5 DEF Fresh
<1>17. \A k \in DOMAIN p : FromBefore(p[k])
  BY <1>3, <1>9 DEF FromBefore, q
<1>18. request[c.id].st = "none"
  <2>1. \A i \in Ids : request[i].st # "none" => i <= made
    BY <1>1 DEF CloudKinds
  <2>2. c.id \in Ids
    BY <1>3 DEF Change
  <2> QED BY <1>1, <1>3, <2>1, <2>2
<1>19. odd \subseteq odd' /\ odd' \subseteq OddThings
  BY <1>1 DEF CloudKinds
<1>20. "mixed" \notin odd' /\ owed' # {} => OwesLast(p)
  BY <1>3, <1>8, <1>9, <1>18 DEF OwesLast
<1> QED BY <1>2, <1>9, <1>15, <1>16, <1>17, <1>19, <1>20, EditStep

LEMMA NewIs ==
  ASSUME NEW op, NEW base, NEW data
  PROVE  /\ NewChange(op, base, data).op = op /\ NewChange(op, base, data).data = data
         /\ op = "delete" => Values(NewChange(op, base, data)) = {<<"gone">>}
         /\ op # "delete" => Values(NewChange(op, base, data)) = {<<f, data[f]>> : f \in {x \in Fields : data[x] # Absent}}
BY DEF NewChange, Values, Keys

(* A new thing: nothing was made before.                                   *)
LEMMA CreateKeeps ==
  ASSUME IndInv, NEW row \in Thing, Create(row)
  PROVE  IndInv'
<1> DEFINE q == queue["till"]
           c == NewChange("create", Unset, row)
<1>1. /\ edits = 0 /\ AtTill /\ here' = row /\ Recorded("create", Unset, row)
      /\ owed' = Pairs(row) /\ shown' = Pairs(row) /\ odd' = odd
  BY DEF Create
<1>2. row \in Data /\ Unset \in Data /\ row \in Things /\ row # Absent
  BY AbsentAssumption DEF Thing, Data, Unset, Things
<1>3. q = <<>>
  <2>1. q \in Seq(Change) /\ \A k \in DOMAIN q : q[k].id <= made
    BY KindsNow DEF Good, TillNow
  <2>2. made = 0
    BY <1>1, KindsNow DEF TypeOK
  <2> HIDE DEF q
  <2>3. \A k \in DOMAIN q : q[k] \in Change
    BY <2>1
  <2>4. \A k \in DOMAIN q : FALSE
    BY <2>1, <2>2, <2>3, BoundsAssumption DEF Change, Ids
  <2> QED BY <2>1, <2>4
<1>4. Pairs(row) \subseteq Fields \X Vals /\ Pairs(row) \subseteq Edit
  BY <1>2 DEF Pairs, Thing, Edit
<1>5. Lay(c, row) = row
  BY <1>2, OverIs, NewIs DEF Lay
<1>6. Pairs(row) \subseteq Values(c)
  BY AbsentAssumption, <1>2, NewIs DEF Thing, Pairs
<1>7. \A k \in DOMAIN q : FALSE
  BY <1>3
<1> HIDE DEF c
<1>8. Lay(NewChange("create", Unset, row), here') = here' /\ owed' \subseteq Values(NewChange("create", Unset, row))
  BY <1>1, <1>5, <1>6 DEF c
<1>9. "create" \in Ops
  BY DEF Ops
<1> QED BY <1>1, <1>2, <1>3, <1>4, <1>7, <1>8, <1>9, RecordStep

(* Deleting what was created here and still waits: nothing is sent.        *)
LEMMA DeleteKeeps ==
  ASSUME IndInv, Delete
  PROVE  IndInv'
<1>1. /\ TypeOK /\ Good(TillNow) /\ OnTheWay /\ CloudKinds
      /\ here # Absent /\ AtTill /\ here' = Absent /\ shown' = shown /\ edits' = edits + 1
  BY KindsNow DEF Delete, IndInv, ChangesInv, AtTill
<1>2. PICK q : q = queue["till"]
  OBVIOUS
<1>3. /\ q \in Seq(Change)
      /\ \A k \in DOMAIN q : q[k].op # "delete" /\ (q[k].st = "pending" => k = Len(q))
      /\ Waiting # <<>> => q # <<>> /\ Last(Waiting) = Last(q) /\ Last(q).st = "pending"
      /\ Waiting = <<>> => \A k \in DOMAIN q : q[k].st # "pending"
  BY <1>1, <1>2, LastWaits
<1>4. here' \in Things /\ shown' \subseteq Fields \X Vals /\ <<"gone">> \in Edit /\ odd \subseteq OddThings
  BY <1>1 DEF Things, CloudKinds, Edit
<1>5. CASE Waiting # <<>> /\ Last(Waiting).op = "create"
  <2>1. PICK c : c = Last(Waiting)
    OBVIOUS
  <2>2. /\ queue' = [queue EXCEPT !["till"] = Without(q, c.id)] /\ made' = made
        /\ \/ owed' = {} /\ odd' = odd
           \/ owed' = {<<"gone">>} /\ odd' = odd \cup {"mixed"}
    BY <1>2, <1>5, <2>1 DEF Delete, Queued
  <2>3. Ordered(q, made) /\ q # <<>> /\ c = q[Len(q)] /\ c.op = "create"
    BY <1>1, <1>2, <1>3, <1>5, <2>1 DEF Good, TillNow, Last
  <2>4. \A k \in DOMAIN q : q[k].id = c.id
    <3>1. ASSUME NEW k \in DOMAIN q PROVE k = Len(q)
      BY <1>3, <3>1, <2>3 DEF Ordered
    <3> QED BY <2>3, <3>1
  <2>5. Without(q, c.id) = <<>>
    <3> DEFINE S == {x \in ToSet(q) : x.id # c.id}
               r == Those(q, S)
    <3>1. \A x \in S : \A k \in DOMAIN q : q[k] # x
      BY <2>4
    <3>2. r = Without(q, c.id)
      BY DEF Without
    <3> HIDE DEF S, r
    <3>3. r = Those(q, S)
      BY DEF r
    <3>4. r \in Seq(Change) /\ \A j \in DOMAIN r : r[j] \in S /\ \E k \in DOMAIN q : r[j] = q[k]
      BY <1>3, <3>3, ThoseKeeps
    <3>5. \A j \in DOMAIN r : FALSE
      BY <3>1, <3>4
    <3> QED BY <3>2, <3>4, <3>5
  <2>6. PICK p : p = <<>>
    OBVIOUS
  <2>7. p \in Seq(Change) /\ queue' = [queue EXCEPT !["till"] = p] /\ \A k \in DOMAIN p : FALSE
    BY <2>2, <2>5, <2>6
  <2>8. queue'["till"] = p
    <3> DEFINE Qs == Seq(Change)
    <3>1. queue \in [Senders -> Qs]
      BY <1>1 DEF TypeOK
    <3> HIDE DEF Qs
    <3> QED BY <2>7, <3>1 DEF Senders
  <2>9. Good(TillNow)'
    <3>1. told' \in [Ids -> {"none", "done", "refused", "rejected"}] /\ made' \in 0..edits'
      BY <1>1, <2>2, KindsNow DEF TypeOK, AtTill
    <3>2. Distinct(p) /\ Ordered(p, made') /\ Shows(p, made', here')
      BY <2>6, <2>7 DEF Distinct, Ordered, Shows
    <3> QED BY <1>4, <2>7, <2>8, <3>1, <3>2, GoodNext
  <2>10. \A h \in Slots : Awaited(h) => NewerThan(h, p)
    BY <2>7 DEF NewerThan
  <2>11. \A k \in DOMAIN p : FromBefore(p[k])
    BY <2>7
  <2>12. "mixed" \notin odd' => owed' = {}
    BY <2>2
  <2>13. owed' \subseteq Edit /\ odd \subseteq odd' /\ odd' \subseteq OddThings
    BY <1>4, <2>2 DEF OddThings
  <2> QED BY <1>1, <1>4, <2>2, <2>7, <2>9, <2>10, <2>11, <2>12, <2>13, EditStep
<1>6. CASE ~(Waiting # <<>> /\ Last(Waiting).op = "create")
  <2>1. Recorded("delete", here, Unset) /\ owed' = {<<"gone">>} /\ odd' = odd
    BY <1>6 DEF Delete
  <2>2. here \in Data /\ Unset \in Data /\ "delete" \in Ops
    BY <1>1 DEF TypeOK, Thing, Data, Unset, Ops
  <2>3. \A k \in DOMAIN q : q[k].st = "pending" => q[k].op = "update"
    <3>1. SUFFICES ASSUME NEW k \in DOMAIN q, q[k].st = "pending" PROVE q[k].op = "update"
      OBVIOUS
    <3>2. Waiting # <<>> /\ k = Len(q)
      BY <1>3, <3>1
    <3>3. q[k].op # "create" /\ q[k].op # "delete"
      BY <1>3, <1>6, <3>1, <3>2 DEF Last
    <3>4. q[k] \in Change
      BY <1>3, <3>1
    <3> QED BY <3>3, <3>4 DEF Change, Ops
  <2>4. Lay(NewChange("delete", here, Unset), here') = here' /\ owed' \subseteq Values(NewChange("delete", here, Unset))
    BY <1>1, <2>1, NewIs DEF Lay
  <2> QED BY <1>1, <1>2, <1>4, <2>1, <2>2, <2>3, <2>4, RecordStep
<1> QED BY <1>5, <1>6

LEMMA ThoseOrder ==
  ASSUME NEW q \in Seq(Change), NEW S, NEW r, r = Those(q, S)
  PROVE  \A i, j \in DOMAIN r : i < j => \E k, l \in DOMAIN q : k < l /\ r[i] = q[k] /\ r[j] = q[l]
BY ThoseKeeps

JoinedBy(c, f, v, n) == [c EXCEPT !.data[f] = v, !.at = n]
LEMMA JoinedWith ==
  ASSUME NEW c \in Change, NEW f \in Fields, NEW v \in Vals, NEW n \in 1..MaxEdits, NEW d,
         d = JoinedBy(c, f, v, n)
  PROVE  /\ d \in Change /\ d.id = c.id /\ d.op = c.op /\ d.st = c.st /\ d.sent = c.sent /\ d.at = n
         /\ d.base = c.base /\ d.data = [c.data EXCEPT ![f] = v]
<1> DEFINE x == [c.data EXCEPT ![f] = v]
           c1 == [c EXCEPT !.data = x]
           c2 == [c1 EXCEPT !.at = n]
<1>1. c.data \in Data /\ x \in Data
  BY DEF Change, Data
<1> HIDE DEF x
<1>2. c1 = [id |-> c.id, op |-> c.op, base |-> c.base, data |-> x, st |-> c.st, at |-> c.at, sent |-> c.sent]
  BY DEF Change
<1> HIDE DEF c1
<1>3. c2 = [id |-> c.id, op |-> c.op, base |-> c.base, data |-> x, st |-> c.st, at |-> n, sent |-> c.sent]
  BY <1>2
<1> HIDE DEF c2
<1>4. d = c2
  BY DEF c1, c2, x, JoinedBy
<1>5. c2 \in Change
  BY <1>1, <1>3 DEF Change
<1> QED BY <1>3, <1>4, <1>5 DEF x

(* An edit that joins the change that waits: the last one, made anew.      *)
LEMMA JoinKeeps ==
  ASSUME IndInv, NEW f \in Fields, NEW v \in Vals, Alter(f, v), Joins
  PROVE  IndInv'
<1>1. /\ TypeOK /\ Good(TillNow) /\ OnTheWay /\ EditsInv /\ CloudKinds
      /\ made \in 0..edits /\ edits \in 0..MaxEdits /\ MaxEdits \in Nat
      /\ here # Absent /\ AtTill /\ here' = [here EXCEPT ![f] = v] /\ edits < MaxEdits /\ edits' = edits + 1
      /\ shown' = shown \cup {<<f, v>>} /\ odd' = odd /\ made' = made
  BY KindsNow, BoundsAssumption DEF Alter, IndInv, ChangesInv, AtTill, TypeOK
<1>2. PICK q : q = queue["till"]
  OBVIOUS
<1>3. PICK c : c = Last(Waiting)
  OBVIOUS
<1>4. PICK d : d = [c EXCEPT !.data[f] = v, !.at = edits + 1]
  OBVIOUS
<1>5. PICK w : w = Without(q, c.id)
  OBVIOUS
<1>6. PICK p : p = Append(w, d)
  OBVIOUS
<1>7. /\ queue' = [queue EXCEPT !["till"] = p]
      /\ owed' = {e \in owed : e[1] # f} \cup IF request[c.id].data[f] = v THEN {} ELSE {<<f, v>>}
  BY <1>2, <1>3, <1>4, <1>5, <1>6 DEF Alter, Queued
<1>8. /\ q \in Seq(Change) /\ q # <<>> /\ c = Last(q) /\ c.st = "pending"
      /\ \A k \in DOMAIN q : q[k].op # "delete" /\ (q[k].st = "pending" => k = Len(q))
  BY <1>1, <1>2, <1>3, LastWaits DEF Joins
<1>9. /\ Distinct(q) /\ Ordered(q, made) /\ Shows(q, made, here) /\ here \in Thing
      /\ \A k \in DOMAIN q : q[k].id <= made /\ q[k].at <= edits /\ Whole(q[k])
  BY <1>1, <1>2 DEF Good, TillNow
<1>10. Len(q) \in DOMAIN q /\ c = q[Len(q)] /\ c \in Change /\ c.op # "delete" /\ Whole(c) /\ c.id <= made
  BY <1>8, <1>9 DEF Last
<1>11. /\ d \in Change /\ d.id = c.id /\ d.op = c.op /\ d.st = "pending" /\ d.sent = c.sent /\ d.at = edits + 1
       /\ d.data = [c.data EXCEPT ![f] = v]
  <2>1. d = JoinedBy(c, f, v, edits + 1)
    BY <1>4 DEF JoinedBy
  <2>2. edits + 1 \in 1..MaxEdits
    BY <1>1
  <2> QED BY <1>8, <1>10, <2>1, <2>2, JoinedWith
<1>12. c.data \in Data /\ \A g \in Fields : d.data[g] = IF g = f THEN v ELSE c.data[g]
  BY <1>10, <1>11 DEF Change, Data
(* What is left is what came before, in its order.                         *)
<1>13. /\ w \in Seq(Change) /\ Distinct(w)
       /\ \A j \in DOMAIN w : w[j].id # c.id /\ \E k \in DOMAIN q : k < Len(q) /\ w[j] = q[k]
  <2> DEFINE S == {x \in ToSet(q) : x.id # c.id}
  <2>1. w = Those(q, S) /\ \A x \in S : x.id # c.id
    BY <1>5 DEF Without
  <2> HIDE DEF S
  <2>2. w \in Seq(Change) /\ \A j \in DOMAIN w : w[j] \in S /\ \E k \in DOMAIN q : w[j] = q[k]
    BY <1>8, <2>1, ThoseKeeps
  <2>3. Distinct(w)
    BY <1>8, <1>9, <2>1, ThoseDistinct
  <2>4. \A k \in DOMAIN q : k < Len(q) \/ q[k] = c
    BY <1>8, <1>10
  <2> QED BY <2>1, <2>2, <2>3, <2>4
<1>18. \A i, j \in DOMAIN w : i < j => \E k, l \in DOMAIN q : k < l /\ w[i] = q[k] /\ w[j] = q[l]
  <2> DEFINE S == {x \in ToSet(q) : x.id # c.id}
  <2>1. w = Those(q, S)
    BY <1>5 DEF Without
  <2> HIDE DEF S
  <2> QED BY <1>8, <2>1, ThoseOrder
<1>14. /\ p \in Seq(Change) /\ Len(p) = Len(w) + 1 /\ Len(w) \in Nat /\ p # <<>> /\ Last(p) = d
       /\ \A k \in DOMAIN p : \/ k = Len(p) /\ p[k] = d
                              \/ k \in DOMAIN w /\ k < Len(p) /\ p[k] = w[k]
  <2>1. /\ p \in Seq(Change) /\ Len(p) = Len(w) + 1 /\ Len(w) \in Nat /\ p # <<>> /\ Last(p) = d
    BY <1>6, <1>11, <1>13, Appended
  <2>2. Added(w, d, p)
    BY <1>6, <1>11, <1>13, Appended
  <2> QED BY <2>1, <2>2 DEF Added
<1>15. Distinct(p)
  BY <1>11, <1>13, <1>14 DEF Distinct
<1>16. \A k \in DOMAIN q : k < Len(q) => q[k].st # "pending" /\ q[k].id # made /\ c.op # "create"
  <2>1. ASSUME NEW k \in DOMAIN q, k < Len(q) PROVE q[k].st # "pending" /\ q[k].id # made /\ c.op # "create"
    BY <1>9, <1>10, <2>1 DEF Ordered
  <2> QED BY <2>1
<1>17. Ordered(p, made)
  <2>1. SUFFICES ASSUME NEW k \in DOMAIN p, NEW l \in DOMAIN p, k < l
                 PROVE  p[k].op # "delete" /\ p[l].op # "create" /\ p[k].st # "pending" /\ p[k].id # made
    BY DEF Ordered
  <2>2. k \in Nat /\ l \in Nat /\ l <= Len(p)
    BY <1>14
  <2>3. k \in DOMAIN w /\ p[k] = w[k]
    BY <1>14, <2>1, <2>2
  <2>4. PICK i \in DOMAIN q : i < Len(q) /\ p[k] = q[i]
    BY <1>13, <2>3
  <2>5. p[k].op # "delete" /\ p[k].st # "pending" /\ p[k].id # made /\ c.op # "create"
    BY <1>8, <1>16, <2>4
  <2>6. p[l].op # "create"
    <3>1. CASE p[l] = d
      BY <1>11, <2>5, <3>1
    <3>2. CASE l \in DOMAIN w /\ p[l] = w[l]
      <4>1. PICK x \in DOMAIN q, y \in DOMAIN q : x < y /\ w[k] = q[x] /\ w[l] = q[y]
        BY <1>18, <2>1, <2>3, <3>2
      <4> QED BY <1>9, <3>2, <4>1 DEF Ordered
    <3> QED BY <1>14, <3>1, <3>2
  <2> QED BY <2>5, <2>6
<1>19. here' \in Thing /\ here' \in Things /\ here' # Absent /\ \A g \in Fields : here'[g] = IF g = f THEN v ELSE here[g]
  BY <1>1, <1>9, AbsentAssumption DEF Thing, Things, Data
<1>20. Lay(d, here') = here'
  <2>1. Over(c.data, here) = here
    BY <1>8, <1>9, <1>1, <1>10 DEF Shows, Lay
  <2>2. \A g \in Fields : c.data[g] = Absent \/ c.data[g] = here[g]
    BY <2>1, <1>9 DEF Over
  <2>3. \A g \in Fields : (IF d.data[g] = Absent THEN here'[g] ELSE d.data[g]) = here'[g]
    BY <1>12, <1>19, <2>2
  <2>4. Over(d.data, here') = here'
    BY <1>19, <2>3 DEF Over, Thing
  <2> QED BY <1>10, <1>11, <1>19, <2>4 DEF Lay
<1>21. Whole(d)
  <2>1. SUFFICES ASSUME d.op = "create" PROVE d.data \in Thing
    BY DEF Whole
  <2>2. c.data \in Thing
    BY <1>10, <1>11, <2>1 DEF Whole
  <2> QED BY <1>11, <2>2 DEF Thing
<1>22. \A k \in DOMAIN p : /\ p[k].id <= made' /\ p[k].at <= edits' /\ Whole(p[k])
                           /\ p[k].op = "delete" => here' = Absent
  <2>1. \A k \in DOMAIN q : q[k].id <= made /\ q[k].at <= edits' /\ Whole(q[k]) /\ q[k].op # "delete"
    <3>1. \A k \in DOMAIN q : q[k].at \in 1..MaxEdits
      <4>1. \A k \in DOMAIN q : q[k] \in Change
        BY <1>8
      <4> QED BY <4>1 DEF Change
    <3> QED BY <1>1, <1>8, <1>9, <3>1
  <2>2. d.id <= made' /\ d.at <= edits' /\ Whole(d) /\ d.op # "delete"
    BY <1>1, <1>10, <1>11, <1>21
  <2> QED BY <1>1, <1>13, <1>14, <2>1, <2>2
<1>23. queue'["till"] = p
  <2> DEFINE Qs == Seq(Change)
  <2>1. queue \in [Senders -> Qs]
    BY <1>1 DEF TypeOK
  <2> HIDE DEF Qs
  <2> QED BY <1>7, <2>1 DEF Senders
<1>24. Good(TillNow)'
  <2>1. told' \in [Ids -> {"none", "done", "refused", "rejected"}] /\ made' \in 0..edits'
    BY <1>1 DEF TypeOK, AtTill
  <2>2. Shows(p, made', here') /\ Ordered(p, made')
    BY <1>1, <1>14, <1>17, <1>20 DEF Shows
  <2> QED BY <1>14, <1>15, <1>19, <1>22, <1>23, <2>1, <2>2, GoodNext
<1>25. ASSUME NEW h \in Slots, Awaited(h) PROVE NewerThan(h, p)
  <2>1. SUFFICES ASSUME NEW j \in DOMAIN handler[h].rows, NEW k \in DOMAIN p, NEW x, x = handler[h].rows[j],
                        x.id = p[k].id
                 PROVE  IF x.at = p[k].at THEN x.op = p[k].op /\ x.data = p[k].data
                        ELSE p[k].st = "pending" /\ p[k].op # "delete" /\ made' < edits'
    BY DEF NewerThan
  <2>2. x.at <= edits /\ x.at \in 1..MaxEdits
    <3>1. handler[h] # Absent /\ handler[h] \in Handler
      BY <1>25, PassNow DEF Awaited
    <3>2. handler[h].rows \in Seq(Change)
      BY <3>1 DEF Handler
    <3>3. Known(x)
      BY <2>1, <3>1, KindsNow DEF Handled
    <3>4. x \in Change
      BY <2>1, <3>2
    <3> QED BY <3>3, <3>4 DEF Known, Change
  <2>3. CASE p[k] = d
    BY <1>1, <1>10, <1>11, <2>2, <2>3
  <2>4. CASE k \in DOMAIN w /\ p[k] = w[k]
    <3>1. PICK i \in DOMAIN q : p[k] = q[i]
      BY <1>13, <2>4
    <3>2. Fresh(x, q[i])
      BY <1>1, <1>2, <1>25, <2>1 DEF OnTheWay
    <3> QED BY <1>1, <2>1, <3>1, <3>2 DEF Fresh
  <2> QED BY <1>14, <2>3, <2>4
<1>26. \A k \in DOMAIN p : FromBefore(p[k])
  BY <1>2, <1>10, <1>11, <1>13, <1>14, SMTT(30) DEF FromBefore
<1>27. owed' \subseteq Edit /\ shown' \subseteq Fields \X Vals /\ odd \subseteq odd' /\ odd' \subseteq OddThings
  BY <1>1, <1>7 DEF CloudKinds, Edit
<1>28. ASSUME "mixed" \notin odd', owed' # {} PROVE OwesLast(p)
  <2>1. "mixed" \notin odd /\ StillOwed
    BY <1>1, <1>28 DEF EditsInv
  <2>2. /\ owed \subseteq Values(c)
        /\ owed # {} /\ request[c.id].st # "none" => owed \cap Values(request[c.id]) = {}
    BY <1>2, <1>8, <2>1 DEF StillOwed
  <2>3. /\ Values(c) = {<<g, c.data[g]>> : g \in {y \in Fields : c.data[y] # Absent}}
        /\ Values(d) = {<<g, d.data[g]>> : g \in {y \in Fields : d.data[y] # Absent}}
    BY <1>10, <1>11 DEF Values, Keys
  <2>4. v # Absent
    BY AbsentAssumption
  <2>5. \A e \in owed : e[1] # f => e \in Values(d)
    <3>1. SUFFICES ASSUME NEW e \in owed, e[1] # f PROVE e \in Values(d)
      OBVIOUS
    <3>2. PICK g \in Fields : c.data[g] # Absent /\ e = <<g, c.data[g]>>
      BY <2>2, <2>3, <3>1
    <3>3. g # f /\ d.data[g] = c.data[g]
      BY <1>12, <3>1, <3>2
    <3> QED BY <2>3, <3>2, <3>3
  <2>6. <<f, v>> \in Values(d)
    BY <1>12, <2>3, <2>4
  <2>7. owed' \subseteq Values(d)
    BY <1>7, <2>5, <2>6
  <2>8. ASSUME request[c.id].st # "none" PROVE owed' \cap Values(request[c.id]) = {}
    <3>1. PICK r : r = request[c.id]
      OBVIOUS
    <3>2. <<f, v>> \in Values(r) => r.data[f] = v
      <4>1. <<f, v>> # <<"gone">>
        OBVIOUS
      <4>2. ASSUME NEW g \in Fields, <<f, v>> = <<g, r.data[g]>> PROVE r.data[f] = v
        BY <4>2
      <4> QED BY <4>1, <4>2 DEF Values, Keys
    <3>3. ASSUME NEW e \in owed', e \in Values(r) PROVE FALSE
      <4>1. e \in owed \/ (e = <<f, v>> /\ r.data[f] # v)
        BY <1>7, <3>1, <3>3
      <4>2. e \notin owed
        BY <2>2, <2>8, <3>1, <3>3
      <4> QED BY <3>2, <3>3, <4>1, <4>2
    <3> QED BY <3>1, <3>3
  <2> QED BY <1>11, <1>14, <2>7, <2>8 DEF OwesLast
<1> QED BY <1>1, <1>7, <1>14, <1>19, <1>24, <1>25, <1>26, <1>27, <1>28, EditStep

LEMMA AlterKeeps ==
  ASSUME IndInv, NEW f \in Fields, NEW v \in Vals, Alter(f, v)
  PROVE  IndInv'
<1>1. /\ TypeOK /\ CloudKinds /\ EditsInv /\ here # Absent /\ AtTill /\ here' = [here EXCEPT ![f] = v]
      /\ shown' = shown \cup {<<f, v>>} /\ odd' = odd
  BY KindsNow DEF Alter, IndInv
<1>2. CASE ~Joins
  <2> DEFINE data == [Unset EXCEPT ![f] = v]
  <2>1. Recorded("update", here, data) /\ owed' = {e \in owed : e[1] # f} \cup {<<f, v>>}
    BY <1>2 DEF Alter
  <2>2. PICK q : q = queue["till"]
    OBVIOUS
  <2>3. /\ q \in Seq(Change) /\ \A k \in DOMAIN q : q[k].op # "delete"
        /\ Waiting # <<>> => q # <<>> /\ Last(Waiting) = Last(q) /\ Last(q).st = "pending"
        /\ Waiting = <<>> => \A k \in DOMAIN q : q[k].st # "pending"
    BY <1>1, <2>2, LastWaits
  <2>4. Waiting = <<>>
    <3>1. q # <<>> => Last(q).op # "delete"
      BY <2>3 DEF Last
    <3> QED BY <1>2, <2>3, <3>1 DEF Joins
  <2>5. \A k \in DOMAIN q : q[k].st # "pending"
    BY <2>3, <2>4
  <2>6. here \in Thing /\ here \in Data /\ data \in Data /\ \A g \in Fields : data[g] = IF g = f THEN v ELSE Absent
    BY <1>1 DEF TypeOK, Thing, Data, Unset
  <2> HIDE DEF data
  <2>7. here' \in Thing /\ here' \in Things /\ here' # Absent /\ here'[f] = v
    BY <1>1, <2>6, AbsentAssumption DEF Thing, Things, Data
  <2>8. Lay(NewChange("update", here, data), here') = here'
    <3>1. \A g \in Fields : (IF data[g] = Absent THEN here'[g] ELSE data[g]) = here'[g]
      BY <2>6, <2>7
    <3>2. Over(data, here') = here'
      BY <2>7, <3>1 DEF Over, Thing
    <3> QED BY <2>7, <3>2, NewIs DEF Lay
  <2>9. ASSUME "mixed" \notin odd PROVE owed' \subseteq Values(NewChange("update", here, data))
    <3>1. owed = {}
      <4>1. owed # {} => q # <<>> /\ Last(q).st = "pending"
        BY <1>1, <2>2, <2>9 DEF EditsInv, StillOwed
      <4>2. q # <<>> => Len(q) \in DOMAIN q
        BY <2>3
      <4> QED BY <2>5, <4>1, <4>2 DEF Last
    <3>2. <<f, v>> \in {<<g, data[g]>> : g \in {x \in Fields : data[x] # Absent}}
      BY <2>6, AbsentAssumption
    <3> QED BY <2>1, <3>1, <3>2, NewIs
  <2>10. owed' \subseteq Edit /\ shown' \subseteq Fields \X Vals /\ "update" \in Ops
    BY <1>1, <2>1 DEF CloudKinds, Edit, Ops
  <2> QED BY <1>1, <2>1, <2>2, <2>5, <2>6, <2>7, <2>8, <2>9, <2>10, RecordStep
<1> QED BY <1>2, JoinKeeps

-----------------------------------------------------------------------------
(* The invariant, and what it gives.                                       *)

LEMMA InitHolds ==
  ASSUME Init
  PROVE  IndInv
<1>1. \A m \in Senders : queue[m] = <<>>
  BY DEF Init
<1>2. queue["till"] = <<>> /\ queue["server"] = <<>>
  BY <1>1 DEF Senders
<1>3. \A h \in Slots : handler[h] = Absent
  BY DEF Init
<1>4. Unset \in Data
  BY DEF Unset, Data
<1>5. shown \subseteq Fields \X Vals
  BY DEF Init, Pairs, Thing
<1>6. TypeOK
  <2>1. queue \in [Senders -> Seq(Change)]
    <3>1. <<>> \in Seq(Change)
      OBVIOUS
    <3> DEFINE Qs == Seq(Change)
    <3>2. <<>> \in Qs
      BY <3>1
    <3> HIDE DEF Qs
    <3>3. queue \in [Senders -> Qs]
      BY <3>2 DEF Init
    <3> QED BY <3>3 DEF Qs
  <2>2. request \in [Ids -> [st: Statuses \cup {"none"}, op: Ops \cup {"none"}, data: Data]]
    <3> DEFINE r == [st |-> "none", op |-> "none", data |-> Unset]
    <3>1. r \in [st: Statuses \cup {"none"}, op: Ops \cup {"none"}, data: Data]
      BY <1>4
    <3> HIDE DEF r
    <3>2. request = [i \in Ids |-> r]
      BY DEF Init, r
    <3> QED BY <3>1, <3>2
  <2>3. pass \in [Senders -> {"idle", "handed", "posted"}] /\ handler \in [Slots -> Handler \cup {Absent}]
        /\ told \in [Ids -> {"none", "done", "refused", "rejected"}]
    BY DEF Init
  <2>4. /\ made = 0 /\ edits = 0 /\ known = {} /\ webs = 0 /\ faults = 0 /\ owed = {} /\ odd = {}
        /\ news = FALSE /\ fetched = <<>> /\ server \in Servers
        /\ cloud \in Thing \cup {Absent} /\ here \in Thing \cup {Absent}
    BY DEF Init
  <2>5. made \in 0..edits /\ edits \in 0..MaxEdits /\ webs \in 0..MaxWeb /\ faults \in 0..MaxFaults /\ known \subseteq 1..made
    BY <2>4, BoundsAssumption
  <2>6. fetched \in Seq(Thing \cup {Absent}) /\ Len(fetched) <= 1
    BY <2>4
  <2> HIDE DEF Handler, Change, Edit, OddThings, Thing, Data
  <2> QED BY <1>5, <2>1, <2>2, <2>3, <2>4, <2>5, <2>6 DEF TypeOK
<1>7. Types
  <2>1. \A i \in Ids : request[i].st = "none"
    BY DEF Init
  <2>2. \A h \in Slots : Handled(h)
    BY <1>3 DEF Handled
  <2>3. \A k \in DOMAIN queue["server"] : FALSE
    BY <1>2
  <2> QED BY <1>6, <2>1, <2>2, <2>3 DEF Types
<1>8. Good(TillNow)
  <2>1. PICK q : q = queue["till"]
    OBVIOUS
  <2>2. q = <<>> /\ q \in Seq(Change) /\ \A k \in DOMAIN q : FALSE
    BY <1>2, <2>1
  <2>3. Distinct(q) /\ Ordered(q, made) /\ Shows(q, made, here)
    BY <2>2 DEF Distinct, Ordered, Shows
  <2>4. TillNow.q = q /\ TillNow.made = made /\ TillNow.told = told /\ TillNow.here = here
    BY <2>1 DEF TillNow
  <2>5. made \in 0..edits /\ here \in Thing \cup {Absent} /\ told \in [Ids -> {"none", "done", "refused", "rejected"}]
    BY <1>6 DEF TypeOK
  <2> QED BY <2>2, <2>3, <2>4, <2>5 DEF Good
<1>9. OnTheWay
  BY <1>3 DEF OnTheWay, Awaited
<1>10. EditsInv
  <2>1. owed = {}
    BY DEF Init
  <2>2. \A k \in DOMAIN queue["till"] : FALSE
    BY <1>2
  <2> QED BY <2>1, <2>2 DEF EditsInv, AsFirstSent, StillOwed
<1> QED BY <1>7, <1>8, <1>9, <1>10 DEF IndInv, ChangesInv

LEMMA StutterKeeps ==
  ASSUME IndInv, UNCHANGED vars
  PROVE  IndInv'
<1>1. /\ UNCHANGED <<server, here, queue, told, made, known, edits, fetched, cloud, request, news, webs, owed, shown, odd>>
      /\ faults' = faults /\ pass' = pass /\ handler' = handler
  BY DEF vars, till, cloudside
<1>2. faults' \in 0..MaxFaults
  BY <1>1, KindsNow DEF CloudKinds
<1>3. pass' \in [Senders -> {"idle", "handed", "posted"}] /\ handler' \in [Slots -> Handler \cup {Absent}]
  BY <1>1, PassNow
<1>4. LeftAlone /\ \A o \in Slots : Awaited(o)' => pass'["till"] = pass["till"]
  BY <1>1 DEF LeftAlone
<1> QED BY <1>1, <1>2, <1>3, <1>4, PassStep

LEMMA NextKeeps ==
  ASSUME IndInv, [Next]_vars
  PROVE  IndInv'
<1>1. ASSUME NEW row \in Thing, Create(row) PROVE IndInv'
  BY <1>1, CreateKeeps
<1>2. ASSUME NEW f \in Fields, NEW v \in Vals, Alter(f, v) PROVE IndInv'
  BY <1>2, AlterKeeps
<1>3. ASSUME NEW f \in Fields, NEW v \in Vals, WebEdit(f, v) PROVE IndInv'
  <2>1. Web /\ Becomes([cloud EXCEPT ![f] = v]) /\ cloud # Absent
    BY <1>3 DEF WebEdit, Web
  <2>2. cloud \in Thing
    BY <2>1, KindsNow DEF CloudKinds, Things
  <2>3. [cloud EXCEPT ![f] = v] \in Things
    BY <2>2 DEF Thing, Things
  <2> QED BY <2>1, <2>3, WebKeeps
<1>4. CASE WebDelete
  BY <1>4, WebKeeps DEF WebDelete, Things
<1>5. CASE Delete
  BY <1>5, DeleteKeeps
<1>6. CASE Fetch
  BY <1>6, FetchKeeps
<1>7. CASE Store
  BY <1>7, StoreKeeps
<1>8. CASE HandOver
  BY <1>8, HandOverKeeps
<1>9. CASE Skip
  BY <1>9, SkipKeeps
<1>10. ASSUME NEW m \in Senders, Post(m) \/ GiveUp(m) \/ Ask(m) PROVE IndInv'
  BY <1>10, PostKeeps, GiveUpKeeps, AskKeeps
<1>11. ASSUME NEW h \in Slots, Handles(h) PROVE IndInv'
  BY <1>11, LookKeeps, ReadKeeps, WriteKeeps, RecordKeeps DEF Handles
<1>12. ASSUME NEW h \in Slots, Die(h) \/ Hear(h) PROVE IndInv'
  BY <1>12, DieKeeps, HearKeeps
<1>13. ASSUME NEW i \in Ids, NEW approve \in BOOLEAN, Decide(i, approve) PROVE IndInv'
  BY <1>13, DecideKeeps
<1>14. CASE UNCHANGED vars
  BY <1>14, StutterKeeps
<1> QED BY <1>1, <1>2, <1>3, <1>4, <1>5, <1>6, <1>7, <1>8, <1>9, <1>10, <1>11, <1>12, <1>13, <1>14 DEF Next

(* What the till and the cloud hold is of the right kind at every point,   *)
(* whatever was answered in whatever order.                                *)
THEOREM ChangesTypeCorrect == Spec => []TypeOK
<1>1. Init => IndInv
  BY InitHolds
<1>2. IndInv /\ [Next]_vars => IndInv'
  BY NextKeeps
<1>3. IndInv => TypeOK
  BY KindsNow
<1> QED BY <1>1, <1>2, <1>3, PTL DEF Spec

(* A change that waits shows on the till: overlayLocalChanges puts it back *)
(* over every pull, and no answer to an earlier one takes the newest away. *)
THEOREM OwnChangesStay == Spec => []OwnChangeStays
<1>1. Init => IndInv
  BY InitHolds
<1>2. IndInv /\ [Next]_vars => IndInv'
  BY NextKeeps
<1>3. IndInv => OwnChangeStays
  <2>1. SUFFICES ASSUME IndInv PROVE OwnChangeStays
    OBVIOUS
  <2>2. Good(TillNow)
    BY <2>1, KindsNow
  <2> QED BY <2>2 DEF Good, TillNow, Shows, OwnChangeStays, Quiet
<1> QED BY <1>1, <1>2, <1>3, PTL DEF Spec

(* Nothing the manager changed is dropped unjudged: pushLocalChanges takes *)
(* an answer for an edit that joined the change on its way only where      *)
(* other values had already gone out under the same id.                    *)
THEOREM EditsAreJudged == Spec => []EveryEditIsJudged
<1>1. Init => IndInv
  BY InitHolds
<1>2. IndInv /\ [Next]_vars => IndInv'
  BY NextKeeps
<1>3. IndInv => EveryEditIsJudged
  BY DEF IndInv, EditsInv, StillOwed, EveryEditIsJudged, Quiet
<1> QED BY <1>1, <1>2, <1>3, PTL DEF Spec

-----------------------------------------------------------------------------
(* What the till has shown.  A change starts from what the till showed, and*)
(* says what it showed then; so does every copy of it, however it was      *)
(* joined, requeued or sent.                                               *)

Seen(d, S) == \A f \in Fields : d[f] # Absent => <<f, d[f]>> \in S
AllSeen(q, S) == \A k \in DOMAIN q : Seen(q[k].base, S) /\ Seen(q[k].data, S)
TillShows ==
    /\ Pairs(here) \subseteq shown
    /\ \A m \in Senders : AllSeen(queue[m], shown)
    /\ \A h \in Slots : handler[h] # Absent => AllSeen(handler[h].rows, shown)
(* An update about to be written meets what the maker saw, or what it says *)
(* already, unless the thing changed since it was read.                    *)
AsRead ==
    "raced" \notin odd =>
        \A h \in Slots : At(h, "write") /\ Now(h).op = "update" =>
            /\ cloud # Absent
            /\ \A f \in Keys(Now(h)) : cloud[f] \in {Now(h).data[f], Now(h).base[f]}
ShownInv == TillShows /\ AsRead

(* Who is about to write was so before.                                    *)
NoneBegins == \A o \in Slots : At(o, "write")' => At(o, "write") /\ Now(o)' = Now(o)
LEMMA ReadStays ==
  ASSUME AsRead, odd \subseteq odd', NoneBegins,
         \/ cloud' = cloud
         \/ "raced" \in odd'
         \/ \A o \in Slots : ~At(o, "write")'
  PROVE  AsRead'
<1>1. SUFFICES ASSUME "raced" \notin odd', NEW h \in Slots, At(h, "write")', Now(h)'.op = "update"
               PROVE  cloud' # Absent /\ \A f \in Keys(Now(h)') :
                         cloud'[f] \in {Now(h)'.data[f], Now(h)'.base[f]}
  BY DEF AsRead, Keys
<1>2. cloud' = cloud /\ "raced" \notin odd /\ At(h, "write") /\ Now(h)' = Now(h)
  BY <1>1 DEF NoneBegins
<1> QED BY <1>1, <1>2 DEF AsRead

LEMMA SlotsKept ==
  ASSUME NEW h \in Slots, \A o \in Slots \ {h} : handler'[o] = handler[o], ~At(h, "write")'
  PROVE  NoneBegins
BY DEF NoneBegins, At, Now

LEMMA SeenMore ==
  ASSUME NEW q, NEW S, NEW T, S \subseteq T, AllSeen(q, S)
  PROVE  AllSeen(q, T)
BY DEF AllSeen, Seen

(* A change is as it was, in what it starts from and what it says.         *)
Drawn(q, r) == \A j \in DOMAIN r : \E k \in DOMAIN q : r[j].base = q[k].base /\ r[j].data = q[k].data
LEMMA SeenDrawn ==
  ASSUME NEW q, NEW r, NEW S, AllSeen(q, S), Drawn(q, r)
  PROVE  AllSeen(r, S)
BY DEF AllSeen, Seen, Drawn

-----------------------------------------------------------------------------
(* The cloud's steps.                                                      *)

LEMMA GoesIs ==
  ASSUME TypeOK, NEW h \in Slots, handler[h] # Absent, NEW step, NEW v, Goes(h, step, v)
  PROVE  /\ \A o \in Slots \ {h} : handler'[o] = handler[o]
         /\ handler'[h] # Absent => handler'[h].rows = handler[h].rows
         /\ handler'[h].step = step /\ handler'[h].said = handler[h].said /\ handler'[h].rows = handler[h].rows
<1> DEFINE r == handler[h]
           x == GoneOn(r, step, v)
<1>1. handler \in [Slots -> Handler \cup {Absent}] /\ r \in Handler
  BY DEF TypeOK
<1>2. handler' = [handler EXCEPT ![h] = x]
  BY <1>1 DEF Goes, GoneOn
<1>3. x = [from |-> r.from, heard |-> r.heard, rows |-> r.rows, step |-> step, verdict |-> v, said |-> r.said]
  BY <1>1, HandlerWith
<1> HIDE DEF x
<1>4. handler'[h] = x /\ \A o \in Slots \ {h} : handler'[o] = handler[o]
  BY <1>1, <1>2
<1> QED BY <1>3, <1>4

LEMMA SaysIs ==
  ASSUME TypeOK, NEW h \in Slots, handler[h] # Absent, NEW a, Says(h, a)
  PROVE  /\ \A o \in Slots \ {h} : handler'[o] = handler[o]
         /\ handler'[h] # Absent => handler'[h].rows = handler[h].rows
         /\ ~At(h, "write")' /\ NoneBegins
<1> DEFINE r == handler[h]
           last == Len(r.said) + 1 = Len(r.rows)
           step == IF last THEN "end" ELSE "look"
           x == SaidOn(r, step, "none", Append(r.said, a))
<1>1. handler \in [Slots -> Handler \cup {Absent}] /\ r \in Handler
  BY DEF TypeOK
<1>2. handler' = [handler EXCEPT ![h] = IF last /\ ~r.heard THEN Absent ELSE x]
  BY <1>1 DEF Says, SaidOn
<1>3. x.rows = r.rows /\ x.step = step
  <2> DEFINE said == Append(r.said, a)
             y == SaidOn(r, step, "none", said)
  <2>1. r \in Handler /\ x = y
    BY <1>1
  <2> HIDE DEF step, said, r
  <2>2. y = [from |-> r.from, heard |-> r.heard, rows |-> r.rows, step |-> step, verdict |-> "none", said |-> said]
    BY <2>1, HandlerWith
  <2> HIDE DEF x, y
  <2> QED BY <2>1, <2>2
<1> HIDE DEF x
<1>4. /\ handler'[h] = Absent \/ handler'[h] = x
      /\ \A o \in Slots \ {h} : handler'[o] = handler[o]
  BY <1>1, <1>2
<1>5. ~At(h, "write")'
  BY <1>3, <1>4 DEF At
<1>6. \A o \in Slots \ {h} : handler'[o] = handler[o]
  BY <1>4
<1>7. NoneBegins
  BY <1>5, <1>6, SlotsKept
<1> QED BY <1>3, <1>4, <1>5, <1>7

LEMMA CloudShows ==
  ASSUME TillShows, UNCHANGED <<here, queue, shown>>, NEW h \in Slots, handler[h] # Absent,
         \A o \in Slots \ {h} : handler'[o] = handler[o],
         handler'[h] # Absent => handler'[h].rows = handler[h].rows
  PROVE  TillShows'
BY DEF TillShows

LEMMA LookShows ==
  ASSUME IndInv, ShownInv, NEW h \in Slots, Look(h)
  PROVE  ShownInv'
<1>1. TypeOK /\ handler[h] # Absent
  BY KindsNow DEF Look, At
<1>2. cloud' = cloud /\ UNCHANGED <<here, queue, shown>>
  BY DEF Look, AtCloud, till
<1>3. odd \subseteq odd'
  BY DEF Look
<1>4. \/ \E a : Says(h, a)
      \/ \E step \in {"read", "record"} : \E v : Goes(h, step, v)
  BY DEF Look
<1>5. /\ \A o \in Slots \ {h} : handler'[o] = handler[o]
      /\ handler'[h] # Absent => handler'[h].rows = handler[h].rows
      /\ ~At(h, "write")'
  <2>1. CASE \E a : Says(h, a)
    BY <1>1, <2>1, SaysIs
  <2>2. ASSUME NEW step \in {"read", "record"}, NEW v, Goes(h, step, v)
        PROVE  /\ \A o \in Slots \ {h} : handler'[o] = handler[o]
               /\ handler'[h].rows = handler[h].rows /\ handler'[h].step = step
    BY <1>1, <2>2, GoesIs
  <2> QED BY <1>4, <2>1, <2>2 DEF At
<1>6. TillShows'
  BY <1>1, <1>2, <1>5, CloudShows DEF ShownInv
<1>7. AsRead'
  BY <1>2, <1>3, <1>5, SlotsKept, ReadStays DEF ShownInv
<1> QED BY <1>6, <1>7 DEF ShownInv

LEMMA ReadShows ==
  ASSUME IndInv, ShownInv, NEW h \in Slots, Read(h)
  PROVE  ShownInv'
<1> DEFINE v == Judged(Now(h))
           step == IF v = "applied" THEN "write" ELSE "record"
<1>1. TypeOK /\ handler[h] # Absent /\ Now(h) \in Change
  BY KindsNow, AtIs DEF Read
<1>2. cloud' = cloud /\ UNCHANGED <<here, queue, shown>> /\ odd' = odd
  BY DEF Read, AtCloud, till
<1>3. Goes(h, step, v)
  BY DEF Read
<1> HIDE DEF v, step
<1>4. /\ \A o \in Slots \ {h} : handler'[o] = handler[o]
      /\ handler'[h].rows = handler[h].rows /\ handler'[h].step = step /\ handler'[h].said = handler[h].said
  BY <1>1, <1>3, GoesIs
<1>5. TillShows'
  BY <1>1, <1>2, <1>4, CloudShows DEF ShownInv
<1>6. CASE step = "record"
  <2>1. ~At(h, "write")'
    BY <1>4, <1>6 DEF At
  <2>2. AsRead'
    BY <1>2, <1>4, <2>1, SlotsKept, ReadStays DEF ShownInv
  <2> QED BY <1>5, <2>2 DEF ShownInv
<1>7. CASE step = "write"
  <2>1. Now(h)' = Now(h)
    BY <1>4 DEF Now
  <2>2. Judged(Now(h)) = "applied"
    BY <1>7 DEF step, v
  <2>3. Now(h).op = "update" => cloud # Absent /\ \A f \in Keys(Now(h)) : cloud[f] \in {Now(h).data[f], Now(h).base[f]}
    <3>1. SUFFICES ASSUME Now(h).op = "update"
                   PROVE  cloud # Absent /\ \A f \in Keys(Now(h)) : cloud[f] \in {Now(h).data[f], Now(h).base[f]}
      OBVIOUS
    <3>2. cloud # Absent
      BY <2>2, <3>1 DEF Judged
    <3>3. judgeUpdate(Now(h)) = "applied"
      BY <2>2, <3>1, <3>2 DEF Judged
    <3> QED BY <3>2, <3>3 DEF judgeUpdate
  <2>4. SUFFICES ASSUME "raced" \notin odd, NEW o \in Slots, At(o, "write")', Now(o)'.op = "update"
                 PROVE  cloud' # Absent /\ \A f \in Keys(Now(o)') : cloud'[f] \in {Now(o)'.data[f], Now(o)'.base[f]}
    BY <1>2, <1>5 DEF ShownInv, AsRead, Keys
  <2>5. CASE o = h
    BY <1>2, <2>1, <2>3, <2>4, <2>5
  <2>6. CASE o # h
    BY <1>4, <2>4, <2>6, <1>2 DEF At, Now, ShownInv, AsRead
  <2> QED BY <2>5, <2>6
<1> QED BY <1>6, <1>7 DEF step

LEMMA WriteShows ==
  ASSUME IndInv, ShownInv, NEW h \in Slots, Write(h)
  PROVE  ShownInv'
<1> DEFINE c == Now(h)
<1>1. TypeOK /\ handler[h] # Absent
  BY KindsNow DEF Write, At
<1>2. UNCHANGED <<here, queue, shown>>
  BY DEF Write, AtCloud, till
<1>3. CASE c.op = "create" /\ cloud # Absent
  <2>1. Says(h, "refused") /\ UNCHANGED <<cloud, odd>>
    BY <1>3 DEF Write
  <2>2. /\ \A o \in Slots \ {h} : handler'[o] = handler[o]
        /\ handler'[h] # Absent => handler'[h].rows = handler[h].rows
        /\ NoneBegins
    BY <1>1, <2>1, SaysIs
  <2>3. TillShows' /\ AsRead'
    BY <1>1, <1>2, <2>1, <2>2, CloudShows, ReadStays DEF ShownInv
  <2> QED BY <2>3 DEF ShownInv
<1>4. CASE ~(c.op = "create" /\ cloud # Absent)
  <2>1. /\ Goes(h, "record", "applied") \/ Says(h, "later")
        /\ odd \subseteq odd' /\ RacedBy(Slots \ {h}) \subseteq odd'
    BY <1>4 DEF Write
  <2>2. /\ \A o \in Slots \ {h} : handler'[o] = handler[o]
        /\ handler'[h] # Absent => handler'[h].rows = handler[h].rows
        /\ ~At(h, "write")'
    <3>1. CASE Goes(h, "record", "applied")
      BY <1>1, <3>1, GoesIs DEF At
    <3>2. CASE Says(h, "later")
      BY <1>1, <3>2, SaysIs
    <3> QED BY <2>1, <3>1, <3>2
  <2>3. NoneBegins
    BY <2>2, SlotsKept
  <2>4. "raced" \in odd' \/ \A o \in Slots : ~At(o, "write")'
    <3>1. SUFFICES ASSUME NEW o \in Slots, At(o, "write")' PROVE "raced" \in odd'
      OBVIOUS
    <3>2. o \in Slots \ {h} /\ At(o, "write")
      BY <2>2, <2>3, <3>1 DEF NoneBegins
    <3> QED BY <2>1, <3>2 DEF RacedBy
  <2>5. TillShows' /\ AsRead'
    BY <1>1, <1>2, <2>1, <2>2, <2>3, <2>4, CloudShows, ReadStays DEF ShownInv
  <2> QED BY <2>5 DEF ShownInv
<1> QED BY <1>3, <1>4

LEMMA RecordShows ==
  ASSUME IndInv, ShownInv, NEW h \in Slots, Record(h)
  PROVE  ShownInv'
<1>1. TypeOK /\ handler[h] # Absent
  BY KindsNow DEF Record, At
<1>2. UNCHANGED <<here, queue, shown, cloud, odd>>
  BY DEF Record, AtCloud, till
<1>3. Says(h, handler[h].verdict)
  BY DEF Record
<1>4. /\ \A o \in Slots \ {h} : handler'[o] = handler[o]
      /\ handler'[h] # Absent => handler'[h].rows = handler[h].rows
      /\ NoneBegins
  BY <1>1, <1>3, SaysIs
<1>5. TillShows' /\ AsRead'
  BY <1>1, <1>2, <1>4, CloudShows, ReadStays DEF ShownInv
<1> QED BY <1>5 DEF ShownInv

(* What changes the thing under a handler is on record.                    *)
LEMMA RacedStays ==
  ASSUME ShownInv, UNCHANGED <<here, queue, shown, handler>>, odd \subseteq odd',
         cloud' = cloud \/ RacedBy(Slots) \subseteq odd'
  PROVE  ShownInv'
<1>1. NoneBegins /\ TillShows'
  BY DEF NoneBegins, At, Now, ShownInv, TillShows
<1>2. cloud' = cloud \/ "raced" \in odd' \/ \A o \in Slots : ~At(o, "write")'
  <2>1. SUFFICES ASSUME RacedBy(Slots) \subseteq odd', NEW o \in Slots, At(o, "write")' PROVE "raced" \in odd'
    OBVIOUS
  <2>2. At(o, "write")
    BY <1>1, <2>1 DEF NoneBegins
  <2> QED BY <2>1, <2>2 DEF RacedBy
<1>3. AsRead'
  BY <1>1, <1>2, ReadStays DEF ShownInv
<1> QED BY <1>1, <1>3 DEF ShownInv

LEMMA DecideShows ==
  ASSUME ShownInv, NEW i \in Ids, NEW approve \in BOOLEAN, Decide(i, approve)
  PROVE  ShownInv'
<1>1. UNCHANGED <<here, queue, shown, handler>> /\ odd \subseteq odd'
  BY DEF Decide, AtCloud, till
<1>2. cloud' = cloud \/ RacedBy(Slots) \subseteq odd'
  BY DEF Decide
<1> QED BY <1>1, <1>2, RacedStays

LEMMA WebShows ==
  ASSUME ShownInv, Web
  PROVE  ShownInv'
BY RacedStays DEF Web, till

-----------------------------------------------------------------------------
(* The till's steps, and the answers.                                      *)

LEMMA ShownStep ==
  ASSUME ShownInv, shown \subseteq shown', odd \subseteq odd', cloud' = cloud, Pairs(here') \subseteq shown',
         \A m \in Senders : AllSeen(queue'[m], shown'),
         \A o \in Slots : handler'[o] # Absent =>
             \/ /\ handler[o] # Absent /\ handler'[o].rows = handler[o].rows
                /\ handler'[o].said = handler[o].said /\ handler'[o].step = handler[o].step
             \/ handler'[o].step = "look" /\ AllSeen(handler'[o].rows, shown')
  PROVE  ShownInv'
<1>1. \A o \in Slots : handler[o] # Absent => AllSeen(handler[o].rows, shown')
  BY SeenMore DEF ShownInv, TillShows
<1>2. TillShows'
  <2> HIDE DEF AllSeen
  <2> QED BY <1>1 DEF TillShows
<1>3. NoneBegins
  BY DEF NoneBegins, At, Now
<1>4. AsRead'
  BY <1>3, ReadStays DEF ShownInv
<1> QED BY <1>2, <1>4 DEF ShownInv

LEMMA SameQueues ==
  ASSUME ShownInv, shown \subseteq shown', queue' = queue
  PROVE  \A m \in Senders : AllSeen(queue'[m], shown')
BY SeenMore DEF ShownInv, TillShows

LEMMA QueueShows ==
  ASSUME ShownInv, TypeOK, shown \subseteq shown', NEW m \in Senders, NEW p, AllSeen(p, shown'),
         queue' = [queue EXCEPT ![m] = p]
  PROVE  \A x \in Senders : AllSeen(queue'[x], shown')
<1> DEFINE Qs == Seq(Change)
<1>1. queue \in [Senders -> Qs]
  BY DEF TypeOK
<1> HIDE DEF Qs
<1>2. \A x \in Senders : queue'[x] = IF x = m THEN p ELSE queue[x]
  BY <1>1
<1>3. \A x \in Senders : AllSeen(queue[x], shown')
  BY SeenMore DEF ShownInv, TillShows
<1> QED BY <1>2, <1>3

LEMMA SeenPart ==
  ASSUME NEW q \in Seq(Open), NEW S, AllSeen(q, S), NEW B
  PROVE  AllSeen(Those(q, B), S)
<1>1. Drawn(q, Those(q, B))
  BY ThoseKeeps DEF Drawn
<1> QED BY <1>1, SeenDrawn

LEMMA SeenRow ==
  ASSUME NEW row \in Thing, NEW S, Pairs(row) \subseteq S
  PROVE  Seen(row, S)
BY AbsentAssumption DEF Thing, Data, Seen, Pairs

LEMMA SeenAdded ==
  ASSUME NEW q \in Seq(Change), NEW c \in Change, NEW S, AllSeen(q, S), Seen(c.base, S), Seen(c.data, S)
  PROVE  AllSeen(Append(q, c), S)
<1>1. PICK p : p = Append(q, c)
  OBVIOUS
<1>2. Added(q, c, p)
  BY <1>1, Appended
<1> QED BY <1>1, <1>2 DEF Added, AllSeen

LEMMA SkipShows ==
  ASSUME IndInv, ShownInv, Skip
  PROVE  ShownInv'
<1>1. UNCHANGED <<here, queue, shown, odd, cloud, handler>>
  BY DEF Skip, InSending
<1>2. \A m \in Senders : AllSeen(queue'[m], shown')
  BY <1>1, SameQueues
<1>3. Pairs(here') \subseteq shown'
  BY <1>1 DEF ShownInv, TillShows
<1> QED BY <1>1, <1>2, <1>3, ShownStep

LEMMA GiveUpShows ==
  ASSUME IndInv, ShownInv, NEW m \in Senders, GiveUp(m)
  PROVE  ShownInv'
<1> DEFINE left(h) == IF handler[h] = Absent \/ handler[h].from # m \/ ~handler[h].heard THEN handler[h]
                      ELSE IF handler[h].step = "end" THEN Absent ELSE [handler[h] EXCEPT !.heard = FALSE]
<1>1. UNCHANGED <<here, queue, shown, odd, cloud>> /\ handler' = [h \in Slots |-> left(h)]
  BY DEF GiveUp, InSending
<1>2. ASSUME NEW o \in Slots, handler'[o] # Absent
      PROVE  /\ handler[o] # Absent /\ handler'[o].rows = handler[o].rows
             /\ handler'[o].said = handler[o].said /\ handler'[o].step = handler[o].step
  <2>1. handler'[o] = left(o)
    BY <1>1
  <2>2. handler[o] # Absent /\ handler[o] \in Handler
    BY <1>2, <2>1, PassNow
  <2>3. CASE left(o) = handler[o]
    <3> HIDE DEF left
    <3> QED BY <2>1, <2>2, <2>3
  <2>4. CASE left(o) = [handler[o] EXCEPT !.heard = FALSE]
    <3>1. PICK x : x = [handler[o] EXCEPT !.heard = FALSE]
      OBVIOUS
    <3>2. x = [from |-> handler[o].from, heard |-> FALSE, rows |-> handler[o].rows, step |-> handler[o].step,
               verdict |-> handler[o].verdict, said |-> handler[o].said]
      BY <2>2, <3>1, LeftOff
    <3> HIDE DEF left
    <3> QED BY <2>1, <2>2, <2>4, <3>1, <3>2
  <2> QED BY <1>2, <2>1, <2>2, <2>3, <2>4
<1>3. \A x \in Senders : AllSeen(queue'[x], shown')
  BY <1>1, SameQueues
<1>4. Pairs(here') \subseteq shown'
  BY <1>1 DEF ShownInv, TillShows
<1> HIDE DEF left
<1> QED BY <1>1, <1>2, <1>3, <1>4, ShownStep

LEMMA DieShows ==
  ASSUME IndInv, ShownInv, NEW h \in Slots, Die(h)
  PROVE  ShownInv'
<1>1. UNCHANGED <<here, queue, shown, odd, cloud>> /\ handler' = [handler EXCEPT ![h] = Absent]
  BY DEF Die
<1>2. \A o \in Slots : handler'[o] = IF o = h THEN Absent ELSE handler[o]
  BY <1>1, PassNow
<1>3. \A m \in Senders : AllSeen(queue'[m], shown')
  BY <1>1, SameQueues
<1>4. Pairs(here') \subseteq shown'
  BY <1>1 DEF ShownInv, TillShows
<1> QED BY <1>1, <1>2, <1>3, <1>4, ShownStep

LEMMA FetchShows ==
  ASSUME IndInv, ShownInv, Fetch
  PROVE  ShownInv'
<1>1. UNCHANGED <<here, queue, shown, odd, cloud, handler>>
  BY DEF Fetch
<1>2. \A m \in Senders : AllSeen(queue'[m], shown')
  BY <1>1, SameQueues
<1>3. Pairs(here') \subseteq shown'
  BY <1>1 DEF ShownInv, TillShows
<1> QED BY <1>1, <1>2, <1>3, ShownStep

LEMMA StoreShows ==
  ASSUME IndInv, ShownInv, Store
  PROVE  ShownInv'
<1>1. /\ UNCHANGED <<queue, cloud, handler>> /\ shown' = shown \cup Pairs(here')
      /\ odd \subseteq odd'
  BY DEF Store, cloudside
<1>2. shown \subseteq shown' /\ Pairs(here') \subseteq shown'
  BY <1>1
<1>3. \A m \in Senders : AllSeen(queue'[m], shown')
  BY <1>1, <1>2, SameQueues
<1> QED BY <1>1, <1>2, <1>3, ShownStep

(* What goes out starts from, and says, what was shown.                    *)
LEMMA MarkedShows ==
  ASSUME ShownInv, TypeOK
  PROVE  AllSeen(Marked(queue["till"]), shown)
<1> DEFINE q == queue["till"]
<1>1. q \in Seq(Change) /\ AllSeen(q, shown)
  BY DEF ShownInv, TillShows, TypeOK, Senders
<1>2. DOMAIN Marked(q) = DOMAIN q /\ \A k \in DOMAIN q : SentAs(q[k], Marked(q)[k])
  <2> HIDE DEF q
  <2> QED BY <1>1, MarkedIs
<1>3. Drawn(q, Marked(q))
  BY <1>2 DEF Drawn, SentAs, Alike
<1> QED BY <1>1, <1>3, SeenDrawn

LEMMA SendShows ==
  ASSUME ShownInv, TypeOK, NEW m \in Senders
  PROVE  AllSeen(ToSend(m), shown)
<1> DEFINE q == queue[m]
<1>1. q \in Seq(Change) /\ AllSeen(q, shown)
  BY DEF ShownInv, TillShows, TypeOK
<1>2. \A j \in DOMAIN ToSend(m) : \E k \in DOMAIN q : ToSend(m)[j] = q[k]
  <2> HIDE DEF q
  <2>1. q = queue[m]
    BY DEF q
  <2>2. \A j \in DOMAIN ToSend(m) : ToSend(m)[j].st = "pending" /\ \E k \in DOMAIN q : ToSend(m)[j] = q[k]
    BY <1>1, <2>1, ToSendIs
  <2> QED BY <2>2
<1>3. Drawn(q, ToSend(m))
  BY <1>2 DEF Drawn
<1> QED BY <1>1, <1>3, SeenDrawn

LEMMA HandOverShows ==
  ASSUME IndInv, ShownInv, HandOver
  PROVE  ShownInv'
<1> DEFINE b == Those(Waiting, {c \in ToSet(Waiting) : c.id \notin known})
           marked == Marked(queue["till"])
           a == queue["server"]
           copies == a \o b
<1>1. TypeOK
  BY KindsNow
<1>2. /\ queue' = [queue EXCEPT !["till"] = marked, !["server"] = copies] /\ Mixes
      /\ UNCHANGED <<here, shown, cloud, handler>>
  BY DEF HandOver, InSending
<1>3. odd \subseteq odd'
  BY <1>2 DEF Mixes
<1>4. AllSeen(marked, shown)
  BY <1>1, MarkedShows
<1>5. Waiting \in Seq(Change) /\ AllSeen(Waiting, shown)
  <2>1. AllSeen(ToSend("till"), shown)
    BY <1>1, SendShows DEF Senders
  <2>2. queue["till"] \in Seq(Change)
    BY <1>1 DEF TypeOK, Senders
  <2>3. ToSend("till") \in Seq(Change)
    BY <2>2, ThoseKeeps DEF ToSend
  <2> QED BY <2>1, <2>3 DEF Waiting
<1>6. b \in Seq(Change) /\ AllSeen(b, shown)
  <2>1. Waiting \in Seq(Open)
    <3>1. Change \subseteq Open
      BY ChangeIsOpen
    <3> HIDE DEF Waiting
    <3> QED BY <1>5, <3>1
  <2> QED BY <1>5, <2>1, ThoseKeeps, SeenPart
<1>7. a \in Seq(Change) /\ AllSeen(a, shown)
  BY <1>1 DEF ShownInv, TillShows, TypeOK, Senders
<1> HIDE DEF marked, a, b
<1>8. AllSeen(copies, shown)
  <2>1. ASSUME NEW j \in DOMAIN copies
        PROVE  (j \in DOMAIN a /\ copies[j] = a[j]) \/ (j - Len(a) \in DOMAIN b /\ copies[j] = b[j - Len(a)])
    BY <1>6, <1>7, <2>1
  <2> HIDE DEF copies
  <2> QED BY <1>6, <1>7, <2>1 DEF AllSeen
<1> HIDE DEF copies
<1>9. \A m \in Senders : queue'[m] \in {marked, copies}
  <2> DEFINE Qs == Seq(Change)
  <2>1. queue \in [Senders -> Qs]
    BY <1>1 DEF TypeOK
  <2> HIDE DEF Qs
  <2> QED BY <1>2, <2>1 DEF Senders
<1>10. \A m \in Senders : AllSeen(queue'[m], shown')
  BY <1>2, <1>4, <1>8, <1>9
<1>11. Pairs(here') \subseteq shown'
  BY <1>2 DEF ShownInv, TillShows
<1> QED BY <1>2, <1>3, <1>10, <1>11, ShownStep

LEMMA PostShows ==
  ASSUME IndInv, ShownInv, NEW m \in Senders, Post(m)
  PROVE  ShownInv'
<1> DEFINE new == [from |-> m, heard |-> TRUE, rows |-> ToSend(m), step |-> "look", verdict |-> "none", said |-> <<>>]
<1>1. TypeOK
  BY KindsNow
<1>2. PICK h \in Slots : handler' = [handler EXCEPT ![h] = new]
  BY DEF Post
<1>3. UNCHANGED <<here, shown, cloud>>
  BY DEF Post, InSending
<1>4. odd \subseteq odd'
  BY DEF Post, Mixes
<1>5. \A x \in Senders : AllSeen(queue'[x], shown')
  <2>1. CASE m = "till"
    <3>1. queue' = [queue EXCEPT ![m] = Marked(queue["till"])]
      BY <2>1 DEF Post
    <3>2. AllSeen(Marked(queue["till"]), shown')
      BY <1>1, <1>3, MarkedShows
    <3> QED BY <1>1, <1>3, <3>1, <3>2, QueueShows
  <2>2. CASE m # "till"
    BY <2>2, <1>3, SameQueues DEF Post
  <2> QED BY <2>1, <2>2
<1>6. new.step = "look" /\ AllSeen(new.rows, shown')
  BY <1>1, <1>3, SendShows
<1> HIDE DEF new
<1>7. \A o \in Slots : handler'[o] = IF o = h THEN new ELSE handler[o]
  BY <1>2, PassNow
<1>8. Pairs(here') \subseteq shown'
  BY <1>3 DEF ShownInv, TillShows
<1> QED BY <1>3, <1>4, <1>5, <1>6, <1>7, <1>8, ShownStep

(* A change made anew starts from what the till shows.                     *)
LEMMA RecordedShows ==
  ASSUME IndInv, ShownInv, AtTill, NEW op \in Ops, NEW base \in Data, NEW data \in Data, Recorded(op, base, data),
         shown \subseteq shown', odd' = odd, Pairs(here') \subseteq shown', Seen(base, shown'), Seen(data, shown')
  PROVE  ShownInv'
<1>1. PICK c : c = NewChange(op, base, data)
  OBVIOUS
<1>2. PICK q : q = queue["till"]
  OBVIOUS
<1>3. TypeOK /\ cloud' = cloud /\ handler' = handler /\ edits < MaxEdits /\ made \in 0..edits /\ edits \in 0..MaxEdits
  BY KindsNow DEF AtTill, cloudside, TypeOK
<1>4. queue' = [queue EXCEPT !["till"] = Append(q, c)]
  BY <1>1, <1>2 DEF Recorded, Queued
<1>5. c.base = base /\ c.data = data /\ c \in Change
  BY <1>1, <1>3, BoundsAssumption DEF NewChange, Change, Ids
<1>6. q \in Seq(Change) /\ AllSeen(q, shown')
  BY <1>2, <1>3, SeenMore DEF ShownInv, TillShows, Senders, TypeOK
<1>7. AllSeen(Append(q, c), shown')
  BY <1>5, <1>6, SeenAdded
<1>8. \A m \in Senders : AllSeen(queue'[m], shown')
  BY <1>3, <1>4, <1>7, QueueShows DEF Senders
<1> QED BY <1>3, <1>8, ShownStep

LEMMA UnsetSeen == Unset \in Data /\ \A S : Seen(Unset, S)
BY DEF Unset, Data, Seen

LEMMA AlterShows ==
  ASSUME IndInv, ShownInv, NEW f \in Fields, NEW v \in Vals, Alter(f, v)
  PROVE  ShownInv'
<1>1. /\ TypeOK /\ here # Absent /\ AtTill /\ here' = [here EXCEPT ![f] = v]
      /\ shown' = shown \cup {<<f, v>>} /\ odd' = odd
  BY KindsNow DEF Alter
<1>2. here \in Thing /\ Pairs(here) \subseteq shown /\ Pairs(here) = {<<g, here[g]>> : g \in Fields}
  BY <1>1 DEF TypeOK, ShownInv, TillShows, Pairs
<1>3. shown \subseteq shown' /\ <<f, v>> \in shown'
  BY <1>1
<1>4. Pairs(here') \subseteq shown'
  <2>1. \A g \in Fields : here'[g] = IF g = f THEN v ELSE here[g]
    BY <1>1, <1>2 DEF Thing
  <2>2. \A g \in Fields : <<g, here'[g]>> \in shown'
    BY <1>2, <1>3, <2>1
  <2> QED BY <2>2 DEF Pairs
<1>5. CASE ~Joins
  <2> DEFINE data == [Unset EXCEPT ![f] = v]
  <2>1. Recorded("update", here, data) /\ "update" \in Ops
    BY <1>5 DEF Alter, Ops
  <2>2. here \in Data /\ data \in Data
    BY <1>2 DEF Thing, Data, Unset
  <2>3. Seen(data, shown')
    BY <1>3 DEF Seen, Unset
  <2>4. Seen(here, shown')
    BY <1>2, <1>3, SeenRow
  <2> HIDE DEF data
  <2> QED BY <1>1, <1>3, <1>4, <2>1, <2>2, <2>3, <2>4, RecordedShows
<1>6. CASE Joins
  <2>1. PICK q : q = queue["till"]
    OBVIOUS
  <2>2. PICK c : c = Last(Waiting)
    OBVIOUS
  <2>3. PICK d : d = JoinedBy(c, f, v, edits + 1)
    OBVIOUS
  <2>4. PICK w : w = Without(q, c.id)
    OBVIOUS
  <2>5. queue' = [queue EXCEPT !["till"] = Append(w, d)]
    BY <1>6, <2>1, <2>2, <2>3, <2>4 DEF Alter, Queued, JoinedBy
  <2>6. q \in Seq(Change) /\ q # <<>> /\ c = Last(q)
    BY <1>1, <1>6, <2>1, <2>2, LastWaits DEF Joins
  <2>7. Len(q) \in DOMAIN q /\ c = q[Len(q)] /\ c \in Change
    BY <2>6 DEF Last
  <2>8. AllSeen(q, shown')
    BY <2>1, <1>3, SeenMore DEF ShownInv, TillShows, Senders
  <2>9. Seen(c.base, shown') /\ Seen(c.data, shown') /\ c.data \in Data
    BY <2>7, <2>8 DEF AllSeen, Change
  <2>10. edits + 1 \in 1..MaxEdits
    BY <1>1, KindsNow, BoundsAssumption DEF AtTill
  <2>11. d \in Change /\ d.base = c.base /\ d.data = [c.data EXCEPT ![f] = v]
    BY <2>3, <2>7, <2>10, JoinedWith
  <2>12. Seen(d.data, shown')
    BY <1>3, <2>9, <2>11 DEF Seen, Data
  <2>13. w \in Seq(Change) /\ AllSeen(w, shown')
    <3>1. q \in Seq(Open)
      BY <2>6, ChangeIsOpen
    <3>2. w \in Seq(Change)
      BY <2>4, <2>6, ThoseKeeps DEF Without
    <3> QED BY <2>4, <2>8, <3>1, <3>2, SeenPart DEF Without
  <2>14. AllSeen(Append(w, d), shown')
    BY <2>9, <2>11, <2>12, <2>13, SeenAdded
  <2>15. \A m \in Senders : AllSeen(queue'[m], shown')
    BY <1>1, <1>3, <2>5, <2>14, QueueShows DEF Senders
  <2>16. cloud' = cloud /\ handler' = handler
    BY <1>1 DEF AtTill, cloudside
  <2> QED BY <1>1, <1>3, <1>4, <2>15, <2>16, ShownStep
<1> QED BY <1>5, <1>6

LEMMA DeleteShows ==
  ASSUME IndInv, ShownInv, Delete
  PROVE  ShownInv'
<1>1. TypeOK /\ here # Absent /\ AtTill /\ here' = Absent /\ shown' = shown
  BY KindsNow DEF Delete
<1>2. here \in Thing /\ Pairs(here) \subseteq shown /\ Pairs(here') \subseteq shown'
  BY <1>1 DEF TypeOK, ShownInv, TillShows, Pairs
<1>3. CASE Waiting # <<>> /\ Last(Waiting).op = "create"
  <2>1. PICK q : q = queue["till"]
    OBVIOUS
  <2>2. PICK id : id = Last(Waiting).id
    OBVIOUS
  <2>3. queue' = [queue EXCEPT !["till"] = Without(q, id)] /\ odd \subseteq odd'
    BY <1>3, <2>1, <2>2 DEF Delete, Queued
  <2>4. AllSeen(Without(q, id), shown')
    <3>1. q \in Seq(Open) /\ AllSeen(q, shown)
      BY <1>1, <2>1, ChangeIsOpen DEF TypeOK, Senders, ShownInv, TillShows
    <3> QED BY <1>1, <3>1, SeenPart DEF Without
  <2>5. \A m \in Senders : AllSeen(queue'[m], shown')
    BY <1>1, <2>3, <2>4, QueueShows DEF Senders
  <2>6. cloud' = cloud /\ handler' = handler
    BY <1>1 DEF AtTill, cloudside
  <2> QED BY <1>1, <1>2, <2>3, <2>5, <2>6, ShownStep
<1>4. CASE ~(Waiting # <<>> /\ Last(Waiting).op = "create")
  <2>1. Recorded("delete", here, Unset) /\ odd' = odd /\ "delete" \in Ops
    BY <1>4 DEF Delete, Ops
  <2>2. here \in Data /\ Seen(here, shown')
    BY <1>1, <1>2, SeenRow DEF Thing, Data
  <2> QED BY <1>1, <1>2, <2>1, <2>2, UnsetSeen, RecordedShows
<1> QED BY <1>3, <1>4

(* Before the first edit nothing waits anywhere.                           *)
LEMMA NothingWaits ==
  ASSUME IndInv, edits = 0
  PROVE  (\A m \in Senders : queue[m] = <<>>) /\ \A h \in Slots : handler[h] = Absent
<1>1. TypeOK /\ made = 0
  BY KindsNow DEF TypeOK
<1>2. \A c \in Change : ~Known(c)
  BY <1>1, BoundsAssumption DEF Known, Change, Ids
<1>3. ASSUME NEW q \in Seq(Change), \A k \in DOMAIN q : Known(q[k]) PROVE q = <<>>
  BY <1>2, <1>3
<1>4. ASSUME NEW m \in Senders PROVE queue[m] = <<>>
  <2>1. queue[m] \in Seq(Change)
    BY <1>1 DEF TypeOK
  <2>2. \A k \in DOMAIN queue[m] : Known(queue[m][k])
    BY KindsNow DEF IndInv, ChangesInv, Types, Good, TillNow, Known, Senders
  <2> QED BY <1>3, <2>1, <2>2
<1>5. ASSUME NEW h \in Slots, handler[h] # Absent PROVE FALSE
  <2>1. Handled(h) /\ handler[h] \in Handler
    BY <1>5, KindsNow, PassNow
  <2>2. handler[h].rows \in Seq(Change) /\ handler[h].rows # <<>> /\ \A k \in DOMAIN handler[h].rows : Known(handler[h].rows[k])
    BY <1>5, <2>1 DEF Handled, Handler
  <2> QED BY <1>3, <2>2
<1> QED BY <1>4, <1>5

LEMMA CreateShows ==
  ASSUME IndInv, ShownInv, NEW row \in Thing, Create(row)
  PROVE  ShownInv'
<1>1. /\ edits = 0 /\ AtTill /\ here' = row /\ Recorded("create", Unset, row) /\ shown' = Pairs(row)
  BY DEF Create
<1>2. (\A m \in Senders : queue[m] = <<>>) /\ \A h \in Slots : handler'[h] = Absent
  BY <1>1, NothingWaits DEF AtTill, cloudside
<1>3. PICK c : c = NewChange("create", Unset, row)
  OBVIOUS
<1>4. queue' = [queue EXCEPT !["till"] = Append(<<>>, c)] /\ c.base = Unset /\ c.data = row
  BY <1>1, <1>2, <1>3 DEF Recorded, Queued, NewChange, Senders
<1>5. AllSeen(<<c>>, shown') /\ AllSeen(<<>>, shown')
  BY <1>1, SeenRow, <1>4, UnsetSeen DEF AllSeen
<1>6. \A m \in Senders : queue'[m] \in {<<c>>, <<>>}
  <2> DEFINE Qs == Seq(Change)
  <2>1. queue \in [Senders -> Qs]
    BY KindsNow DEF TypeOK
  <2> HIDE DEF Qs
  <2> QED BY <1>2, <1>4, <2>1
<1>7. TillShows'
  BY <1>5, <1>6, <1>1, <1>2 DEF TillShows
<1>8. AsRead'
  BY <1>2 DEF AsRead, At
<1> QED BY <1>7, <1>8 DEF ShownInv

(* What each step of a fold keeps, its end has.                            *)
LEMMA Along ==
  ASSUME NEW F, NEW b, NEW q, NEW n \in Nat, NEW S, NEW t, NEW end, Steps(F, b, q, n, S, t, end),
         NEW T, b \in T, \A k \in 1..n : \A s \in S \cap T : F[<<s, q[k]>>] \in T
  PROVE  end \in T
<1>1. t \in [0..n -> S] /\ t[0] = b /\ t[n] = end /\ \A k \in 1..n : t[k] = F[<<t[k-1], q[k]>>]
  BY DEF Steps
<1> DEFINE K == {k \in Nat : k <= n => t[k] \in T}
<1>2. 0 \in K
  BY <1>1
<1>3. ASSUME NEW k \in Nat, k \in K PROVE k + 1 \in K
  <2>1. SUFFICES ASSUME k + 1 <= n PROVE t[k + 1] \in T
    OBVIOUS
  <2>2. k + 1 \in 1..n /\ (k + 1) - 1 = k /\ k \in 0..n /\ t[k] \in T
    BY <1>3, <2>1
  <2>3. t[k + 1] = F[<<t[k], q[k + 1]>>] /\ t[k] \in S
    BY <1>1, <2>2
  <2> QED BY <2>2, <2>3
<1> HIDE DEF K
<1>4. n \in K
  BY <1>2, <1>3, Induction
<1> QED BY <1>1, <1>4 DEF K

(* What the till holds of its changes while it takes the answers.          *)
ShownStates == {s \in TillStates : AllSeen(s.q, shown) /\ Pairs(s.here) \subseteq shown}

LEMMA SeenOver ==
  ASSUME NEW data, NEW base, NEW S, Seen(data, S), Seen(base, S)
  PROVE  Seen(Over(data, base), S)
BY DEF Seen, Over

LEMMA DropShows ==
  ASSUME NEW s \in ShownStates, NEW c, NEW r \in TillStates, Drops(s, c, r)
  PROVE  r \in ShownStates
<1>1. s.q \in Seq(Open) /\ AllSeen(s.q, shown) /\ Pairs(s.here) \subseteq shown
  BY DEF ShownStates, TillStates
<1>2. AllSeen(r.q, shown)
  BY <1>1, SeenPart DEF Drops, Without
<1>3. Pairs(r.here) \subseteq shown
  BY <1>1 DEF Drops, Pairs
<1> QED BY <1>2, <1>3 DEF ShownStates

LEMMA AnswerShows ==
  ASSUME NEW s \in ShownStates, NEW row \in Open, NEW answer \in Answers, Seen(row.data, shown),
         NEW r, r = Answered(s, row, answer)
  PROVE  r \in ShownStates
<1>1. s \in TillStates /\ s.q \in Seq(Open) /\ AllSeen(s.q, shown) /\ Pairs(s.here) \subseteq shown
  BY DEF ShownStates, TillStates
<1>2. r \in TillStates /\ (r = s \/ \E k \in DOMAIN s.q : s.q[k].id = row.id /\ Comes(s, s.q[k], row, answer, r))
  BY <1>1, AnsweredIs
<1>3. SUFFICES ASSUME NEW k \in DOMAIN s.q, Comes(s, s.q[k], row, answer, r)
               PROVE  r \in ShownStates
  BY <1>2
<1>4. PICK c : c = s.q[k]
  OBVIOUS
<1>5. c \in Open /\ Seen(c.base, shown) /\ Seen(c.data, shown)
  BY <1>1, <1>3, <1>4 DEF AllSeen
<1>6. ASSUME NEW m \in Open, Renews(s, c, m, r), m.base \in StartsFrom(row, c) PROVE r \in ShownStates
  <2>1. Seen(m.base, shown) /\ Seen(m.data, shown)
    BY <1>5, <1>6, SeenOver DEF StartsFrom, Renews
  <2>2. AllSeen(r.q, shown)
    BY <1>1, <1>6, <2>1 DEF Renews, AllSeen
  <2> QED BY <1>1, <1>2, <1>6, <2>2 DEF Renews, ShownStates
<1>7. ASSUME Parks(s, c, r) PROVE r \in ShownStates
  <2>1. PICK m : m = [c EXCEPT !.st = "awaiting"]
    OBVIOUS
  <2>2. m.base = c.base /\ m.data = c.data /\ m \in Open
    BY <1>5, <2>1 DEF Open
  <2>3. r.q = Put(s.q, m) /\ r.here = s.here
    BY <1>7, <2>1 DEF Parks
  <2>4. AllSeen(r.q, shown)
    BY <1>1, <1>5, <2>2, <2>3 DEF Put, AllSeen
  <2> QED BY <1>1, <1>2, <2>3, <2>4 DEF ShownStates
<1>8. ASSUME Drops(s, c, r) PROVE r \in ShownStates
  BY <1>2, <1>8, DropShows
<1> QED BY <1>3, <1>4, <1>6, <1>7, <1>8 DEF Comes

LEMMA ShownNow ==
  ASSUME IndInv, ShownInv
  PROVE  TillNow \in ShownStates
<1>1. TillNow \in TillStates
  BY KindsNow, TillNowIs
<1>2. AllSeen(queue["till"], shown) /\ Pairs(here) \subseteq shown
  BY DEF ShownInv, TillShows, Senders
<1> QED BY <1>1, <1>2 DEF ShownStates, TillNow

LEMMA TillTakes ==
  ASSUME IndInv, ShownInv, NEW r \in ShownStates, TillBecomes(r), UNCHANGED <<cloud, shown>>, odd \subseteq odd',
         \A o \in Slots : handler'[o] # Absent => handler'[o] = handler[o]
  PROVE  ShownInv'
<1>1. queue' = [queue EXCEPT !["till"] = r.q] /\ here' = r.here /\ AllSeen(r.q, shown') /\ Pairs(here') \subseteq shown'
  BY DEF TillBecomes, Queued, ShownStates
<1>2. \A m \in Senders : AllSeen(queue'[m], shown')
  BY KindsNow, <1>1, QueueShows DEF Senders
<1> QED BY <1>1, <1>2, ShownStep

LEMMA CopiesShow ==
  ASSUME IndInv, ShownInv, NEW r, AllSeen(r, shown), queue' = [queue EXCEPT !["server"] = r],
         UNCHANGED <<here, cloud, shown, odd>>,
         \A o \in Slots : handler'[o] # Absent => handler'[o] = handler[o]
  PROVE  ShownInv'
<1>1. \A m \in Senders : AllSeen(queue'[m], shown')
  BY KindsNow, QueueShows DEF Senders
<1>2. Pairs(here') \subseteq shown'
  BY DEF ShownInv, TillShows
<1> QED BY <1>1, <1>2, ShownStep

LEMMA HearShows ==
  ASSUME IndInv, ShownInv, NEW h \in Slots, Hear(h)
  PROVE  ShownInv'
<1> DEFINE each == EachOf(handler[h])
           rows == handler[h].rows
           said == handler[h].said
           n == Len(rows)
<1>1. /\ handler[h] # Absent /\ handler[h].step = "end" /\ handler' = [handler EXCEPT ![h] = Absent]
      /\ UNCHANGED <<cloud, shown>>
  BY DEF Hear, At
<1>2. handler[h] \in Handler /\ TypeOK
  BY <1>1, PassNow, KindsNow
<1>3. /\ handler[h].from \in Senders /\ rows \in Seq(Change) /\ said \in Seq(Answers) /\ Len(said) = n
      /\ AllSeen(rows, shown)
  BY <1>1, <1>2, KindsNow DEF Handler, Answers, Handled, ShownInv, TillShows
<1>4. \A o \in Slots : handler'[o] # Absent => handler'[o] = handler[o]
  BY <1>1, PassNow
<1>5. CASE handler[h].from = "till"
  <2>1. PICK r : r = AllAnswered(TillNow, each)
    OBVIOUS
  <2>2. TillBecomes(r)
    BY <1>5, <2>1 DEF Hear, EachOf
  <2>3. odd \subseteq odd'
    BY <1>5 DEF Hear
  <2>4. r \in ShownStates
    <3>1. rows \in Seq(Open) /\ said \in Seq(Answers) /\ Len(said) = Len(rows)
      BY <1>3, ChangeIsOpen
    <3>2. each = [k \in DOMAIN rows |-> <<rows[k], said[k]>>]
      BY DEF EachOf
    <3> HIDE DEF each, rows, said
    <3>3. each \in Seq(Open \X Answers) /\ Len(each) = n /\ \A k \in 1..n : each[k] = <<rows[k], said[k]>>
      <4>1. PICK a \in Seq(Open), b \in Seq(Answers) : a = rows /\ b = said
        BY <3>1
      <4>2. PICK e : e = each
        OBVIOUS
      <4>3. Len(b) = Len(a) /\ e = [k \in DOMAIN a |-> <<a[k], b[k]>>]
        BY <3>1, <3>2, <4>1, <4>2
      <4>4. e \in Seq(Open \X Answers) /\ Len(e) = Len(a) /\ \A k \in 1..Len(a) : e[k] = <<a[k], b[k]>>
        BY <4>3, EachIs
      <4> QED BY <4>1, <4>2, <4>4
    <3>4. n \in Nat /\ DOMAIN rows = 1..n /\ \A k \in 1..n : rows[k] \in Open /\ said[k] \in Answers
      BY <1>3, <3>1
    <3>5. \A k \in 1..n : Seen(rows[k].data, shown)
      BY <1>3, <3>4 DEF AllSeen
    <3> HIDE DEF n
    <3>6. TillNow \in ShownStates /\ TillNow \in TillStates
      BY ShownNow DEF ShownStates
    <3>7. PICK t : Steps(AnswerIn, TillNow, each, n, TillStates, t, r)
      BY <2>1, <3>3, <3>6, AnsweredSteps
    <3>8. ASSUME NEW k \in 1..n, NEW s \in TillStates \cap ShownStates
          PROVE  AnswerIn[<<s, each[k]>>] \in ShownStates
      <4>1. PICK row \in Open, answer \in Answers : row = rows[k] /\ answer = said[k]
        BY <3>4
      <4>2. <<s, <<row, answer>>>> \in TillStates \X (Open \X Answers) /\ each[k] = <<row, answer>>
        BY <3>3, <4>1
      <4>3. AnswerIn[<<s, each[k]>>] = Answered(s, row, answer)
        BY <4>2 DEF AnswerIn
      <4> QED BY <3>5, <4>1, <4>3, AnswerShows
    <3> QED BY <3>4, <3>6, <3>7, <3>8, Along
  <2> QED BY <1>1, <1>4, <2>2, <2>3, <2>4, TillTakes
<1>6. CASE handler[h].from = "server"
  <2>1. PICK r : r = AllForwarded(queue["server"], each)
    OBVIOUS
  <2>2. queue' = [queue EXCEPT !["server"] = r] /\ UNCHANGED <<here, odd>>
    BY <1>6, <2>1 DEF Hear, EachOf
  <2>3. queue["server"] \in Seq(Change) /\ AllSeen(queue["server"], shown)
    BY <1>2 DEF TypeOK, Senders, ShownInv, TillShows
  <2>4. MadeOf(queue["server"], handler[h], r)
    BY <1>2, <1>3, <2>1, <2>3, AllForwardedIs
  <2>5. \A k \in DOMAIN rows : Parked(rows[k]).base = rows[k].base /\ Parked(rows[k]).data = rows[k].data
    BY <1>3 DEF Parked, Change
  <2>6. AllSeen(r, shown)
    BY <1>3, <2>3, <2>4, <2>5 DEF MadeOf, AllSeen
  <2> QED BY <1>1, <1>4, <2>2, <2>6, CopiesShow
<1> QED BY <1>3, <1>5, <1>6 DEF Senders

LEMMA AskShows ==
  ASSUME IndInv, ShownInv, NEW m \in Senders, Ask(m)
  PROVE  ShownInv'
<1>1. UNCHANGED <<cloud, handler, shown, odd>> /\ TypeOK
  BY KindsNow DEF Ask, cloudside
<1>2. CASE m = "till"
  <2>1. PICK r : r = AllDecided(TillNow, Due)
    OBVIOUS
  <2>2. TillBecomes(r)
    BY <1>2, <2>1 DEF Ask, Due
  <2>3. r \in ShownStates
    <3>1. PICK n : n = Len(Due)
      OBVIOUS
    <3>2. Due \in Seq(Open) /\ n \in Nat /\ \A k \in 1..n : Due[k] \in Open
      <4>1. queue["till"] \in Seq(Open)
        BY <1>1, ChangeIsOpen DEF TypeOK, Senders
      <4>2. Due \in Seq(Open)
        BY <4>1, ThoseKeeps DEF Due
      <4> HIDE DEF Due
      <4> QED BY <3>1, <4>2
    <3>3. TillNow \in ShownStates /\ TillNow \in TillStates
      BY ShownNow DEF ShownStates
    <3>4. PICK t : Steps(SettleIn, TillNow, Due, n, TillStates, t, r)
      BY <2>1, <3>1, <3>2, <3>3, DecidedSteps
    <3>5. ASSUME NEW k \in 1..n, NEW s \in TillStates \cap ShownStates
          PROVE  SettleIn[<<s, Due[k]>>] \in ShownStates
      <4>1. PICK c \in Open : c = Due[k]
        BY <3>2
      <4>2. SettleIn[<<s, c>>] = Settled(s, c, Ruled(c))
        BY DEF SettleIn
      <4>3. Ruled(c) \in {"done", "refused", "rejected"}
        BY DEF Ruled
      <4>4. Settled(s, c, Ruled(c)) \in TillStates /\ Drops(s, c, Settled(s, c, Ruled(c)))
        BY <4>3, SettledIs
      <4> QED BY <4>1, <4>2, <4>4, DropShows
    <3> QED BY <3>2, <3>3, <3>4, <3>5, Along
  <2> QED BY <1>1, <2>2, <2>3, TillTakes
<1>3. CASE m = "server"
  <2>1. PICK q : q = queue["server"]
    OBVIOUS
  <2>2. PICK r : r = Those(q, {c \in ToSet(q) : ~Decided(c)})
    OBVIOUS
  <2>3. queue' = [queue EXCEPT !["server"] = r] /\ here' = here
    BY <1>1, <1>3, <2>1, <2>2 DEF Ask, TypeOK
  <2>4. q \in Seq(Open) /\ AllSeen(q, shown)
    BY <1>1, <2>1, ChangeIsOpen DEF TypeOK, Senders, ShownInv, TillShows
  <2>5. AllSeen(r, shown)
    BY <2>2, <2>4, SeenPart
  <2> QED BY <1>1, <2>3, <2>5, CopiesShow
<1> QED BY <1>2, <1>3 DEF Senders

LEMMA InitShown ==
  ASSUME Init
  PROVE  ShownInv
<1>1. /\ \A m \in Senders : queue[m] = <<>>
      /\ \A h \in Slots : handler[h] = Absent
      /\ Pairs(here) \subseteq shown
  BY DEF Init
<1>2. AllSeen(<<>>, shown)
  BY DEF AllSeen
<1> QED BY <1>1, <1>2 DEF ShownInv, TillShows, AsRead, At

LEMMA NextShows ==
  ASSUME IndInv, ShownInv, [Next]_vars
  PROVE  ShownInv'
<1>1. ASSUME NEW row \in Thing, Create(row) PROVE ShownInv'
  BY <1>1, CreateShows
<1>2. ASSUME NEW f \in Fields, NEW v \in Vals, Alter(f, v) PROVE ShownInv'
  BY <1>2, AlterShows
<1>3. ASSUME Web PROVE ShownInv'
  BY <1>3, WebShows
<1>4. ASSUME NEW m \in Senders, Post(m) \/ GiveUp(m) \/ Ask(m) PROVE ShownInv'
  BY <1>4, PostShows, GiveUpShows, AskShows
<1>5. ASSUME NEW h \in Slots, Handles(h) PROVE ShownInv'
  BY <1>5, LookShows, ReadShows, WriteShows, RecordShows DEF Handles
<1>6. ASSUME NEW h \in Slots, Die(h) \/ Hear(h) PROVE ShownInv'
  BY <1>6, DieShows, HearShows
<1>7. ASSUME NEW i \in Ids, NEW approve \in BOOLEAN, Decide(i, approve) PROVE ShownInv'
  BY <1>7, DecideShows
<1>8. CASE UNCHANGED vars
  BY <1>8, RacedStays DEF vars, till, cloudside
<1> QED
  BY <1>1, <1>2, <1>3, <1>4, <1>5, <1>6, <1>7, <1>8, DeleteShows, FetchShows, StoreShows, HandOverShows, SkipShows
  DEF Next, WebEdit, WebDelete

(* An edit from a till overwrites nothing its maker has not seen there:    *)
(* judgeUpdate lets only what the base says be replaced, and no joining,   *)
(* requeueing, overlay or copy gives a change a base that was not shown.   *)
(* Not so of what the owner approves, who sees both, nor once something    *)
(* changed the thing between a handler's look and its write (raced).       *)
THEOREM NothingUnseen == Spec => NothingUnseenIsOverwritten
<1>1. IndInv /\ ShownInv /\ [Next]_vars => (IndInv /\ ShownInv)'
  BY NextKeeps, NextShows
<1>2. Init => IndInv /\ ShownInv
  BY InitHolds, InitShown
<1>3. IndInv /\ ShownInv /\ [Next]_vars =>
        [\A h \in Slots :
            At(h, "write") /\ Write(h) /\ Now(h).op = "update" /\ "raced" \notin odd /\ cloud # Absent
            => Pairs(cloud) \ Pairs(cloud') \subseteq shown]_vars
  <2> SUFFICES ASSUME IndInv, ShownInv, NEW h \in Slots, At(h, "write"), Write(h), Now(h).op = "update",
                      "raced" \notin odd, cloud # Absent
               PROVE  Pairs(cloud) \ Pairs(cloud') \subseteq shown
    OBVIOUS
  <2>1. PICK c : c = Now(h)
    OBVIOUS
  <2>2. cloud \in Thing
    BY KindsNow DEF CloudKinds, Things
  <2>3. c \in Change /\ handler[h] # Absent /\ \E j \in DOMAIN handler[h].rows : c = handler[h].rows[j]
    BY <2>1, AtIs
  <2>4. Seen(c.base, shown)
    BY <2>3 DEF ShownInv, TillShows, AllSeen
  <2>5. \A f \in Fields : c.data[f] # Absent => cloud[f] \in {c.data[f], c.base[f]}
    BY <2>1 DEF ShownInv, AsRead, Keys
  <2>6. cloud' = Over(c.data, cloud)
    BY <2>1 DEF Write, Becomes, Written
  <2>7. cloud' # Absent
    BY <2>2, <2>3, <2>6, OverIs, AbsentAssumption DEF Change, Thing, Data
  <2>8. SUFFICES ASSUME NEW f \in Fields, <<f, cloud[f]>> \notin Pairs(cloud') PROVE <<f, cloud[f]>> \in shown
    BY DEF Pairs
  <2>9. cloud'[f] # cloud[f]
    BY <2>7, <2>8 DEF Pairs
  <2>10. c.data[f] # Absent /\ c.data[f] # cloud[f]
    BY <2>6, <2>9 DEF Over
  <2>11. cloud[f] = c.base[f] /\ cloud[f] # Absent
    BY <2>2, <2>5, <2>10, AbsentAssumption DEF Thing
  <2> QED BY <2>4, <2>11 DEF Seen
<1> QED BY <1>1, <1>2, <1>3, PTL DEF Spec, NothingUnseenIsOverwritten

-----------------------------------------------------------------------------
(* No false alarm: where nobody else changes the thing, the cloud holds    *)
(* what each of the till's changes starts from, or what it comes to.       *)

Unruled(s) == \A i \in Ids : {request[i].st, s[i]} \cap {"refused", "rejected"} = {}
Calm == webs = 0 /\ odd \subseteq {"raced"} /\ Unruled(told)
(* What the till tells of a change is of one that is not open any more.    *)
ToldOnce ==
    \A i \in Ids : told[i] # "none" =>
        i <= made /\ \A k \in DOMAIN queue["till"] : queue["till"][k].id # i

(* What a change, as it was sent, makes of what it started from.           *)
Becoming(c) == Over(c.sent, c.base)
(* The cloud has what c started from or, if it was sent, what it makes.    *)
Starts(c, row) ==
    /\ c.st = "pending"
    /\ c.op = "create" => row = Absent \/ (c.sent # Absent /\ row = c.sent)
    /\ c.op = "update" => /\ c.base \in Thing
                          /\ row \in {Absent, c.base} \/ (c.sent # Absent /\ row = Becoming(c))
    /\ c.sent # Absent => /\ \A f \in Fields : c.sent[f] # Absent => c.data[f] # Absent
                          /\ c.op = "create" => c.sent \in Thing
(* The cloud has what it makes.                                            *)
Ends(c, row) ==
    /\ c.sent # Absent
    /\ c.op = "delete" => row = Absent
    /\ c.op = "create" => row = c.sent
    /\ c.op = "update" => row \in {Absent, Becoming(c)}
(* The till shows the cloud's, and over it its last change.                *)
Stands(q, now, row) ==
    IF q = <<>> THEN now = row
    ELSE /\ Last(q).op = "delete" => now = Absent
         /\ Last(q).op = "create" => now = Last(q).data
         /\ Last(q).op = "update" => now = IF row = Absent THEN Absent ELSE Over(Last(q).data, Last(q).base)

Busy(h) == handler[h] # Absent /\ handler[h].step \in {"read", "write", "record"}
(* The cloud has taken the change of this id, on record or not.            *)
TakenBy(h, id) ==
    /\ handler[h] # Absent
    /\ \/ handler[h].step = "record" /\ Now(h).id = id /\ Took(handler[h].verdict)
       \/ \E j \in DOMAIN handler[h].said : handler[h].rows[j].id = id /\ Took(handler[h].said[j])
Taken(id) == Took(request[id].st) \/ \E h \in Slots : TakenBy(h, id)
Agreed(c) == Starts(c, cloud) /\ (Taken(c.id) => Ends(c, cloud))
TillFair ==
    /\ \A k \in DOMAIN queue["till"] : Agreed(queue["till"][k])
    /\ Stands(queue["till"], here, cloud)
(* What the cloud may yet judge is still open on the till.                 *)
Stems(x) == request[x.id].st = "none" =>
    \E k \in DOMAIN queue["till"] : queue["till"][k].id = x.id /\ queue["till"][k].base = x.base
AllStem ==
    /\ \A j \in DOMAIN queue["server"] : Stems(queue["server"][j]) /\ queue["server"][j].id \in known
    /\ \A h \in Slots : handler[h] # Absent => \A j \in DOMAIN handler[h].rows : Stems(handler[h].rows[j])
(* Each change is judged once, and a create finds no such thing.           *)
JudgesWell(h) ==
    Busy(h) =>
        /\ request[Now(h).id].st = "none"
        /\ \A o \in Slots : Busy(o) /\ Now(o).id = Now(h).id => o = h
        /\ handler[h].step = "record" => handler[h].verdict \in {"applied", "identical", "refused"}
        /\ handler[h].step = "write" /\ Now(h).op = "create" => cloud = Absent
NoneHeld ==
    /\ \A i \in Ids : request[i].st \notin {"awaiting", "approved"}
    /\ \A h \in Slots : handler[h] # Absent => \A j \in DOMAIN handler[h].said : handler[h].said[j] # "awaiting"
FairInv == TillFair /\ AllStem /\ (\A h \in Slots : JudgesWell(h)) /\ NoneHeld
AlarmInv == ToldOnce /\ (Calm => FairInv)

(* Laid over what it made already, a change makes the same.                *)
LEMMA OverAgain ==
  ASSUME NEW c, c.data \in Data, c.sent \in Data, c.base \in Data,
         \A f \in Fields : c.sent[f] # Absent => c.data[f] # Absent
  PROVE  /\ Over(c.data, Becoming(c)) = Over(c.data, c.base)
         /\ Over(c.sent, Becoming(c)) = Becoming(c)
<1> DEFINE b == Over(c.sent, c.base)
<1>1. Over(c.data, b) = [f \in Fields |-> IF c.data[f] = Absent THEN b[f] ELSE c.data[f]]
  BY DEF Over
<1>2. Over(c.sent, b) = [f \in Fields |-> IF c.sent[f] = Absent THEN b[f] ELSE c.sent[f]]
  BY DEF Over
<1>3. Over(c.data, c.base) = [f \in Fields |-> IF c.data[f] = Absent THEN c.base[f] ELSE c.data[f]]
  BY DEF Over
<1>4. b = [f \in Fields |-> IF c.sent[f] = Absent THEN c.base[f] ELSE c.sent[f]]
  BY DEF Over
<1> HIDE DEF b
<1>5. Over(c.data, b) = Over(c.data, c.base)
  BY <1>1, <1>3, <1>4
<1>6. Over(c.sent, b) = b
  BY <1>2, <1>4
<1> QED BY <1>5, <1>6 DEF b, Becoming

(* Of a whole thing it leaves nothing.                                     *)
LEMMA OverWhole ==
  ASSUME NEW data \in Thing, NEW row
  PROVE  Over(data, row) = data
<1>1. Absent \notin Vals
  BY AbsentAssumption
<1>2. \A f \in Fields : data[f] # Absent
  BY <1>1 DEF Thing
<1> QED BY <1>2 DEF Over, Thing

(* Of the till's changes, if all wait, an update comes first and a delete  *)
(* second.                                                                 *)
InLine(q) == \A k, l \in DOMAIN q : k < l => q[k].op = "update" /\ q[l].op = "delete"
LEMMA LineIs ==
  ASSUME IndInv, TillFair
  PROVE  /\ queue["till"] \in Seq(Change) /\ Distinct(queue["till"]) /\ InLine(queue["till"])
         /\ \A k \in DOMAIN queue["till"] : LET c == queue["till"][k] IN
               c \in Change /\ Whole(c) /\ c.id \in 1..made /\ c.id \in Ids /\ c.st = "pending"
<1>1. Good(TillNow) /\ made \in Nat
  BY KindsNow
<1>2. /\ queue["till"] \in Seq(Change) /\ Distinct(queue["till"]) /\ Ordered(queue["till"], made)
      /\ \A k \in DOMAIN queue["till"] : queue["till"][k].id <= made /\ Whole(queue["till"][k])
  BY <1>1 DEF Good, TillNow
<1>3. \A k \in DOMAIN queue["till"] : queue["till"][k].st = "pending"
  BY DEF TillFair, Agreed, Starts
<1>4. InLine(queue["till"])
  BY <1>2, <1>3 DEF Ordered, InLine
<1>5. \A k \in DOMAIN queue["till"] : queue["till"][k] \in Change
  BY <1>2
<1>6. \A k \in DOMAIN queue["till"] : queue["till"][k].id \in Ids /\ queue["till"][k].id \in 1..made
  <2>1. \A k \in DOMAIN queue["till"] : queue["till"][k].id \in Ids
    BY <1>5 DEF Change
  <2>2. \A i \in Ids : i \in Nat /\ 1 <= i
    BY BoundsAssumption DEF Ids
  <2>3. ASSUME NEW i \in Nat, 1 <= i, i <= made PROVE i \in 1..made
    BY <1>1, <2>3
  <2> QED BY <1>2, <2>1, <2>2, <2>3
<1> QED BY <1>2, <1>3, <1>4, <1>5, <1>6

(* Where two are open, one is an update and the other a delete, and the    *)
(* delete is the last.                                                     *)
LEMMA TwoAre ==
  ASSUME NEW q, NEW C, q \in Seq(C), InLine(q), NEW k \in DOMAIN q
  PROVE  /\ q # <<>> /\ Len(q) \in DOMAIN q /\ Last(q) = q[Len(q)]
         /\ \A l \in DOMAIN q : l # k => {q[k].op, q[l].op} = {"update", "delete"}
         /\ k # Len(q) => Last(q).op = "delete" /\ q[k].op = "update"
         /\ Last(q).op # "delete" => k = 1 /\ Len(q) = 1
<1>1. DOMAIN q = 1..Len(q) /\ Len(q) \in Nat /\ k \in 1..Len(q)
  OBVIOUS
<1>2. q # <<>> /\ Len(q) \in DOMAIN q /\ Last(q) = q[Len(q)]
  BY <1>1 DEF Last
<1>3. \A l \in DOMAIN q : l # k => {q[k].op, q[l].op} = {"update", "delete"}
  <2>1. ASSUME NEW l \in DOMAIN q, l # k PROVE {q[k].op, q[l].op} = {"update", "delete"}
    BY <1>1, <2>1 DEF InLine
  <2> QED BY <2>1
<1>4. k # Len(q) => Last(q).op = "delete" /\ q[k].op = "update"
  BY <1>1, <1>2 DEF InLine
<1>5. Last(q).op # "delete" => k = 1 /\ Len(q) = 1
  <2>1. SUFFICES ASSUME Last(q).op # "delete", Len(q) # 1 PROVE FALSE
    BY <1>1, <1>4
  <2>2. 1 \in DOMAIN q /\ 1 < Len(q)
    BY <1>1, <2>1
  <2> QED BY <1>2, <2>1, <2>2 DEF InLine
<1> QED BY <1>2, <1>3, <1>4, <1>5

-----------------------------------------------------------------------------
(* The cloud's steps.                                                      *)

(* A request's work goes on.                                               *)
LEMMA GoingOn ==
  ASSUME IndInv, NEW h \in Slots, handler[h] # Absent, NEW step, NEW v, Goes(h, step, v)
  PROVE  /\ \A o \in Slots \ {h} : handler'[o] = handler[o]
         /\ handler'[h].step = step /\ handler'[h].verdict = v
         /\ handler'[h].said = handler[h].said /\ handler'[h].rows = handler[h].rows
         /\ \A o \in Slots : Now(o)' = Now(o)
<1> DEFINE r == handler[h]
           x == GoneOn(r, step, v)
<1>1. handler \in [Slots -> Handler \cup {Absent}] /\ r \in Handler
  BY KindsNow DEF TypeOK
<1>2. handler' = [handler EXCEPT ![h] = x]
  BY <1>1 DEF Goes, GoneOn
<1>3. x = [from |-> r.from, heard |-> r.heard, rows |-> r.rows, step |-> step, verdict |-> v, said |-> r.said]
  BY <1>1, HandlerWith
<1> HIDE DEF x
<1>4. handler'[h] = x /\ \A o \in Slots \ {h} : handler'[o] = handler[o]
  BY <1>1, <1>2
<1>5. x.step = step /\ x.verdict = v /\ x.said = r.said /\ x.rows = r.rows
  BY <1>3
<1>6. \A o \in Slots : handler'[o].said = handler[o].said /\ handler'[o].rows = handler[o].rows
  BY <1>4, <1>5
<1>7. \A o \in Slots : Now(o)' = Now(o)
  BY <1>6 DEF Now
<1> QED BY <1>4, <1>5, <1>7

(* A change of it is answered.                                             *)
LEMMA SayingOn ==
  ASSUME IndInv, NEW h \in Slots, handler[h] # Absent, NEW a, Says(h, a)
  PROVE  /\ \A o \in Slots \ {h} : handler'[o] = handler[o]
         /\ handler'[h] # Absent =>
               /\ handler'[h].step \in {"look", "end"} /\ handler'[h].rows = handler[h].rows
               /\ handler'[h].said = Append(handler[h].said, a)
<1> DEFINE r == handler[h]
           last == Len(r.said) + 1 = Len(r.rows)
           step == IF last THEN "end" ELSE "look"
           x == SaidOn(r, step, "none", Append(r.said, a))
<1>1. handler \in [Slots -> Handler \cup {Absent}] /\ r \in Handler
  BY KindsNow DEF TypeOK
<1>2. handler' = [handler EXCEPT ![h] = IF last /\ ~r.heard THEN Absent ELSE x]
  BY <1>1 DEF Says, SaidOn
<1>3. x.rows = r.rows /\ x.step = step /\ x.said = Append(r.said, a)
  <2> DEFINE said == Append(r.said, a)
             y == SaidOn(r, step, "none", said)
  <2>1. r \in Handler /\ x = y
    BY <1>1
  <2> HIDE DEF step, said, r
  <2>2. y = [from |-> r.from, heard |-> r.heard, rows |-> r.rows, step |-> step, verdict |-> "none", said |-> said]
    BY <2>1, HandlerWith
  <2> HIDE DEF x, y
  <2> QED BY <2>1, <2>2 DEF said
<1> HIDE DEF x
<1>4. /\ handler'[h] = Absent \/ handler'[h] = x
      /\ \A o \in Slots \ {h} : handler'[o] = handler[o]
  BY <1>1, <1>2
<1> QED BY <1>3, <1>4

(* What the cloud has taken after either.                                  *)
LEMMA TakenGoing ==
  ASSUME IndInv, NEW h \in Slots, handler[h] # Absent, NEW step, NEW v, Goes(h, step, v), request' = request,
         NEW id, Taken(id)'
  PROVE  Taken(id) \/ (step = "record" /\ Took(v) /\ Now(h).id = id)
<1>1. /\ \A o \in Slots \ {h} : handler'[o] = handler[o]
      /\ handler'[h].step = step /\ handler'[h].verdict = v
      /\ handler'[h].said = handler[h].said /\ handler'[h].rows = handler[h].rows
      /\ \A o \in Slots : Now(o)' = Now(o)
  BY GoingOn
<1>2. CASE Took(request'[id].st)
  BY <1>2 DEF Taken
<1>3. ASSUME NEW o \in Slots, TakenBy(o, id)'
      PROVE  Taken(id) \/ (step = "record" /\ Took(v) /\ Now(h).id = id)
  <2>1. CASE o # h
    BY <1>1, <1>3, <2>1 DEF TakenBy, Taken
  <2>2. CASE o = h
    BY <1>1, <1>3, <2>2 DEF TakenBy, Taken
  <2> QED BY <2>1, <2>2
<1> QED BY <1>2, <1>3 DEF Taken

LEMMA TakenSaying ==
  ASSUME IndInv, NEW h \in Slots, handler[h] # Absent, handler[h].step # "end", NEW a, Says(h, a),
         NEW id, Taken(id)'
  PROVE  Taken(id) \/ Took(request'[id].st) \/ (Took(a) /\ Now(h).id = id)
<1>1. /\ \A o \in Slots \ {h} : handler'[o] = handler[o]
      /\ handler'[h] # Absent =>
               /\ handler'[h].step \in {"look", "end"} /\ handler'[h].rows = handler[h].rows
               /\ handler'[h].said = Append(handler[h].said, a)
  BY SayingOn
<1>2. SUFFICES ASSUME NEW o \in Slots, TakenBy(o, id)'
               PROVE  Taken(id) \/ (Took(a) /\ Now(h).id = id)
  BY DEF Taken
<1>3. CASE o # h
  <2>1. handler'[o] = handler[o]
    BY <1>1, <1>3
  <2>2. Now(o)' = Now(o)
    BY <2>1 DEF Now
  <2>3. TakenBy(o, id)
    BY <1>2, <2>1, <2>2 DEF TakenBy
  <2> QED BY <2>3 DEF Taken
<1>4. CASE o = h
  <2>1. handler'[h] # Absent /\ handler'[h].step # "record"
    BY <1>1, <1>2, <1>4 DEF TakenBy
  <2>2. PICK j \in DOMAIN handler'[h].said : handler'[h].rows[j].id = id /\ Took(handler'[h].said[j])
    BY <1>2, <1>4, <2>1 DEF TakenBy
  <2>3. PICK s : s = handler[h].said
    OBVIOUS
  <2>4. PICK b : b = handler'[h].said
    OBVIOUS
  <2>5. s \in Seq(Answers)
    BY KindsNow, <2>3 DEF TypeOK, Handler, Answers
  <2>6. b = Append(s, a) /\ handler'[h].rows = handler[h].rows
    BY <1>1, <2>1, <2>3, <2>4
  <2>7. (j \in DOMAIN s /\ b[j] = s[j]) \/ (j = Len(s) + 1 /\ b[j] = a)
    BY <2>2, <2>4, <2>5, <2>6
  <2>8. CASE j \in DOMAIN s /\ b[j] = s[j]
    BY <2>2, <2>3, <2>4, <2>6, <2>8 DEF TakenBy, Taken
  <2>9. CASE j = Len(s) + 1 /\ b[j] = a
    BY <2>2, <2>3, <2>4, <2>6, <2>9 DEF Now
  <2> QED BY <2>7, <2>8, <2>9
<1> QED BY <1>3, <1>4

(* The till's side as it was.                                              *)
LEMMA FairKept ==
  ASSUME TillFair, UNCHANGED <<queue, here, cloud>>,
         \A k \in DOMAIN queue["till"] : LET c == queue["till"][k] IN Taken(c.id)' => Taken(c.id) \/ Ends(c, cloud)
  PROVE  TillFair'
<1>1. \A k \in DOMAIN queue["till"] : LET c == queue["till"][k] IN Starts(c, cloud) /\ (Taken(c.id)' => Ends(c, cloud))
  BY DEF TillFair, Agreed
<1>2. \A k \in DOMAIN queue'["till"] : Agreed(queue["till"][k])'
  BY <1>1 DEF Agreed, Starts, Ends
<1>3. Stands(queue["till"], here, cloud)'
  BY DEF TillFair, Stands
<1> QED BY <1>2, <1>3 DEF TillFair

(* A step that leaves the till alone, and no request forgets its changes.  *)
LEMMA CloudAlarm ==
  ASSUME IndInv, AlarmInv, UNCHANGED <<queue, told, made, known>>, webs \in Nat, webs' \in Nat, webs <= webs', odd \subseteq odd',
         \A i \in Ids : /\ request'[i].st = "none" => request[i].st = "none"
                        /\ request[i].st \in {"refused", "rejected"} => request'[i].st = request[i].st,
         \A o \in Slots : handler'[o] # Absent => handler[o] # Absent /\ handler'[o].rows = handler[o].rows,
         Calm' /\ Calm /\ FairInv => TillFair' /\ (\A o \in Slots : JudgesWell(o)') /\ NoneHeld'
  PROVE  AlarmInv'
<1>1. ToldOnce'
  BY DEF AlarmInv, ToldOnce
<1>2. SUFFICES ASSUME Calm' PROVE FairInv'
  BY <1>1 DEF AlarmInv
<1>3. Calm
  BY <1>2 DEF Calm, Unruled
<1>4. FairInv
  BY <1>3 DEF AlarmInv
<1>5. TypeOK
  BY KindsNow
<1>6. ASSUME NEW x, x.id \in Ids, Stems(x) PROVE Stems(x)'
  BY <1>6 DEF Stems
<1>7. \A j \in DOMAIN queue["server"] : queue["server"][j].id \in Ids
  <2>1. queue["server"] \in Seq(Change)
    BY <1>5 DEF TypeOK, Senders
  <2>2. \A j \in DOMAIN queue["server"] : queue["server"][j] \in Change
    BY <2>1
  <2> QED BY <2>2 DEF Change
<1>8. \A o \in Slots : handler[o] # Absent => \A j \in DOMAIN handler[o].rows : handler[o].rows[j].id \in Ids
  <2>1. SUFFICES ASSUME NEW o \in Slots, handler[o] # Absent, NEW j \in DOMAIN handler[o].rows
                 PROVE  handler[o].rows[j].id \in Ids
    OBVIOUS
  <2>2. handler[o] \in Handler
    BY <1>5, <2>1 DEF TypeOK
  <2>3. handler[o].rows \in Seq(Change)
    BY <2>2 DEF Handler
  <2>4. handler[o].rows[j] \in Change
    BY <2>1, <2>3
  <2> QED BY <2>4 DEF Change
<1>9. AllStem'
  <2>1. ASSUME NEW j \in DOMAIN queue'["server"] PROVE Stems(queue["server"][j])' /\ queue'["server"][j].id \in known'
    <3>1. PICK x : x = queue["server"][j]
      OBVIOUS
    <3>2. Stems(x) /\ x.id \in known /\ x.id \in Ids
      BY <1>4, <1>7, <2>1, <3>1 DEF FairInv, AllStem
    <3>3. Stems(x)'
      BY <1>6, <3>2
    <3> QED BY <3>1, <3>2, <3>3 DEF Stems
  <2>2. ASSUME NEW o \in Slots, handler'[o] # Absent, NEW j \in DOMAIN handler'[o].rows
        PROVE  Stems(handler[o].rows[j])'
    <3>1. PICK x : x = handler[o].rows[j]
      OBVIOUS
    <3>2. Stems(x) /\ x.id \in Ids
      BY <1>4, <1>8, <2>2, <3>1 DEF FairInv, AllStem
    <3>3. Stems(x)'
      BY <1>6, <3>2
    <3> QED BY <2>2, <3>1, <3>3 DEF Stems
  <2> QED BY <2>1, <2>2 DEF AllStem
<1> QED BY <1>2, <1>3, <1>4, <1>9 DEF FairInv

LEMMA JudgesKept ==
  ASSUME \A o \in Slots : JudgesWell(o), NEW h \in Slots, \A o \in Slots \ {h} : handler'[o] = handler[o],
         \A o \in Slots \ {h} : Busy(o) =>
             /\ request'[Now(o).id].st = "none"
             /\ handler[o].step = "write" /\ Now(o).op = "create" => cloud' = Absent,
         Busy(h)' =>
             /\ Now(h)' = Now(h) /\ request'[Now(h).id].st = "none"
             /\ \A o \in Slots \ {h} : Busy(o) => Now(o).id # Now(h).id
             /\ handler'[h].step = "record" => handler'[h].verdict \in {"applied", "identical", "refused"}
             /\ handler'[h].step = "write" /\ Now(h).op = "create" => cloud' = Absent
  PROVE  \A o \in Slots : JudgesWell(o)'
<1>1. \A o \in Slots \ {h} : (Busy(o)' <=> Busy(o)) /\ Now(o)' = Now(o)
  BY DEF Busy, Now
<1>2. ASSUME NEW o \in Slots \ {h}, Busy(o)' PROVE JudgesWell(o)'
  <2>1. /\ request'[Now(o).id].st = "none" /\ Now(o)' = Now(o)
        /\ handler'[o].step = "write" /\ Now(o).op = "create" => cloud' = Absent
        /\ handler'[o].step = "record" => handler'[o].verdict \in {"applied", "identical", "refused"}
    BY <1>1, <1>2 DEF JudgesWell
  <2>2. ASSUME NEW p \in Slots, Busy(p)', Now(p)'.id = Now(o).id PROVE p = o
    <3>1. CASE p = h
      BY <1>1, <1>2, <2>2, <3>1
    <3>2. CASE p # h
      BY <1>1, <1>2, <2>2, <3>2 DEF JudgesWell
    <3> QED BY <3>1, <3>2
  <2> QED BY <2>1, <2>2 DEF JudgesWell
<1>3. ASSUME Busy(h)' PROVE JudgesWell(h)'
  BY <1>1, <1>3 DEF JudgesWell
<1>4. \A o \in Slots : ~Busy(o)' => JudgesWell(o)'
  BY DEF JudgesWell
<1> QED BY <1>2, <1>3, <1>4

LEMMA HeldKept ==
  ASSUME IndInv, NoneHeld, NEW h \in Slots, handler[h] # Absent, \A o \in Slots \ {h} : handler'[o] = handler[o],
         \A i \in Ids : request'[i].st \notin {"awaiting", "approved"},
         NEW a, a # "awaiting",
         handler'[h] # Absent => handler'[h].said \in {handler[h].said, Append(handler[h].said, a)}
  PROVE  NoneHeld'
<1>1. PICK s : s = handler[h].said
  OBVIOUS
<1>2. s \in Seq(Answers)
  BY KindsNow, <1>1 DEF TypeOK, Handler, Answers
<1>3. ASSUME NEW b, b \in {s, Append(s, a)}, \A j \in DOMAIN s : s[j] # "awaiting"
      PROVE  \A j \in DOMAIN b : b[j] # "awaiting"
  <2>1. CASE b = s
    BY <1>3, <2>1
  <2>2. CASE b = Append(s, a)
    BY <1>2, <1>3, <2>2
  <2> QED BY <1>3, <2>1, <2>2
<1>4. ASSUME NEW o \in Slots, handler'[o] # Absent PROVE \A j \in DOMAIN handler'[o].said : handler'[o].said[j] # "awaiting"
  <2>1. CASE o = h
    <3>1. \A j \in DOMAIN s : s[j] # "awaiting"
      BY <1>1 DEF NoneHeld
    <3>2. PICK b : b = handler'[o].said
      OBVIOUS
    <3>3. b \in {s, Append(s, a)}
      BY <1>1, <1>4, <2>1, <3>2
    <3> QED BY <1>3, <3>1, <3>2, <3>3
  <2>2. CASE o # h
    BY <1>4, <2>2 DEF NoneHeld
  <2> QED BY <2>1, <2>2
<1> QED BY <1>4 DEF NoneHeld

LEMMA LookAlarm ==
  ASSUME IndInv, AlarmInv, NEW h \in Slots, Look(h)
  PROVE  AlarmInv'
<1> DEFINE c == Now(h)
<1>1. /\ handler[h] # Absent /\ handler[h].step = "look" /\ c.id \in Ids /\ TypeOK
      /\ \E j \in DOMAIN handler[h].rows : c = handler[h].rows[j]
  BY AtIs, KindsNow DEF Look, At
<1>2. UNCHANGED <<queue, told, made, known, here, webs, cloud, request>> /\ odd \subseteq odd' /\ webs \in Nat
  BY <1>1 DEF Look, AtCloud, till, TypeOK
<1>3. \/ \E a : Says(h, a)
      \/ \E step \in {"read", "record"} : \E v : Goes(h, step, v)
  BY DEF Look
<1>4. \A o \in Slots : handler'[o] # Absent => handler[o] # Absent /\ handler'[o].rows = handler[o].rows
  BY <1>1, <1>3, GoingOn, SayingOn
<1>5. ASSUME Calm', Calm, FairInv PROVE TillFair' /\ (\A o \in Slots : JudgesWell(o)') /\ NoneHeld'
  <2>1. TillFair /\ NoneHeld /\ (\A o \in Slots : JudgesWell(o))
    BY <1>5 DEF FairInv
  <2>2. \A o \in Slots \ {h} : Busy(o) =>
             /\ request'[Now(o).id].st = "none"
             /\ handler[o].step = "write" /\ Now(o).op = "create" => cloud' = Absent
    BY <1>2, <2>1 DEF JudgesWell
  <2>3. \A i \in Ids : request'[i].st \notin {"awaiting", "approved"}
    BY <1>2, <2>1 DEF NoneHeld
  <2>4. ASSUME NEW a, Says(h, a), a # "awaiting", Took(a) => Took(request[c.id].st)
        PROVE  TillFair' /\ (\A o \in Slots : JudgesWell(o)') /\ NoneHeld'
    <3>1. /\ \A o \in Slots \ {h} : handler'[o] = handler[o]
          /\ handler'[h] # Absent => handler'[h].step \in {"look", "end"} /\ handler'[h].said = Append(handler[h].said, a)
      BY <1>1, <2>4, SayingOn
    <3>2. ~Busy(h)'
      BY <3>1 DEF Busy
    <3>3. \A k \in DOMAIN queue["till"] : LET x == queue["till"][k] IN Taken(x.id)' => Taken(x.id)
      <4>1. ASSUME NEW id, Taken(id)' PROVE Taken(id)
        BY <1>1, <2>4, <4>1, TakenSaying, <1>2 DEF Taken
      <4>2. ASSUME NEW k \in DOMAIN queue["till"], Taken(queue["till"][k].id)' PROVE Taken(queue["till"][k].id)
        <5>1. PICK id : id = queue["till"][k].id
          OBVIOUS
        <5>2. Taken(id)'
          BY <1>2, <4>2, <5>1 DEF Taken, TakenBy
        <5> QED BY <4>1, <5>1, <5>2
      <4> QED BY <4>2
    <3>4. TillFair'
      BY <1>2, <2>1, <3>3, FairKept
    <3>5. \A o \in Slots : JudgesWell(o)'
      BY <2>1, <2>2, <3>1, <3>2, JudgesKept
    <3>6. NoneHeld'
      BY <1>1, <2>1, <2>3, <2>4, <3>1, HeldKept
    <3> QED BY <3>4, <3>5, <3>6
  <2>5. ASSUME NEW step \in {"read", "record"}, NEW v, Goes(h, step, v), ~Took(v), ~Together(h), request[c.id].st = "none",
               step = "record" => v = "refused"
        PROVE  TillFair' /\ (\A o \in Slots : JudgesWell(o)') /\ NoneHeld'
    <3>1. /\ \A o \in Slots \ {h} : handler'[o] = handler[o]
          /\ handler'[h].step = step /\ handler'[h].verdict = v /\ handler'[h].said = handler[h].said
          /\ Now(h)' = Now(h)
      BY <1>1, <2>5, GoingOn
    <3>2. \A o \in Slots \ {h} : Busy(o) => Now(o).id # c.id
      BY <2>5 DEF Together, Busy
    <3>3. TillFair'
      <4>1. ASSUME NEW id, Taken(id)' PROVE Taken(id)
        BY <1>1, <1>2, <2>5, <4>1, TakenGoing
      <4>2. ASSUME NEW k \in DOMAIN queue["till"], Taken(queue["till"][k].id)' PROVE Taken(queue["till"][k].id)
        <5>1. PICK id : id = queue["till"][k].id
          OBVIOUS
        <5>2. Taken(id)'
          BY <1>2, <4>2, <5>1 DEF Taken, TakenBy
        <5> QED BY <4>1, <5>1, <5>2
      <4> QED BY <1>2, <2>1, <4>2, FairKept
    <3>4. \A o \in Slots : JudgesWell(o)'
      BY <1>2, <2>1, <2>2, <2>5, <3>1, <3>2, JudgesKept
    <3>5. NoneHeld'
      BY <1>1, <2>1, <2>3, <3>1, HeldKept
    <3> QED BY <3>3, <3>4, <3>5
  <2>6. CASE request[c.id].st # "none"
    <3>1. Says(h, request[c.id].st)
      BY <2>6 DEF Look
    <3>2. request[c.id].st # "awaiting"
      BY <1>1, <2>1 DEF NoneHeld
    <3> QED BY <2>4, <3>1, <3>2
  <2>7. CASE request[c.id].st = "none"
    <3>1. CASE Says(h, "later")
      BY <2>4, <3>1 DEF Took
    <3>2. CASE ~Says(h, "later")
      <4>1. Together(h) => "twice" \in odd'
        BY <2>7, <3>2 DEF Look
      <4>2. "twice" \notin odd' /\ "held" \notin odd'
        BY <1>5 DEF Calm
      <4>3. Goes(h, "read", "none") \/ Goes(h, "record", "refused")
        BY <2>7, <3>2, <4>2 DEF Look
      <4> QED BY <2>5, <2>7, <4>1, <4>2, <4>3 DEF Took
    <3> QED BY <3>1, <3>2
  <2> QED BY <2>6, <2>7
<1> QED BY <1>2, <1>4, <1>5, CloudAlarm

(* The till's change that a request is about.                              *)
Same(e, c) == e.id = c.id /\ e.op = c.op /\ e.base = c.base /\ e.sent = c.data
LEMMA OpenIs ==
  ASSUME IndInv, Calm, FairInv, NEW h \in Slots, Busy(h)
  PROVE  \E k \in DOMAIN queue["till"] : Same(queue["till"][k], Now(h))
<1>1. /\ handler[h] # Absent /\ Now(h).id \in Ids
      /\ \E j \in DOMAIN handler[h].rows : Now(h) = handler[h].rows[j]
  BY AtIs DEF Busy, At
<1>2. PICK j \in DOMAIN handler[h].rows : Now(h) = handler[h].rows[j]
  BY <1>1
<1>3. Stems(handler[h].rows[j])
  BY <1>1 DEF FairInv, AllStem
<1>4. request[Now(h).id].st = "none"
  BY DEF FairInv, JudgesWell
<1>5. PICK k \in DOMAIN queue["till"] : queue["till"][k].id = Now(h).id /\ queue["till"][k].base = Now(h).base
  BY <1>2, <1>3, <1>4 DEF Stems
<1>6. AsFirstSent
  BY DEF IndInv, EditsInv, Calm
<1>7. SameAs(handler[h].rows[j], queue["till"][k])
  BY <1>1, <1>2, <1>5, <1>6 DEF AsFirstSent
<1> QED BY <1>2, <1>5, <1>7 DEF Same, SameAs

(* The till's own change is no clash.                                      *)
LEMMA JudgedIs ==
  ASSUME NEW c \in Change, NEW e \in Change, Same(e, c), Starts(e, cloud), cloud \in Things
  PROVE  /\ Judged(c) \in {"applied", "identical", "refused"}
         /\ Judged(c) = "identical" => Ends(e, cloud)
         /\ Judged(c) = "applied" /\ c.op = "create" => cloud = Absent
<1>1. c.data \in Data /\ c.base \in Data /\ c.op \in Ops /\ Absent \notin Data /\ Absent \notin Thing /\ Absent \notin Vals
  BY AbsentAssumption DEF Change, Thing, Data
<1>2. e.sent # Absent /\ e.op = c.op /\ e.base = c.base /\ e.sent = c.data
  BY <1>1 DEF Same
<1>3. CASE cloud = Absent
  <2>1. Judged(c) = [create |-> "applied", delete |-> "identical", update |-> "refused"][c.op]
    BY <1>3 DEF Judged
  <2>2. Judged(c) = IF c.op = "create" THEN "applied" ELSE IF c.op = "delete" THEN "identical" ELSE "refused"
    BY <1>1, <2>1 DEF Ops
  <2> QED BY <1>1, <1>2, <1>3, <2>2 DEF Ends, Ops
<1>4. CASE cloud # Absent /\ c.op = "create"
  <2>1. Judged(c) = judgeCreate(c)
    BY <1>4 DEF Judged
  <2>2. cloud = c.data
    BY <1>2, <1>4 DEF Starts
  <2> QED BY <1>2, <1>4, <2>1, <2>2 DEF judgeCreate, Ends
<1>5. CASE cloud # Absent /\ c.op = "delete"
  BY <1>5 DEF Judged
<1>6. CASE cloud # Absent /\ c.op = "update"
  <2>1. Judged(c) = judgeUpdate(c)
    BY <1>6 DEF Judged
  <2>2. c.base \in Thing /\ cloud \in {c.base, Over(c.data, c.base)}
    BY <1>2, <1>6 DEF Starts, Becoming
  <2>3. \A f \in Keys(c) : cloud[f] \in {c.data[f], c.base[f]}
    BY <2>2 DEF Keys, Over
  <2>4. (\A f \in Keys(c) : cloud[f] = c.data[f]) => cloud = Over(c.data, c.base)
    <3>1. SUFFICES ASSUME \A f \in Keys(c) : cloud[f] = c.data[f], cloud = c.base PROVE cloud = Over(c.data, c.base)
      BY <2>2
    <3>2. \A f \in Fields : c.base[f] = IF c.data[f] = Absent THEN c.base[f] ELSE c.data[f]
      BY <3>1 DEF Keys
    <3>3. c.base = [f \in Fields |-> c.base[f]]
      BY <2>2 DEF Thing
    <3> QED BY <3>1, <3>2, <3>3 DEF Over
  <2>5. judgeUpdate(c) = IF \A f \in Keys(c) : cloud[f] = c.data[f] THEN "identical" ELSE "applied"
    BY <2>3 DEF judgeUpdate
  <2> QED BY <1>2, <1>6, <2>1, <2>4, <2>5 DEF Ends, Becoming
<1> QED BY <1>1, <1>3, <1>4, <1>5, <1>6 DEF Ops

(* What is written is what it comes to.                                    *)
LEMMA WrittenEnds ==
  ASSUME NEW c \in Change, NEW e \in Change, Same(e, c), Starts(e, cloud), cloud \in Things,
         c.op = "create" => cloud = Absent
  PROVE  /\ Starts(e, Written(c, cloud)) /\ Ends(e, Written(c, cloud))
         /\ c.op = "delete" => Written(c, cloud) = Absent
         /\ c.op = "update" => (Written(c, cloud) = Absent <=> cloud = Absent)
<1>1. c.data \in Data /\ c.base \in Data /\ c.op \in Ops /\ Absent \notin Data /\ Absent \notin Thing
  BY AbsentAssumption DEF Change, Thing, Data
<1>2. e.sent # Absent /\ e.op = c.op /\ e.base = c.base /\ e.sent = c.data /\ e.data \in Data
  BY <1>1 DEF Same, Change
<1>3. CASE c.op = "delete"
  BY <1>3, <1>2 DEF Written, Starts, Ends
<1>4. CASE c.op = "create"
  BY <1>4, <1>2 DEF Written, Starts, Ends
<1>5. CASE c.op = "update" /\ cloud = Absent
  BY <1>5, <1>2 DEF Written, Starts, Ends
<1>6. CASE c.op = "update" /\ cloud # Absent
  <2>1. Written(c, cloud) = Over(e.sent, cloud)
    BY <1>2, <1>6 DEF Written
  <2>2. e.base \in Thing /\ cloud \in {e.base, Becoming(e)}
    BY <1>2, <1>6 DEF Starts
  <2>3. Over(e.sent, Becoming(e)) = Becoming(e)
    BY <1>1, <1>2, OverAgain DEF Starts
  <2>4. Written(c, cloud) = Becoming(e)
    BY <2>1, <2>2, <2>3 DEF Becoming
  <2>5. Becoming(e) # Absent
    BY <1>1, OverIs, <1>2 DEF Becoming
  <2> QED BY <1>2, <1>6, <2>4, <2>5 DEF Starts, Ends
<1> QED BY <1>1, <1>3, <1>4, <1>5, <1>6 DEF Ops

LEMMA ReadAlarm ==
  ASSUME IndInv, AlarmInv, NEW h \in Slots, Read(h)
  PROVE  AlarmInv'
<1> DEFINE c == Now(h)
           v == Judged(c)
           step == IF v = "applied" THEN "write" ELSE "record"
<1>1. /\ handler[h] # Absent /\ handler[h].step = "read" /\ c.id \in Ids /\ c \in Change /\ TypeOK /\ cloud \in Things
  BY AtIs, KindsNow DEF Read, At, CloudKinds
<1>2. UNCHANGED <<queue, told, made, known, here, webs, cloud, request>> /\ odd' = odd /\ webs \in Nat
  BY <1>1 DEF Read, AtCloud, till, TypeOK
<1>3. Goes(h, step, v)
  BY DEF Read
<1> HIDE DEF v, step
<1>4. /\ \A o \in Slots \ {h} : handler'[o] = handler[o]
      /\ handler'[h].step = step /\ handler'[h].verdict = v /\ handler'[h].said = handler[h].said
      /\ handler'[h].rows = handler[h].rows /\ Now(h)' = Now(h)
  BY <1>1, <1>3, GoingOn
<1>5. ASSUME Calm', Calm, FairInv PROVE TillFair' /\ (\A o \in Slots : JudgesWell(o)') /\ NoneHeld'
  <2>1. TillFair /\ NoneHeld /\ (\A o \in Slots : JudgesWell(o)) /\ Busy(h)
    BY <1>1, <1>5 DEF FairInv, Busy
  <2>2. PICK k \in DOMAIN queue["till"] : Same(queue["till"][k], c)
    BY <1>5, <2>1, OpenIs
  <2>3. queue["till"][k] \in Change /\ Starts(queue["till"][k], cloud) /\ Distinct(queue["till"])
    BY <2>1, LineIs DEF TillFair, Agreed
  <2>4. /\ v \in {"applied", "identical", "refused"}
        /\ v = "identical" => Ends(queue["till"][k], cloud)
        /\ v = "applied" /\ c.op = "create" => cloud = Absent
    BY <1>1, <2>2, <2>3, JudgedIs DEF v
  <2>5. TillFair'
    <3>1. ASSUME NEW id, Taken(id)' PROVE Taken(id) \/ (v = "identical" /\ c.id = id)
      BY <1>1, <1>2, <1>3, <3>1, TakenGoing, <2>4 DEF step, Took
    <3>2. ASSUME NEW l \in DOMAIN queue["till"], Taken(queue["till"][l].id)'
          PROVE  Taken(queue["till"][l].id) \/ Ends(queue["till"][l], cloud)
      <4>1. PICK id : id = queue["till"][l].id
        OBVIOUS
      <4>2. Taken(id)'
        BY <1>2, <3>2, <4>1 DEF Taken, TakenBy
      <4>3. CASE v = "identical" /\ c.id = id
        BY <2>2, <2>3, <4>1, <4>3, <2>4 DEF Same, Distinct
      <4> QED BY <3>1, <4>1, <4>2, <4>3
    <3> QED BY <1>2, <2>1, <3>2, FairKept
  <2>6. \A o \in Slots : JudgesWell(o)'
    <3>1. \A o \in Slots \ {h} : Busy(o) =>
             /\ request'[Now(o).id].st = "none"
             /\ handler[o].step = "write" /\ Now(o).op = "create" => cloud' = Absent
      BY <1>2, <2>1 DEF JudgesWell
    <3>2. /\ request'[c.id].st = "none"
          /\ \A o \in Slots \ {h} : Busy(o) => Now(o).id # c.id
      BY <1>2, <2>1 DEF JudgesWell
    <3>3. /\ handler'[h].step = "record" => handler'[h].verdict \in {"applied", "identical", "refused"}
          /\ handler'[h].step = "write" /\ c.op = "create" => cloud' = Absent
      BY <1>2, <1>4, <2>4 DEF step
    <3> QED BY <1>4, <2>1, <3>1, <3>2, <3>3, JudgesKept
  <2>7. NoneHeld'
    BY <1>2, <2>1, <1>1, <1>4, HeldKept DEF NoneHeld
  <2> QED BY <2>5, <2>6, <2>7
<1>6. \A o \in Slots : handler'[o] # Absent => handler[o] # Absent /\ handler'[o].rows = handler[o].rows
  BY <1>1, <1>4
<1> QED BY <1>2, <1>5, <1>6, CloudAlarm

(* A step of a request at one of its changes: what is left to show.        *)
LEMMA WriteAlarm ==
  ASSUME IndInv, AlarmInv, NEW h \in Slots, Write(h)
  PROVE  AlarmInv'
<1> DEFINE c == Now(h)
<1>1. /\ handler[h] # Absent /\ handler[h].step = "write" /\ c.id \in Ids /\ c \in Change /\ TypeOK /\ cloud \in Things
  BY AtIs, KindsNow DEF Write, At, CloudKinds
<1>2. UNCHANGED <<queue, told, made, known, here, webs, request>> /\ odd \subseteq odd' /\ webs \in Nat
  BY <1>1 DEF Write, AtCloud, till, TypeOK
<1>3. (\E a : Says(h, a)) \/ Goes(h, "record", "applied")
  BY DEF Write
<1>4. \A o \in Slots : handler'[o] # Absent => handler[o] # Absent /\ handler'[o].rows = handler[o].rows
  BY <1>1, <1>3, GoingOn, SayingOn
<1>5. ASSUME Calm', Calm, FairInv PROVE TillFair' /\ (\A o \in Slots : JudgesWell(o)') /\ NoneHeld'
  <2>1. TillFair /\ NoneHeld /\ (\A o \in Slots : JudgesWell(o)) /\ Busy(h)
    BY <1>1, <1>5 DEF FairInv, Busy
  <2>2. PICK k \in DOMAIN queue["till"] : Same(queue["till"][k], c)
    BY <1>5, <2>1, OpenIs
  <2> DEFINE q == queue["till"]
             row == Written(c, cloud)
  <2>3. /\ q \in Seq(Change) /\ InLine(q) /\ Distinct(q) /\ q[k] \in Change /\ Starts(q[k], cloud)
        /\ c.op = "create" => cloud = Absent
    BY <1>1, <2>1, LineIs DEF TillFair, Agreed, JudgesWell
  <2>15. \A l \in DOMAIN q : l # k => {q[k].op, q[l].op} = {"update", "delete"}
    BY <2>3, TwoAre
  <2>4. cloud' = row /\ (Says(h, "later") \/ Goes(h, "record", "applied"))
    BY <2>3 DEF Write, Becomes
  <2>5. /\ Starts(q[k], row) /\ Ends(q[k], row)
        /\ c.op = "delete" => row = Absent
        /\ c.op = "update" => (row = Absent <=> cloud = Absent)
    BY <1>1, <2>2, <2>3, WrittenEnds
  <2>6. ASSUME NEW id, Taken(id)', id # c.id PROVE Taken(id)
    <3>1. CASE Says(h, "later")
      BY <1>1, <2>6, <3>1, TakenSaying, <1>2 DEF Taken
    <3>2. CASE Goes(h, "record", "applied")
      BY <1>1, <1>2, <2>6, <3>2, TakenGoing
    <3> QED BY <2>4, <3>1, <3>2
  <2>7. q[k].op = c.op /\ q[k].id = c.id /\ q[k].sent = c.data
    BY <2>2 DEF Same
  <2> HIDE DEF row
  <2>8. ASSUME NEW l \in DOMAIN q PROVE Starts(q[l], row) /\ (Taken(q[l].id)' => Ends(q[l], row))
    <3>1. CASE l = k
      BY <2>5, <3>1
    <3>2. CASE l # k
      <4>1. {q[k].op, q[l].op} = {"update", "delete"} /\ q[l].id # c.id
        BY <2>3, <2>7, <2>15, <3>2 DEF Distinct
      <4>2. Starts(q[l], cloud) /\ (Taken(q[l].id) => Ends(q[l], cloud))
        BY <2>1 DEF TillFair, Agreed
      <4>3. Taken(q[l].id)' => Taken(q[l].id)
        <5>1. SUFFICES ASSUME Taken(q[l].id)' PROVE Taken(q[l].id)
          OBVIOUS
        <5>2. PICK id : id = q[l].id
          OBVIOUS
        <5>3. Taken(id)'
          BY <1>2, <5>1, <5>2 DEF Taken, TakenBy
        <5> QED BY <2>6, <4>1, <5>2, <5>3
      <4>4. CASE q[k].op = "update" /\ q[l].op = "delete"
        BY <2>5, <2>7, <4>2, <4>3, <4>4 DEF Starts, Ends
      <4>5. CASE q[k].op = "delete" /\ q[l].op = "update"
        BY <2>5, <2>7, <4>2, <4>3, <4>5 DEF Starts, Ends
      <4> QED BY <4>1, <4>4, <4>5
    <3> QED BY <3>1, <3>2
  <2>9. Stands(q, here, row)
    <3>1. Stands(q, here, cloud) /\ q # <<>> /\ Len(q) \in DOMAIN q /\ Last(q) = q[Len(q)]
      BY <2>1, <2>3, TwoAre DEF TillFair
    <3>2. CASE Last(q).op = "update"
      <4>1. k = 1 /\ Len(q) = 1
        BY <2>3, <3>2, TwoAre
      <4>2. row = Absent <=> cloud = Absent
        BY <2>5, <2>7, <3>1, <3>2, <4>1
      <4> QED BY <3>1, <3>2, <4>2 DEF Stands
    <3>3. CASE Last(q).op # "update"
      BY <3>1, <3>3 DEF Stands
    <3> QED BY <3>2, <3>3
  <2>10. TillFair'
    BY <1>2, <2>4, <2>8, <2>9 DEF TillFair, Agreed, Starts, Ends, Stands, Taken, TakenBy
  <2>11. \A o \in Slots \ {h} : Busy(o) =>
             /\ request'[Now(o).id].st = "none" /\ Now(o).id # c.id
             /\ handler[o].step = "write" /\ Now(o).op = "create" => cloud' = Absent
    <3>1. SUFFICES ASSUME NEW o \in Slots \ {h}, Busy(o)
                   PROVE  /\ request'[Now(o).id].st = "none" /\ Now(o).id # c.id
                          /\ Now(o).op # "create"
      OBVIOUS
    <3>2. request'[Now(o).id].st = "none" /\ Now(o).id # c.id
      BY <1>2, <2>1, <3>1 DEF JudgesWell
    <3>3. PICK l \in DOMAIN q : Same(q[l], Now(o))
      BY <1>5, <3>1, OpenIs
    <3>4. l # k
      BY <2>7, <3>2, <3>3 DEF Same
    <3>5. {q[k].op, q[l].op} = {"update", "delete"}
      BY <2>15, <3>3, <3>4
    <3> QED BY <3>2, <3>3, <3>5 DEF Same
  <2>12. request'[c.id].st = "none" /\ \A i \in Ids : request'[i].st \notin {"awaiting", "approved"}
    BY <1>2, <2>1 DEF JudgesWell, NoneHeld
  <2>13. CASE Says(h, "later")
    <3>1. /\ \A o \in Slots \ {h} : handler'[o] = handler[o]
          /\ handler'[h] # Absent => handler'[h].step \in {"look", "end"} /\ handler'[h].said = Append(handler[h].said, "later")
      BY <1>1, <2>13, SayingOn
    <3>2. ~Busy(h)'
      BY <3>1 DEF Busy
    <3>3. \A o \in Slots : JudgesWell(o)'
      BY <2>1, <2>11, <3>1, <3>2, JudgesKept
    <3>4. NoneHeld'
      BY <1>1, <2>1, <2>12, <3>1, HeldKept
    <3> QED BY <2>10, <3>3, <3>4
  <2>14. CASE Goes(h, "record", "applied")
    <3>1. /\ \A o \in Slots \ {h} : handler'[o] = handler[o]
          /\ handler'[h].step = "record" /\ handler'[h].verdict = "applied" /\ handler'[h].said = handler[h].said
          /\ Now(h)' = Now(h)
      BY <1>1, <2>14, GoingOn
    <3>2. \A o \in Slots : JudgesWell(o)'
      BY <2>1, <2>11, <2>12, <3>1, JudgesKept
    <3>3. NoneHeld'
      BY <1>1, <2>1, <2>12, <3>1, HeldKept
    <3> QED BY <2>10, <3>2, <3>3
  <2> QED BY <2>4, <2>13, <2>14
<1> QED BY <1>2, <1>4, <1>5, CloudAlarm

LEMMA RecordAlarm ==
  ASSUME IndInv, AlarmInv, NEW h \in Slots, Record(h)
  PROVE  AlarmInv'
<1> DEFINE c == Now(h)
           v == handler[h].verdict
           entry == [st |-> v, op |-> c.op, data |-> c.data]
           kept == [request EXCEPT ![c.id] = IF request[c.id].st = "none" THEN entry ELSE request[c.id]]
<1>1. /\ handler[h] # Absent /\ handler[h].step = "record" /\ c.id \in Ids /\ c \in Change /\ TypeOK /\ v # "none"
  BY AtIs, KindsNow DEF Record, At, Handled
<1>2. UNCHANGED <<queue, told, made, known, here, cloud, webs, odd>> /\ webs \in Nat
  BY <1>1 DEF Record, AtCloud, till, TypeOK
<1>3. Says(h, v) /\ (request' = kept \/ request' = request)
  BY DEF Record
<1>4. \A i \in Ids : request'[i] = request[i] \/ (i = c.id /\ request[i].st = "none" /\ request'[i] = entry)
  BY <1>1, <1>3 DEF TypeOK
<1>5. entry.st = v
  OBVIOUS
<1> HIDE DEF entry, kept, v
<1>6. \A o \in Slots : handler'[o] # Absent => handler[o] # Absent /\ handler'[o].rows = handler[o].rows
  BY <1>1, <1>3, SayingOn
<1>7. ASSUME Calm', Calm, FairInv PROVE TillFair' /\ (\A o \in Slots : JudgesWell(o)') /\ NoneHeld'
  <2>1. TillFair /\ NoneHeld /\ (\A o \in Slots : JudgesWell(o)) /\ Busy(h)
    BY <1>1, <1>7 DEF FairInv, Busy
  <2>2. v \in {"applied", "identical", "refused"}
    BY <1>1, <2>1 DEF JudgesWell, v
  <2>3. /\ \A o \in Slots \ {h} : handler'[o] = handler[o]
        /\ handler'[h] # Absent => handler'[h].step \in {"look", "end"} /\ handler'[h].said = Append(handler[h].said, v)
    BY <1>1, <1>3, SayingOn
  <2>4. \A i \in Ids : request'[i].st \notin {"awaiting", "approved"}
    BY <1>4, <1>5, <2>1, <2>2 DEF NoneHeld
  <2>5. ASSUME NEW id \in Ids, Taken(id)' PROVE Taken(id)
    <3>1. Took(v) => TakenBy(h, c.id)
      BY <1>1 DEF TakenBy, v
    <3>2. Took(request'[id].st) => Took(request[id].st) \/ (id = c.id /\ Took(v))
      BY <1>4, <1>5
    <3>3. Taken(id) \/ Took(request'[id].st) \/ (Took(v) /\ c.id = id)
      BY <1>1, <1>3, <2>5, TakenSaying
    <3> QED BY <3>1, <3>2, <3>3 DEF Taken
  <2>6. TillFair'
    <3>1. ASSUME NEW k \in DOMAIN queue["till"], Taken(queue["till"][k].id)' PROVE Taken(queue["till"][k].id)
      <4>1. PICK id : id = queue["till"][k].id
        OBVIOUS
      <4>2. Taken(id)'
        BY <1>2, <3>1, <4>1 DEF Taken, TakenBy
      <4>3. id \in Ids
        BY <2>1, <4>1, LineIs
      <4> QED BY <2>5, <4>1, <4>2, <4>3
    <3> QED BY <1>2, <2>1, <3>1, FairKept
  <2>7. \A o \in Slots : JudgesWell(o)'
    <3>1. ~Busy(h)'
      BY <2>3 DEF Busy
    <3>2. ASSUME NEW o \in Slots \ {h}, Busy(o)
          PROVE  /\ request'[Now(o).id].st = "none"
                 /\ handler[o].step = "write" /\ Now(o).op = "create" => cloud' = Absent
      <4>1. Now(o).id # c.id /\ request[Now(o).id].st = "none" /\ (handler[o].step = "write" /\ Now(o).op = "create" => cloud = Absent)
        BY <2>1, <3>2 DEF JudgesWell
      <4>2. Now(o).id \in Ids
        BY <3>2, AtIs DEF Busy, At
      <4> QED BY <1>2, <1>4, <4>1, <4>2
    <3> QED BY <2>1, <2>3, <3>1, <3>2, JudgesKept
  <2>8. NoneHeld'
    BY <1>1, <2>1, <2>2, <2>3, <2>4, HeldKept
  <2> QED BY <2>6, <2>7, <2>8
<1>8. \A i \in Ids : /\ request'[i].st = "none" => request[i].st = "none"
                     /\ request[i].st \in {"refused", "rejected"} => request'[i].st = request[i].st
  BY <1>4
<1> QED BY <1>2, <1>6, <1>7, <1>8, CloudAlarm

-----------------------------------------------------------------------------
(* Requests end or are given up, the owner decides, a pull comes.          *)

LEMMA IdleAlarm ==
  ASSUME IndInv, AlarmInv, UNCHANGED <<queue, told, made, known, cloud, request, webs>>, odd \subseteq odd',
         \A o \in Slots : handler'[o] # Absent =>
             /\ handler[o] # Absent /\ handler'[o].rows = handler[o].rows /\ handler'[o].said = handler[o].said
             /\ handler'[o].step = handler[o].step /\ handler'[o].verdict = handler[o].verdict,
         Calm' /\ Calm /\ FairInv => Stands(queue["till"], here', cloud)
  PROVE  AlarmInv'
<1>1. webs \in Nat
  BY KindsNow DEF TypeOK
<1>2. \A o \in Slots : (Busy(o)' => Busy(o)) /\ (handler'[o] # Absent => Now(o)' = Now(o))
  BY DEF Busy, Now
<1>3. ASSUME Calm', Calm, FairInv PROVE TillFair' /\ (\A o \in Slots : JudgesWell(o)') /\ NoneHeld'
  <2>1. TillFair /\ NoneHeld /\ (\A o \in Slots : JudgesWell(o))
    BY <1>3 DEF FairInv
  <2>2. ASSUME NEW id, Taken(id)' PROVE Taken(id)
    <3>1. CASE Took(request'[id].st)
      BY <3>1 DEF Taken
    <3>2. CASE \E o \in Slots : TakenBy(o, id)'
      <4>1. PICK o \in Slots : TakenBy(o, id)'
        BY <3>2
      <4>2. TakenBy(o, id)
        BY <1>2, <4>1 DEF TakenBy
      <4> QED BY <4>2 DEF Taken
    <3> QED BY <2>2, <3>1, <3>2 DEF Taken
  <2>3. ASSUME NEW k \in DOMAIN queue["till"], Taken(queue["till"][k].id)' PROVE Taken(queue["till"][k].id)
    <3>1. PICK id : id = queue["till"][k].id
      OBVIOUS
    <3>2. Taken(id)'
      BY <2>3, <3>1 DEF Taken, TakenBy
    <3> QED BY <2>2, <3>1, <3>2
  <2>4. \A k \in DOMAIN queue'["till"] : Agreed(queue["till"][k])'
    BY <2>1, <2>3 DEF TillFair, Agreed, Starts, Ends
  <2>5. Stands(queue["till"], here, cloud)'
    BY <1>3 DEF Stands
  <2>6. TillFair'
    BY <2>4, <2>5 DEF TillFair
  <2>7. \A o \in Slots : JudgesWell(o)'
    <3>1. ASSUME NEW o \in Slots, Busy(o)'
          PROVE  /\ request'[Now(o)'.id].st = "none"
                 /\ \A p \in Slots : Busy(p)' /\ Now(p)'.id = Now(o)'.id => p = o
                 /\ handler'[o].step = "record" => handler'[o].verdict \in {"applied", "identical", "refused"}
                 /\ handler'[o].step = "write" /\ Now(o)'.op = "create" => cloud' = Absent
      <4>1. Busy(o) /\ handler'[o] # Absent /\ Now(o)' = Now(o) /\ handler'[o].step = handler[o].step /\ handler'[o].verdict = handler[o].verdict
        BY <1>2, <3>1 DEF Busy
      <4>2. \A p \in Slots : Busy(p)' => Busy(p) /\ Now(p)' = Now(p)
        BY <1>2 DEF Busy
      <4> QED BY <2>1, <4>1, <4>2 DEF JudgesWell
    <3> QED BY <3>1 DEF JudgesWell
  <2>8. NoneHeld'
    BY <2>1 DEF NoneHeld
  <2> QED BY <2>6, <2>7, <2>8
<1> QED BY <1>1, <1>3, CloudAlarm

LEMMA DecideAlarm ==
  ASSUME IndInv, AlarmInv, NEW i \in Ids, NEW approve \in BOOLEAN, Decide(i, approve)
  PROVE  AlarmInv'
<1> DEFINE st == IF approve THEN "approved" ELSE "rejected"
<1>1. /\ request[i].st = "awaiting" /\ request' = [request EXCEPT ![i].st = st]
      /\ UNCHANGED <<queue, told, made, known, webs, handler>>
  BY DEF Decide, AtCloud, till
<1>2. odd \subseteq odd' /\ webs \in Nat /\ request \in [Ids -> [st: Statuses \cup {"none"}, op: Ops \cup {"none"}, data: Data]]
  BY <1>1, KindsNow DEF Decide, TypeOK
<1>3. st \in {"approved", "rejected"}
  OBVIOUS
<1> HIDE DEF st
<1>4. \A x \in Ids : /\ request'[x].st = "none" => request[x].st = "none"
                     /\ request[x].st \in {"refused", "rejected"} => request'[x].st = request[x].st
  BY <1>1, <1>2, <1>3
<1>5. ~FairInv
  BY <1>1 DEF FairInv, NoneHeld
<1> QED BY <1>1, <1>2, <1>4, <1>5, CloudAlarm

LEMMA WebAlarm ==
  ASSUME IndInv, AlarmInv, Web
  PROVE  AlarmInv'
<1>1. UNCHANGED <<queue, told, made, known, handler, request>> /\ webs' = webs + 1 /\ odd \subseteq odd'
  BY DEF Web, till
<1>2. webs \in Nat
  BY KindsNow DEF TypeOK
<1>3. ~Calm'
  BY <1>1, <1>2 DEF Calm
<1> QED BY <1>1, <1>2, <1>3, CloudAlarm

LEMMA FetchAlarm ==
  ASSUME IndInv, AlarmInv, Fetch
  PROVE  AlarmInv'
<1>1. UNCHANGED <<queue, told, made, known, cloud, request, webs, odd, handler, here>>
  BY DEF Fetch
<1>2. FairInv => Stands(queue["till"], here', cloud)
  BY <1>1 DEF FairInv, TillFair
<1> QED BY <1>1, <1>2, IdleAlarm

LEMMA SkipAlarm ==
  ASSUME IndInv, AlarmInv, Skip
  PROVE  AlarmInv'
<1>1. UNCHANGED <<queue, told, made, known, cloud, request, webs, odd, handler, here>>
  BY DEF Skip, InSending
<1>2. FairInv => Stands(queue["till"], here', cloud)
  BY <1>1 DEF FairInv, TillFair
<1> QED BY <1>1, <1>2, IdleAlarm

LEMMA GiveUpAlarm ==
  ASSUME IndInv, AlarmInv, NEW m \in Senders, GiveUp(m)
  PROVE  AlarmInv'
<1> DEFINE left(h) == IF handler[h] = Absent \/ handler[h].from # m \/ ~handler[h].heard THEN handler[h]
                      ELSE IF handler[h].step = "end" THEN Absent ELSE [handler[h] EXCEPT !.heard = FALSE]
<1>1. UNCHANGED <<queue, told, made, known, cloud, request, webs, odd, here>> /\ handler' = [h \in Slots |-> left(h)]
  BY DEF GiveUp, InSending
<1>2. ASSUME NEW o \in Slots, handler'[o] # Absent
      PROVE  /\ handler[o] # Absent /\ handler'[o].rows = handler[o].rows /\ handler'[o].said = handler[o].said
             /\ handler'[o].step = handler[o].step /\ handler'[o].verdict = handler[o].verdict
  <2>1. handler'[o] = left(o)
    BY <1>1
  <2>2. handler[o] # Absent /\ handler[o] \in Handler
    BY <1>2, <2>1, PassNow
  <2>3. CASE left(o) = handler[o]
    <3> HIDE DEF left
    <3> QED BY <2>1, <2>2, <2>3
  <2>4. CASE left(o) = [handler[o] EXCEPT !.heard = FALSE]
    <3>1. PICK x : x = [handler[o] EXCEPT !.heard = FALSE]
      OBVIOUS
    <3>2. x = [from |-> handler[o].from, heard |-> FALSE, rows |-> handler[o].rows, step |-> handler[o].step,
               verdict |-> handler[o].verdict, said |-> handler[o].said]
      BY <2>2, <3>1, LeftOff
    <3> HIDE DEF left
    <3> QED BY <2>1, <2>2, <2>4, <3>1, <3>2
  <2> QED BY <1>2, <2>1, <2>2, <2>3, <2>4
<1> HIDE DEF left
<1>3. FairInv => Stands(queue["till"], here', cloud)
  BY <1>1 DEF FairInv, TillFair
<1> QED BY <1>1, <1>2, <1>3, IdleAlarm

LEMMA DieAlarm ==
  ASSUME IndInv, AlarmInv, NEW h \in Slots, Die(h)
  PROVE  AlarmInv'
<1>1. UNCHANGED <<queue, told, made, known, cloud, request, webs, odd, here>> /\ handler' = [handler EXCEPT ![h] = Absent]
  BY DEF Die
<1>2. \A o \in Slots : handler'[o] = IF o = h THEN Absent ELSE handler[o]
  BY <1>1, PassNow
<1>3. FairInv => Stands(queue["till"], here', cloud)
  BY <1>1 DEF FairInv, TillFair
<1> QED BY <1>1, <1>2, <1>3, IdleAlarm

(* A pull of what the cloud has puts the last change over it.              *)
LEMMA OverlaidIs ==
  ASSUME IndInv, TillFair
  PROVE  Stands(queue["till"], overlayLocalChanges(cloud), cloud)
<1> DEFINE q == queue["till"]
           n == Len(q)
           o == overlayLocalChanges(cloud)
<1>1. q \in Seq(Change) /\ InLine(q) /\ cloud \in Things /\ Absent \notin Thing
  BY LineIs, KindsNow, AbsentAssumption DEF CloudKinds, Thing, Data
<1>2. \A k \in DOMAIN q : q[k] \in Change /\ Whole(q[k]) /\ q[k] \in Pushed /\ Starts(q[k], cloud)
  BY LineIs, ChangeIsOpen DEF Pushed, TillFair, Agreed
<1>3. q \in Seq(Pushed)
  <2> HIDE DEF q
  <2> QED BY <1>1, <1>2
<1>4. PICK t : Steps(LayIn, cloud, q, n, Things, t, o)
  BY <1>1, <1>3, OverlaySteps
<1> HIDE DEF q, o
<1>5. n \in Nat /\ (q = <<>> <=> n = 0) /\ DOMAIN q = 1..n
  BY <1>1
<1>6. CASE q = <<>>
  BY <1>4, <1>5, <1>6 DEF Steps, Stands, q, o
<1>7. CASE q # <<>>
  <2>1. n \in 1..n /\ n - 1 \in 0..n
    BY <1>5, <1>7
  <2>2. t[n-1] \in Things /\ o = LayIn[<<t[n-1], q[n]>>]
    BY <1>4, <2>1 DEF Steps
  <2>3. <<t[n-1], q[n]>> \in Things \X Pushed
    BY <1>2, <1>5, <2>1, <2>2
  <2>4. o = Lay(q[n], t[n-1])
    BY <2>2, <2>3 DEF LayIn
  <2>5. Last(q) = q[n] /\ q[n].op \in Ops /\ q[n] \in Change /\ Whole(q[n]) /\ Starts(q[n], cloud) /\ n \in DOMAIN q
    BY <1>2, <1>5, <2>1 DEF Last, Change
  <2>6. CASE q[n].op = "delete"
    BY <1>7, <2>4, <2>5, <2>6 DEF Lay, Stands, q, o
  <2>7. CASE q[n].op # "delete"
    <3>1. n = 1
      BY <1>1, <2>5, <2>7, TwoAre
    <3>2. o = Lay(q[n], cloud)
      BY <1>4, <2>1, <2>4, <3>1 DEF Steps
    <3> DEFINE c == q[n]
    <3>3. c.data \in Data /\ c.sent \in Data \cup {Absent} /\ c.base \in Data /\ Absent \notin Data
      BY <2>5, AbsentAssumption DEF Change
    <3> HIDE DEF c
    <3>4. CASE c.op = "create"
      <4>1. c.data \in Thing
        BY <2>5, <3>4 DEF Whole, c
      <4>2. o = c.data
        BY <1>1, <3>2, <3>4, <4>1, OverWhole DEF Lay, c
      <4> QED BY <1>7, <2>5, <3>4, <4>2 DEF Stands, q, o, c
    <3>5. CASE c.op = "update"
      <4>1. cloud = Absent => o = Absent
        BY <3>2, <3>5 DEF Lay, c
      <4>2. cloud # Absent => o = Over(c.data, cloud)
        BY <3>2, <3>5 DEF Lay, c
      <4>3. cloud # Absent => o = Over(c.data, c.base)
        <5>1. SUFFICES ASSUME cloud # Absent, cloud # c.base PROVE Over(c.data, cloud) = Over(c.data, c.base)
          BY <4>2
        <5>2. c.sent # Absent /\ cloud = Becoming(c) /\ \A f \in Fields : c.sent[f] # Absent => c.data[f] # Absent
          BY <2>5, <3>5, <5>1 DEF Starts, c
        <5> QED BY <3>3, <5>2, OverAgain
      <4> QED BY <1>7, <2>5, <3>5, <4>1, <4>3 DEF Stands, q, o, c
    <3> QED BY <2>5, <2>7, <3>4, <3>5 DEF Ops, c
  <2> QED BY <2>6, <2>7
<1> QED BY <1>6, <1>7

LEMMA StoreAlarm ==
  ASSUME IndInv, AlarmInv, Store
  PROVE  AlarmInv'
<1>1. /\ UNCHANGED <<queue, told, made, known, cloud, request, webs, handler>> /\ odd \subseteq odd'
      /\ here' = overlayLocalChanges(fetched[1])
      /\ fetched[1] = cloud \/ "stale" \in odd'
  BY DEF Store, cloudside
<1>2. Calm' /\ FairInv => Stands(queue["till"], here', cloud)
  <2>1. SUFFICES ASSUME Calm', FairInv PROVE Stands(queue["till"], here', cloud)
    OBVIOUS
  <2>2. fetched[1] = cloud
    BY <1>1, <2>1 DEF Calm
  <2>3. Stands(queue["till"], overlayLocalChanges(cloud), cloud)
    BY <2>1, OverlaidIs DEF FairInv
  <2> QED BY <1>1, <2>2, <2>3
<1> QED BY <1>1, <1>2, IdleAlarm

-----------------------------------------------------------------------------
(* Changes go out.                                                         *)

LEMMA MarksAre ==
  ASSUME TypeOK, NEW p, p = Marked(queue["till"])
  PROVE  /\ p \in Seq(Change)
         /\ \A k \in DOMAIN queue["till"] :
               queue["till"][k].st = "pending" => p[k].sent \in {queue["till"][k].sent, queue["till"][k].data}
<1> DEFINE q == queue["till"]
<1>1. q \in Seq(Change)
  BY DEF TypeOK, Senders
<1>2. p = Marked(q)
  OBVIOUS
<1> HIDE DEF q
<1>3. p \in Seq(Change) /\ \A k \in DOMAIN q :
          /\ SentAs(q[k], p[k])
          /\ q[k].st = "pending" /\ q[k].sent \in {Absent, q[k].data} => p[k].sent = q[k].data
  BY <1>1, <1>2, MarkedIs
<1> QED BY <1>3 DEF SentAs, q

LEMMA SendAlarm ==
  ASSUME IndInv, AlarmInv, UNCHANGED <<told, made, here, cloud, request, webs>>, odd \subseteq odd',
         known \subseteq known', queue'["till"] \in Seq(Change), DOMAIN queue'["till"] = DOMAIN queue["till"],
         \A k \in DOMAIN queue["till"] :
             /\ SentAs(queue["till"][k], queue'["till"][k])
             /\ queue["till"][k].st = "pending" => queue'["till"][k].sent \in {queue["till"][k].sent, queue["till"][k].data},
         Calm /\ FairInv => \A j \in DOMAIN queue'["server"] :
             \/ \E k \in DOMAIN queue["server"] : queue'["server"][j] = queue["server"][k]
             \/ FromQueue(queue'["server"][j]) /\ queue'["server"][j].id \in known',
         \A o \in Slots : handler'[o] # Absent =>
             \/ handler'[o] = handler[o]
             \/ /\ handler'[o].step = "look" /\ handler'[o].said = <<>>
                /\ \A j \in DOMAIN handler'[o].rows : GoesOut(handler'[o].rows[j])
  PROVE  AlarmInv'
<1> DEFINE q == queue["till"]
           p == queue'["till"]
<1>1. ToldOnce'
  BY DEF AlarmInv, ToldOnce, SentAs, Alike
<1>2. SUFFICES ASSUME Calm' PROVE FairInv'
  BY <1>1 DEF AlarmInv
<1>3. Calm /\ FairInv
  BY <1>2 DEF Calm, Unruled, AlarmInv
<1>4. TillFair /\ AllStem /\ (\A o \in Slots : JudgesWell(o)) /\ NoneHeld
  BY <1>3 DEF FairInv
<1>5. /\ q \in Seq(Change) /\ Absent \notin Data
      /\ \A k \in DOMAIN q : q[k] \in Change /\ Whole(q[k]) /\ q[k].st = "pending" /\ Starts(q[k], cloud) /\ (Taken(q[k].id) => Ends(q[k], cloud))
  BY <1>4, LineIs, AbsentAssumption DEF TillFair, Agreed
<1>6. \A o \in Slots : Busy(o)' => Busy(o) /\ handler'[o] = handler[o] /\ Now(o)' = Now(o)
  BY DEF Busy, Now
<1>7. ASSUME NEW id, Taken(id)' PROVE Taken(id)
  <2>1. CASE Took(request'[id].st)
    BY <2>1 DEF Taken
  <2>2. CASE \E o \in Slots : TakenBy(o, id)'
    <3>1. PICK o \in Slots : TakenBy(o, id)'
      BY <2>2
    <3>2. handler'[o] = handler[o] /\ Now(o)' = Now(o)
      BY <3>1 DEF TakenBy, Now
    <3>3. TakenBy(o, id)
      BY <3>1, <3>2 DEF TakenBy
    <3> QED BY <3>3 DEF Taken
  <2> QED BY <1>7, <2>1, <2>2 DEF Taken
<1>8. ASSUME NEW c \in Change, NEW d, SentAs(c, d), d.sent \in {c.sent, c.data}, Whole(c), Starts(c, cloud)
      PROVE  Starts(d, cloud) /\ (Ends(c, cloud) => Ends(d, cloud))
  <2>1. c.sent # Absent => d.sent = c.sent
    BY <1>8 DEF SentAs
  <2>2. d.op = c.op /\ d.base = c.base /\ d.data = c.data /\ d.st = c.st
    BY <1>8 DEF SentAs, Alike
  <2>3. d.sent # c.sent => c.sent = Absent /\ d.sent = c.data
    BY <1>8, <2>1
  <2>4. Starts(d, cloud)
    BY <1>8, <2>2, <2>3, <2>1 DEF Starts, Whole, Becoming
  <2>5. Ends(c, cloud) => Ends(d, cloud)
    BY <2>1, <2>2 DEF Ends, Becoming
  <2> QED BY <2>4, <2>5
<1>9. \A k \in DOMAIN q : Agreed(queue["till"][k])'
  <2>1. SUFFICES ASSUME NEW k \in DOMAIN q PROVE Agreed(queue["till"][k])'
    OBVIOUS
  <2>2. PICK d : d = p[k]
    OBVIOUS
  <2>3. PICK c : c = q[k]
    OBVIOUS
  <2>4. /\ c \in Change /\ SentAs(c, d) /\ d.sent \in {c.sent, c.data} /\ Whole(c) /\ Starts(c, cloud)
        /\ Taken(c.id) => Ends(c, cloud)
    BY <1>5, <2>2, <2>3
  <2>5. Starts(d, cloud) /\ (Ends(c, cloud) => Ends(d, cloud)) /\ d.id = c.id
    BY <1>8, <2>4 DEF SentAs, Alike
  <2>6. PICK id : id = d.id
    OBVIOUS
  <2>7. Taken(id)' => Ends(d, cloud)
    BY <1>7, <2>4, <2>5, <2>6
  <2>8. Agreed(d)'
    BY <2>5, <2>6, <2>7 DEF Agreed, Starts, Ends, Taken, TakenBy
  <2> QED BY <2>2, <2>8 DEF Agreed, Starts, Ends, Taken, TakenBy
<1>10. Stands(p, here, cloud)
  <2>1. Stands(q, here, cloud)
    BY <1>4 DEF TillFair
  <2>2. CASE q = <<>>
    <3>1. Len(p) = Len(q) /\ p \in Seq(Change)
      BY <1>5
    <3>2. p = <<>>
      <4>1. Len(q) = 0
        BY <2>2
      <4> HIDE DEF p, q
      <4> QED BY <3>1, <4>1
    <3> QED BY <2>1, <2>2, <3>2 DEF Stands
  <2>3. CASE q # <<>>
    <3>1. Len(q) \in DOMAIN q
      BY <1>5, <2>3
    <3>2. SentAs(q[Len(q)], p[Len(q)])
      BY <3>1
    <3>3. Len(p) = Len(q) /\ p # <<>>
      BY <1>5, <2>3
    <3>4. SentAs(Last(q), Last(p))
      BY <3>2, <3>3 DEF Last
    <3> QED BY <2>1, <2>3, <3>3, <3>4 DEF Stands, SentAs, Alike
  <2> QED BY <2>2, <2>3
<1>11. TillFair'
  BY <1>10, <1>9 DEF Stands, TillFair
<1>12. ASSUME NEW x, Stems(x) PROVE Stems(x)'
  <2>1. ASSUME request[x.id].st = "none" PROVE \E k \in DOMAIN p : p[k].id = x.id /\ p[k].base = x.base
    <3>1. PICK k \in DOMAIN q : q[k].id = x.id /\ q[k].base = x.base
      BY <1>12, <2>1 DEF Stems
    <3> QED BY <3>1 DEF SentAs, Alike
  <2> QED BY <2>1 DEF Stems
<1>13. ASSUME NEW x, FromQueue(x) PROVE Stems(x)
  BY <1>13 DEF FromQueue, Stems
<1>14. AllStem'
  <2>1. ASSUME NEW j \in DOMAIN queue'["server"] PROVE Stems(queue["server"][j])' /\ queue'["server"][j].id \in known'
    <3>1. PICK x : x = queue'["server"][j]
      OBVIOUS
    <3>2. Stems(x) /\ x.id \in known'
      BY <1>3, <1>4, <1>13, <2>1, <3>1 DEF AllStem
    <3>3. Stems(x)'
      BY <1>12, <3>2
    <3> QED BY <3>1, <3>2, <3>3 DEF Stems
  <2>2. ASSUME NEW o \in Slots, handler'[o] # Absent, NEW j \in DOMAIN handler'[o].rows
        PROVE  Stems(handler[o].rows[j])'
    <3>1. PICK x : x = handler'[o].rows[j]
      OBVIOUS
    <3>2. Stems(x)
      <4>1. CASE handler'[o] = handler[o]
        BY <1>4, <2>2, <3>1, <4>1 DEF AllStem
      <4>2. CASE GoesOut(x)
        BY <1>4, <1>13, <4>2 DEF AllStem, GoesOut
      <4> QED BY <2>2, <3>1, <4>1, <4>2
    <3>3. Stems(x)'
      BY <1>12, <3>2
    <3> QED BY <3>1, <3>3 DEF Stems
  <2> QED BY <2>1, <2>2 DEF AllStem
<1>15. \A o \in Slots : JudgesWell(o)'
  <2>1. ASSUME NEW o \in Slots, Busy(o)'
        PROVE  /\ request'[Now(o)'.id].st = "none"
               /\ \A x \in Slots : Busy(x)' /\ Now(x)'.id = Now(o)'.id => x = o
               /\ handler'[o].step = "record" => handler'[o].verdict \in {"applied", "identical", "refused"}
               /\ handler'[o].step = "write" /\ Now(o)'.op = "create" => cloud' = Absent
    BY <1>4, <1>6, <2>1 DEF JudgesWell
  <2> QED BY <2>1 DEF JudgesWell
<1>16. NoneHeld'
  BY <1>4 DEF NoneHeld
<1> QED BY <1>11, <1>14, <1>15, <1>16 DEF FairInv

LEMMA HandOverAlarm ==
  ASSUME IndInv, AlarmInv, HandOver
  PROVE  AlarmInv'
<1> DEFINE news1 == Those(Waiting, {c \in ToSet(Waiting) : c.id \notin known})
           marked == Marked(queue["till"])
           copies == queue["server"] \o news1
<1>1. /\ TypeOK /\ handler' = handler
      /\ queue' = [queue EXCEPT !["till"] = marked, !["server"] = copies]
      /\ known' = known \cup {Waiting[k].id : k \in DOMAIN Waiting} /\ Mixes
      /\ UNCHANGED <<here, told, made, cloud, request, webs>>
  BY KindsNow DEF HandOver, InSending
<1> HIDE DEF marked, copies, news1
<1>2. queue'["till"] = marked /\ queue'["server"] = copies /\ odd \subseteq odd'
  <2> DEFINE Qs == Seq(Change)
  <2>1. queue \in [Senders -> Qs]
    BY <1>1 DEF TypeOK
  <2> HIDE DEF Qs
  <2> QED BY <1>1, <2>1 DEF Senders, Mixes
<1>3. /\ DOMAIN queue'["till"] = DOMAIN queue["till"]
      /\ \A k \in DOMAIN queue["till"] : SentAs(queue["till"][k], queue'["till"][k])
      /\ Waiting \in Seq(Change)
      /\ \A j \in DOMAIN Waiting : FromQueue(Waiting[j])
  BY <1>1, <1>2, TillSends DEF marked
<1>4. queue'["till"] \in Seq(Change) /\ \A k \in DOMAIN queue["till"] :
          queue["till"][k].st = "pending" => queue'["till"][k].sent \in {queue["till"][k].sent, queue["till"][k].data}
  BY <1>1, <1>2, MarksAre DEF marked
<1>5. news1 \in Seq(Change) /\ \A j \in DOMAIN news1 : FromQueue(news1[j]) /\ news1[j].id \in known'
  <2> DEFINE S == {c \in ToSet(Waiting) : c.id \notin known}
             w == Waiting
  <2>1. news1 \in Seq(Change) /\ \A j \in DOMAIN news1 : \E k \in DOMAIN w : news1[j] = w[k]
    <3>1. news1 = Those(w, S) /\ w \in Seq(Change)
      BY <1>3 DEF news1
    <3> HIDE DEF S, w
    <3>2. news1 \in Seq(Change)
      BY <3>1, ThoseKeeps
    <3>3. \A j \in DOMAIN news1 : news1[j] \in S /\ \E k \in DOMAIN w : news1[j] = w[k]
      BY <3>1, ThoseKeeps
    <3> QED BY <3>2, <3>3
  <2> QED BY <1>1, <1>3, <2>1
<1>6. \A j \in DOMAIN copies :
             \/ \E k \in DOMAIN queue["server"] : copies[j] = queue["server"][k]
             \/ FromQueue(copies[j]) /\ copies[j].id \in known'
  <2> DEFINE a == queue["server"]
             b == news1
  <2>1. a \in Seq(Change) /\ b \in Seq(Change)
    BY <1>1, <1>5 DEF TypeOK, Senders
  <2>2. \A j \in DOMAIN b : FromQueue(b[j]) /\ b[j].id \in known'
    BY <1>5
  <2>3. copies = a \o b
    BY DEF copies
  <2> HIDE DEF a, b
  <2>4. ASSUME NEW j \in DOMAIN copies
        PROVE  (\E k \in DOMAIN a : copies[j] = a[k]) \/ (FromQueue(copies[j]) /\ copies[j].id \in known')
    BY <2>1, <2>3, <2>4, <2>2
  <2> QED BY <2>4 DEF a
<1> QED BY <1>1, <1>2, <1>3, <1>4, <1>6, SendAlarm

LEMMA PostAlarm ==
  ASSUME IndInv, AlarmInv, NEW m \in Senders, Post(m)
  PROVE  AlarmInv'
<1> DEFINE rows == ToSend(m)
           new == [from |-> m, heard |-> TRUE, rows |-> rows, step |-> "look", verdict |-> "none", said |-> <<>>]
<1>1. TypeOK /\ UNCHANGED <<here, told, made, known, cloud, request, webs>>
  BY KindsNow DEF Post, InSending
<1>2. PICK h \in Slots : handler' = [handler EXCEPT ![h] = new]
  BY DEF Post
<1>3. queue \in [Senders -> Seq(Change)]
  BY <1>1 DEF TypeOK
<1>4. /\ odd \subseteq odd' /\ queue'["till"] \in Seq(Change) /\ DOMAIN queue'["till"] = DOMAIN queue["till"]
      /\ \A k \in DOMAIN queue["till"] :
             /\ SentAs(queue["till"][k], queue'["till"][k])
             /\ queue["till"][k].st = "pending" => queue'["till"][k].sent \in {queue["till"][k].sent, queue["till"][k].data}
      /\ queue'["server"] = queue["server"]
      /\ \A j \in DOMAIN rows : GoesOut(rows[j])
  <2>1. CASE m = "till"
    <3> DEFINE marked == Marked(queue["till"])
    <3>1. queue' = [queue EXCEPT !["till"] = marked] /\ Mixes
      BY <2>1 DEF Post
    <3>2. queue'["till"] = marked /\ queue'["server"] = queue["server"]
      BY <1>3, <3>1 DEF Senders
    <3>3. /\ DOMAIN queue'["till"] = DOMAIN queue["till"]
          /\ \A k \in DOMAIN queue["till"] : SentAs(queue["till"][k], queue'["till"][k])
          /\ \A j \in DOMAIN Waiting : FromQueue(Waiting[j])
      BY <3>1, <3>2, TillSends
    <3>4. queue'["till"] \in Seq(Change) /\ \A k \in DOMAIN queue["till"] :
             queue["till"][k].st = "pending" => queue'["till"][k].sent \in {queue["till"][k].sent, queue["till"][k].data}
      BY <1>1, <3>2, MarksAre
    <3>5. rows = Waiting /\ odd \subseteq odd'
      BY <2>1, <3>1 DEF Waiting, Mixes
    <3> HIDE DEF rows, marked
    <3> QED BY <3>2, <3>3, <3>4, <3>5 DEF GoesOut
  <2>2. CASE m = "server"
    <3>1. queue' = queue /\ odd' = odd
      BY <2>2 DEF Post
    <3> DEFINE q == queue["server"]
    <3>2. q \in Seq(Change) /\ q = queue[m]
      BY <1>3, <2>2
    <3>3. \A j \in DOMAIN rows : \E k \in DOMAIN q : rows[j] = q[k]
      <4> HIDE DEF q
      <4>1. /\ rows \in Seq(Change)
            /\ \A j \in DOMAIN rows : rows[j].st = "pending" /\ \E k \in DOMAIN q : rows[j] = q[k]
        BY <3>2, ToSendIs
      <4> QED BY <4>1
    <3> HIDE DEF rows
    <3>4. \A j \in DOMAIN rows : GoesOut(rows[j])
      BY <3>3 DEF GoesOut
    <3>5. \A k \in DOMAIN queue["till"] : SentAs(queue["till"][k], queue'["till"][k])
      BY <3>1 DEF SentAs, Alike
    <3> QED BY <1>3, <3>1, <3>4, <3>5 DEF Senders
  <2> QED BY <2>1, <2>2 DEF Senders
<1> HIDE DEF rows
<1>5. new.step = "look" /\ new.said = <<>> /\ new.rows = rows
  OBVIOUS
<1> HIDE DEF new
<1>6. \A o \in Slots : handler'[o] = IF o = h THEN new ELSE handler[o]
  BY <1>2, PassNow
<1>7. \A o \in Slots : handler'[o] # Absent =>
             \/ handler'[o] = handler[o]
             \/ /\ handler'[o].step = "look" /\ handler'[o].said = <<>>
                /\ \A j \in DOMAIN handler'[o].rows : GoesOut(handler'[o].rows[j])
  BY <1>4, <1>5, <1>6
<1>8. \A j \in DOMAIN queue'["server"] : \E k \in DOMAIN queue["server"] : queue'["server"][j] = queue["server"][k]
  BY <1>4
<1> QED BY <1>1, <1>4, <1>7, <1>8, SendAlarm

-----------------------------------------------------------------------------
(* The answers.                                                            *)

(* What the till tells of a change stays, and is of one that is not open.  *)
ToldIn(s) ==
    /\ s.made >= made
    /\ \A i \in Ids : /\ told[i] # "none" => s.told[i] = told[i]
                      /\ s.told[i] # "none" => i <= s.made /\ \A k \in DOMAIN s.q : s.q[k].id # i
    /\ \A k \in DOMAIN s.q : s.q[k].id <= s.made
Further(s, r) ==
    /\ \A i \in Ids : s.told[i] # "none" => r.told[i] = s.told[i]
    /\ \A j \in DOMAIN r.q : r.q[j].id > made \/ \E k \in DOMAIN s.q : s.q[k].id = r.q[j].id

LEMMA ToldDrops ==
  ASSUME NEW s \in TillStates, ToldIn(s), NEW c \in Open, c.id <= s.made,
         c.id \in Ids => told[c.id] = "none",
         NEW as \in {"done", "refused", "rejected"}, NEW r \in TillStates, Drops(s, c, r), TellsOf(s, c, as, r)
  PROVE  /\ ToldIn(r)
         /\ (c.id \in Ids => s.told[c.id] = "none") => Further(s, r)
<1>1. \A j \in DOMAIN r.q : r.q[j].id # c.id /\ \E l \in DOMAIN s.q : r.q[j] = s.q[l]
  <2>1. s.q \in Seq(Open)
    BY DEF TillStates
  <2>2. PICK p \in Seq(Open) : p = s.q
    BY <2>1
  <2>3. PICK b : b = r.q
    OBVIOUS
  <2> DEFINE B == {x \in ToSet(p) : x.id # c.id}
  <2>4. b = Those(p, B)
    BY <2>2, <2>3 DEF Drops, Without
  <2>5. \A x \in B : x.id # c.id
    OBVIOUS
  <2> HIDE DEF B
  <2>6. \A j \in DOMAIN b : b[j] \in B /\ \E l \in DOMAIN p : b[j] = p[l]
    BY <2>4, ThoseKeeps
  <2> QED BY <2>2, <2>3, <2>5, <2>6
<1>2. \A i \in Ids : r.told[i] = IF i = c.id THEN as ELSE s.told[i]
  BY DEF TellsOf
<1>3. r.made = s.made
  BY DEF Drops
<1>4. \A i \in Ids : r.told[i] # "none" => i <= r.made
  BY <1>2, <1>3 DEF ToldIn
<1>5. \A i \in Ids : r.told[i] # "none" => \A j \in DOMAIN r.q : r.q[j].id # i
  <2>1. \A i \in Ids : i # c.id /\ r.told[i] # "none" => \A l \in DOMAIN s.q : s.q[l].id # i
    BY <1>2 DEF ToldIn
  <2>2. ASSUME NEW i \in Ids, r.told[i] # "none", NEW j \in DOMAIN r.q, r.q[j].id = i PROVE FALSE
    <3>1. i # c.id
      BY <1>1, <2>2
    <3>2. PICK l \in DOMAIN s.q : r.q[j] = s.q[l]
      BY <1>1, <2>2
    <3> QED BY <2>1, <2>2, <3>1, <3>2
  <2> QED BY <2>2
<1>6. \A i \in Ids : told[i] # "none" => r.told[i] = told[i]
  BY <1>2 DEF ToldIn
<1>7. \A j \in DOMAIN r.q : r.q[j].id <= r.made
  BY <1>1, <1>3 DEF ToldIn
<1>8. r.made >= made
  BY <1>3 DEF ToldIn
<1>9. (c.id \in Ids => s.told[c.id] = "none") => Further(s, r)
  BY <1>1, <1>2 DEF Further
<1> QED BY <1>4, <1>5, <1>6, <1>7, <1>8, <1>9 DEF ToldIn

LEMMA ToldAnswers ==
  ASSUME made \in Nat, NEW s \in TillStates, ToldIn(s), NEW row \in Open, NEW answer \in Answers,
         NEW r, r = Answered(s, row, answer)
  PROVE  ToldIn(r) /\ Further(s, r)
<1>1. r \in TillStates /\ (r = s \/ \E k \in DOMAIN s.q : s.q[k].id = row.id /\ Comes(s, s.q[k], row, answer, r))
  BY AnsweredIs
<1>2. CASE r = s
  BY <1>2 DEF Further
<1>3. ASSUME NEW k \in DOMAIN s.q, Comes(s, s.q[k], row, answer, r)
      PROVE  ToldIn(r) /\ Further(s, r)
  <2>1. PICK c : c = s.q[k]
    OBVIOUS
  <2>2. s.made \in Nat /\ s.q \in Seq(Open) /\ \A j \in DOMAIN s.q : s.q[j].id \in Nat /\ s.q[j] \in Open
    <3>1. s.made \in Nat /\ s.q \in Seq(Open)
      BY DEF TillStates
    <3>2. \A j \in DOMAIN s.q : s.q[j] \in Open
      BY <3>1
    <3> QED BY <3>1, <3>2 DEF Open
  <2>3. Ids \subseteq Nat
    BY BoundsAssumption DEF Ids
  <2>4. ASSUME NEW m \in Open, Renews(s, c, m, r) PROVE ToldIn(r) /\ Further(s, r)
    <3>1. /\ r.made = s.made + 1 /\ r.told = s.told
          /\ DOMAIN r.q = DOMAIN s.q /\ \A j \in DOMAIN s.q : r.q[j].id = IF s.q[j].id = c.id THEN s.made + 1 ELSE s.q[j].id
      BY <2>4 DEF Renews
    <3>2. \A i \in Ids : s.told[i] # "none" => i # s.made + 1
      BY <2>2, <2>3 DEF ToldIn
    <3>3. \A i \in Ids : r.told[i] # "none" => i <= s.made
      BY <3>1 DEF ToldIn
    <3>4. \A i \in Ids : i <= s.made => i <= s.made + 1
      BY <2>2, <2>3
    <3>5. \A i \in Ids : r.told[i] # "none" => i <= r.made
      BY <3>1, <3>3, <3>4
    <3>6. \A i \in Ids : r.told[i] # "none" => \A j \in DOMAIN r.q : r.q[j].id # i
      BY <3>1, <3>2 DEF ToldIn
    <3>7. r.made >= made
      <4>1. s.made >= made
        BY DEF ToldIn
      <4>2. PICK n \in Nat : n = s.made
        BY <2>2
      <4> QED BY <3>1, <4>1, <4>2
    <3>8. \A j \in DOMAIN r.q : r.q[j].id <= r.made
      <4>1. ASSUME NEW j \in DOMAIN r.q PROVE r.q[j].id <= r.made
        <5>1. PICK n \in Nat, i \in Nat : n = s.made /\ i = s.q[j].id
          BY <2>2, <3>1, <4>1
        <5>2. i <= n /\ (r.q[j].id = n + 1 \/ r.q[j].id = i) /\ r.made = n + 1
          BY <3>1, <4>1, <5>1 DEF ToldIn
        <5> QED BY <5>1, <5>2
      <4> QED BY <4>1
    <3>9. \A j \in DOMAIN r.q : r.q[j].id > made \/ \E l \in DOMAIN s.q : s.q[l].id = r.q[j].id
      BY <2>2, <3>1 DEF ToldIn
    <3>10. \A i \in Ids : told[i] # "none" => r.told[i] = told[i]
      BY <3>1 DEF ToldIn
    <3> QED BY <3>1, <3>5, <3>6, <3>7, <3>8, <3>9, <3>10 DEF ToldIn, Further
  <2>5. ASSUME Parks(s, c, r) PROVE ToldIn(r) /\ Further(s, r)
    <3>1. PICK d : d = [c EXCEPT !.st = "awaiting"]
      OBVIOUS
    <3>2. d.id = c.id
      BY <2>1, <2>2, <3>1 DEF Open
    <3>3. r.q = Put(s.q, d) /\ r.made = s.made /\ r.told = s.told
      BY <2>5, <3>1 DEF Parks
    <3>4. DOMAIN r.q = DOMAIN s.q /\ \A j \in DOMAIN s.q : r.q[j].id = s.q[j].id
      BY <3>2, <3>3 DEF Put
    <3> QED BY <3>3, <3>4 DEF ToldIn, Further
  <2>6. ASSUME NEW as \in {"done", "refused", "rejected"}, Drops(s, c, r), TellsOf(s, c, as, r)
        PROVE  ToldIn(r) /\ Further(s, r)
    <3>1. c \in Open /\ c.id <= s.made
      BY <2>1, <2>2 DEF ToldIn
    <3>2. c.id \in Ids => s.told[c.id] = "none" /\ told[c.id] = "none"
      BY <2>1 DEF ToldIn
    <3> QED BY <1>1, <2>6, <3>1, <3>2, ToldDrops
  <2> QED BY <1>3, <2>1, <2>4, <2>5, <2>6 DEF Comes
<1> QED BY <1>1, <1>2, <1>3

LEMMA ToldNow ==
  ASSUME IndInv, ToldOnce
  PROVE  ToldIn(TillNow) /\ TillNow \in TillStates /\ made \in Nat
<1>1. TillNow \in TillStates /\ made \in Nat /\ Good(TillNow)
  BY KindsNow, TillNowIs
<1>2. \A k \in DOMAIN queue["till"] : queue["till"][k].id <= made
  BY <1>1 DEF Good, TillNow
<1>3. TillNow.q = queue["till"] /\ TillNow.told = told /\ TillNow.made = made
  BY DEF TillNow
<1> QED BY <1>1, <1>2, <1>3 DEF ToldIn, ToldOnce

(* Told since, and so no ruling is forgotten.                              *)
LEMMA ToldThen ==
  ASSUME IndInv, ToldOnce, NEW r \in TillStates, ToldIn(r), TillBecomes(r), request' = request, webs' = webs, odd \subseteq odd'
  PROVE  ToldOnce' /\ (Calm' => Calm) /\ queue'["till"] = r.q /\ queue'["server"] = queue["server"]
<1>1. queue' = [queue EXCEPT !["till"] = r.q] /\ told' = r.told /\ made' = r.made
  BY DEF TillBecomes, Queued
<1>2. queue'["till"] = r.q /\ queue'["server"] = queue["server"]
  <2> DEFINE Qs == Seq(Change)
  <2>1. queue \in [Senders -> Qs]
    BY KindsNow DEF TypeOK
  <2> HIDE DEF Qs
  <2> QED BY <1>1, <2>1 DEF Senders
<1>3. ToldOnce'
  BY <1>1, <1>2 DEF ToldOnce, ToldIn
<1>4. ASSUME Calm' PROVE Calm
  BY <1>1, <1>4 DEF ToldIn, Calm, Unruled
<1> QED BY <1>2, <1>3, <1>4

LEMMA AskAlarm ==
  ASSUME IndInv, AlarmInv, NEW m \in Senders, Ask(m)
  PROVE  AlarmInv'
<1>1. /\ UNCHANGED <<cloud, handler, odd, request, webs, known>> /\ TypeOK /\ ToldOnce
      /\ \E k \in DOMAIN queue[m] : Decided(queue[m][k])
  BY KindsNow DEF Ask, cloudside, AlarmInv
<1>2. ToldOnce' /\ (Calm' => Calm)
  <2>1. CASE m = "till"
    <3>1. PICK r : r = AllDecided(TillNow, Due)
      OBVIOUS
    <3>2. TillBecomes(r)
      BY <2>1, <3>1 DEF Ask, Due
    <3>3. TillNow \in TillStates /\ ToldIn(TillNow) /\ made \in Nat
      BY <1>1, ToldNow
    <3>4. /\ Due \in Seq(Change) /\ Due \in Seq(Open)
          /\ \A k \in DOMAIN Due : \E j \in DOMAIN queue["till"] : Due[k] = queue["till"][j]
      <4> DEFINE S == {c \in ToSet(queue["till"]) : Decided(c)}
                 Q == queue["till"]
      <4>1. Q \in Seq(Change) /\ Due = Those(Q, S)
        BY <1>1 DEF TypeOK, Senders, Due
      <4> HIDE DEF S, Q, Due
      <4>2. Due \in Seq(Change) /\ \A k \in DOMAIN Due : \E j \in DOMAIN Q : Due[k] = Q[j]
        BY <4>1, ThoseKeeps
      <4>3. Due \in Seq(Open)
        BY <4>2, ChangeIsOpen
      <4> QED BY <4>2, <4>3 DEF Q
    <3>5. PICK n : n = Len(Due)
      OBVIOUS
    <3> HIDE DEF Due
    <3>6. n \in Nat /\ DOMAIN Due = 1..n /\ \A k \in 1..n : Due[k] \in Open
      BY <3>4, <3>5
    <3>7. PICK t : Steps(SettleIn, TillNow, Due, n, TillStates, t, r)
      BY <3>1, <3>3, <3>4, <3>5, DecidedSteps
    <3> DEFINE T == {s \in TillStates : ToldIn(s)}
    <3>8. ASSUME NEW k \in 1..n, NEW s \in TillStates \cap T
          PROVE  SettleIn[<<s, Due[k]>>] \in T
      <4>1. PICK c \in Open : c = Due[k]
        BY <3>6
      <4>2. SettleIn[<<s, c>>] = Settled(s, c, Ruled(c))
        BY DEF SettleIn
      <4>3. Ruled(c) \in {"done", "refused", "rejected"}
        BY DEF Ruled
      <4>4. PICK x : x = Settled(s, c, Ruled(c))
        OBVIOUS
      <4>5. x \in TillStates /\ Drops(s, c, x) /\ TellsOf(s, c, Ruled(c), x)
        BY <4>3, <4>4, SettledIs
      <4>6. PICK j \in DOMAIN queue["till"] : c = queue["till"][j]
        BY <3>4, <3>6, <4>1
      <4>7. c.id \in Ids => told[c.id] = "none"
        BY <1>1, <4>6 DEF ToldOnce
      <4>8. c.id <= s.made
        <5>1. c.id <= made /\ s.made >= made
          BY <4>6, KindsNow DEF Good, TillNow, ToldIn
        <5>2. c.id \in Nat /\ s.made \in Nat
          BY DEF Open, TillStates
        <5> QED BY <3>3, <5>1, <5>2
      <4>9. ToldIn(x)
        BY <4>3, <4>5, <4>7, <4>8, ToldDrops
      <4> QED BY <4>1, <4>2, <4>4, <4>5, <4>9
    <3>9. TillNow \in T
      BY <3>3
    <3> HIDE DEF T
    <3>10. r \in T
      BY <3>6, <3>7, <3>8, <3>9, Along
    <3>11. r \in TillStates /\ ToldIn(r)
      BY <3>10 DEF T
    <3> QED BY <1>1, <3>2, <3>11, ToldThen
  <2>2. CASE m = "server"
    <3>1. PICK r : r = Those(queue["server"], {c \in ToSet(queue["server"]) : ~Decided(c)})
      OBVIOUS
    <3>2. queue' = [queue EXCEPT !["server"] = r] /\ UNCHANGED <<told, made>>
      BY <2>2, <3>1 DEF Ask
    <3>3. queue'["till"] = queue["till"]
      BY <1>1, <3>2 DEF TypeOK, Senders
    <3> QED BY <1>1, <3>2, <3>3 DEF ToldOnce, Calm, Unruled
  <2> QED BY <2>1, <2>2 DEF Senders
<1>3. SUFFICES ASSUME Calm' PROVE FALSE
  BY <1>2 DEF AlarmInv
<1>4. NoneHeld /\ Unruled(told)
  BY <1>2, <1>3 DEF AlarmInv, FairInv, Calm
<1>5. PICK k \in DOMAIN queue[m] : Decided(queue[m][k])
  BY <1>1
<1>6. queue[m][k].id \in Ids
  <2>1. queue[m] \in Seq(Change)
    BY <1>1 DEF TypeOK
  <2>2. queue[m][k] \in Change
    BY <1>5, <2>1
  <2> QED BY <2>2 DEF Change
<1> QED BY <1>4, <1>5, <1>6 DEF Decided, NoneHeld, Unruled

(* No answer to the branch server puts a copy with the owner.              *)
LEMMA ForwardAlarm ==
  ASSUME IndInv, AlarmInv, NEW h \in Slots, Hear(h), handler[h].from = "server"
  PROVE  AlarmInv'
<1> DEFINE each == EachOf(handler[h])
           rows == handler[h].rows
           said == handler[h].said
           q == queue["server"]
<1>1. /\ handler[h] # Absent /\ handler[h].step = "end" /\ handler' = [handler EXCEPT ![h] = Absent]
      /\ UNCHANGED <<told, made, here, odd, known, cloud, request, webs>>
  BY DEF Hear, At
<1>2. handler[h] \in Handler /\ TypeOK
  BY <1>1, PassNow, KindsNow
<1>3. rows \in Seq(Change) /\ said \in Seq(Answers) /\ Len(said) = Len(rows) /\ q \in Seq(Change)
  BY <1>1, <1>2, KindsNow DEF Handler, Answers, Handled, TypeOK, Senders
<1>4. \A o \in Slots : handler'[o] # Absent => handler'[o] = handler[o]
  BY <1>1, PassNow
<1>5. PICK r : r = AllForwarded(q, each)
  OBVIOUS
<1>6. queue' = [queue EXCEPT !["server"] = r]
  BY <1>5 DEF Hear, EachOf
<1>7. queue'["till"] = queue["till"] /\ queue'["server"] = r /\ queue["till"] \in Seq(Change)
  <2> DEFINE Qs == Seq(Change)
  <2>1. queue \in [Senders -> Qs]
    BY <1>2 DEF TypeOK
  <2> HIDE DEF Qs
  <2>2. queue'["till"] = queue["till"] /\ queue'["server"] = r /\ queue["till"] \in Qs
    BY <1>6, <2>1 DEF Senders
  <2> QED BY <2>2 DEF Qs
<1>8. ASSUME Calm, FairInv PROVE \A j \in DOMAIN r : \E k \in DOMAIN q : r[j] = q[k]
  <2>1. \A j \in DOMAIN said : said[j] # "awaiting"
    BY <1>1, <1>8 DEF FairInv, NoneHeld
  <2>2. each = [k \in DOMAIN rows |-> <<rows[k], said[k]>>]
    BY DEF EachOf
  <2> HIDE DEF each, rows, said, q
  <2>3. PICK n : n = Len(rows)
    OBVIOUS
  <2>4. each \in Seq(Change \X Answers) /\ Len(each) = n /\ \A k \in 1..n : each[k] = <<rows[k], said[k]>>
    <3>1. PICK a \in Seq(Change), b \in Seq(Answers) : a = rows /\ b = said
      BY <1>3
    <3>2. PICK e : e = each
      OBVIOUS
    <3>3. Len(b) = Len(a) /\ e = [k \in DOMAIN a |-> <<a[k], b[k]>>]
      BY <1>3, <2>2, <3>1, <3>2
    <3>4. e \in Seq(Change \X Answers) /\ Len(e) = Len(a) /\ \A k \in 1..Len(a) : e[k] = <<a[k], b[k]>>
      BY <3>3, EachIs
    <3> QED BY <2>3, <3>1, <3>2, <3>4
  <2>5. n \in Nat /\ \A k \in 1..n : rows[k] \in Change /\ said[k] \in Answers /\ said[k] # "awaiting"
    BY <1>3, <2>1, <2>3
  <2>6. PICK t : Steps(ForwardIn, q, each, n, Seq(Change), t, r)
    BY <1>3, <1>5, <2>4, ForwardedSteps
  <2> DEFINE T == {s \in Seq(Change) : \A j \in DOMAIN s : \E k \in DOMAIN q : s[j] = q[k]}
  <2>7. ASSUME NEW k \in 1..n, NEW s \in Seq(Change) \cap T
        PROVE  ForwardIn[<<s, each[k]>>] \in T
    <3>1. PICK row \in Change, answer \in Answers : row = rows[k] /\ answer = said[k] /\ answer # "awaiting"
      BY <2>5
    <3>2. <<s, <<row, answer>>>> \in Seq(Change) \X (Change \X Answers) /\ each[k] = <<row, answer>>
      BY <2>4, <3>1
    <3>3. ForwardIn[<<s, each[k]>>] = Forwarded(s, row, answer)
      BY <3>2 DEF ForwardIn
    <3>4. PICK x : x = Forwarded(s, row, answer)
      OBVIOUS
    <3>5. x \in Seq(Change) /\ \A j \in DOMAIN x : \E i \in DOMAIN s : x[j] = s[i]
      <4>1. CASE answer = "later"
        BY <3>4, <4>1 DEF Forwarded
      <4>2. CASE answer # "later"
        <5> DEFINE S == {y \in ToSet(s) : y.id # row.id}
        <5>1. x = Those(s, S)
          BY <3>1, <3>4, <4>2 DEF Forwarded, Without
        <5> HIDE DEF S, T
        <5> QED BY <5>1, ThoseKeeps
      <4> QED BY <4>1, <4>2
    <3>6. \A j \in DOMAIN s : \E i \in DOMAIN q : s[j] = q[i]
      OBVIOUS
    <3>7. x \in T
      BY <3>5, <3>6
    <3> QED BY <3>3, <3>4, <3>7
  <2>8. q \in T
    BY <1>3
  <2> HIDE DEF T
  <2>9. r \in T
    BY <2>5, <2>6, <2>7, <2>8, Along
  <2> QED BY <2>9 DEF T
<1>9. \A k \in DOMAIN queue["till"] : SentAs(queue["till"][k], queue'["till"][k])
                                      /\ queue'["till"][k].sent \in {queue["till"][k].sent, queue["till"][k].data}
  BY <1>7 DEF SentAs, Alike
<1>10. odd \subseteq odd' /\ known \subseteq known'
  BY <1>1
<1>11. Calm /\ FairInv => \A j \in DOMAIN queue'["server"] : \E k \in DOMAIN queue["server"] : queue'["server"][j] = queue["server"][k]
  BY <1>7, <1>8
<1> QED BY <1>1, <1>4, <1>7, <1>9, <1>10, <1>11, SendAlarm

(* Of the till's changes after some of the answers: no refusal is told,    *)
(* and of what is not open any more the cloud has, or has not, what it     *)
(* said.                                                                   *)
Gone(s, id) == \A j \in DOMAIN s.q : s.q[j].id # id
CalmThen(h, s) ==
    /\ Unruled(s.told)
    /\ LET f == handler[h] IN
       \A n \in DOMAIN f.rows : Gone(s, f.rows[n].id) => Took(f.said[n]) \/ ~Has(f.rows[n])
FromThen(c) == c.id > made \/ \E l \in DOMAIN queue["till"] : c = queue["till"][l]
FairThen(s) ==
    /\ Distinct(s.q) /\ InLine(s.q) /\ Stands(s.q, s.here, cloud)
    /\ \A k \in DOMAIN s.q : Starts(s.q[k], cloud) /\ Whole(s.q[k]) /\ FromThen(s.q[k])

(* What was sent is there: the change starts from it, or is made of it.    *)
LEMMA StartsAnew ==
  ASSUME NEW c \in Open, Starts(c, cloud), Whole(c), c.op # "delete", NEW row, row.data \in Data, c.sent = row.data,
         NEW answer, NEW m \in Open, m.data = c.data, m.st = c.st, Restarts(row, answer, c, m),
         Took(answer) => Ends(c, cloud), ~Took(answer) => ~Has(row), cloud \in Things
  PROVE  /\ Starts(m, cloud) /\ Whole(m)
         /\ \A now : Stands(<<c>>, now, cloud) => Stands(<<m>>, now, cloud)
         /\ c.op = "update" => m.op = "update"
<1>1. /\ c.op \in {"create", "update"} /\ c.data \in Data /\ c.base \in Data /\ c.sent \in Data /\ Absent \notin Data
      /\ c.st = "pending" /\ Absent \notin Vals /\ m.sent = Absent
  BY AbsentAssumption DEF Open, Ops, Starts, Restarts
<1>2. c.sent # Absent
  BY <1>1
<1>3. /\ Last(<<c>>) = c /\ Last(<<m>>) = m /\ <<c>> # <<>> /\ <<m>> # <<>>
  BY DEF Last
<1>4. Thing \subseteq Data
  BY DEF Thing, Data
<1>5. CASE Took(answer) /\ c.op = "create"
  <2>1. m.op = "update" /\ m.base = cloud /\ cloud = c.sent /\ cloud \in Thing /\ c.data \in Thing
    BY <1>1, <1>2, <1>5 DEF Restarts, Ends, Starts, Whole
  <2>2. Starts(m, cloud) /\ Whole(m)
    BY <1>1, <2>1 DEF Starts, Whole
  <2>3. Over(m.data, m.base) = c.data
    BY <2>1, OverWhole
  <2>4. cloud # Absent
    BY <1>1, <1>4, <2>1
  <2>5. \A now : Stands(<<c>>, now, cloud) => now = c.data
    BY <1>3, <1>5 DEF Stands
  <2>6. \A now : now = c.data => Stands(<<m>>, now, cloud)
    BY <1>3, <2>1, <2>3, <2>4 DEF Stands
  <2> QED BY <1>5, <2>2, <2>5, <2>6
<1>6. CASE Took(answer) /\ c.op = "update"
  <2>1. /\ m.op = "update" /\ m.base = Becoming(c) /\ cloud \in {Absent, Becoming(c)} /\ c.base \in Thing
    BY <1>1, <1>6 DEF Restarts, Ends, Starts, Becoming
  <2>2. m.base \in Thing
    BY <1>1, <2>1 DEF Thing, Data, Becoming, Over
  <2>3. Starts(m, cloud) /\ Whole(m)
    BY <1>1, <2>1, <2>2 DEF Starts, Whole
  <2>4. \A f \in Fields : c.sent[f] # Absent => c.data[f] # Absent
    BY <1>2 DEF Starts
  <2>5. Over(m.data, m.base) = Over(c.data, c.base)
    BY <1>1, <2>1, <2>4, OverAgain
  <2>6. \A now : Stands(<<c>>, now, cloud) => now = IF cloud = Absent THEN Absent ELSE Over(c.data, c.base)
    BY <1>3, <1>6 DEF Stands
  <2>7. \A now : now = (IF cloud = Absent THEN Absent ELSE Over(c.data, c.base)) => Stands(<<m>>, now, cloud)
    BY <1>3, <2>1, <2>5 DEF Stands
  <2> QED BY <2>1, <2>3, <2>6, <2>7
<1>7. CASE ~Took(answer)
  <2>1. m.op = c.op /\ m.base = c.base
    BY <1>7 DEF Restarts
  <2>2. cloud = row.data => cloud = Absent
    BY <1>7 DEF Has
  <2>3. cloud = Over(row.data, c.base) => cloud = Absent
    <3>1. ASSUME cloud = Over(row.data, c.base) PROVE \A f \in Keys(row) : cloud[f] = row.data[f]
      BY <3>1 DEF Over, Keys
    <3> QED BY <1>7, <3>1 DEF Has
  <2>4. c.op = "create" => cloud = Absent
    BY <1>1, <2>2 DEF Starts
  <2>5. c.op = "update" => c.base \in Thing /\ cloud \in {Absent, c.base}
    BY <2>3 DEF Starts, Becoming
  <2>6. Starts(m, cloud) /\ Whole(m)
    BY <1>1, <2>1, <2>4, <2>5 DEF Starts, Whole
  <2>7. \A now : Stands(<<c>>, now, cloud) <=> Stands(<<m>>, now, cloud)
    BY <1>3, <2>1 DEF Stands
  <2> QED BY <2>1, <2>6, <2>7
<1> QED BY <1>1, <1>5, <1>6, <1>7

LEMMA RenewFair ==
  ASSUME made \in Nat, NEW s \in TillStates, ToldIn(s), FairThen(s), NEW k \in DOMAIN s.q, NEW c, c = s.q[k],
         c.op # "delete", NEW row, row.data \in Data, c.sent = row.data,
         NEW answer, NEW m \in Open, NEW r \in TillStates, Renews(s, c, m, r), Restarts(row, answer, c, m),
         Took(answer) => Ends(c, cloud), ~Took(answer) => ~Has(row), cloud \in Things
  PROVE  FairThen(r)
<1>1. PICK q : q = s.q
  OBVIOUS
<1>2. PICK p : p = r.q
  OBVIOUS
<1>3. /\ q \in Seq(Open) /\ p \in Seq(Open) /\ Distinct(q) /\ InLine(q) /\ Stands(q, s.here, cloud) /\ s.made \in Nat
      /\ \A j \in DOMAIN q : Starts(q[j], cloud) /\ Whole(q[j]) /\ FromThen(q[j]) /\ q[j].id <= s.made
      /\ s.made >= made
  BY <1>1, <1>2 DEF TillStates, FairThen, ToldIn
<1>4. \A j \in DOMAIN q : q[j] \in Open /\ q[j].id \in Nat
  <2>1. \A j \in DOMAIN q : q[j] \in Open
    BY <1>3
  <2> QED BY <2>1 DEF Open
<1>5. /\ m.id = s.made + 1 /\ m.data = c.data /\ m.st = c.st /\ r.here = s.here
      /\ p = [j \in DOMAIN q |-> IF q[j].id = c.id THEN m ELSE q[j]]
  BY <1>1, <1>2 DEF Renews
<1>6. k \in DOMAIN q /\ c = q[k] /\ c \in Open
  BY <1>1, <1>4
<1>7. DOMAIN p = DOMAIN q /\ \A j \in DOMAIN q : p[j] = IF j = k THEN m ELSE q[j]
  BY <1>3, <1>5, <1>6 DEF Distinct
<1>8. /\ Starts(m, cloud) /\ Whole(m)
      /\ \A now : Stands(<<c>>, now, cloud) => Stands(<<m>>, now, cloud)
      /\ c.op = "update" => m.op = "update"
  BY <1>3, <1>5, <1>6, StartsAnew
<1>9. FromThen(m)
  BY <1>3, <1>5 DEF FromThen
<1>10. \A j \in DOMAIN p : Starts(p[j], cloud) /\ Whole(p[j]) /\ FromThen(p[j])
  BY <1>3, <1>7, <1>8, <1>9
<1>11. Distinct(p)
  BY <1>3, <1>4, <1>5, <1>7 DEF Distinct
<1>12. InLine(p)
  <2>1. SUFFICES ASSUME NEW i \in DOMAIN q, NEW j \in DOMAIN q, i < j
                 PROVE  p[i].op = "update" /\ p[j].op = "delete"
    BY <1>7 DEF InLine
  <2>2. q[i].op = "update" /\ q[j].op = "delete"
    BY <1>3, <2>1 DEF InLine
  <2>3. j # k /\ p[j] = q[j]
    BY <1>6, <1>7, <2>2
  <2>4. p[i].op = "update"
    BY <1>6, <1>7, <1>8, <2>2
  <2> QED BY <2>2, <2>3, <2>4
<1>13. Stands(p, s.here, cloud)
  <2>1. /\ q # <<>> /\ Len(q) \in DOMAIN q /\ Last(q) = q[Len(q)]
        /\ k # Len(q) => Last(q).op = "delete"
        /\ Last(q).op # "delete" => k = 1 /\ Len(q) = 1
    BY <1>3, <1>6, TwoAre
  <2>2. /\ p # <<>> /\ Len(p) = Len(q) /\ Last(p) = p[Len(q)]
    <3>1. PICK a \in Nat, b \in Nat : a = Len(p) /\ b = Len(q) /\ DOMAIN p = 1..a /\ DOMAIN q = 1..b
      BY <1>3
    <3>2. a = b
      <4>1. \A j : j \in 1..a <=> j \in 1..b
        BY <1>7, <3>1
      <4>2. (a # 0 => a \in 1..a /\ a \in 1..b) /\ (b # 0 => b \in 1..b /\ b \in 1..a)
        BY <3>1, <4>1
      <4> QED BY <3>1, <4>2
    <3> QED BY <2>1, <3>1, <3>2 DEF Last
  <2>3. CASE k # Len(q)
    BY <1>3, <1>7, <2>1, <2>2, <2>3 DEF Stands
  <2>4. CASE k = Len(q)
    <3>1. Last(q) = c /\ Last(p) = m
      BY <1>6, <1>7, <2>1, <2>2, <2>4
    <3>2. Last(<<c>>) = c /\ Last(<<m>>) = m /\ <<c>> # <<>> /\ <<m>> # <<>>
      BY DEF Last
    <3>3. \A now : Stands(q, now, cloud) => Stands(<<c>>, now, cloud)
      BY <2>1, <3>1, <3>2 DEF Stands
    <3>4. \A now : Stands(<<m>>, now, cloud) => Stands(p, now, cloud)
      BY <2>2, <3>1, <3>2 DEF Stands
    <3> QED BY <1>3, <1>8, <3>3, <3>4
  <2> QED BY <2>3, <2>4
<1> QED BY <1>2, <1>5, <1>10, <1>11, <1>12, <1>13 DEF FairThen

(* What the cloud has taken leaves, and it shows.                          *)
LEMMA DropFair ==
  ASSUME NEW s \in TillStates, FairThen(s), NEW k \in DOMAIN s.q, NEW c, c = s.q[k],
         c.sent = c.data, Ends(c, cloud), NEW r \in TillStates, Drops(s, c, r), r.here = s.here
  PROVE  FairThen(r)
<1>1. PICK q : q = s.q
  OBVIOUS
<1>2. PICK p : p = r.q
  OBVIOUS
<1>3. /\ q \in Seq(Open) /\ p \in Seq(Open) /\ Distinct(q) /\ InLine(q) /\ Stands(q, s.here, cloud)
      /\ \A j \in DOMAIN q : Starts(q[j], cloud) /\ Whole(q[j]) /\ FromThen(q[j])
  BY <1>1, <1>2 DEF TillStates, FairThen
<1>4. k \in DOMAIN q /\ c = q[k]
  BY <1>1
<1> DEFINE S == {x \in ToSet(q) : x.id # c.id}
<1>5. p = Those(q, S)
  BY <1>1, <1>2 DEF Drops, Without
<1>6. (\A x \in S : x.id # c.id) /\ \A j \in DOMAIN q : q[j].id # c.id => q[j] \in S
  BY <1>3 DEF ToSet
<1> HIDE DEF S
<1>7. /\ \A j \in DOMAIN p : p[j] \in S /\ \E l \in DOMAIN q : p[j] = q[l]
      /\ \A l \in DOMAIN q : q[l] \in S => \E j \in DOMAIN p : p[j] = q[l]
      /\ \A i, j \in DOMAIN p : i < j => \E l, n \in DOMAIN q : l < n /\ p[i] = q[l] /\ p[j] = q[n]
  BY <1>3, <1>5, ThoseKeeps
<1>8. InLine(p)
  <2>1. SUFFICES ASSUME NEW i \in DOMAIN p, NEW j \in DOMAIN p, i < j
                 PROVE  p[i].op = "update" /\ p[j].op = "delete"
    BY DEF InLine
  <2>2. PICK l \in DOMAIN q, n \in DOMAIN q : l < n /\ p[i] = q[l] /\ p[j] = q[n]
    BY <1>7, <2>1
  <2> QED BY <1>3, <2>2 DEF InLine
<1>9. Distinct(p)
  <2>1. ASSUME NEW i \in DOMAIN p, NEW j \in DOMAIN p, i < j PROVE p[i].id # p[j].id
    <3>1. PICK l \in DOMAIN q, n \in DOMAIN q : l < n /\ p[i] = q[l] /\ p[j] = q[n]
      BY <1>7, <2>1
    <3>2. l # n
      BY <1>3, <3>1
    <3> QED BY <1>3, <3>1, <3>2 DEF Distinct
  <2>2. \A i, j \in DOMAIN p : i < j \/ i = j \/ j < i
    BY <1>3
  <2> QED BY <2>1, <2>2 DEF Distinct
<1>10. \A j \in DOMAIN p : Starts(p[j], cloud) /\ Whole(p[j]) /\ FromThen(p[j])
  BY <1>3, <1>7
<1>11. /\ q # <<>> /\ Len(q) \in DOMAIN q /\ Last(q) = q[Len(q)]
       /\ \A l \in DOMAIN q : l # k => {q[k].op, q[l].op} = {"update", "delete"}
       /\ k # Len(q) => Last(q).op = "delete" /\ q[k].op = "update"
       /\ Last(q).op # "delete" => k = 1 /\ Len(q) = 1
  BY <1>3, <1>4, TwoAre
<1>12. c.sent # Absent /\ c.op \in Ops
  <2>1. q[k] \in Open
    BY <1>3, <1>4
  <2> QED BY <1>4, <2>1 DEF Ends, Open
<1>13. CASE p = <<>>
  <2>1. \A l \in DOMAIN q : q[l].id = c.id
    BY <1>13, <1>6, <1>7
  <2>2. Last(q) = c
    BY <1>3, <1>4, <1>11, <2>1 DEF Distinct
  <2>3. ASSUME c.op = "delete" PROVE Stands(p, s.here, cloud)
    BY <1>3, <1>11, <1>13, <2>2, <2>3 DEF Stands, Ends
  <2>4. ASSUME c.op = "create" PROVE Stands(p, s.here, cloud)
    BY <1>3, <1>11, <1>13, <2>2, <2>4 DEF Stands, Ends
  <2>5. ASSUME c.op = "update" PROVE Stands(p, s.here, cloud)
    BY <1>3, <1>11, <1>13, <2>2, <2>5 DEF Stands, Ends, Becoming
  <2>6. Stands(p, s.here, cloud)
    BY <1>12, <2>3, <2>4, <2>5 DEF Ops
  <2> QED BY <1>2, <1>8, <1>9, <1>10, <2>6 DEF FairThen
<1>14. CASE p # <<>>
  <2>1. Len(p) \in DOMAIN p /\ Last(p) = p[Len(p)]
    BY <1>3, <1>14 DEF Last
  <2>2. PICK l \in DOMAIN q : Last(p) = q[l] /\ q[l] \in S
    BY <1>7, <2>1
  <2>3. l # k
    BY <1>4, <1>6, <2>2
  <2>4. {q[k].op, q[l].op} = {"update", "delete"}
    BY <1>11, <2>3
  <2>5. Last(q).op = "delete"
    BY <1>11, <2>3, <2>4
  <2>6. s.here = Absent
    BY <1>3, <1>11, <2>5 DEF Stands
  <2>7. ASSUME q[l].op = "delete" PROVE Stands(p, s.here, cloud)
    BY <1>14, <2>2, <2>6, <2>7 DEF Stands
  <2>8. ASSUME q[l].op = "update" /\ c.op = "delete" PROVE Stands(p, s.here, cloud)
    BY <1>14, <2>2, <2>6, <2>8 DEF Stands, Ends
  <2>9. Stands(p, s.here, cloud)
    BY <1>4, <2>4, <2>7, <2>8
  <2> QED BY <1>2, <1>8, <1>9, <1>10, <2>9 DEF FairThen
<1> QED BY <1>13, <1>14

(* What an answer is not about stays open.                                 *)
LEMMA AnswerLeaves ==
  ASSUME NEW s \in TillStates, NEW row \in Open, NEW answer \in Answers, NEW r, r = Answered(s, row, answer),
         NEW l \in DOMAIN s.q, s.q[l].id # row.id
  PROVE  ~Gone(r, s.q[l].id)
<1>1. r \in TillStates /\ (r = s \/ \E k \in DOMAIN s.q : s.q[k].id = row.id /\ Comes(s, s.q[k], row, answer, r))
  BY AnsweredIs
<1>2. CASE r = s
  BY <1>2 DEF Gone
<1>3. ASSUME NEW k \in DOMAIN s.q, s.q[k].id = row.id, Comes(s, s.q[k], row, answer, r)
      PROVE  ~Gone(r, s.q[l].id)
  <2>1. PICK c : c = s.q[k]
    OBVIOUS
  <2>2. PICK q \in Seq(Open) : q = s.q
    BY DEF TillStates
  <2>3. c \in Open /\ q[l].id # c.id /\ l \in DOMAIN q
    BY <1>3, <2>2, <2>1
  <2>4. ASSUME NEW m \in Open, Renews(s, c, m, r) PROVE ~Gone(r, q[l].id)
    BY <2>2, <2>3, <2>4 DEF Renews, Gone
  <2>5. ASSUME Parks(s, c, r) PROVE ~Gone(r, q[l].id)
    <3>1. PICK d : d = [c EXCEPT !.st = "awaiting"]
      OBVIOUS
    <3>2. d.id = c.id
      BY <2>3, <3>1 DEF Open
    <3>3. r.q = Put(q, d)
      BY <2>2, <2>5, <3>1 DEF Parks
    <3>4. DOMAIN r.q = DOMAIN q /\ r.q[l] = q[l]
      BY <2>3, <3>2, <3>3 DEF Put
    <3> QED BY <2>3, <3>4 DEF Gone
  <2>6. ASSUME Drops(s, c, r) PROVE ~Gone(r, q[l].id)
    <3> DEFINE S == {x \in ToSet(q) : x.id # c.id}
    <3>1. r.q = Those(q, S)
      BY <2>2, <2>6 DEF Drops, Without
    <3>2. q[l] \in S
      BY <2>3 DEF ToSet
    <3> HIDE DEF S
    <3>3. PICK p : p = r.q
      OBVIOUS
    <3>4. \E j \in DOMAIN p : p[j] = q[l]
      BY <2>3, <3>1, <3>2, <3>3, ThoseKeeps
    <3> QED BY <3>3, <3>4 DEF Gone
  <2> QED BY <1>3, <2>1, <2>2, <2>4, <2>5, <2>6 DEF Comes
<1> QED BY <1>1, <1>2, <1>3

(* A request of the till that has all its answers.                         *)
Answering(h) == handler[h] # Absent /\ handler[h].from = "till" /\ handler[h].step = "end"
LEMMA AnsweringIs ==
  ASSUME IndInv, NEW h \in Slots, Answering(h)
  PROVE  /\ Awaited(h) /\ handler[h].rows \in Seq(Change) /\ handler[h].said \in Seq(Answers)
         /\ Len(handler[h].said) = Len(handler[h].rows)
         /\ \A n \in DOMAIN handler[h].rows : LET row == handler[h].rows[n] IN
               /\ row \in Change /\ row \in Open /\ row.id \in Ids /\ row.id \in Nat /\ row.id <= made
               /\ handler[h].said[n] \in Answers /\ n \in DOMAIN handler[h].said
<1>1. handler[h] \in Handler /\ Handled(h) /\ handler[h] # Absent
  BY PassNow, KindsNow DEF Answering
<1>2. /\ Awaited(h) /\ handler[h].rows \in Seq(Change) /\ handler[h].said \in Seq(Answers)
      /\ Len(handler[h].said) = Len(handler[h].rows)
      /\ \A n \in DOMAIN handler[h].rows : Known(handler[h].rows[n])
  BY <1>1 DEF Answering, Handler, Answers, Handled, Awaited
<1>3. ASSUME NEW n \in DOMAIN handler[h].rows
      PROVE  handler[h].rows[n] \in Change /\ handler[h].said[n] \in Answers /\ n \in DOMAIN handler[h].said
  <2>1. PICK a \in Seq(Change), b \in Seq(Answers) : a = handler[h].rows /\ b = handler[h].said /\ Len(b) = Len(a)
    BY <1>2
  <2>2. n \in DOMAIN a /\ n \in DOMAIN b
    BY <1>3, <2>1
  <2>3. a[n] \in Change /\ b[n] \in Answers
    BY <2>2
  <2> QED BY <2>1, <2>2, <2>3
<1>4. Change \subseteq Open /\ \A c \in Change : c.id \in Ids
  BY ChangeIsOpen DEF Change
<1>5. Ids \subseteq Nat
  BY BoundsAssumption DEF Ids
<1> QED BY <1>2, <1>3, <1>4, <1>5 DEF Known

LEMMA AnswerFair ==
  ASSUME IndInv, TillFair, NoneHeld, "mixed" \notin odd, NEW h \in Slots, Answering(h),
         NEW n \in DOMAIN handler[h].rows, NEW s \in TillStates, ToldIn(s), FairThen(s),
         NEW r, r = Answered(s, handler[h].rows[n], handler[h].said[n]), CalmThen(h, r)
  PROVE  FairThen(r)
<1>1. PICK row : row = handler[h].rows[n]
  OBVIOUS
<1>2. PICK answer : answer = handler[h].said[n]
  OBVIOUS
<1>3. /\ row \in Change /\ row \in Open /\ row.id \in Ids /\ row.id \in Nat /\ row.id <= made /\ answer \in Answers
      /\ n \in DOMAIN handler[h].said /\ Awaited(h) /\ made \in Nat /\ cloud \in Things /\ handler[h] # Absent
  BY <1>1, <1>2, AnsweringIs, KindsNow DEF CloudKinds, Answering
<1>4. answer # "awaiting"
  BY <1>2, <1>3 DEF NoneHeld
<1>5. r \in TillStates /\ (r = s \/ \E k \in DOMAIN s.q : s.q[k].id = row.id /\ Comes(s, s.q[k], row, answer, r))
  BY <1>1, <1>2, <1>3, AnsweredIs
<1>6. SUFFICES ASSUME NEW k \in DOMAIN s.q, s.q[k].id = row.id, Comes(s, s.q[k], row, answer, r)
               PROVE  FairThen(r)
  BY <1>5
<1>7. PICK c : c = s.q[k]
  OBVIOUS
<1>8. PICK q \in Seq(Open) : q = s.q
  BY DEF TillStates
<1>9. c \in Open /\ c.id = row.id /\ Distinct(q) /\ s.made \in Nat /\ s.made >= made
  BY <1>6, <1>8, <1>7 DEF FairThen, TillStates, ToldIn
<1>10. PICK l \in DOMAIN queue["till"] : c = queue["till"][l]
  BY <1>7, <1>3, <1>9 DEF FairThen, FromThen
<1>11. SameAs(row, c) /\ Fresh(row, c)
  BY <1>1, <1>3, <1>9, <1>10 DEF IndInv, ChangesInv, EditsInv, AsFirstSent, OnTheWay
<1>12. Took(answer) => Ends(c, cloud)
  <2>1. SUFFICES ASSUME Took(answer) PROVE Ends(c, cloud)
    OBVIOUS
  <2>2. TakenBy(h, c.id)
    BY <1>1, <1>2, <1>3, <1>9, <2>1 DEF TakenBy
  <2>3. Agreed(c) /\ Taken(c.id)
    BY <1>10, <2>2 DEF TillFair, Taken
  <2> QED BY <2>3 DEF Agreed
<1>13. c.sent = row.data /\ c.op = row.op /\ row.data \in Data
  BY <1>3, <1>11 DEF SameAs, Change
<1>14. Gone(r, c.id) => Took(answer) \/ ~Has(row)
  BY <1>1, <1>2, <1>9 DEF CalmThen
<1>15. ASSUME c.at # row.at, NEW m \in Open, Renews(s, c, m, r), Restarts(row, answer, c, m) PROVE FairThen(r)
  <2>1. c.op # "delete"
    BY <1>9, <1>11, <1>15 DEF Fresh
  <2>2. Gone(r, c.id)
    <3>1. m.id = s.made + 1 /\ r.q = [j \in DOMAIN q |-> IF q[j].id = c.id THEN m ELSE q[j]]
      BY <1>8, <1>15 DEF Renews
    <3>2. m.id # c.id
      BY <1>3, <1>9, <3>1
    <3> QED BY <3>1, <3>2 DEF Gone
  <2> QED BY <1>3, <1>5, <1>7, <1>12, <1>13, <1>14, <1>15, <2>1, <2>2, RenewFair
<1>16. ASSUME c.at = row.at, answer \notin {"later", "awaiting"}, NEW as, as = (IF Took(answer) THEN "done" ELSE "refused"),
              Drops(s, c, r), TellsOf(s, c, as, r) PROVE FairThen(r)
  <2>1. Took(answer)
    <3>1. SUFFICES ASSUME ~Took(answer) PROVE FALSE
      OBVIOUS
    <3>2. r.told[c.id] = "refused"
      BY <1>3, <1>9, <1>16, <3>1 DEF TellsOf
    <3> QED BY <1>3, <1>9, <3>2 DEF CalmThen, Unruled
  <2>2. r.here = s.here
    BY <1>16, <2>1 DEF TellsOf
  <2>3. c.sent = c.data
    BY <1>9, <1>11, <1>13, <1>16 DEF Fresh
  <2> QED BY <1>5, <1>7, <1>12, <1>16, <2>1, <2>2, <2>3, DropFair
<1> QED BY <1>4, <1>6, <1>7, <1>15, <1>16 DEF Comes

(* Of an id not used yet the cloud knows nothing.                          *)
LEMMA NewIsNotTaken ==
  ASSUME IndInv, NEW id \in Ids, id > made
  PROVE  ~Taken(id) /\ request[id].st = "none"
<1>1. made \in Nat /\ id \in Nat
  BY KindsNow, BoundsAssumption DEF Ids
<1>2. request[id].st = "none"
  BY <1>1, KindsNow DEF CloudKinds
<1>3. ASSUME NEW o \in Slots, TakenBy(o, id) PROVE FALSE
  <2>1. handler[o] # Absent /\ handler[o] \in Handler /\ Handled(o)
    BY <1>3, PassNow, KindsNow DEF TakenBy
  <2>2. CASE handler[o].step = "record" /\ Now(o).id = id
    BY <2>1, <2>2, AtIs, <1>1 DEF At, Known
  <2>3. CASE \E j \in DOMAIN handler[o].said : handler[o].rows[j].id = id
    <3>1. PICK j \in DOMAIN handler[o].said : handler[o].rows[j].id = id
      BY <2>3
    <3>2. PICK a, b : a = handler[o].rows /\ b = handler[o].said
      OBVIOUS
    <3>3. a \in Seq(Change) /\ b \in Seq(Answers) /\ Len(b) <= Len(a)
      BY <2>1, <3>2 DEF Handler, Answers, Handled
    <3>4. j \in DOMAIN a
      BY <3>1, <3>2, <3>3
    <3>5. handler[o].rows[j].id <= made
      BY <2>1, <3>2, <3>4 DEF Handled, Known
    <3> QED BY <1>1, <3>1, <3>5
  <2> QED BY <1>3, <2>2, <2>3 DEF TakenBy
<1> QED BY <1>2, <1>3 DEF Taken, Took

(* A change not open any more had an answer.                               *)
Stays(h, s) == \A l \in DOMAIN queue["till"] : Gone(s, queue["till"][l].id) =>
    \E n \in DOMAIN handler[h].rows : handler[h].rows[n].id = queue["till"][l].id

(* All the answers to a request of the till.                               *)
LEMMA AllAnswersFair ==
  ASSUME IndInv, AlarmInv, NEW h \in Slots, Answering(h), NEW r, r = AllAnswered(TillNow, EachOf(handler[h]))
  PROVE  /\ r \in TillStates /\ ToldIn(r) /\ Stays(h, r)
         /\ Calm /\ FairInv /\ CalmThen(h, r) => FairThen(r)
<1> DEFINE each == EachOf(handler[h])
           rows == handler[h].rows
           said == handler[h].said
           T == {s \in TillStates : /\ ToldIn(s) /\ Stays(h, s)
                                    /\ Calm /\ FairInv /\ CalmThen(h, s) => FairThen(s)}
<1>1. TillNow \in TillStates /\ ToldIn(TillNow) /\ made \in Nat
  BY ToldNow DEF AlarmInv
<1>2. /\ rows \in Seq(Change) /\ said \in Seq(Answers) /\ Len(said) = Len(rows)
      /\ \A n \in DOMAIN rows : /\ rows[n] \in Open /\ rows[n].id \in Nat /\ rows[n].id <= made /\ said[n] \in Answers
  BY AnsweringIs
<1>3. each = [k \in DOMAIN rows |-> <<rows[k], said[k]>>]
  BY DEF EachOf
<1>4. TillNow.q = queue["till"] /\ TillNow.here = here
  BY DEF TillNow
<1>5. TillNow \in T
  <2>1. Stays(h, TillNow)
    BY <1>4 DEF Stays, Gone
  <2>2. ASSUME FairInv PROVE FairThen(TillNow)
    <3>1. TillFair
      BY <2>2 DEF FairInv
    <3>2. /\ Distinct(queue["till"]) /\ InLine(queue["till"])
          /\ \A k \in DOMAIN queue["till"] : Whole(queue["till"][k])
      BY <3>1, LineIs
    <3>3. \A k \in DOMAIN queue["till"] : Starts(queue["till"][k], cloud)
      BY <3>1 DEF TillFair, Agreed
    <3>4. Stands(queue["till"], here, cloud)
      BY <3>1 DEF TillFair
    <3> QED BY <1>4, <3>2, <3>3, <3>4 DEF FairThen, FromThen
  <2> QED BY <1>1, <2>1, <2>2
<1> HIDE DEF each, rows, said
<1>6. PICK n : n = Len(rows)
  OBVIOUS
<1>7. each \in Seq(Open \X Answers) /\ Len(each) = n /\ \A k \in 1..n : each[k] = <<rows[k], said[k]>>
  <2>1. PICK a \in Seq(Open), b \in Seq(Answers) : a = rows /\ b = said
    BY <1>2, ChangeIsOpen
  <2>2. PICK e : e = each
    OBVIOUS
  <2>3. Len(b) = Len(a) /\ e = [k \in DOMAIN a |-> <<a[k], b[k]>>]
    BY <1>2, <1>3, <2>1, <2>2
  <2>4. e \in Seq(Open \X Answers) /\ Len(e) = Len(a) /\ \A k \in 1..Len(a) : e[k] = <<a[k], b[k]>>
    BY <2>3, EachIs
  <2> QED BY <1>6, <2>1, <2>2, <2>4
<1>8. n \in Nat /\ DOMAIN rows = 1..n
  BY <1>2, <1>6
<1>9. PICK t : Steps(AnswerIn, TillNow, each, n, TillStates, t, r)
  BY <1>1, <1>7, AnsweredSteps DEF each
<1>10. ASSUME NEW k \in 1..n, NEW s \in TillStates \cap T
       PROVE  AnswerIn[<<s, each[k]>>] \in T
  <2>1. PICK row \in Open, answer \in Answers : row = rows[k] /\ answer = said[k] /\ row.id <= made
    BY <1>2, <1>8
  <2>2. <<s, <<row, answer>>>> \in TillStates \X (Open \X Answers) /\ each[k] = <<row, answer>>
    BY <1>7, <2>1
  <2>3. AnswerIn[<<s, each[k]>>] = Answered(s, row, answer)
    BY <2>2 DEF AnswerIn
  <2>4. PICK x : x = Answered(s, row, answer)
    OBVIOUS
  <2>5. s \in TillStates /\ ToldIn(s) /\ Stays(h, s) /\ (Calm /\ FairInv /\ CalmThen(h, s) => FairThen(s))
    OBVIOUS
  <2> HIDE DEF T
  <2>6. x \in TillStates
    BY <2>4, <2>5, AnsweredIs
  <2>7. ToldIn(x) /\ Further(s, x)
    BY <1>1, <2>4, <2>5, ToldAnswers
  <2>8. k \in DOMAIN rows
    BY <1>8
  <2>9. Stays(h, x)
    <3>1. SUFFICES ASSUME NEW l \in DOMAIN queue["till"], Gone(x, queue["till"][l].id)
                   PROVE  \E i \in DOMAIN rows : rows[i].id = queue["till"][l].id
      BY DEF Stays, rows
    <3>2. CASE Gone(s, queue["till"][l].id)
      BY <2>5, <3>2 DEF Stays, rows
    <3>3. CASE ~Gone(s, queue["till"][l].id)
      <4>1. PICK j \in DOMAIN s.q : s.q[j].id = queue["till"][l].id
        BY <3>3 DEF Gone
      <4>2. s.q[j].id = row.id
        BY <2>4, <2>5, <3>1, <4>1, AnswerLeaves
      <4> QED BY <2>1, <2>8, <4>1, <4>2
    <3> QED BY <3>2, <3>3
  <2>10. ASSUME Calm, FairInv, CalmThen(h, x) PROVE FairThen(x)
    <3>1. \A i \in Ids : s.told[i] \in {"refused", "rejected"} => x.told[i] = s.told[i]
      BY <2>7 DEF Further
    <3>2. Unruled(s.told)
      BY <2>10, <3>1 DEF CalmThen, Unruled
    <3>3. \A i \in DOMAIN rows : Gone(s, rows[i].id) => Gone(x, rows[i].id)
      <4>1. SUFFICES ASSUME NEW i \in DOMAIN rows, Gone(s, rows[i].id), NEW j \in DOMAIN x.q, x.q[j].id = rows[i].id
                     PROVE  FALSE
        BY DEF Gone
      <4>2. x.q[j].id > made
        BY <2>7, <4>1 DEF Further, Gone
      <4>3. PICK a \in Nat : a = rows[i].id /\ a <= made
        BY <1>2
      <4> QED BY <1>1, <4>1, <4>2, <4>3
    <3>4. CalmThen(h, s)
      BY <2>10, <3>2, <3>3 DEF CalmThen, rows
    <3>5. FairThen(s)
      BY <2>5, <2>10, <3>4
    <3>6. TillFair /\ NoneHeld /\ "mixed" \notin odd
      BY <2>10 DEF FairInv, Calm
    <3>7. x = Answered(s, handler[h].rows[k], handler[h].said[k]) /\ k \in DOMAIN handler[h].rows
      BY <2>1, <2>4, <2>8 DEF rows, said
    <3> QED BY <2>5, <2>10, <3>5, <3>6, <3>7, AnswerFair
  <2>11. x \in T
    BY <2>6, <2>7, <2>9, <2>10 DEF T
  <2> QED BY <2>3, <2>4, <2>11
<1> HIDE DEF T
<1>11. r \in T
  BY <1>5, <1>8, <1>9, <1>10, Along
<1> QED BY <1>11 DEF T

LEMMA AnswerAlarm ==
  ASSUME IndInv, AlarmInv, NEW h \in Slots, Hear(h), handler[h].from = "till"
  PROVE  AlarmInv'
<1> DEFINE rows == handler[h].rows
           Q == queue["till"]
<1>1. /\ Answering(h) /\ handler' = [handler EXCEPT ![h] = Absent]
      /\ UNCHANGED <<known, cloud, request, webs>>
  BY DEF Hear, At, Answering
<1>2. PICK r : r = AllAnswered(TillNow, EachOf(handler[h]))
  OBVIOUS
<1>3. TillBecomes(r) /\ odd' = odd \cup OddAnswers(h, queue'["till"])
  BY <1>2 DEF Hear, EachOf
<1>4. /\ r \in TillStates /\ ToldIn(r) /\ Stays(h, r)
      /\ Calm /\ FairInv /\ CalmThen(h, r) => FairThen(r)
  BY <1>1, <1>2, AllAnswersFair
<1>5. ToldOnce' /\ (Calm' => Calm) /\ queue'["till"] = r.q /\ queue'["server"] = queue["server"]
  BY <1>1, <1>3, <1>4, ToldThen DEF AlarmInv
<1>6. SUFFICES ASSUME Calm' PROVE FairInv'
  BY <1>5 DEF AlarmInv
<1>7. Calm /\ FairInv /\ TillFair /\ AllStem /\ (\A o \in Slots : JudgesWell(o)) /\ NoneHeld
  BY <1>5, <1>6 DEF AlarmInv, FairInv
<1>8. odd' = odd \cup OddAnswers(h, r.q) /\ "half" \notin odd' /\ "copied" \notin odd'
  BY <1>3, <1>5, <1>6 DEF Calm
<1>9. ASSUME NEW n \in DOMAIN rows, Gone(r, rows[n].id)
      PROVE  /\ Took(handler[h].said[n]) \/ ~Has(rows[n])
             /\ request[rows[n].id].st = "none" => ~Copied(h, rows[n].id)
  BY <1>9, <1>8 DEF Gone, OddAnswers
<1>10. CalmThen(h, r)
  BY <1>1, <1>3, <1>6, <1>9 DEF Calm, Unruled, TillBecomes, CalmThen
<1>11. /\ Distinct(r.q) /\ InLine(r.q) /\ Stands(r.q, r.here, cloud)
       /\ \A k \in DOMAIN r.q : Starts(r.q[k], cloud) /\ FromThen(r.q[k])
  BY <1>4, <1>7, <1>10 DEF FairThen
<1>12. \A o \in Slots : handler'[o] # Absent => handler'[o] = handler[o] /\ o # h
  BY <1>1, PassNow
<1>13. ASSUME NEW id, Taken(id)' PROVE Taken(id)
  <2>1. CASE Took(request'[id].st)
    BY <1>1, <2>1 DEF Taken
  <2>2. CASE \E o \in Slots : TakenBy(o, id)'
    <3>1. PICK o \in Slots : TakenBy(o, id)'
      BY <2>2
    <3>2. handler'[o] = handler[o] /\ Now(o)' = Now(o)
      BY <1>12, <3>1 DEF TakenBy, Now
    <3>3. TakenBy(o, id)
      BY <3>1, <3>2 DEF TakenBy
    <3> QED BY <3>3 DEF Taken
  <2> QED BY <1>13, <2>1, <2>2 DEF Taken
<1>14. \A k \in DOMAIN r.q : r.q[k].id \in Ids
  <2>1. TypeOK'
    BY HearKeeps DEF IndInv, ChangesInv, Types
  <2>2. PICK p : p = queue'["till"]
    OBVIOUS
  <2>3. p \in Seq(Change)
    BY <2>1, <2>2 DEF TypeOK, Senders
  <2>4. \A k \in DOMAIN p : p[k] \in Change
    BY <2>3
  <2> QED BY <1>5, <2>2, <2>4 DEF Change
<1>15. TillFair'
  <2>1. ASSUME NEW k \in DOMAIN r.q PROVE Agreed(queue["till"][k])'
    <3>1. PICK c : c = r.q[k]
      OBVIOUS
    <3>2. Starts(c, cloud) /\ FromThen(c) /\ c.id \in Ids
      BY <1>11, <1>14, <2>1, <3>1
    <3>3. Taken(c.id) => Ends(c, cloud)
      <4>1. CASE c.id > made
        BY <3>2, <4>1, NewIsNotTaken
      <4>2. CASE \E l \in DOMAIN queue["till"] : c = queue["till"][l]
        BY <1>7, <4>2 DEF TillFair, Agreed
      <4> QED BY <3>2, <4>1, <4>2 DEF FromThen
    <3>4. PICK id : id = c.id
      OBVIOUS
    <3>5. Taken(id)' => Ends(c, cloud)
      BY <1>13, <3>3, <3>4
    <3>6. Starts(c, cloud') /\ (Taken(id)' => Ends(c, cloud'))
      BY <1>1, <3>2, <3>5
    <3>7. c = queue'["till"][k]
      BY <1>5, <3>1
    <3> QED BY <3>4, <3>6, <3>7 DEF Agreed
  <2>2. here' = r.here
    BY <1>3 DEF TillBecomes
  <2> QED BY <1>1, <1>5, <1>11, <2>1, <2>2 DEF TillFair
<1>16. \A k \in DOMAIN Q : ~Gone(r, Q[k].id) => \E j \in DOMAIN r.q : r.q[j] = Q[k]
  <2>1. SUFFICES ASSUME NEW k \in DOMAIN Q, ~Gone(r, Q[k].id) PROVE \E j \in DOMAIN r.q : r.q[j] = Q[k]
    OBVIOUS
  <2>2. PICK j \in DOMAIN r.q : r.q[j].id = Q[k].id
    BY <2>1 DEF Gone
  <2>3. Distinct(Q) /\ Q[k].id \in 1..made /\ made \in Nat
    BY <1>7, LineIs, KindsNow
  <2>4. ~(r.q[j].id > made)
    BY <2>2, <2>3
  <2>5. PICK l \in DOMAIN Q : r.q[j] = Q[l]
    BY <1>11, <2>4 DEF FromThen
  <2>6. l = k
    BY <2>2, <2>3, <2>5 DEF Distinct
  <2> QED BY <2>5, <2>6
<1>17. ASSUME NEW x, Stems(x), x.id \in known \/ \E o \in Slots \ {h} : handler[o] # Absent /\ \E j \in DOMAIN handler[o].rows : x = handler[o].rows[j]
       PROVE  Stems(x)'
  <2>1. SUFFICES ASSUME request[x.id].st = "none"
                 PROVE  \E k \in DOMAIN r.q : r.q[k].id = x.id /\ r.q[k].base = x.base
    BY <1>1, <1>5 DEF Stems
  <2>2. PICK k \in DOMAIN Q : Q[k].id = x.id /\ Q[k].base = x.base
    BY <1>17, <2>1 DEF Stems
  <2>3. Copied(h, x.id)
    BY <1>17 DEF Copied
  <2>4. ~Gone(r, x.id)
    <3>1. SUFFICES ASSUME Gone(r, x.id) PROVE FALSE
      OBVIOUS
    <3>2. PICK n \in DOMAIN rows : rows[n].id = x.id
      BY <1>4, <2>2, <3>1 DEF Stays
    <3> QED BY <1>9, <2>1, <2>3, <3>1, <3>2
  <2> QED BY <1>16, <2>2, <2>4
<1>18. AllStem'
  <2>1. ASSUME NEW j \in DOMAIN queue'["server"] PROVE Stems(queue["server"][j])' /\ queue'["server"][j].id \in known'
    <3>1. PICK x : x = queue["server"][j]
      OBVIOUS
    <3>2. Stems(x) /\ x.id \in known
      BY <1>5, <1>7, <2>1, <3>1 DEF AllStem
    <3>3. Stems(x)'
      BY <1>17, <3>2
    <3>4. queue'["server"][j] = x
      BY <1>5, <3>1
    <3> QED BY <1>1, <3>2, <3>3, <3>4 DEF Stems
  <2>2. ASSUME NEW o \in Slots, handler'[o] # Absent, NEW j \in DOMAIN handler'[o].rows PROVE Stems(handler[o].rows[j])'
    <3>1. handler'[o] = handler[o] /\ o # h /\ handler[o] # Absent
      BY <1>12, <2>2
    <3>2. PICK x : x = handler[o].rows[j]
      OBVIOUS
    <3>3. Stems(x) /\ j \in DOMAIN handler[o].rows
      BY <1>7, <2>2, <3>1, <3>2 DEF AllStem
    <3>4. Stems(x)'
      BY <1>17, <3>1, <3>2, <3>3
    <3>5. handler'[o].rows[j] = x
      BY <3>1, <3>2
    <3> QED BY <3>4, <3>5 DEF Stems
  <2> QED BY <2>1, <2>2 DEF AllStem
<1>19. \A o \in Slots : JudgesWell(o)'
  BY <1>12, <1>1, <1>7 DEF Busy, Now, JudgesWell
<1>20. NoneHeld'
  BY <1>1, <1>7, <1>12 DEF NoneHeld
<1> QED BY <1>15, <1>18, <1>19, <1>20 DEF FairInv

LEMMA HearAlarm ==
  ASSUME IndInv, AlarmInv, NEW h \in Slots, Hear(h)
  PROVE  AlarmInv'
<1>1. handler[h].from \in Senders
  BY PassNow, KindsNow DEF Hear, At, Handler
<1> QED BY <1>1, AnswerAlarm, ForwardAlarm DEF Senders

-----------------------------------------------------------------------------
(* Edits at the till.                                                      *)

(* What is open may be edited or followed, but is not lost once it went    *)
(* out.                                                                    *)
LEMMA EditAlarm ==
  ASSUME IndInv, IndInv', AlarmInv, UNCHANGED <<told, known, cloud, request, handler, webs>>, odd \subseteq odd', made' >= made,
         queue'["server"] = queue["server"], NEW p, p = queue'["till"],
         \A j \in DOMAIN p : p[j].id > made \/ \E k \in DOMAIN queue["till"] : queue["till"][k].id = p[j].id,
         Calm' /\ FairInv =>
             /\ \A k \in DOMAIN queue["till"] :
                   \/ queue["till"][k].sent = Absent
                   \/ \E j \in DOMAIN p : p[j].id = queue["till"][k].id /\ p[j].base = queue["till"][k].base
             /\ \A j \in DOMAIN p : Starts(p[j], cloud) /\ (p[j].id > made \/ (Taken(p[j].id) => Ends(p[j], cloud)))
             /\ Stands(p, here', cloud)
  PROVE  AlarmInv'
<1>1. /\ TypeOK /\ made \in Nat /\ made' \in Nat /\ Ids \subseteq Nat /\ Absent \notin Data
  <2>1. TypeOK' /\ made' \in 0..edits' /\ edits' \in 0..MaxEdits
    BY DEF IndInv, ChangesInv, Types, TypeOK
  <2> QED BY <2>1, KindsNow, BoundsAssumption, AbsentAssumption DEF Ids
<1>2. ToldOnce'
  <2>1. SUFFICES ASSUME NEW i \in Ids, told[i] # "none" PROVE i <= made' /\ \A j \in DOMAIN p : p[j].id # i
    BY DEF ToldOnce
  <2>2. i <= made /\ \A k \in DOMAIN queue["till"] : queue["till"][k].id # i
    BY <2>1 DEF AlarmInv, ToldOnce
  <2>3. i \in Nat /\ ~(i > made) /\ i <= made'
    BY <1>1, <2>2
  <2> QED BY <2>2, <2>3
<1>3. SUFFICES ASSUME Calm' PROVE FairInv'
  BY <1>2 DEF AlarmInv
<1>4. Calm /\ FairInv /\ AllStem /\ (\A o \in Slots : JudgesWell(o)) /\ NoneHeld
  BY <1>3 DEF AlarmInv, Calm, Unruled, FairInv
<1>5. /\ \A k \in DOMAIN queue["till"] :
            \/ queue["till"][k].sent = Absent
            \/ \E j \in DOMAIN p : p[j].id = queue["till"][k].id /\ p[j].base = queue["till"][k].base
      /\ \A j \in DOMAIN p : Starts(p[j], cloud) /\ (p[j].id > made \/ (Taken(p[j].id) => Ends(p[j], cloud)))
      /\ Stands(p, here', cloud)
  BY <1>3, <1>4
<1>6. \A o \in Slots : Now(o)' = Now(o)
  BY DEF Now
<1>7. \A id : Taken(id)' => Taken(id)
  BY <1>6 DEF Taken, TakenBy
<1>8. \A j \in DOMAIN p : p[j].id \in Ids
  <2>1. queue'["till"] \in Seq(Change)
    BY DEF IndInv, ChangesInv, Types, TypeOK, Senders
  <2>2. \A j \in DOMAIN p : p[j] \in Change
    BY <2>1
  <2> QED BY <2>2 DEF Change
<1>9. TillFair'
  <2>1. ASSUME NEW j \in DOMAIN p PROVE Agreed(queue["till"][j])'
    <3>1. PICK c : c = p[j]
      OBVIOUS
    <3>2. PICK id : id = c.id
      OBVIOUS
    <3>3. Taken(id) => Ends(c, cloud)
      BY <1>5, <1>8, <2>1, <3>1, <3>2, NewIsNotTaken
    <3>4. Starts(c, cloud') /\ (Taken(id)' => Ends(c, cloud'))
      BY <1>5, <1>7, <2>1, <3>1, <3>3
    <3>5. c = queue'["till"][j]
      BY <3>1
    <3> QED BY <3>2, <3>4, <3>5 DEF Agreed
  <2> QED BY <1>5, <2>1 DEF TillFair
<1>10. ASSUME NEW x, Stems(x), \A c \in Change : c.id = x.id /\ (\E k \in DOMAIN queue["till"] : c = queue["till"][k]) => c.sent # Absent
       PROVE  Stems(x)'
  <2>1. SUFFICES ASSUME request[x.id].st = "none"
                 PROVE  \E j \in DOMAIN p : p[j].id = x.id /\ p[j].base = x.base
    BY DEF Stems
  <2>2. PICK k \in DOMAIN queue["till"] : queue["till"][k].id = x.id /\ queue["till"][k].base = x.base
    BY <1>10, <2>1 DEF Stems
  <2>3. queue["till"][k] \in Change
    BY <1>1, <2>2 DEF TypeOK, Senders
  <2>4. queue["till"][k].sent # Absent
    BY <1>10, <2>2, <2>3
  <2> QED BY <1>5, <2>2, <2>4
<1>11. AsFirstSent
  BY <1>4 DEF IndInv, EditsInv, Calm
<1>12. ASSUME NEW j \in DOMAIN queue["server"], NEW x, x = queue["server"][j] PROVE Stems(x)'
  <2>1. x \in Change
    <3>1. queue["server"] \in Seq(Change)
      BY <1>1 DEF TypeOK, Senders
    <3>2. queue["server"][j] \in Change
      BY <1>12, <3>1
    <3> QED BY <1>12, <3>2
  <2>2. x.data # Absent
    BY <1>1, <2>1 DEF Change
  <2>3. \A k \in DOMAIN queue["till"] : queue["till"][k].id = x.id => queue["till"][k].sent # Absent
    BY <1>11, <1>12, <2>2 DEF AsFirstSent, SameAs
  <2>4. Stems(x)
    BY <1>4, <1>12 DEF AllStem
  <2> QED BY <1>10, <2>3, <2>4
<1>13. ASSUME NEW o \in Slots, handler[o] # Absent, NEW j \in DOMAIN handler[o].rows, NEW x, x = handler[o].rows[j] PROVE Stems(x)'
  <2>1. x \in Change
    <3>1. handler[o] \in Handler
      BY <1>13, PassNow
    <3>2. handler[o].rows \in Seq(Change)
      BY <3>1 DEF Handler
    <3>3. handler[o].rows[j] \in Change
      BY <1>13, <3>2
    <3> QED BY <1>13, <3>3
  <2>2. x.data # Absent
    BY <1>1, <2>1 DEF Change
  <2>3. \A k \in DOMAIN queue["till"] : queue["till"][k].id = x.id => queue["till"][k].sent # Absent
    BY <1>11, <1>13, <2>2 DEF AsFirstSent, SameAs
  <2>4. Stems(x)
    BY <1>4, <1>13 DEF AllStem
  <2> QED BY <1>10, <2>3, <2>4
<1>14. AllStem'
  <2>1. ASSUME NEW j \in DOMAIN queue'["server"] PROVE Stems(queue["server"][j])' /\ queue'["server"][j].id \in known'
    <3>1. PICK x : x = queue["server"][j]
      OBVIOUS
    <3>2. Stems(x)' /\ x.id \in known
      BY <1>4, <1>12, <2>1, <3>1 DEF AllStem
    <3>3. queue'["server"][j] = x
      BY <3>1
    <3> QED BY <3>2, <3>3 DEF Stems
  <2>2. ASSUME NEW o \in Slots, handler'[o] # Absent, NEW j \in DOMAIN handler'[o].rows PROVE Stems(handler[o].rows[j])'
    <3>1. PICK x : x = handler[o].rows[j]
      OBVIOUS
    <3>2. Stems(x)'
      BY <1>13, <2>2, <3>1
    <3>3. handler'[o].rows[j] = x
      BY <3>1
    <3> QED BY <3>2, <3>3 DEF Stems
  <2> QED BY <2>1, <2>2 DEF AllStem
<1>15. \A o \in Slots : JudgesWell(o)'
  BY <1>4, <1>6 DEF JudgesWell, Busy
<1>16. NoneHeld'
  BY <1>4 DEF NoneHeld
<1> QED BY <1>9, <1>14, <1>15, <1>16 DEF FairInv

(* A change of its own.                                                    *)
LEMMA RecordedIs ==
  ASSUME IndInv, NEW op, NEW base, NEW data, Recorded(op, base, data), NEW q, q = queue["till"],
         NEW c, c = NewChange(op, base, data), NEW p, p = queue'["till"]
  PROVE  /\ p = Append(q, c) /\ queue'["server"] = queue["server"] /\ made' = made + 1 /\ made' >= made
         /\ q \in Seq(Change) /\ c.id = made + 1 /\ c.id > made /\ c.st = "pending" /\ c.sent = Absent
         /\ c.op = op /\ c.base = base /\ c.data = data
<1>1. /\ TypeOK /\ made \in Nat /\ made' = made + 1 /\ queue' = [queue EXCEPT !["till"] = Append(q, c)]
  BY KindsNow DEF Recorded, Queued
<1>2. queue'["till"] = Append(q, c) /\ queue'["server"] = queue["server"] /\ q \in Seq(Change)
  <2> DEFINE Qs == Seq(Change)
  <2>1. queue \in [Senders -> Qs]
    BY <1>1 DEF TypeOK
  <2> HIDE DEF Qs
  <2>2. queue'["till"] = Append(q, c) /\ queue'["server"] = queue["server"] /\ q \in Qs
    BY <1>1, <2>1 DEF Senders
  <2> QED BY <2>2 DEF Qs
<1> QED BY <1>1, <1>2 DEF NewChange

LEMMA CreateAlarm ==
  ASSUME IndInv, AlarmInv, NEW row \in Thing, Create(row)
  PROVE  AlarmInv'
<1>1. /\ edits = 0 /\ cloud = Absent /\ here' = row /\ odd \subseteq odd' /\ Recorded("create", Unset, row)
      /\ UNCHANGED <<told, known, cloud, request, handler, webs>>
  BY DEF Create, AtTill, cloudside
<1>2. PICK c : c = NewChange("create", Unset, row)
  OBVIOUS
<1>3. PICK p : p = queue'["till"]
  OBVIOUS
<1>4. PICK q : q = queue["till"]
  OBVIOUS
<1>5. /\ p = Append(q, c) /\ queue'["server"] = queue["server"] /\ made' >= made
      /\ c.id > made /\ c.st = "pending" /\ c.sent = Absent /\ c.op = "create" /\ c.data = row
  BY <1>1, <1>2, <1>3, <1>4, RecordedIs
<1>6. q = <<>>
  BY <1>1, <1>4, NothingWaits DEF Senders
<1>7. p # <<>> /\ Last(p) = c /\ \A j \in DOMAIN p : p[j] = c
  BY <1>5, <1>6 DEF Last
<1>8. Starts(c, cloud)
  BY <1>1, <1>5 DEF Starts
<1>9. Stands(p, here', cloud)
  BY <1>1, <1>5, <1>7 DEF Stands
<1>10. DOMAIN q = {}
  BY <1>6
<1> QED BY <1>1, <1>3, <1>4, <1>5, <1>7, <1>8, <1>9, <1>10, CreateKeeps, EditAlarm

(* What is joined changes its values alone.                                *)
LEMMA JoinAlarm ==
  ASSUME IndInv, AlarmInv, NEW f \in Fields, NEW v \in Vals, Alter(f, v), Joins
  PROVE  AlarmInv'
<1>1. /\ here # Absent /\ here' = [here EXCEPT ![f] = v] /\ odd' = odd /\ made' = made /\ TypeOK
      /\ UNCHANGED <<told, known, cloud, request, handler, webs>>
      /\ edits' = edits + 1 /\ edits < MaxEdits /\ edits \in Nat /\ made \in Nat
  BY KindsNow DEF Alter, AtTill, cloudside
<1>2. PICK q : q = queue["till"]
  OBVIOUS
<1>3. PICK c : c = Last(Waiting)
  OBVIOUS
<1>4. PICK d : d = JoinedBy(c, f, v, edits + 1)
  OBVIOUS
<1>5. PICK w : w = Without(q, c.id)
  OBVIOUS
<1>6. PICK p : p = queue'["till"]
  OBVIOUS
<1>7. /\ q \in Seq(Change) /\ q # <<>> /\ c = Last(q) /\ c.st = "pending"
      /\ \A k \in DOMAIN q : q[k].op # "delete" /\ (q[k].st = "pending" => k = Len(q))
  BY <1>1, <1>2, <1>3, LastWaits DEF Joins
<1>8. Len(q) \in DOMAIN q /\ c = q[Len(q)] /\ c \in Change
  BY <1>7 DEF Last
<1>9. queue' = [queue EXCEPT !["till"] = Append(w, d)]
  BY <1>1, <1>2, <1>3, <1>4, <1>5 DEF Alter, Queued, JoinedBy
<1>10. p = Append(w, d) /\ queue'["server"] = queue["server"]
  <2> DEFINE Qs == Seq(Change)
  <2>1. queue \in [Senders -> Qs]
    BY <1>1 DEF TypeOK
  <2> HIDE DEF Qs
  <2> QED BY <1>6, <1>9, <2>1 DEF Senders
<1>11. /\ d \in Change /\ d.id = c.id /\ d.op = c.op /\ d.st = "pending" /\ d.sent = c.sent
       /\ d.base = c.base /\ d.data = [c.data EXCEPT ![f] = v]
  BY <1>1, BoundsAssumption, <1>4, <1>7, <1>8, JoinedWith
<1>12. w \in Seq(Change) /\ \A j \in DOMAIN w : w[j].id # c.id /\ \E k \in DOMAIN q : w[j] = q[k]
  <2> DEFINE S == {x \in ToSet(q) : x.id # c.id}
  <2>1. w = Those(q, S)
    BY <1>5 DEF Without
  <2>2. \A x \in S : x.id # c.id
    OBVIOUS
  <2> HIDE DEF S
  <2>3. w \in Seq(Change) /\ \A j \in DOMAIN w : w[j] \in S /\ \E k \in DOMAIN q : w[j] = q[k]
    BY <1>7, <2>1, ThoseKeeps
  <2> QED BY <2>2, <2>3
<1>13. \A j \in DOMAIN p : p[j] = d \/ \E k \in DOMAIN w : p[j] = w[k]
  BY <1>10, <1>12
<1>14. Len(p) \in DOMAIN p /\ p[Len(p)] = d /\ Last(p) = d /\ p # <<>>
  BY <1>10, <1>12 DEF Last
<1>15. \A j \in DOMAIN p : \E k \in DOMAIN q : q[k].id = p[j].id
  BY <1>8, <1>11, <1>12, <1>13
<1>16. ASSUME Calm', FairInv
       PROVE  /\ \A k \in DOMAIN q : \E j \in DOMAIN p : p[j].id = q[k].id /\ p[j].base = q[k].base
              /\ \A j \in DOMAIN p : Starts(p[j], cloud) /\ (Taken(p[j].id) => Ends(p[j], cloud))
              /\ Stands(p, here', cloud)
  <2>1. /\ \A k \in DOMAIN q : q[k].st = "pending"
        /\ Starts(c, cloud) /\ (Taken(c.id) => Ends(c, cloud)) /\ Stands(q, here, cloud)
    BY <1>2, <1>8, <1>16 DEF FairInv, TillFair, Agreed, Starts
  <2>2. \A k \in DOMAIN q : k = Len(q) /\ q[k] = c
    BY <1>7, <1>8, <2>1
  <2>3. \A j \in DOMAIN p : p[j] = d
    BY <1>12, <1>13, <2>2
  <2>4. v # Absent /\ c.data \in Data /\ c.op \in {"create", "update"} /\ \A g \in Fields : d.data[g] = IF g = f THEN v ELSE c.data[g]
    BY <1>7, <1>8, <1>11, AbsentAssumption DEF Change, Data, Ops
  <2>5. Starts(d, cloud)
    BY <1>11, <2>1, <2>4 DEF Starts, Becoming
  <2>6. Taken(d.id) => Ends(d, cloud)
    BY <1>11, <2>1 DEF Ends, Becoming
  <2>7. Stands(p, here', cloud)
    <3>1. ASSUME c.op = "create" PROVE here' = d.data
      BY <1>7, <2>1, <3>1, <1>1, <1>11 DEF Stands
    <3>2. ASSUME c.op = "update" PROVE cloud # Absent /\ here' = Over(d.data, d.base)
      <4>1. here = IF cloud = Absent THEN Absent ELSE Over(c.data, c.base)
        BY <1>7, <2>1, <3>2 DEF Stands
      <4>2. here' = [Over(c.data, c.base) EXCEPT ![f] = v] /\ cloud # Absent
        BY <1>1, <4>1
      <4>3. Over(c.data, c.base) = [g \in Fields |-> IF c.data[g] = Absent THEN c.base[g] ELSE c.data[g]]
        BY DEF Over
      <4>4. here' = [g \in Fields |-> IF g = f THEN v ELSE IF c.data[g] = Absent THEN c.base[g] ELSE c.data[g]]
        BY <4>2, <4>3
      <4>5. Over(d.data, d.base) = [g \in Fields |-> IF d.data[g] = Absent THEN c.base[g] ELSE d.data[g]]
        BY <1>11 DEF Over
      <4>6. Over(d.data, d.base) = here'
        BY <2>4, <4>4, <4>5
      <4> QED BY <4>2, <4>6
    <3> QED BY <1>11, <1>14, <2>4, <3>1, <3>2 DEF Stands
  <2>8. \A k \in DOMAIN q : p[Len(p)].id = q[k].id /\ p[Len(p)].base = q[k].base
    BY <1>11, <1>14, <2>2
  <2>9. \A k \in DOMAIN q : \E j \in DOMAIN p : p[j].id = q[k].id /\ p[j].base = q[k].base
    BY <1>14, <2>8
  <2>10. \A j \in DOMAIN p : Starts(p[j], cloud) /\ (Taken(p[j].id) => Ends(p[j], cloud))
    BY <2>3, <2>5, <2>6
  <2> QED BY <2>7, <2>9, <2>10
<1>17. made' >= made /\ odd \subseteq odd' /\ IndInv'
  BY <1>1, AlterKeeps
<1>18. /\ UNCHANGED <<told, known, cloud, request, handler, webs>> /\ odd \subseteq odd' /\ made' >= made
       /\ queue'["server"] = queue["server"] /\ IndInv'
  BY <1>1, <1>10, <1>17
<1>19. \A j \in DOMAIN p : p[j].id > made \/ \E k \in DOMAIN queue["till"] : queue["till"][k].id = p[j].id
  BY <1>2, <1>15
<1> DEFINE A == \A k \in DOMAIN queue["till"] :
                  \/ queue["till"][k].sent = Absent
                  \/ \E j \in DOMAIN p : p[j].id = queue["till"][k].id /\ p[j].base = queue["till"][k].base
           B == \A j \in DOMAIN p :
                  Starts(p[j], cloud) /\ (p[j].id > made \/ (Taken(p[j].id) => Ends(p[j], cloud)))
           C == Stands(p, here', cloud)
<1> HIDE DEF A, B, C
<1>20. ASSUME Calm', FairInv PROVE A /\ B /\ C
  <2>1. A
    BY <1>2, <1>16, <1>20 DEF A
  <2>2. B
    BY <1>16, <1>20 DEF B
  <2>3. C
    BY <1>16, <1>20 DEF C
  <2> QED BY <2>1, <2>2, <2>3
<1>21. Calm' /\ FairInv => A /\ B /\ C
  BY <1>20
<1> QED BY <1>6, <1>18, <1>19, <1>21, EditAlarm DEF A, B, C

LEMMA AlterAlarm ==
  ASSUME IndInv, AlarmInv, NEW f \in Fields, NEW v \in Vals, Alter(f, v)
  PROVE  AlarmInv'
<1>1. SUFFICES ASSUME ~Joins PROVE AlarmInv'
  BY JoinAlarm
<1> DEFINE data == [Unset EXCEPT ![f] = v]
<1>2. /\ here # Absent /\ here' = [here EXCEPT ![f] = v] /\ odd \subseteq odd' /\ TypeOK
      /\ UNCHANGED <<told, known, cloud, request, handler, webs>>
      /\ Recorded("update", here, data)
  BY <1>1, KindsNow DEF Alter, AtTill, cloudside
<1>3. /\ here \in Thing /\ v # Absent /\ \A g \in Fields : data[g] = IF g = f THEN v ELSE Absent
  BY <1>2, AbsentAssumption DEF TypeOK, Unset
<1> HIDE DEF data
<1>4. PICK c : c = NewChange("update", here, data)
  OBVIOUS
<1>5. PICK p : p = queue'["till"]
  OBVIOUS
<1>6. PICK q : q = queue["till"]
  OBVIOUS
<1>7. /\ p = Append(q, c) /\ queue'["server"] = queue["server"] /\ made' >= made /\ q \in Seq(Change)
      /\ c.id > made /\ c.st = "pending" /\ c.sent = Absent /\ c.op = "update" /\ c.data = data /\ c.base = here
  BY <1>2, <1>4, <1>5, <1>6, RecordedIs
<1>8. /\ \A k \in DOMAIN q : q[k].op # "delete"
      /\ Waiting # <<>> => q # <<>> /\ Last(Waiting) = Last(q)
      /\ Waiting = <<>> => \A k \in DOMAIN q : q[k].st # "pending"
  BY <1>2, <1>6, LastWaits
<1>9. \A k \in DOMAIN q : q[k].st # "pending"
  <2>1. q # <<>> => Last(q).op # "delete"
    BY <1>7, <1>8 DEF Last
  <2> QED BY <1>1, <1>8, <2>1 DEF Joins
<1>10. Last(p) = c /\ p # <<>> /\ \A j \in DOMAIN p : p[j] = c \/ \E k \in DOMAIN q : p[j] = q[k]
  BY <1>7 DEF Last
<1>11. ASSUME FairInv
       PROVE  /\ DOMAIN q = {}
              /\ \A j \in DOMAIN p : Starts(p[j], cloud) /\ p[j].id > made
              /\ Stands(p, here', cloud)
  <2>1. DOMAIN q = {} /\ Stands(q, here, cloud)
    BY <1>6, <1>9, <1>11 DEF FairInv, TillFair, Agreed, Starts
  <2>2. q = <<>>
    BY <1>7, <2>1
  <2>3. here = cloud
    BY <2>1, <2>2 DEF Stands
  <2>4. Starts(c, cloud)
    BY <1>3, <1>7, <2>3 DEF Starts
  <2>5. here' = Over(c.data, here)
    <3>1. Over(c.data, here) = [g \in Fields |-> IF c.data[g] = Absent THEN here[g] ELSE c.data[g]]
      BY DEF Over
    <3>2. here' = [g \in Fields |-> IF g = f THEN v ELSE here[g]]
      BY <1>2, <1>3 DEF Thing
    <3> QED BY <1>3, <1>7, <3>1, <3>2
  <2>6. Stands(p, here', cloud)
    BY <1>2, <1>7, <1>10, <2>3, <2>5 DEF Stands
  <2> QED BY <1>7, <1>10, <2>1, <2>4, <2>6
<1>12. \A j \in DOMAIN p : p[j].id > made \/ \E k \in DOMAIN q : q[k].id = p[j].id
  BY <1>7, <1>10
<1> QED BY <1>2, <1>5, <1>6, <1>7, <1>11, <1>12, AlterKeeps, EditAlarm

(* A create that never went out is withdrawn; else the delete waits too.   *)
LEMMA DeleteAlarm ==
  ASSUME IndInv, AlarmInv, Delete
  PROVE  AlarmInv'
<1>1. /\ here # Absent /\ here' = Absent /\ TypeOK
      /\ UNCHANGED <<told, known, cloud, request, handler, webs>>
  BY KindsNow DEF Delete, AtTill, cloudside
<1>2. PICK q : q = queue["till"]
  OBVIOUS
<1>3. PICK p : p = queue'["till"]
  OBVIOUS
<1>4. /\ q \in Seq(Change)
      /\ \A k \in DOMAIN q : q[k].op # "delete" /\ (q[k].st = "pending" => k = Len(q))
      /\ Waiting # <<>> => q # <<>> /\ Last(Waiting) = Last(q) /\ Last(q).st = "pending"
  BY <1>1, <1>2, LastWaits
<1>5. CASE Waiting # <<>> /\ Last(Waiting).op = "create"
  <2>1. PICK c : c = Last(Waiting)
    OBVIOUS
  <2>2. /\ queue' = [queue EXCEPT !["till"] = Without(q, c.id)] /\ made' = made
        /\ odd \subseteq odd' /\ ("mixed" \notin odd' => c.sent = Absent)
    BY <1>2, <1>5, <2>1 DEF Delete, Queued
  <2>3. Len(q) \in DOMAIN q /\ c = q[Len(q)] /\ c.op = "create"
    BY <1>4, <1>5, <2>1 DEF Last
  <2>4. p = Without(q, c.id) /\ queue'["server"] = queue["server"]
    <3> DEFINE Qs == Seq(Change)
    <3>1. queue \in [Senders -> Qs]
      BY <1>1 DEF TypeOK
    <3> HIDE DEF Qs
    <3> QED BY <1>3, <2>2, <3>1 DEF Senders
  <2>5. p \in Seq(Change) /\ \A j \in DOMAIN p : p[j].id # c.id /\ \E k \in DOMAIN q : p[j] = q[k]
    <3> DEFINE S == {x \in ToSet(q) : x.id # c.id}
    <3>1. p = Those(q, S)
      BY <2>4 DEF Without
    <3>2. \A x \in S : x.id # c.id
      OBVIOUS
    <3> HIDE DEF S
    <3>3. p \in Seq(Change) /\ \A j \in DOMAIN p : p[j] \in S /\ \E k \in DOMAIN q : p[j] = q[k]
      BY <1>4, <3>1, ThoseKeeps
    <3> QED BY <3>2, <3>3
  <2>6. ASSUME Calm', FairInv
        PROVE  /\ \A k \in DOMAIN q : q[k].sent = Absent
               /\ DOMAIN p = {} /\ Stands(p, here', cloud)
    <3>1. (\A k \in DOMAIN q : q[k].st = "pending") /\ Starts(c, cloud)
      BY <1>2, <2>3, <2>6 DEF FairInv, TillFair, Agreed, Starts
    <3>2. \A k \in DOMAIN q : q[k] = c
      BY <1>4, <2>3, <3>1
    <3>3. c.sent = Absent
      BY <2>2, <2>6 DEF Calm
    <3>4. cloud = Absent
      BY <2>3, <3>1, <3>3 DEF Starts
    <3>5. DOMAIN p = {}
      BY <2>5, <3>2
    <3>6. p = <<>>
      BY <2>5, <3>5
    <3> QED BY <1>1, <3>2, <3>3, <3>4, <3>5, <3>6 DEF Stands
  <2>7. made' >= made /\ \A j \in DOMAIN p : \E k \in DOMAIN q : q[k].id = p[j].id
    BY KindsNow, <2>2, <2>5
  <2> QED BY <1>1, <1>2, <1>3, <2>2, <2>4, <2>6, <2>7, DeleteKeeps, EditAlarm
<1>6. CASE ~(Waiting # <<>> /\ Last(Waiting).op = "create")
  <2>1. Recorded("delete", here, Unset) /\ odd' = odd
    BY <1>6 DEF Delete
  <2>2. PICK c : c = NewChange("delete", here, Unset)
    OBVIOUS
  <2>3. /\ p = Append(q, c) /\ queue'["server"] = queue["server"] /\ made' >= made
        /\ c.id > made /\ c.st = "pending" /\ c.sent = Absent /\ c.op = "delete"
    BY <1>2, <1>3, <2>1, <2>2, RecordedIs
  <2>4. /\ Last(p) = c /\ p # <<>>
        /\ \A j \in DOMAIN p : p[j] = c \/ \E k \in DOMAIN q : p[j] = q[k]
        /\ \A k \in DOMAIN q : k \in DOMAIN p /\ p[k] = q[k]
    BY <1>4, <2>3 DEF Last
  <2>5. Starts(c, cloud) /\ Stands(p, here', cloud)
    BY <1>1, <2>3, <2>4 DEF Starts, Stands
  <2>6. ASSUME FairInv PROVE \A j \in DOMAIN p : Starts(p[j], cloud) /\ (p[j].id > made \/ (Taken(p[j].id) => Ends(p[j], cloud)))
    BY <1>2, <2>6, <2>3, <2>4, <2>5 DEF FairInv, TillFair, Agreed
  <2>7. \A j \in DOMAIN p : p[j].id > made \/ \E k \in DOMAIN q : q[k].id = p[j].id
    BY <2>3, <2>4
  <2>8. \A k \in DOMAIN q : \E j \in DOMAIN p : p[j].id = q[k].id /\ p[j].base = q[k].base
    BY <2>4
  <2>9. odd \subseteq odd'
    BY <2>1
  <2>10. \A j \in DOMAIN p : p[j].id > made \/ \E k \in DOMAIN queue["till"] : queue["till"][k].id = p[j].id
    BY <1>2, <2>7
  <2>11. Calm' /\ FairInv =>
             /\ \A k \in DOMAIN queue["till"] :
                   \/ queue["till"][k].sent = Absent
                   \/ \E j \in DOMAIN p : p[j].id = queue["till"][k].id /\ p[j].base = queue["till"][k].base
             /\ \A j \in DOMAIN p : Starts(p[j], cloud) /\ (p[j].id > made \/ (Taken(p[j].id) => Ends(p[j], cloud)))
             /\ Stands(p, here', cloud)
    <3>1. Stands(p, here', cloud)
      BY <2>5
    <3>2. \A k \in DOMAIN queue["till"] : \E j \in DOMAIN p : p[j].id = queue["till"][k].id /\ p[j].base = queue["till"][k].base
      BY <1>2, <2>8
    <3> QED BY <2>6, <3>1, <3>2, Zenon
  <2> QED BY <1>1, <1>3, <2>3, <2>9, <2>10, <2>11, DeleteKeeps, EditAlarm
<1> QED BY <1>5, <1>6

-----------------------------------------------------------------------------
(* The invariant, and what it gives.                                       *)

LEMMA InitAlarm ==
  ASSUME Init
  PROVE  AlarmInv
<1>1. /\ queue["till"] = <<>> /\ queue["server"] = <<>> /\ here = cloud
      /\ \A h \in Slots : handler[h] = Absent
      /\ \A i \in Ids : request[i].st = "none" /\ told[i] = "none"
  BY DEF Init, Senders
<1>2. DOMAIN queue["till"] = {} /\ DOMAIN queue["server"] = {}
  BY <1>1
<1>3. ToldOnce
  BY <1>1 DEF ToldOnce
<1>4. TillFair
  BY <1>1, <1>2 DEF TillFair, Stands
<1>5. AllStem
  BY <1>1, <1>2 DEF AllStem
<1>6. \A h \in Slots : JudgesWell(h)
  BY <1>1 DEF JudgesWell, Busy
<1>7. NoneHeld
  BY <1>1 DEF NoneHeld
<1> QED BY <1>3, <1>4, <1>5, <1>6, <1>7 DEF AlarmInv, FairInv

LEMMA StutterAlarm ==
  ASSUME AlarmInv, UNCHANGED vars
  PROVE  AlarmInv'
<1>1. UNCHANGED <<queue, told, made, known, cloud, here, request, handler, webs, odd>>
  BY DEF vars, till, cloudside
<1>2. ToldOnce' /\ (Calm' => Calm)
  BY <1>1 DEF AlarmInv, ToldOnce, Calm, Unruled
<1>3. \A o \in Slots : (JudgesWell(o) => JudgesWell(o)')
  BY <1>1 DEF JudgesWell, Busy, Now
<1>4. \A id : Taken(id)' => Taken(id)
  BY <1>1 DEF Taken, TakenBy, Now
<1>5. TillFair => TillFair'
  BY <1>1, <1>4, FairKept
<1>6. \A x : Stems(x) => Stems(x)'
  BY <1>1 DEF Stems
<1>7. AllStem => AllStem'
  <2>1. SUFFICES ASSUME AllStem PROVE AllStem'
    OBVIOUS
  <2>2. ASSUME NEW j \in DOMAIN queue["server"] PROVE Stems(queue["server"][j])' /\ queue["server"][j].id \in known
    <3>1. PICK x : x = queue["server"][j]
      OBVIOUS
    <3>2. Stems(x)' /\ x.id \in known
      BY <1>6, <2>1, <2>2, <3>1 DEF AllStem
    <3>3. x = queue'["server"][j]
      BY <1>1, <3>1
    <3> QED BY <3>1, <3>2, <3>3 DEF Stems
  <2>3. ASSUME NEW o \in Slots, handler[o] # Absent, NEW j \in DOMAIN handler[o].rows PROVE Stems(handler[o].rows[j])'
    <3>1. PICK x : x = handler[o].rows[j]
      OBVIOUS
    <3>2. Stems(x)'
      BY <1>6, <2>1, <2>3, <3>1 DEF AllStem
    <3>3. x = handler'[o].rows[j]
      BY <1>1, <3>1
    <3> QED BY <3>2, <3>3 DEF Stems
  <2> QED BY <1>1, <2>2, <2>3 DEF AllStem
<1>8. NoneHeld => NoneHeld'
  BY <1>1 DEF NoneHeld
<1> QED BY <1>2, <1>3, <1>5, <1>7, <1>8 DEF AlarmInv, FairInv

LEMMA NextAlarm ==
  ASSUME IndInv, AlarmInv, [Next]_vars
  PROVE  AlarmInv'
<1>1. ASSUME NEW row \in Thing, Create(row) PROVE AlarmInv'
  BY <1>1, CreateAlarm
<1>2. ASSUME NEW f \in Fields, NEW v \in Vals, Alter(f, v) PROVE AlarmInv'
  BY <1>2, AlterAlarm
<1>3. ASSUME Web PROVE AlarmInv'
  BY <1>3, WebAlarm
<1>4. ASSUME NEW m \in Senders, Post(m) \/ GiveUp(m) \/ Ask(m) PROVE AlarmInv'
  BY <1>4, PostAlarm, GiveUpAlarm, AskAlarm
<1>5. ASSUME NEW h \in Slots, Handles(h) PROVE AlarmInv'
  BY <1>5, LookAlarm, ReadAlarm, WriteAlarm, RecordAlarm DEF Handles
<1>6. ASSUME NEW h \in Slots, Die(h) \/ Hear(h) PROVE AlarmInv'
  BY <1>6, DieAlarm, HearAlarm
<1>7. ASSUME NEW i \in Ids, NEW approve \in BOOLEAN, Decide(i, approve) PROVE AlarmInv'
  BY <1>7, DecideAlarm
<1>8. CASE UNCHANGED vars
  BY <1>8, StutterAlarm
<1> QED
  BY <1>1, <1>2, <1>3, <1>4, <1>5, <1>6, <1>7, <1>8, DeleteAlarm, FetchAlarm, StoreAlarm, HandOverAlarm, SkipAlarm
  DEF Next, WebEdit, WebDelete

(* The owner is not asked about the till's own changes: however they are   *)
(* joined, requeued, sent again, copied or answered late, what the cloud   *)
(* holds is what each of them started from or what it makes of that, so    *)
(* that judgeUpdate and judgeCreate find no clash where nobody else        *)
(* changed the thing.                                                      *)
THEOREM NoFalseAlarms == Spec => []NoFalseAlarm
<1>1. IndInv /\ AlarmInv /\ [Next]_vars => (IndInv /\ AlarmInv)'
  BY NextKeeps, NextAlarm
<1>2. Init => IndInv /\ AlarmInv
  BY InitHolds, InitAlarm
<1>3. AlarmInv => NoFalseAlarm
  <2>1. SUFFICES ASSUME AlarmInv, NEW i \in Ids, request[i].st = "awaiting", webs = 0, odd \subseteq {"raced"}
                 PROVE  \E j \in Ids : {request[j].st, told[j]} \cap {"refused", "rejected"} # {}
    BY DEF NoFalseAlarm
  <2>2. ~Calm
    BY <2>1 DEF AlarmInv, FairInv, NoneHeld
  <2> QED BY <2>1, <2>2 DEF Calm, Unruled
<1> QED BY <1>1, <1>2, <1>3, PTL DEF Spec
=============================================================================
