----------------------- MODULE NodeReplicationProofs -----------------------
(***************************************************************************)
(* Proofs about NodeReplication, for any machines, quotas and bounds.      *)
(***************************************************************************)
EXTENDS NodeReplication, FiniteSetTheorems, TLAPS

USE DEF Peer, Status, Note, Phase

----------------------------------------------------------------------------
(* What the helpers return.                                                *)

\* A bounded, nonempty set of naturals has a greatest element, and Max is it.
LEMMA MaxOfNaturals ==
    ASSUME NEW S \in SUBSET Nat, S # {}, NEW b \in Nat, \A x \in S : x <= b
    PROVE  Max(S) \in S /\ \A x \in S : x <= Max(S)
<1> DEFINE U == {c \in Nat : \A x \in S : x <= c}
           Upto(c) == 0 .. c
           T == {Upto(c) : c \in U}
           Less == StrictSubsetOrdering(Nat)
           F == FiniteSubsetsOf(Nat)
<1>1. T \subseteq F /\ T # {}
  <2>1. \A c \in Nat : Upto(c) \subseteq Nat /\ IsFiniteSet(Upto(c))
    BY FS_Interval
  <2> QED  BY <2>1 DEF FiniteSubsetsOf
<1>2. PICK t \in T : \A d \in T : ~ (<<d, t>> \in Less)
  <2>1. IsWellFoundedOn(Less, F)
    BY FS_StrictSubsetOrderingWellFounded
  <2> HIDE DEF T, F, Less
  <2> QED  BY <1>1, <2>1, WFMin
<1>3. PICK c \in U : t = Upto(c)
  OBVIOUS
<1>4. \A d \in U : c <= d
  <2>1. SUFFICES ASSUME NEW d \in U, d < c PROVE FALSE
    OBVIOUS
  <2>2. Upto(d) \subseteq Upto(c) /\ Upto(d) # Upto(c)
    BY <2>1
  <2>3. Upto(d) \in T /\ Upto(d) \subseteq Nat /\ Upto(c) \subseteq Nat
    OBVIOUS
  <2>4. <<Upto(d), Upto(c)>> \in Less
    BY <2>2, <2>3 DEF StrictSubsetOrdering
  <2> QED  BY <2>3, <2>4, <1>2, <1>3
<1>5. c \in S
  <2>1. SUFFICES ASSUME c \notin S PROVE FALSE
    OBVIOUS
  <2>2. \A x \in S : x \in Nat /\ x <= c /\ x # c
    BY <2>1
  <2>3. c \in Nat /\ \E x \in S : x <= c /\ x # c /\ x \in Nat
    BY <2>2
  <2>4. c - 1 \in Nat
    BY <2>3
  <2>5. ASSUME NEW x \in S PROVE x <= c - 1
    <3>1. x \in Nat /\ x <= c /\ x # c /\ c \in Nat
      BY <2>2, <2>3
    <3> HIDE DEF U
    <3> QED  BY <3>1
  <2>6. c - 1 \in U
    BY <2>4, <2>5
  <2> QED  BY <2>3, <2>6, <1>4
<1>6. \E m \in S : \A y \in S : m >= y
  BY <1>5
<1> QED  BY <1>6 DEF Max

\* The cursor a machine keeps after taking rows: no lower than it was, no
\* lower than any row counted, and one of these.
LEMMA CursorAfterTake ==
    ASSUME NEW c \in Nat, NEW Q \in Nat, NEW S \in SUBSET (1 .. Q)
    PROVE  /\ Max({c} \cup S) \in Nat
           /\ c <= Max({c} \cup S)
           /\ \A k \in S : k <= Max({c} \cup S)
           /\ Max({c} \cup S) = c \/ Max({c} \cup S) \in S
<1>1. {c} \cup S \in SUBSET Nat /\ {c} \cup S # {}
  OBVIOUS
<1>2. \A x \in {c} \cup S : x <= c + Q
  OBVIOUS
<1>3. c + Q \in Nat
  OBVIOUS
<1> QED  BY <1>1, <1>2, <1>3, MaxOfNaturals

LEMMA ConstantTypes ==
    /\ NoMachine \notin Machine /\ FirstServer \in Machine
    /\ \A m \in Machine : Quota[m] \in Nat
    /\ Quota \in [Machine -> Nat]
    /\ FillRows \in Nat \ {0} /\ BatchRows \in Nat \ {0}
    /\ MaxRounds \in Nat \ {0} /\ MaxAttempts \in Nat \ {0}
    /\ MaxMoves \in Nat /\ MaxFaults \in Nat
BY ConstantsAssumption

LEMMA LeastType ==
    ASSUME NEW a \in Nat, NEW b \in Nat
    PROVE  Least(a, b) \in Nat /\ Least(a, b) <= a /\ Least(a, b) <= b
BY DEF Least

----------------------------------------------------------------------------
(* Types.                                                                  *)

LEMMA EntryTypes ==
    ASSUME NEW e \in Entry, NEW n \in Peer, NEW g \in Nat
    PROVE  /\ Offer(e) \in Entry /\ Escalate(e) \in Entry
           /\ Deliver(e, n) \in Entry /\ TransportNote(e) \in Entry
           /\ NoEntry \in Entry
           /\ [e EXCEPT !.st = "pruned"] \in Entry
           /\ [e EXCEPT !.st = "delivered", !.by = n] \in Entry
           /\ [NoEntry EXCEPT !.st = "pending", !.gen = g] \in Entry
<1> USE DEF Entry
<1>0. e.att + 1 \in Nat /\ e.st \in Status /\ e.gen \in Nat /\ e.by \in Peer
  OBVIOUS
<1>1. Offer(e) \in Entry
  BY DEF Offer
<1>2. Escalate(e) \in Entry
  BY <1>0 DEF Escalate
<1>3. Deliver(e, n) \in Entry
  BY <1>0 DEF Deliver
<1>4. TransportNote(e) \in Entry
  BY DEF TransportNote
<1>5. NoEntry \in Entry /\ [NoEntry EXCEPT !.st = "pending", !.gen = g] \in Entry
  BY DEF NoEntry
<1>6. [e EXCEPT !.st = "pruned"] \in Entry
  OBVIOUS
<1>7. [e EXCEPT !.st = "delivered", !.by = n] \in Entry
  OBVIOUS
<1> QED  BY <1>1, <1>2, <1>3, <1>4, <1>5, <1>6, <1>7

\* What each operation does to an entry.
LEMMA OfferFields ==
    \A e \in Entry : /\ Offer(e).st = "pending" /\ Offer(e).gen = e.gen
                     /\ Offer(e).att = 0
BY DEF Offer, Entry

LEMMA EscalateFields ==
    \A e \in Entry : /\ Escalate(e).st \in {"failed", "pending"}
                     /\ Escalate(e).gen = e.gen
BY DEF Escalate, Entry

LEMMA DeliverFields ==
    \A e \in Entry, n \in Peer :
        /\ Deliver(e, n).st = "delivered" /\ Deliver(e, n).gen = e.gen
        /\ Deliver(e, n).by = n
BY DEF Deliver, Entry

LEMMA NoteFields ==
    \A e \in Entry :
        /\ TransportNote(e).st = e.st /\ TransportNote(e).gen = e.gen
        /\ TransportNote(e).by = e.by /\ TransportNote(e).att = e.att
BY DEF TransportNote, Entry

LEMMA PruneFields ==
    \A e \in Entry : LET p == [e EXCEPT !.st = "pruned"]
                     IN  /\ p.st = "pruned" /\ p.gen = e.gen
                         /\ p.by = e.by /\ p.att = e.att
BY DEF Entry

LEMMA SkipFields ==
    \A e \in Entry, n \in Peer :
        LET d == [e EXCEPT !.st = "delivered", !.by = n]
        IN  /\ d.st = "delivered" /\ d.gen = e.gen
            /\ d.by = n /\ d.att = e.att
BY DEF Entry

LEMMA FreshFields ==
    \A g \in Nat : LET f == [NoEntry EXCEPT !.st = "pending", !.gen = g]
                   IN  f.st = "pending" /\ f.gen = g /\ f.att = 0
BY DEF NoEntry

\* The queue of one machine is replaced.
LEMMA QueueType ==
    ASSUME OutboxTypeOK, NEW m \in Machine,
           NEW q \in [1 .. Quota[m] -> Entry],
           queue' = [queue EXCEPT ![m] = q]
    PROVE  /\ queue' = [n \in Machine |-> queue'[n]]
           /\ \A n \in Machine : queue'[n] \in [1 .. Quota[n] -> Entry]
           /\ queue'[m] = q
           /\ \A n \in Machine \ {m} : queue'[n] = queue[n]
BY DEF OutboxTypeOK

LEMMA EntriesAre ==
    ASSUME OutboxTypeOK, NEW m \in Machine
    PROVE  Entries(m) = 1 .. Quota[m] /\ \A k \in Entries(m) : queue[m][k] \in Entry
BY DEF OutboxTypeOK, Entries

\* What a move in the middle of a pass misplaces is rows.
LEMMA MisplacedType ==
    ASSUME NEW m \in Machine, NEW n, NEW S \in SUBSET (1 .. Quota[m])
    PROVE  Misplaced(m, n, S) \subseteq Row
BY ConstantTypes DEF Misplaced, RowsOf, Row

LEMMA TypeInit == Init => TypeOK
<1> SUFFICES ASSUME Init PROVE TypeOK
  OBVIOUS
<1> USE ConstantTypes DEF Init
<1>1. RowsTypeOK
  BY DEF RowsTypeOK
<1>2. HoldTypeOK
  BY DEF HoldTypeOK
<1>3. OutboxTypeOK
  <2>1. NoEntry \in Entry
    BY DEF NoEntry, Entry
  <2> QED  BY <2>1 DEF OutboxTypeOK
<1>4. PassTypeOK
  BY DEF PassTypeOK, Pass, IdlePass
<1>5. ConfTypeOK
  BY DEF ConfTypeOK, Rejoin, NoRejoin
<1> QED  BY <1>1, <1>2, <1>3, <1>4, <1>5 DEF TypeOK

\* The cursors and rows after Take.
LEMMA TakeTypes ==
    ASSUME TypeOK, NEW n \in Machine, NEW rows \in SUBSET Row,
           NEW counted \in SUBSET Row, Take(n, rows, counted)
    PROVE  /\ held' \in [Machine -> SUBSET Row]
           /\ cur' \in [Machine -> [Machine -> Nat]]
<1>1. held' \in [Machine -> SUBSET Row]
  BY DEF Take, TypeOK, HoldTypeOK
<1>2. \A o \in Machine : Max({cur[n][o]} \cup Of(o, counted)) \in Nat
  <2>1. SUFFICES ASSUME NEW o \in Machine
                 PROVE  Max({cur[n][o]} \cup Of(o, counted)) \in Nat
    OBVIOUS
  <2>2. cur[n][o] \in Nat /\ Quota[o] \in Nat
    BY ConstantTypes DEF TypeOK, HoldTypeOK
  <2>3. Of(o, counted) \in SUBSET (1 .. Quota[o])
    BY DEF Of
  <2> QED  BY <2>2, <2>3, CursorAfterTake
<1>3. cur' \in [Machine -> [Machine -> Nat]]
  BY <1>2 DEF Take, TypeOK, HoldTypeOK
<1> QED  BY <1>1, <1>3

LEMMA RowsOfType ==
    ASSUME NEW m \in Machine, NEW S \in SUBSET (1 .. Quota[m])
    PROVE  RowsOf(m, S) \subseteq Row
BY ConstantTypes DEF RowsOf, Row

\* The outbox operations that rewrite a whole queue.
LEMMA RearmTypes ==
    ASSUME OutboxTypeOK, NEW m \in Machine, Rearm(m)
    PROVE  /\ outCur' \in [Machine -> Nat] /\ gen' \in [Machine -> Nat]
           /\ queue' = [n \in Machine |-> queue'[n]]
           /\ \A n \in Machine : queue'[n] \in [1 .. Quota[n] -> Entry]
           /\ skipOwed' \in [Machine -> BOOLEAN]
<1> DEFINE q == [k \in Entries(m) |->
                   CASE queue[m][k].st \in {"none", "pruned"} -> NoEntry
                     [] OTHER -> Offer(queue[m][k])]
<1>1. q \in [1 .. Quota[m] -> Entry]
  BY EntriesAre, EntryTypes, ConstantTypes
<1>2. queue' = [queue EXCEPT ![m] = q]
  BY DEF Rearm
<1>3. /\ queue' = [n \in Machine |-> queue'[n]]
      /\ \A n \in Machine : queue'[n] \in [1 .. Quota[n] -> Entry]
  <2> HIDE DEF q
  <2> QED  BY <1>1, <1>2, QueueType
<1>4. outCur' \in [Machine -> Nat] /\ skipOwed' \in [Machine -> BOOLEAN]
  BY DEF Rearm, OutboxTypeOK
<1>5. gen' \in [Machine -> Nat]
  BY DEF Rearm, OutboxTypeOK
<1> QED  BY <1>3, <1>4, <1>5

LEMMA ReofferTypes ==
    ASSUME OutboxTypeOK, NEW m \in Machine, NEW status,
           queue' = [queue EXCEPT ![m] = [k \in Entries(m) |->
               IF queue[m][k].st = status THEN Offer(queue[m][k])
               ELSE queue[m][k]]]
    PROVE  /\ queue' = [n \in Machine |-> queue'[n]]
           /\ \A n \in Machine : queue'[n] \in [1 .. Quota[n] -> Entry]
<1> DEFINE q == [k \in Entries(m) |->
                   IF queue[m][k].st = status THEN Offer(queue[m][k])
                   ELSE queue[m][k]]
<1>1. q \in [1 .. Quota[m] -> Entry]
  BY EntriesAre, EntryTypes, ConstantTypes
<1> HIDE DEF q
<1> QED  BY <1>1, QueueType DEF q

LEMMA TypeMakeRow == ASSUME TypeOK, NEW m \in Machine, MakeRow(m)
                     PROVE  TypeOK'
<1>1. RowsTypeOK'
  BY ConstantTypes DEF TypeOK, RowsTypeOK, MakeRow
<1>2. HoldTypeOK' /\ OutboxTypeOK' /\ PassTypeOK' /\ ConfTypeOK'
  BY DEF TypeOK, MakeRow, HoldTypeOK, OutboxTypeOK, PassTypeOK, ConfTypeOK,
         holdVars, outboxVars, confVars, Entries
<1> QED  BY <1>1, <1>2 DEF TypeOK, MakeRow

LEMMA TypeNumberOwnRows == ASSUME TypeOK, NEW m \in Machine, NumberOwnRows(m)
                           PROVE  TypeOK'
<1>1. RowsTypeOK'
  <2>1. /\ numbered[m] + FillRows \in Nat /\ made[m] \in Nat
        /\ numbered[m] <= made[m] /\ made[m] <= Quota[m]
    BY ConstantTypes DEF TypeOK, RowsTypeOK
  <2>2. /\ Least(made[m], numbered[m] + FillRows) \in Nat
        /\ Least(made[m], numbered[m] + FillRows) <= made[m]
    BY <2>1, LeastType
  <2> QED  BY <2>1, <2>2 DEF TypeOK, RowsTypeOK, NumberOwnRows
<1>2. HoldTypeOK' /\ OutboxTypeOK' /\ PassTypeOK' /\ ConfTypeOK'
  BY DEF TypeOK, NumberOwnRows, HoldTypeOK, OutboxTypeOK, PassTypeOK,
         ConfTypeOK, holdVars, outboxVars, confVars
<1> QED  BY <1>1, <1>2 DEF TypeOK, NumberOwnRows

LEMMA TypeBeginPass == ASSUME TypeOK, NEW m \in Machine, BeginPass(m)
                       PROVE  TypeOK'
<1>1. RowsTypeOK' /\ ConfTypeOK'
  BY DEF TypeOK, BeginPass, RowsTypeOK, ConfTypeOK, rowVars, confVars
<1>2. HoldTypeOK'
  BY DEF TypeOK, BeginPass, NoteTarget, ReleaseQuarantine, HoldTypeOK
<1>3. OutboxTypeOK'
  <2> USE DEF TypeOK
  <2>1. CASE target[m] = url[m] /\ UNCHANGED <<outboxVars, quar, gaveUp>>
    BY <2>1 DEF OutboxTypeOK, outboxVars
  <2>2. CASE target[m] = NoMachine /\ target[m] # url[m]
    <3>1. /\ queue' = [queue EXCEPT ![m] = [k \in Entries(m) |->
                 IF queue[m][k].st = "delivered" THEN Offer(queue[m][k])
                 ELSE queue[m][k]]]
          /\ target' = [target EXCEPT ![m] = url[m]]
          /\ UNCHANGED <<outCur, gen, ident, skipOwed>>
      BY <2>2 DEF BeginPass, NoteTarget
    <3>2. /\ queue' = [n \in Machine |-> queue'[n]]
          /\ \A n \in Machine : queue'[n] \in [1 .. Quota[n] -> Entry]
      BY <3>1, ReofferTypes
    <3> QED  BY <3>1, <3>2 DEF OutboxTypeOK, ConfTypeOK
  <2>3. CASE target[m] \notin {url[m], NoMachine}
    BY <2>3, RearmTypes DEF BeginPass, NoteTarget, OutboxTypeOK, ConfTypeOK
  <2>4. CASE target[m] = NoMachine /\ target[m] = url[m]
    BY <2>4 DEF BeginPass
  <2> QED  BY <2>1, <2>2, <2>3, <2>4 DEF BeginPass, NoteTarget
<1>4. PassTypeOK'
  BY DEF TypeOK, BeginPass, PassTypeOK, Pass
<1> QED  BY <1>1, <1>2, <1>3, <1>4 DEF TypeOK, BeginPass

LEMMA TypeFillNodeOutbox ==
    ASSUME TypeOK, NEW m \in Machine, FillNodeOutbox(m)
    PROVE  TypeOK'
<1> DEFINE upto == Least(numbered'[m], outCur[m] + FillRows)
<1>1. RowsTypeOK'
  <2> HIDE DEF upto
  <2>1. /\ made \in [Machine -> Nat] /\ numbered \in [Machine -> Nat]
        /\ \A n \in Machine : numbered[n] <= made[n] /\ made[n] <= Quota[n]
    BY DEF TypeOK, RowsTypeOK
  <2>2. /\ numbered' = [numbered EXCEPT ![m] = Least(made[m], @ + FillRows)]
        /\ made' = made
    BY DEF FillNodeOutbox
  <2>3. numbered[m] + FillRows \in Nat /\ made[m] \in Nat
    BY <2>1, ConstantTypes
  <2>4. /\ Least(made[m], numbered[m] + FillRows) \in Nat
        /\ Least(made[m], numbered[m] + FillRows) <= made[m]
    BY <2>3, LeastType
  <2> QED  BY <2>1, <2>2, <2>4 DEF RowsTypeOK
<1>2. upto \in Nat
  <2>1. numbered'[m] \in Nat
    BY <1>1 DEF RowsTypeOK
  <2>2. outCur[m] \in Nat /\ FillRows \in Nat
    BY ConstantTypes DEF TypeOK, OutboxTypeOK
  <2>3. outCur[m] + FillRows \in Nat
    BY <2>2
  <2> QED  BY <2>1, <2>3, LeastType
<1>3. PICK asked \in BOOLEAN : /\ NoteIdentity(m, asked)
                               /\ FillTo(m, upto, Recognised(m, asked))
  BY DEF FillNodeOutbox
<1>4. HoldTypeOK'
  BY <1>3, ZenonT(60) DEF TypeOK, FillNodeOutbox, NoteIdentity, ReleaseQuarantine,
              HoldTypeOK
<1>5. OutboxTypeOK'
  <2> DEFINE e == Recognised(m, asked)
             q == [k \in Entries(m) |->
                     IF k \in outCur[m] + 1 .. upto /\ e[k].st \in {"none", "pruned"}
                     THEN [NoEntry EXCEPT !.st = "pending", !.gen = gen[m]]
                     ELSE e[k]]
  <2>1. e \in [1 .. Quota[m] -> Entry]
    BY EntriesAre, EntryTypes, ConstantTypes
       DEF Recognised, TypeOK, OutboxTypeOK
  <2>2. gen[m] \in Nat /\ Entries(m) = 1 .. Quota[m]
    BY EntriesAre DEF TypeOK, OutboxTypeOK
  <2>3. q \in [1 .. Quota[m] -> Entry]
    <3> HIDE DEF e, upto
    <3> QED  BY <2>1, <2>2, EntryTypes, ConstantTypes
  <2>4. queue' = [queue EXCEPT ![m] = q]
    BY <1>3 DEF FillTo
  <2>5. /\ queue' = [n \in Machine |-> queue'[n]]
        /\ \A n \in Machine : queue'[n] \in [1 .. Quota[n] -> Entry]
    <3> HIDE DEF q
    <3> QED  BY <2>3, <2>4, QueueType DEF TypeOK
  <2>6. outCur' \in [Machine -> Nat]
    <3> HIDE DEF upto
    <3>1. AdvanceOutbox(m, upto) \/ DieBeforeCursor(m)
      BY DEF FillNodeOutbox, upto
    <3> QED  BY <1>2, <3>1 DEF AdvanceOutbox, DieBeforeCursor, TypeOK, OutboxTypeOK
  <2>7. ident' \in [Machine -> Peer]
    BY <1>3, ZenonT(60) DEF NoteIdentity, TypeOK, OutboxTypeOK, ConfTypeOK
  <2> QED  BY <2>5, <2>6, <2>7 DEF FillNodeOutbox, TypeOK, OutboxTypeOK
<1>6. PassTypeOK' /\ faults' \in Nat
  <2> HIDE DEF upto
  <2>1. AdvanceOutbox(m, upto) \/ DieBeforeCursor(m)
    BY DEF FillNodeOutbox, upto
  <2>2. CASE AdvanceOutbox(m, upto)
    <3>1. pass[m] \in Pass /\ url[m] \in Peer
      BY DEF TypeOK, PassTypeOK, ConfTypeOK
    <3>2. pass' = [pass EXCEPT ![m] =
                     [pass[m] EXCEPT !.pc = IF skipOwed[m] THEN "asking" ELSE "ready",
                                     !.to = url[m]]]
      BY <2>2 DEF AdvanceOutbox, TypeOK, PassTypeOK
    <3> QED  BY <2>2, <3>1, <3>2
             DEF AdvanceOutbox, FillNodeOutbox, TypeOK, PassTypeOK, Pass
  <2>3. CASE DieBeforeCursor(m)
    BY <2>3 DEF DieBeforeCursor, FillNodeOutbox, TypeOK, PassTypeOK, Pass, IdlePass
  <2> QED  BY <2>1, <2>2, <2>3
<1>7. ConfTypeOK' /\ suspect' = suspect /\ moves' = moves
  BY DEF FillNodeOutbox, confVars, TypeOK, ConfTypeOK
<1> QED  BY <1>1, <1>4, <1>5, <1>6, <1>7 DEF TypeOK

LEMMA TypeAskCursors == ASSUME TypeOK, NEW m \in Machine, AskCursors(m)
                        PROVE  TypeOK'
<1> DEFINE n == pass[m].to
<1>1. RowsTypeOK' /\ HoldTypeOK' /\ ConfTypeOK'
  BY DEF TypeOK, AskCursors, RowsTypeOK, HoldTypeOK, ConfTypeOK,
         rowVars, holdVars, confVars
<1>2. OutboxTypeOK' /\ faults' \in Nat
  <2>1. CASE SkipHeldByNode(m, n)
    <3> DEFINE q == [k \in Entries(m) |->
                       IF k \in Skippable(m, cur[n][m])
                       THEN [queue[m][k] EXCEPT !.st = "delivered", !.by = n]
                       ELSE queue[m][k]]
    <3>1. n \in Machine
      BY <2>1 DEF SkipHeldByNode, Serving
    <3>2. q \in [1 .. Quota[m] -> Entry]
      BY <3>1, EntriesAre, EntryTypes DEF TypeOK
    <3>3. /\ queue' = [queue EXCEPT ![m] = q]
          /\ skipOwed' = [skipOwed EXCEPT ![m] = FALSE] /\ faults' = faults
      BY <2>1 DEF SkipHeldByNode
    <3>4. /\ queue' = [x \in Machine |-> queue'[x]]
          /\ \A x \in Machine : queue'[x] \in [1 .. Quota[x] -> Entry]
      <4> HIDE DEF q
      <4> QED  BY <3>2, <3>3, QueueType DEF TypeOK
    <3> QED  BY <3>3, <3>4 DEF AskCursors, TypeOK, OutboxTypeOK
  <2>2. CASE NoCursors(m, n)
    BY <2>2 DEF NoCursors, AskCursors, TypeOK, OutboxTypeOK
  <2> QED  BY <2>1, <2>2 DEF AskCursors
<1>3. PassTypeOK'
  BY DEF TypeOK, AskCursors, PassTypeOK, Pass
<1>4. suspect' \subseteq Row
  <2>1. Skippable(m, cur[n][m]) \in SUBSET (1 .. Quota[m])
    BY EntriesAre DEF Skippable, Marked, TypeOK
  <2> HIDE DEF n
  <2>2. \/ suspect' = suspect
        \/ suspect' = suspect \cup Misplaced(m, n, Skippable(m, cur[n][m]))
    BY DEF AskCursors, SkipHeldByNode, NoCursors, n
  <2> QED  BY <2>1, <2>2, MisplacedType DEF TypeOK
<1> QED  BY <1>1, <1>2, <1>3, <1>4 DEF TypeOK, AskCursors

\* The pass of one machine is replaced.
LEMMA PassType ==
    ASSUME PassTypeOK, NEW m \in Machine, NEW p \in Pass,
           p.rows \in SUBSET (1 .. Quota[m]), p.bad \subseteq p.rows,
           pass' = [pass EXCEPT ![m] = p]
    PROVE  /\ pass' \in [Machine -> Pass]
           /\ \A n \in Machine :
                 /\ pass'[n].rows \subseteq 1 .. Quota[n]
                 /\ pass'[n].bad \subseteq pass'[n].rows
BY DEF PassTypeOK

LEMMA BatchType ==
    ASSUME OutboxTypeOK, NEW m \in Machine, NEW S \in Batches(m)
    PROVE  S \in SUBSET (1 .. Quota[m])
BY EntriesAre DEF Batches, Marked

\* A pass with a request on the wire.
LEMMA SentType ==
    ASSUME NEW m \in Machine, NEW n \in Peer, NEW S \in SUBSET (1 .. Quota[m]),
           NEW r \in Nat
    PROVE  LET p == [IdlePass EXCEPT !.pc = "sent", !.to = n, !.rows = S,
                                     !.round = r]
           IN  p \in Pass /\ p.rows = S /\ p.bad = {}
<1> DEFINE p == [IdlePass EXCEPT !.pc = "sent", !.to = n, !.rows = S,
                                 !.round = r]
<1>1. S \in SUBSET Nat
  BY ConstantTypes
<1>2. p \in Pass
  BY <1>1 DEF IdlePass, Pass
<1>3. p.rows = S /\ p.bad = {}
  BY DEF IdlePass
<1> QED  BY <1>2, <1>3

LEMMA TypeSendBatch == ASSUME TypeOK, NEW m \in Machine, SendBatch(m)
                       PROVE  TypeOK'
<1>1. RowsTypeOK' /\ HoldTypeOK' /\ ConfTypeOK'
  BY DEF TypeOK, SendBatch, RowsTypeOK, HoldTypeOK, ConfTypeOK,
         rowVars, holdVars, confVars
<1>2. OutboxTypeOK'
  BY DEF TypeOK, SendBatch, OutboxTypeOK, outboxVars
<1>3. PassTypeOK'
  <2>1. PICK S \in Batches(m) : pass' = [pass EXCEPT ![m] =
              [IdlePass EXCEPT !.pc = "sent", !.to = url[m], !.rows = S,
                               !.round = pass[m].round + 1]]
    BY DEF SendBatch
  <2>2. S \in SUBSET (1 .. Quota[m])
    BY BatchType DEF TypeOK
  <2>3. pass[m].round + 1 \in Nat /\ url[m] \in Peer /\ Quota[m] \in Nat
    BY ConstantTypes DEF TypeOK, PassTypeOK, Pass, ConfTypeOK
  <2> DEFINE p == [IdlePass EXCEPT !.pc = "sent", !.to = url[m], !.rows = S,
                                   !.round = pass[m].round + 1]
  <2>4. p \in Pass /\ p.rows = S /\ p.bad = {}
    BY <2>2, <2>3, SentType
  <2> HIDE DEF p
  <2> QED  BY <2>1, <2>2, <2>4, PassType DEF p, SendBatch, TypeOK, PassTypeOK
<1>4. suspect' \subseteq Row
  <2>1. Marked(m, "delivered") \in SUBSET (1 .. Quota[m])
    BY EntriesAre DEF Marked, TypeOK
  <2> QED  BY <2>1, MisplacedType DEF SendBatch, TypeOK
<1> QED  BY <1>1, <1>2, <1>3, <1>4 DEF TypeOK, SendBatch

LEMMA TypeEndPass == ASSUME TypeOK, NEW m \in Machine, EndPass(m)
                     PROVE  TypeOK'
<1>1. RowsTypeOK' /\ HoldTypeOK' /\ ConfTypeOK'
  BY DEF TypeOK, EndPass, RowsTypeOK, HoldTypeOK, ConfTypeOK,
         rowVars, holdVars, confVars
<1>2. OutboxTypeOK'
  BY DEF TypeOK, EndPass, OutboxTypeOK, outboxVars
<1>3. PassTypeOK'
  BY DEF TypeOK, EndPass, PassTypeOK, Pass, IdlePass
<1> QED  BY <1>1, <1>2, <1>3 DEF TypeOK, EndPass

LEMMA ApplyTypes ==
    ASSUME TypeOK, NEW n \in Machine, NEW o \in Machine,
           NEW S \in SUBSET (1 .. Quota[o]), NEW refused \in SUBSET S,
           ApplyPeerRows(n, o, S, refused)
    PROVE  /\ held' \in [Machine -> SUBSET Row]
           /\ cur' \in [Machine -> [Machine -> Nat]]
           /\ suspect' \subseteq Row
<1>1. RowsOf(o, S \ refused) \subseteq Row /\ RowsOf(o, refused) \subseteq Row
  BY RowsOfType
<1> QED  BY <1>1, TakeTypes DEF ApplyPeerRows, TypeOK

LEMMA TypeNodeSync == ASSUME TypeOK, NEW m \in Machine, NodeSync(m)
                      PROVE  TypeOK'
<1>1. RowsTypeOK' /\ ConfTypeOK' /\ OutboxTypeOK'
  BY DEF TypeOK, NodeSync, RowsTypeOK, OutboxTypeOK, ConfTypeOK,
         rowVars, outboxVars, confVars
<1>2. PICK refused \in SUBSET MayRefuse(pass[m].to, m, pass[m].rows) :
          /\ ApplyPeerRows(pass[m].to, m, pass[m].rows, refused)
          /\ pass' = [pass EXCEPT ![m].pc = "answered", ![m].bad = refused]
  BY DEF NodeSync
<1>3. /\ pass[m].to \in Machine /\ pass[m].rows \in SUBSET (1 .. Quota[m])
      /\ refused \in SUBSET pass[m].rows
  BY DEF NodeSync, Serving, TypeOK, PassTypeOK, MayRefuse
<1>4. HoldTypeOK' /\ suspect' \subseteq Row
  BY <1>2, <1>3, ApplyTypes, ZenonT(60) DEF HoldTypeOK, TypeOK, NodeSync
<1>5. PassTypeOK'
  <2>1. pass[m] \in Pass
    BY DEF TypeOK, PassTypeOK
  <2>2. pass' = [pass EXCEPT ![m] =
                   [pass[m] EXCEPT !.pc = "answered", !.bad = refused]]
    BY <1>2 DEF TypeOK, PassTypeOK
  <2>3. refused \in SUBSET Nat /\ pass[m].rows \ refused \in SUBSET Nat
    BY <1>3, <2>1 DEF Pass
  <2> QED  BY <1>3, <2>1, <2>2, <2>3 DEF NodeSync, TypeOK, PassTypeOK, Pass
<1> QED  BY <1>1, <1>4, <1>5 DEF TypeOK, NodeSync

LEMMA IdleType ==
    ASSUME NEW m \in Machine
    PROVE  /\ IdlePass \in Pass
           /\ IdlePass.rows \in SUBSET (1 .. Quota[m])
           /\ IdlePass.bad \subseteq IdlePass.rows
BY DEF IdlePass, Pass

\* A pass between two requests.
LEMMA ReadyType ==
    ASSUME NEW m \in Machine, NEW r \in Nat
    PROVE  LET p == [IdlePass EXCEPT !.pc = "ready", !.round = r]
           IN  /\ p \in Pass
               /\ p.rows \in SUBSET (1 .. Quota[m])
               /\ p.bad \subseteq p.rows
BY DEF IdlePass, Pass

LEMMA TypeSettleNodeBatch ==
    ASSUME TypeOK, NEW m \in Machine, SettleNodeBatch(m)
    PROVE  TypeOK'
<1>1. RowsTypeOK' /\ HoldTypeOK' /\ ConfTypeOK'
  BY DEF TypeOK, SettleNodeBatch, RowsTypeOK, HoldTypeOK, ConfTypeOK,
         rowVars, holdVars, confVars
<1>2. OutboxTypeOK'
  <2> DEFINE q == [k \in Entries(m) |->
          CASE k \in InQueue(m, pass[m].rows \ pass[m].bad)
                  -> Deliver(queue[m][k], pass[m].to)
            [] k \in InQueue(m, pass[m].bad) -> Escalate(queue[m][k])
            [] OTHER                         -> queue[m][k]]
  <2>1. pass[m].to \in Peer
    BY DEF TypeOK, PassTypeOK, Pass
  <2>2. q \in [1 .. Quota[m] -> Entry]
    BY <2>1, EntriesAre, EntryTypes DEF TypeOK
  <2>3. queue' = [queue EXCEPT ![m] = q]
    BY DEF SettleNodeBatch
  <2>4. /\ queue' = [x \in Machine |-> queue'[x]]
        /\ \A x \in Machine : queue'[x] \in [1 .. Quota[x] -> Entry]
    <3> HIDE DEF q
    <3> QED  BY <2>2, <2>3, QueueType DEF TypeOK
  <2> QED  BY <2>4 DEF SettleNodeBatch, TypeOK, OutboxTypeOK
<1>3. PassTypeOK'
  <2>1. pass[m].round \in Nat
    BY DEF TypeOK, PassTypeOK, Pass
  <2>2. CASE pass[m].rows = pass[m].bad
    <3>1. pass' = [pass EXCEPT ![m] = IdlePass] /\ stray' = stray
      BY <2>2 DEF SettleNodeBatch
    <3> QED  BY <3>1, PassType, IdleType DEF TypeOK, PassTypeOK
  <2>3. CASE pass[m].rows # pass[m].bad
    <3> DEFINE p == [IdlePass EXCEPT !.pc = "ready", !.round = pass[m].round]
    <3>1. pass' = [pass EXCEPT ![m] = p] /\ stray' = stray
      BY <2>3 DEF SettleNodeBatch
    <3>2. p \in Pass /\ p.rows \in SUBSET (1 .. Quota[m])
          /\ p.bad \subseteq p.rows
      BY <2>1, ReadyType
    <3> HIDE DEF p
    <3> QED  BY <3>1, <3>2, PassType DEF TypeOK, PassTypeOK
  <2> QED  BY <2>2, <2>3
<1>4. suspect' \subseteq Row
  <2>1. pass[m].rows \ pass[m].bad \in SUBSET (1 .. Quota[m])
    BY DEF TypeOK, PassTypeOK
  <2> QED  BY <2>1, MisplacedType DEF SettleNodeBatch, TypeOK
<1> QED  BY <1>1, <1>2, <1>3, <1>4 DEF TypeOK, SettleNodeBatch

LEMMA TypeRefuseBatch ==
    ASSUME TypeOK, NEW m \in Machine, RefuseBatch(m)
    PROVE  TypeOK'
<1>1. RowsTypeOK' /\ HoldTypeOK' /\ ConfTypeOK'
  BY DEF TypeOK, RefuseBatch, RowsTypeOK, HoldTypeOK, ConfTypeOK,
         rowVars, holdVars, confVars
<1>2. PICK tooLarge \in BOOLEAN, counted \in {{}, pass[m].rows} :
        /\ queue' = [queue EXCEPT ![m] = [k \in Entries(m) |->
              IF k \in InQueue(m, counted) THEN Escalate(queue[m][k])
              ELSE queue[m][k]]]
        /\ suspect' = suspect \cup RowsOf(m, counted)
        /\ pass' = [pass EXCEPT ![m] =
              IF tooLarge
              THEN [IdlePass EXCEPT !.pc = "ready", !.round = pass[m].round]
              ELSE IdlePass]
  BY DEF RefuseBatch
<1>3. OutboxTypeOK'
  <2> DEFINE q == [k \in Entries(m) |->
          IF k \in InQueue(m, counted) THEN Escalate(queue[m][k])
          ELSE queue[m][k]]
  <2>1. q \in [1 .. Quota[m] -> Entry]
    BY EntriesAre, EntryTypes DEF TypeOK
  <2>2. queue' = [queue EXCEPT ![m] = q]
    BY <1>2
  <2>3. /\ queue' = [x \in Machine |-> queue'[x]]
        /\ \A x \in Machine : queue'[x] \in [1 .. Quota[x] -> Entry]
    <3> HIDE DEF q
    <3> QED  BY <2>1, <2>2, QueueType DEF TypeOK
  <2> QED  BY <2>3 DEF RefuseBatch, TypeOK, OutboxTypeOK
<1>4. PassTypeOK'
  <2>1. pass[m].round \in Nat
    BY DEF TypeOK, PassTypeOK, Pass
  <2> DEFINE p == IF tooLarge
              THEN [IdlePass EXCEPT !.pc = "ready", !.round = pass[m].round]
              ELSE IdlePass
  <2>2. p \in Pass /\ p.rows \in SUBSET (1 .. Quota[m])
        /\ p.bad \subseteq p.rows
    BY <2>1, ReadyType, IdleType
  <2>3. pass' = [pass EXCEPT ![m] = p] /\ stray' = stray
    BY <1>2 DEF RefuseBatch
  <2> HIDE DEF p
  <2> QED  BY <2>2, <2>3, PassType DEF TypeOK, PassTypeOK
<1>5. suspect' \subseteq Row
  BY <1>2, RowsOfType DEF TypeOK, PassTypeOK
<1> QED  BY <1>1, <1>3, <1>4, <1>5 DEF TypeOK, RefuseBatch

LEMMA AbandonType ==
    ASSUME PassTypeOK, NEW m \in Machine, Abandon(m)
    PROVE  /\ stray' \subseteq [from : Machine, to : Machine, rows : SUBSET Nat]
           /\ \A q \in stray' : q.rows \subseteq 1 .. Quota[q.from]
<1>1. CASE stray' = stray
  BY <1>1 DEF PassTypeOK
<1>2. CASE /\ pass[m].pc = "sent" /\ pass[m].to # NoMachine
           /\ stray' = stray \cup
                {[from |-> m, to |-> pass[m].to, rows |-> pass[m].rows]}
  BY <1>2 DEF PassTypeOK, Pass
<1> QED  BY <1>1, <1>2 DEF Abandon

LEMMA TypeNoAnswer == ASSUME TypeOK, NEW m \in Machine, NoAnswer(m)
                      PROVE  TypeOK'
<1>1. RowsTypeOK' /\ HoldTypeOK' /\ ConfTypeOK'
  BY DEF TypeOK, NoAnswer, RowsTypeOK, HoldTypeOK, ConfTypeOK,
         rowVars, holdVars, confVars
<1>2. OutboxTypeOK'
  <2> DEFINE q == [k \in Entries(m) |->
          IF k \in InQueue(m, pass[m].rows)
          THEN TransportNote(queue[m][k]) ELSE queue[m][k]]
  <2>1. q \in [1 .. Quota[m] -> Entry]
    BY EntriesAre, EntryTypes DEF TypeOK
  <2>2. queue' = [queue EXCEPT ![m] = q]
    BY DEF NoAnswer
  <2>3. /\ queue' = [x \in Machine |-> queue'[x]]
        /\ \A x \in Machine : queue'[x] \in [1 .. Quota[x] -> Entry]
    <3> HIDE DEF q
    <3> QED  BY <2>1, <2>2, QueueType DEF TypeOK
  <2> QED  BY <2>3 DEF NoAnswer, TypeOK, OutboxTypeOK
<1>3. /\ stray' \subseteq [from : Machine, to : Machine, rows : SUBSET Nat]
      /\ \A q \in stray' : q.rows \subseteq 1 .. Quota[q.from]
  BY AbandonType DEF NoAnswer, TypeOK, PassTypeOK
<1>4. PassTypeOK'
  BY <1>3, PassType, IdleType DEF TypeOK, PassTypeOK, NoAnswer
<1>5. faults' \in Nat
  BY DEF NoAnswer, TypeOK
<1> QED  BY <1>1, <1>2, <1>4, <1>5 DEF TypeOK, NoAnswer

LEMMA TypeLateSync == ASSUME TypeOK, NEW q \in stray, LateSync(q)
                      PROVE  TypeOK'
<1>1. RowsTypeOK' /\ ConfTypeOK' /\ OutboxTypeOK'
  BY DEF TypeOK, LateSync, RowsTypeOK, OutboxTypeOK, ConfTypeOK,
         rowVars, outboxVars, confVars
<1>2. PICK refused \in SUBSET MayRefuse(q.to, q.from, q.rows) :
          ApplyPeerRows(q.to, q.from, q.rows, refused)
  BY DEF LateSync
<1>3. /\ q.to \in Machine /\ q.from \in Machine
      /\ q.rows \in SUBSET (1 .. Quota[q.from]) /\ refused \in SUBSET q.rows
  BY DEF TypeOK, PassTypeOK, MayRefuse
<1>4. HoldTypeOK' /\ suspect' \subseteq Row
  BY <1>2, <1>3, ApplyTypes DEF HoldTypeOK, TypeOK, LateSync
<1>5. PassTypeOK'
  BY DEF LateSync, TypeOK, PassTypeOK
<1> QED  BY <1>1, <1>4, <1>5 DEF TypeOK, LateSync

LEMMA TypePruneNodeQueue ==
    ASSUME TypeOK, NEW m \in Machine, PruneNodeQueue(m)
    PROVE  TypeOK'
<1> DEFINE old == Marked(m, "delivered") \cap Of(m, Prunable)
           q == [k \in Entries(m) |->
                  IF k \in old THEN [queue[m][k] EXCEPT !.st = "pruned"]
                  ELSE queue[m][k]]
<1>1. RowsTypeOK' /\ HoldTypeOK' /\ PassTypeOK' /\ ConfTypeOK'
  BY DEF TypeOK, PruneNodeQueue, RowsTypeOK, HoldTypeOK, PassTypeOK,
         ConfTypeOK, rowVars, holdVars, confVars
<1>2. q \in [1 .. Quota[m] -> Entry]
  BY EntriesAre, EntryTypes DEF TypeOK
<1>3. queue' = [queue EXCEPT ![m] = q]
  BY DEF PruneNodeQueue
<1>4. OutboxTypeOK'
  <2>1. /\ queue' = [x \in Machine |-> queue'[x]]
        /\ \A x \in Machine : queue'[x] \in [1 .. Quota[x] -> Entry]
    <3> HIDE DEF q
    <3> QED  BY <1>2, <1>3, QueueType DEF TypeOK
  <2> QED  BY <2>1 DEF PruneNodeQueue, TypeOK, OutboxTypeOK
<1>5. suspect' \subseteq Row
  <2>1. old \in SUBSET (1 .. Quota[m])
    BY DEF Of
  <2>2. suspect' = suspect \cup RowsOf(m, old)
    BY DEF PruneNodeQueue
  <2> HIDE DEF old
  <2> QED  BY <2>1, <2>2, RowsOfType DEF TypeOK
<1> QED  BY <1>1, <1>4, <1>5 DEF TypeOK, PruneNodeQueue

LEMMA TypePullDistribution ==
    ASSUME TypeOK, NEW m \in Machine, NEW o \in Machine, PullDistribution(m, o)
    PROVE  TypeOK'
<1>1. RowsTypeOK' /\ OutboxTypeOK' /\ PassTypeOK' /\ ConfTypeOK'
  BY DEF TypeOK, PullDistribution, RowsTypeOK, OutboxTypeOK, PassTypeOK,
         ConfTypeOK, rowVars, outboxVars, confVars
<1>9. PICK S \in Distribution(url[m], m, o) :
         \E refused \in SUBSET MayRefuse(m, o, S) :
            PullTakes(m, o, S, refused)
  BY DEF PullDistribution, PullTakes
<1>2. PICK refused \in SUBSET MayRefuse(m, o, S) : PullTakes(m, o, S, refused)
  BY <1>9
<1> DEFINE waiting == quar[m] \cup (RowsOf(o, refused) \ gaveUp[m])
<1>3. PICK back \in SUBSET waiting, lost \in SUBSET quar[m] :
        /\ Take(m, RowsOf(o, S \ refused) \cup back, RowsOf(o, S) \cup back)
        /\ quar' = [quar EXCEPT ![m] = waiting \ (back \cup lost)]
        /\ gaveUp' = [gaveUp EXCEPT ![m] = @ \cup lost]
  <2>1. PICK back \in SUBSET waiting :
           \E lost \in SUBSET (quar[m] \ (back \cup held[m])) :
              /\ Take(m, RowsOf(o, S \ refused) \cup back, RowsOf(o, S) \cup back)
              /\ quar' = [quar EXCEPT ![m] = waiting \ (back \cup lost)]
              /\ gaveUp' = [gaveUp EXCEPT ![m] = @ \cup lost]
    BY <1>2 DEF PullTakes
  <2> QED  BY <2>1
<1>4. S \in SUBSET (1 .. Quota[o]) /\ refused \in SUBSET S
  BY DEF Distribution, MayRefuse
<1>5. /\ RowsOf(o, S) \subseteq Row /\ RowsOf(o, S \ refused) \subseteq Row
      /\ RowsOf(o, refused) \subseteq Row
  BY <1>4, RowsOfType
<1>6. waiting \subseteq Row
  BY <1>5 DEF TypeOK, HoldTypeOK
<1>7. HoldTypeOK'
  <2> HIDE DEF waiting
  <2>1. back \in SUBSET Row
    BY <1>3, <1>6
  <2>2. /\ held' \in [Machine -> SUBSET Row]
        /\ cur' \in [Machine -> [Machine -> Nat]]
    BY <2>1, <1>3, <1>5, TakeTypes, ZenonT(60)
  <2> QED  BY <2>2, <1>3, <1>6 DEF PullDistribution, TypeOK, HoldTypeOK
<1>8. suspect' \subseteq Row
  BY <1>2, <1>5 DEF TypeOK, PullTakes
<1> QED  BY <1>1, <1>7, <1>8 DEF TypeOK, PullDistribution

LEMMA RetryTypes ==
    ASSUME TypeOK, NEW m \in Machine, NEW waiting \in SUBSET Row,
           NEW back \in SUBSET waiting, NEW lost \in SUBSET waiting,
           RetryQuarantined(m, waiting, back, lost)
    PROVE  HoldTypeOK'
<1>1. back \in SUBSET Row /\ lost \in SUBSET Row
  OBVIOUS
<1>2. held' \in [Machine -> SUBSET Row] /\ cur' \in [Machine -> [Machine -> Nat]]
  BY <1>1, TakeTypes DEF RetryQuarantined
<1> QED  BY <1>1, <1>2 DEF RetryQuarantined, TypeOK, HoldTypeOK

LEMMA TypeRetryPeerQuarantine ==
    ASSUME TypeOK, NEW m \in Machine, RetryPeerQuarantine(m)
    PROVE  TypeOK'
<1>1. RowsTypeOK' /\ OutboxTypeOK' /\ PassTypeOK' /\ ConfTypeOK'
  BY DEF TypeOK, RetryPeerQuarantine, RowsTypeOK, OutboxTypeOK, PassTypeOK,
         ConfTypeOK, rowVars, outboxVars, confVars
<1>2. HoldTypeOK'
  BY RetryTypes DEF RetryPeerQuarantine, TypeOK, HoldTypeOK
<1> QED  BY <1>1, <1>2 DEF TypeOK, RetryPeerQuarantine

LEMMA TypeRetryFailed == ASSUME TypeOK, NEW m \in Machine, RetryFailed(m)
                         PROVE  TypeOK'
<1>1. RowsTypeOK' /\ PassTypeOK' /\ ConfTypeOK'
  BY DEF TypeOK, RetryFailed, RowsTypeOK, PassTypeOK, ConfTypeOK,
         rowVars, confVars
<1>2. HoldTypeOK'
  <2>1. PICK back \in SUBSET (quar[m] \cup gaveUp[m]) :
           RetryQuarantined(m, quar[m] \cup gaveUp[m], back, {})
    BY DEF RetryFailed
  <2>2. quar[m] \cup gaveUp[m] \in SUBSET Row
    BY DEF TypeOK, HoldTypeOK
  <2> QED  BY <2>1, <2>2, RetryTypes
<1>3. OutboxTypeOK'
  <2>1. /\ queue' = [x \in Machine |-> queue'[x]]
        /\ \A x \in Machine : queue'[x] \in [1 .. Quota[x] -> Entry]
    BY ReofferTypes DEF RetryFailed, TypeOK
  <2> QED  BY <2>1 DEF RetryFailed, TypeOK, OutboxTypeOK
<1>4. moves' \in Nat
  BY DEF RetryFailed, TypeOK
<1> QED  BY <1>1, <1>2, <1>3, <1>4 DEF TypeOK, RetryFailed

LEMMA TypePromoteToNode == ASSUME TypeOK, NEW m \in Machine, PromoteToNode(m)
                           PROVE  TypeOK'
<1>1. RowsTypeOK' /\ HoldTypeOK' /\ OutboxTypeOK' /\ PassTypeOK'
  BY DEF TypeOK, PromoteToNode, RowsTypeOK, HoldTypeOK, OutboxTypeOK,
         PassTypeOK, rowVars, holdVars, outboxVars
<1>2. ConfTypeOK'
  BY DEF TypeOK, PromoteToNode, ConfTypeOK
<1>3. moves' \in Nat /\ faults' \in Nat
  BY DEF TypeOK, PromoteToNode
<1> QED  BY <1>1, <1>2, <1>3 DEF TypeOK, PromoteToNode

LEMMA TypeStartRejoin ==
    ASSUME TypeOK, NEW m \in Machine, NEW n \in Machine, StartRejoin(m, n)
    PROVE  TypeOK'
<1>1. RowsTypeOK' /\ HoldTypeOK' /\ PassTypeOK'
  BY DEF TypeOK, StartRejoin, RowsTypeOK, HoldTypeOK, PassTypeOK,
         rowVars, holdVars
<1>2. OutboxTypeOK'
  <2>1. CASE Rearm(m)
    BY <2>1, RearmTypes DEF StartRejoin, TypeOK, OutboxTypeOK
  <2>2. CASE UNCHANGED <<queue, outCur, skipOwed, gen>>
    BY <2>2 DEF StartRejoin, TypeOK, OutboxTypeOK
  <2> QED  BY <2>1, <2>2 DEF StartRejoin
<1>3. ConfTypeOK'
  BY DEF TypeOK, StartRejoin, ConfTypeOK, Rejoin
<1>4. moves' \in Nat
  BY DEF TypeOK, StartRejoin
<1> QED  BY <1>1, <1>2, <1>3, <1>4 DEF TypeOK, StartRejoin

LEMMA TypeRejoinConfirmed ==
    ASSUME TypeOK, NEW m \in Machine, RejoinConfirmed(m)
    PROVE  TypeOK'
<1>1. RowsTypeOK' /\ HoldTypeOK' /\ OutboxTypeOK' /\ PassTypeOK'
  BY DEF TypeOK, RejoinConfirmed, RowsTypeOK, HoldTypeOK, OutboxTypeOK,
         PassTypeOK, rowVars, holdVars, outboxVars
<1>2. ConfTypeOK'
  BY DEF TypeOK, RejoinConfirmed, ConfTypeOK, Rejoin, NoRejoin
<1> QED  BY <1>1, <1>2 DEF TypeOK, RejoinConfirmed

LEMMA TypeRejoinRefused ==
    ASSUME TypeOK, NEW m \in Machine, RejoinRefused(m)
    PROVE  TypeOK'
<1>1. RowsTypeOK' /\ HoldTypeOK' /\ OutboxTypeOK' /\ PassTypeOK'
  BY DEF TypeOK, RejoinRefused, RowsTypeOK, HoldTypeOK, OutboxTypeOK,
         PassTypeOK, rowVars, holdVars, outboxVars
<1>2. ConfTypeOK'
  BY DEF TypeOK, RejoinRefused, ConfTypeOK, Rejoin, NoRejoin
<1> QED  BY <1>1, <1>2 DEF TypeOK, RejoinRefused

LEMMA TypeCrash == ASSUME TypeOK, NEW m \in Machine, Crash(m)
                   PROVE  TypeOK'
<1>1. RowsTypeOK' /\ HoldTypeOK' /\ OutboxTypeOK'
  BY DEF TypeOK, Crash, RowsTypeOK, HoldTypeOK, OutboxTypeOK,
         rowVars, holdVars, outboxVars
<1>2. ConfTypeOK'
  BY DEF TypeOK, Crash, ConfTypeOK, Rejoin, NoRejoin
<1>3. PassTypeOK'
  BY AbandonType, PassType, IdleType DEF Crash, TypeOK, PassTypeOK
<1>4. faults' \in Nat
  BY DEF TypeOK, Crash
<1> QED  BY <1>1, <1>2, <1>3, <1>4 DEF TypeOK, Crash

LEMMA TypeStartNodeServer ==
    ASSUME TypeOK, NEW m \in Machine, StartNodeServer(m)
    PROVE  TypeOK'
<1>1. RowsTypeOK' /\ HoldTypeOK' /\ OutboxTypeOK' /\ PassTypeOK'
  BY DEF TypeOK, StartNodeServer, RowsTypeOK, HoldTypeOK, OutboxTypeOK,
         PassTypeOK, rowVars, holdVars, outboxVars
<1>2. ConfTypeOK'
  BY DEF TypeOK, StartNodeServer, ConfTypeOK
<1> QED  BY <1>1, <1>2 DEF TypeOK, StartNodeServer

LEMMA TypeStep == TypeOK /\ [Next]_vars => TypeOK'
<1> SUFFICES ASSUME TypeOK, [Next]_vars PROVE TypeOK'
  OBVIOUS
<1>1. CASE UNCHANGED vars
  BY <1>1 DEF vars, TypeOK, RowsTypeOK, HoldTypeOK, OutboxTypeOK, PassTypeOK,
              ConfTypeOK, rowVars, holdVars, outboxVars, confVars
<1>2. CASE Next
  BY <1>2, TypeMakeRow, TypeNumberOwnRows, TypeBeginPass, TypeFillNodeOutbox,
     TypeAskCursors, TypeSendBatch, TypeEndPass, TypeNodeSync,
     TypeSettleNodeBatch, TypeRefuseBatch, TypeNoAnswer, TypeLateSync,
     TypePruneNodeQueue, TypePullDistribution, TypeRetryPeerQuarantine,
     TypeRetryFailed, TypePromoteToNode, TypeStartRejoin, TypeRejoinConfirmed,
     TypeRejoinRefused, TypeCrash, TypeStartNodeServer
     DEF Next, PushStep
<1> QED  BY <1>1, <1>2

\* Every variable keeps its type: in particular the cursors stay naturals
\* (Max is only ever taken of finite sets), a batch only names own rows and no
\* machine numbers a row it has not written.
THEOREM TypeCorrect == Spec => []TypeOK
<1>1. Init => TypeOK
  BY TypeInit
<1>2. TypeOK /\ [Next]_vars => TypeOK'
  BY TypeStep
<1> QED  BY <1>1, <1>2, PTL DEF Spec

----------------------------------------------------------------------------
(* The outbox is complete.                                                 *)

\* A step that leaves the outbox cursor alone and takes no entry away.
LEMMA CompleteIfKept ==
    ASSUME TypeOK, TypeOK', OutboxComplete, UNCHANGED outCur,
           \A m \in Machine : \A k \in 1 .. Quota[m] :
              queue'[m][k].st = "none" => queue[m][k].st = "none"
    PROVE  OutboxComplete'
<1> SUFFICES ASSUME NEW m \in Machine, NEW k \in 1 .. outCur[m]
             PROVE  k \in Entries(m)' /\ queue'[m][k].st # "none"
  BY DEF OutboxComplete
<1>1. k \in Entries(m) /\ queue[m][k].st # "none"
  BY DEF OutboxComplete
<1>2. Entries(m) = 1 .. Quota[m] /\ Entries(m)' = 1 .. Quota[m]
  BY DEF Entries, TypeOK, OutboxTypeOK
<1> QED  BY <1>1, <1>2

\* The same, when one machine's queue is rewritten entry by entry.
LEMMA CompleteIfRewritten ==
    ASSUME TypeOK, TypeOK', OutboxComplete, UNCHANGED outCur,
           NEW m \in Machine, NEW q \in [1 .. Quota[m] -> Entry],
           queue' = [queue EXCEPT ![m] = q],
           \A k \in 1 .. Quota[m] :
              q[k].st = "none" => queue[m][k].st = "none"
    PROVE  OutboxComplete'
<1>1. queue'[m] = q /\ \A n \in Machine \ {m} : queue'[n] = queue[n]
  BY QueueType DEF TypeOK
<1> QED  BY <1>1, CompleteIfKept

LEMMA CompleteRearm ==
    ASSUME TypeOK, TypeOK', OutboxComplete, NEW m \in Machine, Rearm(m)
    PROVE  OutboxComplete'
<1> SUFFICES ASSUME NEW n \in Machine, NEW k \in 1 .. outCur'[n]
             PROVE  k \in Entries(n)' /\ queue'[n][k].st # "none"
  BY DEF OutboxComplete
<1>1. outCur'[m] = 0 /\ \A x \in Machine \ {m} : outCur'[x] = outCur[x]
  BY DEF Rearm, TypeOK, OutboxTypeOK
<1>2. n # m /\ k \in 1 .. outCur[n]
  BY <1>1
<1>3. queue'[n] = queue[n]
  BY <1>2 DEF Rearm, TypeOK, OutboxTypeOK
<1> QED  BY <1>2, <1>3 DEF OutboxComplete, Entries

LEMMA CompleteBeginPass ==
    ASSUME TypeOK, TypeOK', OutboxComplete, NEW m \in Machine, BeginPass(m)
    PROVE  OutboxComplete'
<1>1. CASE UNCHANGED outboxVars
  BY <1>1, CompleteIfKept DEF outboxVars
<1>2. CASE /\ queue' = [queue EXCEPT ![m] = [k \in Entries(m) |->
                 IF queue[m][k].st = "delivered" THEN Offer(queue[m][k])
                 ELSE queue[m][k]]]
           /\ outCur' = outCur
  <2> DEFINE q == [k \in Entries(m) |->
                 IF queue[m][k].st = "delivered" THEN Offer(queue[m][k])
                 ELSE queue[m][k]]
  <2>1. q \in [1 .. Quota[m] -> Entry]
    BY EntriesAre, EntryTypes, ConstantTypes DEF TypeOK
  <2>2. \A k \in 1 .. Quota[m] : q[k].st = "none" => queue[m][k].st = "none"
    BY EntriesAre, OfferFields DEF TypeOK
  <2>3. queue' = [queue EXCEPT ![m] = q]
    BY <1>2
  <2> HIDE DEF q
  <2> QED  BY <1>2, <2>1, <2>2, <2>3, CompleteIfRewritten
<1>3. CASE Rearm(m)
  BY <1>3, CompleteRearm
<1> QED  BY <1>1, <1>2, <1>3 DEF BeginPass, NoteTarget

LEMMA CompleteFillNodeOutbox ==
    ASSUME TypeOK, TypeOK', OutboxComplete, NEW m \in Machine, FillNodeOutbox(m)
    PROVE  OutboxComplete'
<1> DEFINE upto == Least(numbered'[m], outCur[m] + FillRows)
<1>1. PICK asked \in BOOLEAN : FillTo(m, upto, Recognised(m, asked))
  BY DEF FillNodeOutbox
<1> DEFINE e == Recognised(m, asked)
           q == [k \in Entries(m) |->
                   IF k \in outCur[m] + 1 .. upto /\ e[k].st \in {"none", "pruned"}
                   THEN [NoEntry EXCEPT !.st = "pending", !.gen = gen[m]]
                   ELSE e[k]]
<1>2. Entries(m) = 1 .. Quota[m] /\ Entries(m)' = 1 .. Quota[m]
  BY DEF Entries, TypeOK, OutboxTypeOK
<1>3. \A k \in 1 .. Quota[m] : e[k].st = "none" => queue[m][k].st = "none"
  BY <1>2, EntriesAre, OfferFields DEF Recognised, TypeOK
<1>4. queue' = [queue EXCEPT ![m] = q]
  BY <1>1 DEF FillTo
<1>5. queue'[m] = q /\ \A n \in Machine \ {m} : queue'[n] = queue[n]
  BY <1>4 DEF TypeOK, OutboxTypeOK
<1>6. \A k \in 1 .. Quota[m] :
         q[k].st = "none" => queue[m][k].st = "none" /\ k \notin outCur[m] + 1 .. upto
  <2> HIDE DEF e, upto
  <2> QED  BY <1>2, <1>3 DEF NoEntry
<1>7. upto \in Nat /\ upto <= Quota[m]
  <2>1. /\ numbered'[m] \in Nat /\ numbered'[m] <= Quota[m]
    BY ConstantTypes DEF TypeOK, RowsTypeOK
  <2>2. outCur[m] \in Nat /\ FillRows \in Nat
    BY ConstantTypes DEF TypeOK, OutboxTypeOK
  <2>3. outCur[m] + FillRows \in Nat
    BY <2>2
  <2>4. upto \in Nat /\ upto <= numbered'[m]
    BY <2>1, <2>3, LeastType
  <2>5. Quota[m] \in Nat
    BY ConstantTypes
  <2> HIDE DEF upto
  <2> QED  BY <2>1, <2>4, <2>5
<1>8. AdvanceOutbox(m, upto) \/ DieBeforeCursor(m)
  BY DEF FillNodeOutbox
<1>9. /\ outCur'[m] \in {upto, outCur[m]}
      /\ \A n \in Machine \ {m} : outCur'[n] = outCur[n]
  <2> HIDE DEF upto
  <2> QED  BY <1>8 DEF AdvanceOutbox, DieBeforeCursor, TypeOK, OutboxTypeOK
<1> SUFFICES ASSUME NEW n \in Machine, NEW k \in 1 .. outCur'[n]
             PROVE  k \in Entries(n)' /\ queue'[n][k].st # "none"
  BY DEF OutboxComplete
<1>10. CASE n # m
  BY <1>5, <1>9, <1>10 DEF OutboxComplete, Entries
<1>11. CASE n = m /\ k \in 1 .. outCur[m]
  <2>1. k \in 1 .. Quota[m] /\ queue[m][k].st # "none"
    BY <1>2, <1>11 DEF OutboxComplete
  <2> HIDE DEF q
  <2> QED  BY <2>1, <1>2, <1>5, <1>6, <1>11
<1>12. CASE n = m /\ k \notin 1 .. outCur[m]
  <2> HIDE DEF q, upto
  <2>1. outCur[m] \in Nat
    BY DEF TypeOK, OutboxTypeOK
  <2>2. k \in outCur[m] + 1 .. upto
    BY <1>7, <1>9, <1>12, <2>1
  <2>3. k \in 1 .. Quota[m]
    BY <2>1, <2>2, <1>7, ConstantTypes
  <2> QED  BY <2>2, <2>3, <1>2, <1>5, <1>6, <1>12
<1> QED  BY <1>10, <1>11, <1>12

LEMMA CompleteAskCursors ==
    ASSUME TypeOK, TypeOK', OutboxComplete, NEW m \in Machine, AskCursors(m)
    PROVE  OutboxComplete'
<1> DEFINE n == pass[m].to
           q == [k \in Entries(m) |->
                   IF k \in Skippable(m, cur[n][m])
                   THEN [queue[m][k] EXCEPT !.st = "delivered", !.by = n]
                   ELSE queue[m][k]]
<1>1. CASE SkipHeldByNode(m, n)
  <2>1. n \in Machine
    BY <1>1 DEF SkipHeldByNode, Serving
  <2>2. q \in [1 .. Quota[m] -> Entry]
    BY <2>1, EntriesAre, EntryTypes DEF TypeOK
  <2>3. \A k \in 1 .. Quota[m] : q[k].st = "none" => queue[m][k].st = "none"
    BY <2>1, EntriesAre, SkipFields DEF TypeOK
  <2>4. queue' = [queue EXCEPT ![m] = q]
    BY <1>1 DEF SkipHeldByNode
  <2> HIDE DEF q
  <2> QED  BY <2>2, <2>3, <2>4, CompleteIfRewritten DEF AskCursors
<1>2. CASE NoCursors(m, n)
  BY <1>2, CompleteIfKept DEF NoCursors, AskCursors
<1> QED  BY <1>1, <1>2 DEF AskCursors

LEMMA CompleteSettleNodeBatch ==
    ASSUME TypeOK, TypeOK', OutboxComplete, NEW m \in Machine, SettleNodeBatch(m)
    PROVE  OutboxComplete'
<1> DEFINE q == [k \in Entries(m) |->
          CASE k \in InQueue(m, pass[m].rows \ pass[m].bad)
                  -> Deliver(queue[m][k], pass[m].to)
            [] k \in InQueue(m, pass[m].bad) -> Escalate(queue[m][k])
            [] OTHER                         -> queue[m][k]]
<1>1. q \in [1 .. Quota[m] -> Entry]
  BY EntriesAre, EntryTypes DEF TypeOK, PassTypeOK, Pass
<1>2. \A k \in 1 .. Quota[m] : q[k].st = "none" => queue[m][k].st = "none"
  BY EntriesAre, DeliverFields, EscalateFields DEF TypeOK, PassTypeOK, Pass
<1>3. queue' = [queue EXCEPT ![m] = q]
  BY DEF SettleNodeBatch
<1> HIDE DEF q
<1> QED  BY <1>1, <1>2, <1>3, CompleteIfRewritten DEF SettleNodeBatch

LEMMA CompleteRefuseBatch ==
    ASSUME TypeOK, TypeOK', OutboxComplete, NEW m \in Machine, RefuseBatch(m)
    PROVE  OutboxComplete'
<1>1. PICK counted \in {{}, pass[m].rows} :
        queue' = [queue EXCEPT ![m] = [k \in Entries(m) |->
              IF k \in InQueue(m, counted) THEN Escalate(queue[m][k])
              ELSE queue[m][k]]]
  BY DEF RefuseBatch
<1> DEFINE q == [k \in Entries(m) |->
              IF k \in InQueue(m, counted) THEN Escalate(queue[m][k])
              ELSE queue[m][k]]
<1>2. q \in [1 .. Quota[m] -> Entry]
  BY EntriesAre, EntryTypes DEF TypeOK
<1>3. \A k \in 1 .. Quota[m] : q[k].st = "none" => queue[m][k].st = "none"
  BY EntriesAre, EscalateFields DEF TypeOK
<1>4. queue' = [queue EXCEPT ![m] = q]
  BY <1>1
<1> HIDE DEF q
<1> QED  BY <1>2, <1>3, <1>4, CompleteIfRewritten DEF RefuseBatch

LEMMA CompleteNoAnswer ==
    ASSUME TypeOK, TypeOK', OutboxComplete, NEW m \in Machine, NoAnswer(m)
    PROVE  OutboxComplete'
<1> DEFINE q == [k \in Entries(m) |->
          IF k \in InQueue(m, pass[m].rows)
          THEN TransportNote(queue[m][k]) ELSE queue[m][k]]
<1>1. q \in [1 .. Quota[m] -> Entry]
  BY EntriesAre, EntryTypes DEF TypeOK
<1>2. \A k \in 1 .. Quota[m] : q[k].st = "none" => queue[m][k].st = "none"
  BY EntriesAre, NoteFields DEF TypeOK
<1>3. queue' = [queue EXCEPT ![m] = q]
  BY DEF NoAnswer
<1> HIDE DEF q
<1> QED  BY <1>1, <1>2, <1>3, CompleteIfRewritten DEF NoAnswer

LEMMA CompletePruneNodeQueue ==
    ASSUME TypeOK, TypeOK', OutboxComplete, NEW m \in Machine, PruneNodeQueue(m)
    PROVE  OutboxComplete'
<1> DEFINE old == Marked(m, "delivered") \cap Of(m, Prunable)
           q == [k \in Entries(m) |->
                  IF k \in old THEN [queue[m][k] EXCEPT !.st = "pruned"]
                  ELSE queue[m][k]]
<1>1. q \in [1 .. Quota[m] -> Entry]
  BY EntriesAre, EntryTypes DEF TypeOK
<1>2. \A k \in 1 .. Quota[m] : q[k].st = "none" => queue[m][k].st = "none"
  BY EntriesAre, PruneFields DEF TypeOK
<1>3. queue' = [queue EXCEPT ![m] = q]
  BY DEF PruneNodeQueue
<1> HIDE DEF q
<1> QED  BY <1>1, <1>2, <1>3, CompleteIfRewritten DEF PruneNodeQueue

LEMMA CompleteRetryFailed ==
    ASSUME TypeOK, TypeOK', OutboxComplete, NEW m \in Machine, RetryFailed(m)
    PROVE  OutboxComplete'
<1> DEFINE q == [k \in Entries(m) |->
                   IF queue[m][k].st = "failed" THEN Offer(queue[m][k])
                   ELSE queue[m][k]]
<1>1. q \in [1 .. Quota[m] -> Entry]
  BY EntriesAre, EntryTypes DEF TypeOK
<1>2. \A k \in 1 .. Quota[m] : q[k].st = "none" => queue[m][k].st = "none"
  BY EntriesAre, OfferFields DEF TypeOK
<1>3. queue' = [queue EXCEPT ![m] = q]
  BY DEF RetryFailed
<1> HIDE DEF q
<1> QED  BY <1>1, <1>2, <1>3, CompleteIfRewritten DEF RetryFailed

LEMMA CompleteStep ==
    TypeOK /\ TypeOK' /\ OutboxComplete /\ [Next]_vars => OutboxComplete'
<1> SUFFICES ASSUME TypeOK, TypeOK', OutboxComplete, [Next]_vars
             PROVE  OutboxComplete'
  OBVIOUS
<1>1. CASE UNCHANGED <<queue, outCur>>
  BY <1>1, CompleteIfKept
<1>2. ASSUME NEW m \in Machine, NEW o \in Machine,
             \/ MakeRow(m) \/ NumberOwnRows(m) \/ SendBatch(m) \/ NodeSync(m)
             \/ EndPass(m) \/ RetryPeerQuarantine(m) \/ PromoteToNode(m)
             \/ RejoinConfirmed(m) \/ RejoinRefused(m) \/ Crash(m)
             \/ StartNodeServer(m) \/ PullDistribution(m, o)
      PROVE  UNCHANGED <<queue, outCur>>
  BY <1>2 DEF MakeRow, NumberOwnRows, SendBatch, NodeSync, EndPass,
     RetryPeerQuarantine, PromoteToNode, RejoinConfirmed, RejoinRefused,
     Crash, StartNodeServer, PullDistribution, outboxVars
<1>3. ASSUME NEW m \in Machine, PushStep(m) PROVE OutboxComplete'
  BY <1>1, <1>2, <1>3, CompleteBeginPass, CompleteFillNodeOutbox,
     CompleteAskCursors, CompleteSettleNodeBatch, CompleteRefuseBatch,
     CompleteNoAnswer
     DEF PushStep
<1>4. ASSUME NEW m \in Machine, NEW n \in Machine, StartRejoin(m, n)
      PROVE  OutboxComplete'
  BY <1>1, <1>4, CompleteRearm DEF StartRejoin
<1>5. ASSUME NEW q \in stray, LateSync(q) PROVE OutboxComplete'
  BY <1>1, <1>5 DEF LateSync, outboxVars
<1>6. CASE UNCHANGED vars
  BY <1>1, <1>6 DEF vars, outboxVars
<1>7. CASE Next
  BY <1>1, <1>2, <1>3, <1>4, <1>5, <1>7, CompletePruneNodeQueue,
     CompleteRetryFailed DEF Next
<1> QED  BY <1>6, <1>7

\* fillNodeOutbox and resetOutboxCursors: however the fills are cut by their
\* LIMIT, wherever the process dies between the queue and the cursor, and
\* through every re-arm and prune, no own row at or below the outbox cursor
\* is missing from the queue.
THEOREM OutboxIsComplete == Spec => []OutboxComplete
<1>1. Init => OutboxComplete
  BY DEF Init, OutboxComplete
<1>2. TypeOK /\ TypeOK' /\ OutboxComplete /\ [Next]_vars => OutboxComplete'
  BY CompleteStep
<1> QED  BY <1>1, <1>2, TypeCorrect, PTL DEF Spec

----------------------------------------------------------------------------
(* Only answers count.                                                     *)

LEMMA CountsIfRewritten ==
    ASSUME TypeOK, NEW m \in Machine, NEW q \in [1 .. Quota[m] -> Entry],
           queue' = [queue EXCEPT ![m] = q],
           \A k \in 1 .. Quota[m] :
              q[k].att <= queue[m][k].att \/ Answered(m, k)
    PROVE  CountsAnswers
<1> SUFFICES ASSUME NEW n \in Machine, NEW k \in Entries(n),
                    queue'[n][k].att > queue[n][k].att
             PROVE  Answered(n, k)
  BY DEF CountsAnswers
<1>1. queue'[m] = q /\ \A x \in Machine \ {m} : queue'[x] = queue[x]
  BY QueueType DEF TypeOK
<1>2. k \in 1 .. Quota[n] /\ queue[n][k].att \in Nat
  BY EntriesAre DEF TypeOK, Entry
<1>3. n = m
  BY <1>1, <1>2
<1>4. q[k].att \in Nat
  BY <1>2, <1>3 DEF Entry
<1> QED  BY <1>1, <1>2, <1>3, <1>4

LEMMA CountsIfKept == ASSUME TypeOK, UNCHANGED queue PROVE CountsAnswers
<1> SUFFICES ASSUME NEW n \in Machine, NEW k \in Entries(n)
             PROVE  ~(queue'[n][k].att > queue[n][k].att)
  BY DEF CountsAnswers
<1>1. queue[n][k].att \in Nat
  BY EntriesAre DEF TypeOK, Entry
<1> QED  BY <1>1

LEMMA CountsRearm == ASSUME TypeOK, NEW m \in Machine, Rearm(m)
                     PROVE  CountsAnswers
<1> DEFINE q == [k \in Entries(m) |->
                   CASE queue[m][k].st \in {"none", "pruned"} -> NoEntry
                     [] OTHER -> Offer(queue[m][k])]
<1>1. q \in [1 .. Quota[m] -> Entry]
  BY EntriesAre, EntryTypes, ConstantTypes DEF TypeOK
<1>2. \A k \in 1 .. Quota[m] : q[k].att <= queue[m][k].att
  <2>1. \A k \in 1 .. Quota[m] : q[k].att = 0
    BY EntriesAre, OfferFields DEF TypeOK, NoEntry
  <2>2. \A k \in 1 .. Quota[m] : queue[m][k].att \in Nat
    BY EntriesAre DEF TypeOK, Entry
  <2> HIDE DEF q
  <2> QED  BY <2>1, <2>2
<1>3. queue' = [queue EXCEPT ![m] = q]
  BY DEF Rearm
<1> HIDE DEF q
<1> QED  BY <1>1, <1>2, <1>3, CountsIfRewritten

LEMMA CountsReoffer ==
    ASSUME TypeOK, NEW m \in Machine, NEW status,
           queue' = [queue EXCEPT ![m] = [k \in Entries(m) |->
               IF queue[m][k].st = status THEN Offer(queue[m][k])
               ELSE queue[m][k]]]
    PROVE  CountsAnswers
<1> DEFINE q == [k \in Entries(m) |->
                   IF queue[m][k].st = status THEN Offer(queue[m][k])
                   ELSE queue[m][k]]
<1>1. q \in [1 .. Quota[m] -> Entry]
  BY EntriesAre, EntryTypes, ConstantTypes DEF TypeOK
<1>2. \A k \in 1 .. Quota[m] : q[k].att <= queue[m][k].att
  <2>1. \A k \in 1 .. Quota[m] : q[k].att \in {0, queue[m][k].att}
    BY EntriesAre, OfferFields DEF TypeOK
  <2>2. \A k \in 1 .. Quota[m] : queue[m][k].att \in Nat
    BY EntriesAre DEF TypeOK, Entry
  <2> HIDE DEF q
  <2> QED  BY <2>1, <2>2
<1> HIDE DEF q
<1> QED  BY <1>1, <1>2, CountsIfRewritten DEF q

LEMMA CountsBeginPass == ASSUME TypeOK, NEW m \in Machine, BeginPass(m)
                         PROVE  CountsAnswers
<1>1. CASE UNCHANGED outboxVars
  BY <1>1, CountsIfKept DEF outboxVars
<1>2. CASE queue' = [queue EXCEPT ![m] = [k \in Entries(m) |->
                 IF queue[m][k].st = "delivered" THEN Offer(queue[m][k])
                 ELSE queue[m][k]]]
  BY <1>2, CountsReoffer
<1>3. CASE Rearm(m)
  BY <1>3, CountsRearm
<1> QED  BY <1>1, <1>2, <1>3 DEF BeginPass, NoteTarget

LEMMA CountsFillNodeOutbox ==
    ASSUME TypeOK, NEW m \in Machine, FillNodeOutbox(m)
    PROVE  CountsAnswers
<1>1. PICK asked \in BOOLEAN, upto \in {Least(numbered'[m], outCur[m] + FillRows)} :
         FillTo(m, upto, Recognised(m, asked))
  BY DEF FillNodeOutbox
<1> DEFINE e == Recognised(m, asked)
           q == [k \in Entries(m) |->
                   IF k \in outCur[m] + 1 .. upto /\ e[k].st \in {"none", "pruned"}
                   THEN [NoEntry EXCEPT !.st = "pending", !.gen = gen[m]]
                   ELSE e[k]]
<1>2. /\ e \in [1 .. Quota[m] -> Entry] /\ gen[m] \in Nat
      /\ Entries(m) = 1 .. Quota[m]
  BY EntriesAre, EntryTypes, ConstantTypes
     DEF Recognised, TypeOK, OutboxTypeOK
<1>3. \A k \in 1 .. Quota[m] : e[k].att \in {0, queue[m][k].att}
  BY EntriesAre, OfferFields DEF Recognised, TypeOK
<1>4. \A k \in 1 .. Quota[m] : queue[m][k].att \in Nat
  BY EntriesAre DEF TypeOK, Entry
<1> HIDE DEF e
<1>5. q \in [1 .. Quota[m] -> Entry]
  BY <1>2, EntryTypes, ConstantTypes
<1>6. \A k \in 1 .. Quota[m] : q[k].att \in {0, queue[m][k].att}
  BY <1>2, <1>3, FreshFields
<1>7. queue' = [queue EXCEPT ![m] = q]
  BY <1>1 DEF FillTo, e
<1> HIDE DEF q
<1>8. \A k \in 1 .. Quota[m] : q[k].att <= queue[m][k].att
  BY <1>4, <1>6
<1> QED  BY <1>5, <1>7, <1>8, CountsIfRewritten

LEMMA CountsAskCursors == ASSUME TypeOK, NEW m \in Machine, AskCursors(m)
                          PROVE  CountsAnswers
<1> DEFINE n == pass[m].to
           q == [k \in Entries(m) |->
                   IF k \in Skippable(m, cur[n][m])
                   THEN [queue[m][k] EXCEPT !.st = "delivered", !.by = n]
                   ELSE queue[m][k]]
<1>1. CASE SkipHeldByNode(m, n)
  <2>1. n \in Machine
    BY <1>1 DEF SkipHeldByNode, Serving
  <2>2. q \in [1 .. Quota[m] -> Entry]
    BY <2>1, EntriesAre, EntryTypes DEF TypeOK
  <2>3. \A k \in 1 .. Quota[m] : q[k].att = queue[m][k].att
    BY <2>1, EntriesAre, SkipFields DEF TypeOK
  <2>5. \A k \in 1 .. Quota[m] : queue[m][k].att \in Nat
    BY EntriesAre DEF TypeOK, Entry
  <2>4. queue' = [queue EXCEPT ![m] = q]
    BY <1>1 DEF SkipHeldByNode
  <2> HIDE DEF q
  <2>6. \A k \in 1 .. Quota[m] : q[k].att <= queue[m][k].att
    BY <2>3, <2>5
  <2> QED  BY <2>2, <2>4, <2>6, CountsIfRewritten
<1>2. CASE NoCursors(m, n)
  BY <1>2, CountsIfKept DEF NoCursors
<1> QED  BY <1>1, <1>2 DEF AskCursors

LEMMA CountsSettleNodeBatch ==
    ASSUME TypeOK, NEW m \in Machine, SettleNodeBatch(m)
    PROVE  CountsAnswers
<1> DEFINE q == [k \in Entries(m) |->
          CASE k \in InQueue(m, pass[m].rows \ pass[m].bad)
                  -> Deliver(queue[m][k], pass[m].to)
            [] k \in InQueue(m, pass[m].bad) -> Escalate(queue[m][k])
            [] OTHER                         -> queue[m][k]]
<1>1. q \in [1 .. Quota[m] -> Entry]
  BY EntriesAre, EntryTypes DEF TypeOK, PassTypeOK, Pass
<1>2. pass[m].pc = "answered" /\ pass[m].bad \subseteq pass[m].rows
  BY DEF SettleNodeBatch, TypeOK, PassTypeOK
<1>3. \A k \in 1 .. Quota[m] : q[k] = queue[m][k] \/ Answered(m, k)
  BY <1>2, EntriesAre DEF TypeOK, InQueue, Answered
<1>4. \A k \in 1 .. Quota[m] : queue[m][k].att \in Nat
  BY EntriesAre DEF TypeOK, Entry
<1>5. queue' = [queue EXCEPT ![m] = q]
  BY DEF SettleNodeBatch
<1> HIDE DEF q
<1>6. \A k \in 1 .. Quota[m] : q[k].att <= queue[m][k].att \/ Answered(m, k)
  BY <1>3, <1>4
<1> QED  BY <1>1, <1>5, <1>6, CountsIfRewritten

LEMMA CountsRefuseBatch == ASSUME TypeOK, NEW m \in Machine, RefuseBatch(m)
                           PROVE  CountsAnswers
<1>1. PICK counted \in {{}, pass[m].rows} :
        /\ queue' = [queue EXCEPT ![m] = [k \in Entries(m) |->
              IF k \in InQueue(m, counted) THEN Escalate(queue[m][k])
              ELSE queue[m][k]]]
        /\ suspect' = suspect \cup RowsOf(m, counted)
  BY DEF RefuseBatch
<1> DEFINE q == [k \in Entries(m) |->
              IF k \in InQueue(m, counted) THEN Escalate(queue[m][k])
              ELSE queue[m][k]]
<1>2. q \in [1 .. Quota[m] -> Entry]
  BY EntriesAre, EntryTypes DEF TypeOK
<1>3. pass[m].pc = "sent" /\ Serving(pass[m].to)
  BY DEF RefuseBatch
<1>4. \A k \in counted : <<m, k>> \in suspect' /\ k \in pass[m].rows
  BY <1>1 DEF RowsOf
<1>5. \A k \in 1 .. Quota[m] : q[k] = queue[m][k] \/ Answered(m, k)
  BY <1>3, <1>4, EntriesAre DEF TypeOK, InQueue, Answered
<1>6. \A k \in 1 .. Quota[m] : queue[m][k].att \in Nat
  BY EntriesAre DEF TypeOK, Entry
<1>7. queue' = [queue EXCEPT ![m] = q]
  BY <1>1
<1> HIDE DEF q
<1>8. \A k \in 1 .. Quota[m] : q[k].att <= queue[m][k].att \/ Answered(m, k)
  BY <1>5, <1>6
<1> QED  BY <1>2, <1>7, <1>8, CountsIfRewritten

LEMMA CountsNoAnswer == ASSUME TypeOK, NEW m \in Machine, NoAnswer(m)
                        PROVE  CountsAnswers
<1> DEFINE q == [k \in Entries(m) |->
          IF k \in InQueue(m, pass[m].rows)
          THEN TransportNote(queue[m][k]) ELSE queue[m][k]]
<1>1. q \in [1 .. Quota[m] -> Entry]
  BY EntriesAre, EntryTypes DEF TypeOK
<1>2. \A k \in 1 .. Quota[m] : /\ q[k].att = queue[m][k].att
                               /\ queue[m][k].att \in Nat
  BY EntriesAre, NoteFields, ZenonT(60) DEF TypeOK, Entry
<1>3. queue' = [queue EXCEPT ![m] = q]
  BY DEF NoAnswer
<1> HIDE DEF q
<1>4. \A k \in 1 .. Quota[m] : q[k].att <= queue[m][k].att
  BY <1>2
<1> QED  BY <1>1, <1>3, <1>4, CountsIfRewritten

LEMMA CountsPruneNodeQueue ==
    ASSUME TypeOK, NEW m \in Machine, PruneNodeQueue(m)
    PROVE  CountsAnswers
<1> DEFINE old == Marked(m, "delivered") \cap Of(m, Prunable)
           q == [k \in Entries(m) |->
                  IF k \in old THEN [queue[m][k] EXCEPT !.st = "pruned"]
                  ELSE queue[m][k]]
<1>1. q \in [1 .. Quota[m] -> Entry]
  BY EntriesAre, EntryTypes DEF TypeOK
<1>2. \A k \in 1 .. Quota[m] : /\ q[k].att = queue[m][k].att
                               /\ queue[m][k].att \in Nat
  BY EntriesAre, PruneFields, ZenonT(60) DEF TypeOK, Entry
<1>3. queue' = [queue EXCEPT ![m] = q]
  BY DEF PruneNodeQueue
<1> HIDE DEF q
<1>4. \A k \in 1 .. Quota[m] : q[k].att <= queue[m][k].att
  BY <1>2
<1> QED  BY <1>1, <1>3, <1>4, CountsIfRewritten

LEMMA CountsRetryFailed == ASSUME TypeOK, NEW m \in Machine, RetryFailed(m)
                           PROVE  CountsAnswers
BY CountsReoffer DEF RetryFailed

LEMMA CountsStep == TypeOK /\ Next => CountsAnswers
<1> SUFFICES ASSUME TypeOK, Next PROVE CountsAnswers
  OBVIOUS
<1>1. ASSUME UNCHANGED queue PROVE CountsAnswers
  BY <1>1, CountsIfKept
<1>2. ASSUME NEW m \in Machine, NEW o \in Machine,
             \/ MakeRow(m) \/ NumberOwnRows(m) \/ SendBatch(m) \/ NodeSync(m)
             \/ EndPass(m) \/ RetryPeerQuarantine(m) \/ PromoteToNode(m)
             \/ RejoinConfirmed(m) \/ RejoinRefused(m) \/ Crash(m)
             \/ StartNodeServer(m) \/ PullDistribution(m, o)
      PROVE  UNCHANGED queue
  BY <1>2 DEF MakeRow, NumberOwnRows, SendBatch, NodeSync, EndPass,
     RetryPeerQuarantine, PromoteToNode, RejoinConfirmed, RejoinRefused,
     Crash, StartNodeServer, PullDistribution, outboxVars
<1>3. ASSUME NEW m \in Machine, PushStep(m) PROVE CountsAnswers
  BY <1>1, <1>2, <1>3, CountsBeginPass, CountsFillNodeOutbox,
     CountsAskCursors, CountsSettleNodeBatch, CountsRefuseBatch,
     CountsNoAnswer
     DEF PushStep
<1>4. ASSUME NEW m \in Machine, NEW n \in Machine, StartRejoin(m, n)
      PROVE  CountsAnswers
  BY <1>1, <1>4, CountsRearm DEF StartRejoin
<1>5. ASSUME NEW q \in stray, LateSync(q) PROVE CountsAnswers
  BY <1>1, <1>5 DEF LateSync, outboxVars
<1> QED
  BY <1>1, <1>2, <1>3, <1>4, <1>5, CountsPruneNodeQueue, CountsRetryFailed
     DEF Next

\* markNodeQueueFailed: a row's attempts only go up on an answer of the server
\* about that row or its batch, whatever the network does.
THEOREM AttemptsAreAnswers == Spec => OnlyAnswersCount
<1>1. TypeOK /\ [Next]_vars => [CountsAnswers]_vars
  BY CountsStep
<1> QED  BY <1>1, TypeCorrect, PTL DEF Spec, OnlyAnswersCount

----------------------------------------------------------------------------
(* What the server's cursor says of a till's rows.                         *)
(*                                                                         *)
(* CursorCoversRows is not inductive: that a batch leaves no hole below    *)
(* the cursor it moves depends on the order of the queue, on what 'delivered' *)
(* says of the server the till noted last, and on the requests still on the *)
(* wire.  A till may be repointed while its pass runs: what the pass then   *)
(* crosses off, or leaves out of a batch, for another server than the one   *)
(* noted is Misplaced, and not clean from there on.                         *)

\* Cursors only ever cover what was taken or kept in the quarantine.
HeldBelowCursor ==
    \A n, o \in Machine : \A k \in 1 .. Quota[o] :
        <<o, k>> \in held[n] \cup quar[n] \cup gaveUp[n] => k <= cur[n][o]

\* A request for n with the rows S of m leaves no hole at n.
LeavesNoHole(m, n, S) ==
    \A j \in S : \A k \in 1 .. j - 1 :
        <<m, k>> \notin suspect => k \in S \/ <<m, k>> \in held[n]

RequestsLeaveNoHole ==
    /\ \A m \in Machine :
          pass[m].pc = "sent" /\ pass[m].to \in Machine
              => LeavesNoHole(m, pass[m].to, pass[m].rows)
    /\ \A q \in stray : LeavesNoHole(q.from, q.to, q.rows)

\* An answer on its way back is a server's, and says what that server did.
AnswersAreTrue ==
    \A m \in Machine : pass[m].pc = "answered" =>
        /\ pass[m].to \in Machine
        /\ \A k \in pass[m].rows \ pass[m].bad : <<m, k>> \in held[pass[m].to]
        /\ \A k \in pass[m].bad : <<m, k>> \in suspect

\* A clean row fails at nothing; crossed off, it is on the server noted last.
CleanEntries ==
    \A m \in Machine : \A k \in 1 .. Quota[m] :
        <<m, k>> \notin suspect =>
            /\ queue[m][k].st \notin {"failed", "pruned"}
            /\ queue[m][k].st = "delivered" =>
                  /\ queue[m][k].by = target[m] /\ target[m] \in Machine
                  /\ <<m, k>> \in held[target[m]]

\* Clean rows enter the queue in the order of their numbers and stay so.
QueueInOrder ==
    \A m \in Machine :
        /\ \A k \in 1 .. Quota[m] : queue[m][k].gen <= gen[m]
        /\ \A j \in 1 .. Quota[m] : \A k \in 1 .. j - 1 :
              (queue[m][j].st # "none" /\ <<m, k>> \notin suspect)
                 => queue[m][k].st # "none" /\ queue[m][k].gen <= queue[m][j].gen

CursorInv ==
    /\ HeldBelowCursor /\ CursorCoversRows /\ RequestsLeaveNoHole
    /\ AnswersAreTrue
QueueInv == CleanEntries /\ QueueInOrder
SafeInv  == TypeOK /\ OutboxComplete /\ CursorInv /\ QueueInv

\* Rows and suspicions only accumulate.
Grows == /\ \A n \in Machine : held[n] \subseteq held'[n]
         /\ suspect \subseteq suspect'

LEMMA TakeGrows ==
    ASSUME TypeOK, NEW n \in Machine, NEW rows, NEW counted, Take(n, rows, counted)
    PROVE  /\ held'[n] = held[n] \cup rows
           /\ \A x \in Machine \ {n} : held'[x] = held[x] /\ cur'[x] = cur[x]
           /\ \A x \in Machine : held[x] \subseteq held'[x]
BY DEF Take, TypeOK, HoldTypeOK

LEMMA GrowsStep == TypeOK /\ [Next]_vars => Grows
<1> SUFFICES ASSUME TypeOK, [Next]_vars PROVE Grows
  OBVIOUS
<1>1. ASSUME UNCHANGED held, suspect \subseteq suspect' PROVE Grows
  BY <1>1 DEF Grows
<1>2. CASE UNCHANGED vars
  BY <1>1, <1>2, SMTT(30) DEF vars, holdVars
<1>3. ASSUME NEW m \in Machine,
             \/ MakeRow(m) \/ NumberOwnRows(m) \/ SendBatch(m) \/ BeginPass(m)
             \/ EndPass(m) \/ PromoteToNode(m) \/ FillNodeOutbox(m)
             \/ RejoinConfirmed(m) \/ RejoinRefused(m) \/ Crash(m)
             \/ StartNodeServer(m) \/ SettleNodeBatch(m)
             \/ RefuseBatch(m) \/ NoAnswer(m) \/ PruneNodeQueue(m)
      PROVE  Grows
  BY <1>1, <1>3 DEF MakeRow, NumberOwnRows, SendBatch, BeginPass, EndPass,
     PromoteToNode, FillNodeOutbox, RejoinConfirmed, RejoinRefused, Crash,
     StartNodeServer, SettleNodeBatch, RefuseBatch, NoAnswer,
     PruneNodeQueue, holdVars
<1>10. ASSUME NEW m \in Machine, AskCursors(m) PROVE Grows
  BY <1>1, <1>10 DEF AskCursors, SkipHeldByNode, NoCursors, holdVars
<1>4. ASSUME NEW m \in Machine, NEW n \in Machine, StartRejoin(m, n)
      PROVE  Grows
  BY <1>1, <1>4 DEF StartRejoin, holdVars
<1>5. ASSUME NEW m \in Machine, NodeSync(m) PROVE Grows
  BY <1>5, TakeGrows DEF NodeSync, ApplyPeerRows, Serving, Grows
<1>6. ASSUME NEW q \in stray, LateSync(q) PROVE Grows
  BY <1>6, TakeGrows DEF LateSync, ApplyPeerRows, Serving, Grows
<1>7. ASSUME NEW m \in Machine, NEW o \in Machine, PullDistribution(m, o)
      PROVE  Grows
  BY <1>7, TakeGrows DEF PullDistribution, PullTakes, Grows
<1>8. ASSUME NEW m \in Machine, RetryPeerQuarantine(m) PROVE Grows
  BY <1>8, TakeGrows DEF RetryPeerQuarantine, RetryQuarantined, Grows
<1>9. ASSUME NEW m \in Machine, RetryFailed(m) PROVE Grows
  BY <1>9, TakeGrows DEF RetryFailed, RetryQuarantined, Grows
<1> QED
  BY <1>2, <1>3, <1>4, <1>5, <1>6, <1>7, <1>8, <1>9, <1>10 DEF Next, PushStep

\* The cursors of the machine that takes rows.
LEMMA TakeCursors ==
    ASSUME TypeOK, NEW n \in Machine, NEW rows \in SUBSET Row,
           NEW counted \in SUBSET Row, Take(n, rows, counted),
           NEW o \in Machine
    PROVE  /\ cur[n][o] \in Nat /\ cur'[n][o] \in Nat
           /\ cur[n][o] <= cur'[n][o]
           /\ \A k \in 1 .. Quota[o] : <<o, k>> \in counted => k <= cur'[n][o]
           /\ \/ cur'[n][o] = cur[n][o]
              \/ cur'[n][o] \in 1 .. Quota[o] /\ <<o, cur'[n][o]>> \in counted
<1>1. cur[n][o] \in Nat /\ Quota[o] \in Nat
  BY ConstantTypes DEF TypeOK, HoldTypeOK
<1>2. cur'[n][o] = Max({cur[n][o]} \cup Of(o, counted))
  BY DEF Take, TypeOK, HoldTypeOK
<1>3. Of(o, counted) \in SUBSET (1 .. Quota[o])
  BY DEF Of
<1>4. /\ cur'[n][o] \in Nat /\ cur[n][o] <= cur'[n][o]
      /\ \A k \in Of(o, counted) : k <= cur'[n][o]
      /\ cur'[n][o] = cur[n][o] \/ cur'[n][o] \in Of(o, counted)
  <2> DEFINE c == cur[n][o]
             S == Of(o, counted)
  <2>1. c \in Nat /\ S \in SUBSET (1 .. Quota[o])
    BY <1>1, <1>3
  <2> HIDE DEF c, S
  <2>2. /\ Max({c} \cup S) \in Nat /\ c <= Max({c} \cup S)
        /\ \A k \in S : k <= Max({c} \cup S)
        /\ Max({c} \cup S) = c \/ Max({c} \cup S) \in S
    BY <1>1, <2>1, CursorAfterTake
  <2> QED  BY <2>2, <1>2 DEF c, S
<1> QED  BY <1>1, <1>4 DEF Of

\* Taking rows that leave no hole keeps the cursors honest.
LEMMA TakeKeepsCursors ==
    ASSUME TypeOK, HeldBelowCursor, CursorCoversRows, Grows,
           NEW n \in Machine, NEW rows \in SUBSET Row,
           NEW counted \in SUBSET Row, Take(n, rows, counted),
           rows \subseteq counted,
           \A x \in Machine \ {n} :
              quar'[x] \cup gaveUp'[x] = quar[x] \cup gaveUp[x],
           quar'[n] \cup gaveUp'[n] \subseteq quar[n] \cup gaveUp[n] \cup counted,
           \A o \in Machine : \A j \in 1 .. Quota[o] : \A k \in 1 .. j :
              <<o, j>> \in counted /\ <<o, k>> \notin suspect'
                 => <<o, k>> \in held[n] \cup rows
    PROVE  HeldBelowCursor' /\ CursorCoversRows'
<1>1. HeldBelowCursor'
  <2> SUFFICES ASSUME NEW x \in Machine, NEW o \in Machine,
                      NEW k \in 1 .. Quota[o],
                      <<o, k>> \in held'[x] \cup quar'[x] \cup gaveUp'[x]
               PROVE  k <= cur'[x][o]
    BY DEF HeldBelowCursor
  <2>1. CASE x # n
    BY <2>1, TakeGrows DEF HeldBelowCursor
  <2>2. CASE x = n /\ <<o, k>> \in counted
    BY <2>2, TakeCursors
  <2>3. CASE x = n /\ <<o, k>> \in held[n] \cup quar[n] \cup gaveUp[n]
    <3>1. k <= cur[n][o]
      BY <2>3 DEF HeldBelowCursor
    <3>2. /\ cur[n][o] \in Nat /\ cur'[n][o] \in Nat
          /\ cur[n][o] <= cur'[n][o]
      BY TakeCursors
    <3>3. k \in Int
      BY ConstantTypes
    <3> QED  BY <3>1, <3>2, <3>3, <2>3
  <2> QED  BY <2>1, <2>2, <2>3, TakeGrows
<1>2. CursorCoversRows'
  <2> SUFFICES ASSUME NEW x \in Machine, NEW o \in Machine,
                      NEW k \in 1 .. Quota[o],
                      k <= cur'[x][o], <<o, k>> \notin suspect'
               PROVE  <<o, k>> \in held'[x]
    BY DEF CursorCoversRows
  <2>1. <<o, k>> \notin suspect
    BY DEF Grows
  <2>2. CASE x # n
    BY <2>1, <2>2, TakeGrows DEF CursorCoversRows
  <2>3. CASE x = n /\ cur'[n][o] = cur[n][o]
    BY <2>1, <2>3, TakeGrows DEF CursorCoversRows
  <2>4. CASE x = n /\ cur'[n][o] \in 1 .. Quota[o] /\ <<o, cur'[n][o]>> \in counted
    <3>1. k \in 1 .. cur'[n][o]
      BY <2>4, ConstantTypes
    <3>2. <<o, k>> \in held[n] \cup rows
      BY <2>4, <3>1
    <3> QED  BY <2>4, <3>2, TakeGrows
  <2> QED  BY <2>2, <2>3, <2>4, TakeCursors
<1> QED  BY <1>1, <1>2

LEMMA CursorsApply ==
    ASSUME TypeOK, HeldBelowCursor, CursorCoversRows, Grows,
           NEW n \in Machine, NEW o \in Machine,
           NEW S \in SUBSET (1 .. Quota[o]), NEW refused \in SUBSET S,
           ApplyPeerRows(n, o, S, refused), LeavesNoHole(o, n, S),
           UNCHANGED <<quar, gaveUp>>
    PROVE  HeldBelowCursor' /\ CursorCoversRows'
<1> DEFINE rows == RowsOf(o, S \ refused)
<1>1. rows \in SUBSET Row /\ Take(n, rows, rows)
  BY RowsOfType DEF ApplyPeerRows
<1>2. ASSUME NEW x \in Machine, NEW j \in 1 .. Quota[x], NEW k \in 1 .. j,
             <<x, j>> \in rows, <<x, k>> \notin suspect'
      PROVE  <<x, k>> \in held[n] \cup rows
  <2>1. x = o /\ j \in S \ refused
    BY <1>2 DEF RowsOf
  <2>2. <<o, k>> \notin suspect /\ k \notin refused
    BY <1>2, <2>1 DEF ApplyPeerRows, RowsOf
  <2>3. CASE k = j
    BY <1>2, <2>3
  <2>4. CASE k # j
    <3>1. k \in 1 .. j - 1
      BY <2>4, ConstantTypes
    <3>2. k \in S \/ <<o, k>> \in held[n]
      BY <2>1, <2>2, <3>1 DEF LeavesNoHole
    <3> QED  BY <2>1, <2>2, <3>2 DEF RowsOf
  <2> QED  BY <2>3, <2>4
<1> HIDE DEF rows
<1> QED  BY <1>1, <1>2, TakeKeepsCursors

\* What a server hands out beyond a cursor leaves no hole either: a clean row
\* below one it holds it holds too, by its own cursor.
LEMMA ServerHoldsBelow ==
    ASSUME TypeOK, HeldBelowCursor, CursorCoversRows,
           NEW n \in Machine, NEW o \in Machine, NEW j \in 1 .. Quota[o],
           Holds(n, <<o, j>>), NEW k \in 1 .. j, <<o, k>> \notin suspect
    PROVE  Holds(n, <<o, k>>)
<1>1. k \in 1 .. Quota[o] /\ k <= j /\ j \in Nat
  BY ConstantTypes
<1>2. CASE o = n
  <2>1. numbered[n] \in Nat /\ j <= numbered[n]
    BY <1>2 DEF Holds, TypeOK, RowsTypeOK
  <2>2. k <= numbered[n]
    BY <1>1, <2>1
  <2> QED  BY <1>2, <2>2 DEF Holds
<1>3. CASE o # n
  <2>1. <<o, j>> \in held[n] /\ j <= cur[n][o] /\ cur[n][o] \in Nat
    BY <1>3 DEF Holds, HeldBelowCursor, TypeOK, HoldTypeOK
  <2>2. k <= cur[n][o]
    BY <1>1, <2>1
  <2>3. <<o, k>> \in held[n]
    BY <1>1, <2>2 DEF CursorCoversRows
  <2> QED  BY <1>3, <2>3 DEF Holds
<1> QED  BY <1>2, <1>3

LEMMA CursorsPull ==
    ASSUME TypeOK, HeldBelowCursor, CursorCoversRows, Grows,
           NEW m \in Machine, NEW o \in Machine, PullDistribution(m, o)
    PROVE  HeldBelowCursor' /\ CursorCoversRows'
<1>1. PICK S \in Distribution(url[m], m, o) :
         \E refused \in SUBSET MayRefuse(m, o, S) :
            PullTakes(m, o, S, refused)
  BY DEF PullDistribution
<1>2. PICK refused \in SUBSET MayRefuse(m, o, S) : PullTakes(m, o, S, refused)
  BY <1>1
<1> DEFINE waiting == quar[m] \cup (RowsOf(o, refused) \ gaveUp[m])
<1>3. PICK back \in SUBSET waiting, lost \in SUBSET quar[m] :
        /\ Take(m, RowsOf(o, S \ refused) \cup back, RowsOf(o, S) \cup back)
        /\ quar' = [quar EXCEPT ![m] = waiting \ (back \cup lost)]
        /\ gaveUp' = [gaveUp EXCEPT ![m] = @ \cup lost]
  <2>1. PICK back \in SUBSET waiting :
           \E lost \in SUBSET (quar[m] \ (back \cup held[m])) :
              /\ Take(m, RowsOf(o, S \ refused) \cup back, RowsOf(o, S) \cup back)
              /\ quar' = [quar EXCEPT ![m] = waiting \ (back \cup lost)]
              /\ gaveUp' = [gaveUp EXCEPT ![m] = @ \cup lost]
    BY <1>2 DEF PullTakes
  <2> QED  BY <2>1
<1> DEFINE rows == RowsOf(o, S \ refused) \cup back
           counted == RowsOf(o, S) \cup back
<1>4. /\ S \in SUBSET (1 .. Quota[o]) /\ refused \in SUBSET S
      /\ url[m] \in Machine
      /\ suspect' = suspect \cup RowsOf(o, refused)
  BY <1>2 DEF Distribution, MayRefuse, PullDistribution, PullTakes, Serving
<1>5. /\ RowsOf(o, S) \subseteq Row /\ RowsOf(o, S \ refused) \subseteq Row
      /\ RowsOf(o, refused) \subseteq RowsOf(o, S)
      /\ RowsOf(o, S \ refused) \subseteq RowsOf(o, S)
  BY <1>4, RowsOfType DEF RowsOf
<1>6. quar[m] \subseteq Row
  BY DEF TypeOK, HoldTypeOK
<1>7. rows \in SUBSET Row /\ counted \in SUBSET Row /\ rows \subseteq counted
  BY <1>5, <1>6
<1>8. /\ \A x \in Machine \ {m} :
            quar'[x] \cup gaveUp'[x] = quar[x] \cup gaveUp[x]
      /\ quar'[m] \cup gaveUp'[m] \subseteq quar[m] \cup gaveUp[m] \cup counted
  BY <1>3, <1>4, <1>5 DEF TypeOK, HoldTypeOK
<1>9. ASSUME NEW j \in S, NEW k \in 1 .. j, <<o, k>> \notin suspect'
      PROVE  <<o, k>> \in held[m] \cup rows
  <2>1. /\ <<o, k>> \notin suspect /\ k \notin refused
        /\ k \in 1 .. Quota[o] /\ j \in 1 .. Quota[o] /\ k <= j
    BY <1>4, <1>9, ConstantTypes DEF RowsOf
  <2>2. CASE k <= cur[m][o]
    BY <2>1, <2>2 DEF CursorCoversRows
  <2>3. CASE k > cur[m][o]
    <3>1. Holds(url[m], <<o, j>>)
      BY DEF Distribution
    <3>2. Holds(url[m], <<o, k>>)
      BY <1>4, <2>1, <3>1, ServerHoldsBelow
    <3>3. k \in S
      <4>1. CASE k = j
        BY <4>1
      <4>2. CASE k # j
        <5>1. k < j
          BY <2>1, <4>2, ConstantTypes
        <5> QED  BY <2>1, <2>3, <3>2, <5>1 DEF Distribution
      <4> QED  BY <4>1, <4>2
    <3> QED  BY <2>1, <3>3 DEF RowsOf
  <2>4. cur[m][o] \in Nat
    BY DEF TypeOK, HoldTypeOK
  <2> QED  BY <2>1, <2>2, <2>3, <2>4
<1>10. ASSUME NEW x \in Machine, NEW j \in 1 .. Quota[x], NEW k \in 1 .. j,
              <<x, j>> \in counted, <<x, k>> \notin suspect'
       PROVE  <<x, k>> \in held[m] \cup rows
  <2>1. CASE <<x, j>> \in RowsOf(o, S)
    <3>1. x = o /\ j \in S
      BY <2>1 DEF RowsOf
    <3> QED  BY <3>1, <1>9, <1>10
  <2>2. CASE <<x, j>> \in quar[m]
    <3>1. j <= cur[m][x] /\ cur[m][x] \in Nat
      BY <2>2 DEF HeldBelowCursor, TypeOK, HoldTypeOK
    <3>2. k \in 1 .. Quota[x] /\ k <= cur[m][x]
      BY <3>1, ConstantTypes
    <3>3. <<x, k>> \notin suspect
      BY <1>10, <1>4
    <3> QED  BY <3>2, <3>3 DEF CursorCoversRows
  <2> QED  BY <2>1, <2>2, <1>3, <1>5, <1>10
<1> HIDE DEF rows, counted, waiting
<1>11. Take(m, rows, counted)
  BY <1>3 DEF rows, counted
<1> QED  BY <1>7, <1>8, <1>10, <1>11, TakeKeepsCursors

LEMMA CursorsRetry ==
    ASSUME TypeOK, HeldBelowCursor, CursorCoversRows, Grows,
           NEW m \in Machine, NEW waiting \in SUBSET (quar[m] \cup gaveUp[m]),
           NEW back \in SUBSET waiting, NEW lost \in SUBSET waiting,
           RetryQuarantined(m, waiting, back, lost)
    PROVE  HeldBelowCursor' /\ CursorCoversRows'
<1>1. back \in SUBSET Row /\ Take(m, back, back)
  BY DEF RetryQuarantined, TypeOK, HoldTypeOK
<1>2. /\ \A x \in Machine \ {m} :
            quar'[x] \cup gaveUp'[x] = quar[x] \cup gaveUp[x]
      /\ quar'[m] \cup gaveUp'[m] \subseteq quar[m] \cup gaveUp[m] \cup back
  BY DEF RetryQuarantined, TypeOK, HoldTypeOK
<1>3. ASSUME NEW x \in Machine, NEW j \in 1 .. Quota[x], NEW k \in 1 .. j,
             <<x, j>> \in back, <<x, k>> \notin suspect'
      PROVE  <<x, k>> \in held[m] \cup back
  <2>1. j <= cur[m][x] /\ cur[m][x] \in Nat
    BY <1>3 DEF HeldBelowCursor, TypeOK, HoldTypeOK
  <2>2. k \in 1 .. Quota[x] /\ k <= cur[m][x]
    BY <2>1, ConstantTypes
  <2>3. <<x, k>> \notin suspect
    BY <1>3 DEF Grows
  <2> QED  BY <2>2, <2>3 DEF CursorCoversRows
<1> QED  BY <1>1, <1>2, <1>3, TakeKeepsCursors

\* Steps that take no row.
LEMMA CursorsKept ==
    ASSUME TypeOK, HeldBelowCursor, CursorCoversRows, Grows,
           UNCHANGED <<held, cur>>,
           \A x \in Machine :
              quar'[x] \cup gaveUp'[x] \subseteq quar[x] \cup gaveUp[x]
    PROVE  HeldBelowCursor' /\ CursorCoversRows'
BY DEF HeldBelowCursor, CursorCoversRows, Grows

LEMMA ReleaseKeeps ==
    ASSUME TypeOK, NEW m \in Machine, ReleaseQuarantine(m)
    PROVE  \A x \in Machine :
              quar'[x] \cup gaveUp'[x] \subseteq quar[x] \cup gaveUp[x]
BY DEF ReleaseQuarantine, TypeOK, HoldTypeOK

LEMMA CursorsStep ==
    ASSUME TypeOK, HeldBelowCursor, CursorCoversRows, RequestsLeaveNoHole,
           Grows, Next
    PROVE  HeldBelowCursor' /\ CursorCoversRows'
<1>1. ASSUME UNCHANGED holdVars PROVE HeldBelowCursor' /\ CursorCoversRows'
  BY <1>1, CursorsKept, SMTT(30) DEF holdVars
<1>2. ASSUME NEW m \in Machine,
             \/ MakeRow(m) \/ NumberOwnRows(m) \/ SendBatch(m) \/ EndPass(m)
             \/ PromoteToNode(m) \/ RejoinConfirmed(m) \/ RejoinRefused(m)
             \/ Crash(m) \/ StartNodeServer(m) \/ AskCursors(m)
             \/ SettleNodeBatch(m) \/ RefuseBatch(m) \/ NoAnswer(m)
             \/ PruneNodeQueue(m)
      PROVE  UNCHANGED holdVars
  BY <1>2 DEF MakeRow, NumberOwnRows, SendBatch, EndPass, PromoteToNode,
     RejoinConfirmed, RejoinRefused, Crash, StartNodeServer, AskCursors,
     SettleNodeBatch, RefuseBatch, NoAnswer, PruneNodeQueue
<1>3. ASSUME NEW m \in Machine, NEW n \in Machine, StartRejoin(m, n)
      PROVE  UNCHANGED holdVars
  BY <1>3 DEF StartRejoin
<1>4. ASSUME NEW m \in Machine, BeginPass(m)
      PROVE  HeldBelowCursor' /\ CursorCoversRows'
  BY <1>4, CursorsKept, ReleaseKeeps DEF BeginPass, NoteTarget
<1>5. ASSUME NEW m \in Machine, FillNodeOutbox(m)
      PROVE  HeldBelowCursor' /\ CursorCoversRows'
  <2>1. PICK asked \in BOOLEAN : NoteIdentity(m, asked)
    BY <1>5 DEF FillNodeOutbox
  <2>2. ReleaseQuarantine(m) \/ UNCHANGED <<quar, gaveUp>>
    BY <2>1 DEF NoteIdentity
  <2>3. UNCHANGED <<held, cur>>
    BY <1>5 DEF FillNodeOutbox
  <2> QED  BY <2>2, <2>3, CursorsKept, ReleaseKeeps
<1>6. ASSUME NEW m \in Machine, NodeSync(m)
      PROVE  HeldBelowCursor' /\ CursorCoversRows'
  <2>1. PICK refused \in SUBSET MayRefuse(pass[m].to, m, pass[m].rows) :
           ApplyPeerRows(pass[m].to, m, pass[m].rows, refused)
    BY <1>6 DEF NodeSync
  <2>2. /\ pass[m].to \in Machine /\ pass[m].rows \in SUBSET (1 .. Quota[m])
        /\ refused \in SUBSET pass[m].rows
    BY <1>6 DEF NodeSync, Serving, TypeOK, PassTypeOK, MayRefuse
  <2>3. LeavesNoHole(m, pass[m].to, pass[m].rows) /\ UNCHANGED <<quar, gaveUp>>
    BY <1>6 DEF NodeSync, Serving, RequestsLeaveNoHole
  <2> QED  BY <2>1, <2>2, <2>3, CursorsApply
<1>7. ASSUME NEW q \in stray, LateSync(q)
      PROVE  HeldBelowCursor' /\ CursorCoversRows'
  <2>1. PICK refused \in SUBSET MayRefuse(q.to, q.from, q.rows) :
           ApplyPeerRows(q.to, q.from, q.rows, refused)
    BY <1>7 DEF LateSync
  <2>2. /\ q.to \in Machine /\ q.from \in Machine
        /\ q.rows \in SUBSET (1 .. Quota[q.from]) /\ refused \in SUBSET q.rows
    BY DEF TypeOK, PassTypeOK, MayRefuse
  <2>3. LeavesNoHole(q.from, q.to, q.rows) /\ UNCHANGED <<quar, gaveUp>>
    BY <1>7 DEF LateSync, RequestsLeaveNoHole
  <2> QED  BY <2>1, <2>2, <2>3, CursorsApply
<1>8. ASSUME NEW m \in Machine, RetryPeerQuarantine(m)
      PROVE  HeldBelowCursor' /\ CursorCoversRows'
  BY <1>8, CursorsRetry DEF RetryPeerQuarantine
<1>9. ASSUME NEW m \in Machine, RetryFailed(m)
      PROVE  HeldBelowCursor' /\ CursorCoversRows'
  BY <1>9, CursorsRetry DEF RetryFailed
<1> QED
  BY <1>1, <1>2, <1>3, <1>4, <1>5, <1>6, <1>7, <1>8, <1>9, CursorsPull
     DEF Next, PushStep

\* Requests and answers.

\* Steps that send nothing: a pass that is still in flight was so before.
LEMMA RequestsKept ==
    ASSUME TypeOK, RequestsLeaveNoHole, Grows,
           \A m \in Machine : pass'[m].pc = "sent" => pass'[m] = pass[m],
           \A q \in stray' : q \in stray \/ \E m \in Machine :
              /\ pass[m].pc = "sent" /\ pass[m].to \in Machine
              /\ q = [from |-> m, to |-> pass[m].to, rows |-> pass[m].rows]
    PROVE  RequestsLeaveNoHole'
<1>1. \A m \in Machine : pass[m].pc = "sent" /\ pass[m].to \in Machine =>
         LeavesNoHole(m, pass[m].to, pass[m].rows)
  BY DEF RequestsLeaveNoHole
<1>2. ASSUME NEW m \in Machine, pass'[m].pc = "sent", pass'[m].to \in Machine
      PROVE  LeavesNoHole(m, pass[m].to, pass[m].rows)'
  <2>1. /\ pass'[m] = pass[m] /\ pass[m].pc = "sent" /\ pass[m].to \in Machine
        /\ LeavesNoHole(m, pass[m].to, pass[m].rows)
    BY <1>1, <1>2
  <2> QED  BY <2>1 DEF LeavesNoHole, Grows
<1>3. ASSUME NEW q \in stray' PROVE LeavesNoHole(q.from, q.to, q.rows)'
  <2>1. CASE q \in stray
    <3>1. q.to \in Machine /\ LeavesNoHole(q.from, q.to, q.rows)
      BY <2>1 DEF TypeOK, PassTypeOK, RequestsLeaveNoHole
    <3> QED  BY <3>1 DEF LeavesNoHole, Grows
  <2>2. CASE q \notin stray
    <3>1. PICK m \in Machine :
             /\ pass[m].pc = "sent" /\ pass[m].to \in Machine
             /\ q = [from |-> m, to |-> pass[m].to, rows |-> pass[m].rows]
      BY <2>2
    <3>2. /\ q.from = m /\ q.to = pass[m].to /\ q.rows = pass[m].rows
          /\ pass[m].to \in Machine
          /\ LeavesNoHole(m, pass[m].to, pass[m].rows)
      BY <1>1, <3>1
    <3> QED  BY <3>2 DEF LeavesNoHole, Grows
  <2> QED  BY <2>1, <2>2
<1> QED  BY <1>2, <1>3 DEF RequestsLeaveNoHole

\* The oldest pending entries leave no hole at the server they are sent to: a
\* clean row before them is pending, so in the batch, or crossed off.  Then it
\* is on that server, or another server was noted and the row is misplaced.
LEMMA BatchLeavesNoHole ==
    ASSUME TypeOK, CleanEntries, QueueInOrder,
           NEW m \in Machine, SendBatch(m), NEW S \in Batches(m)
    PROVE  \A j \in S : \A k \in 1 .. j - 1 : <<m, k>> \notin suspect' =>
              k \in S \/ <<m, k>> \in held[url[m]]
<1> SUFFICES ASSUME NEW j \in S, NEW k \in 1 .. j - 1, <<m, k>> \notin suspect'
             PROVE  k \in S \/ <<m, k>> \in held[url[m]]
  OBVIOUS
<1>6. /\ suspect' = suspect \cup Misplaced(m, url[m], Marked(m, "delivered"))
      /\ <<m, k>> \notin suspect
  BY DEF SendBatch
<1>1. /\ j \in 1 .. Quota[m] /\ queue[m][j].st = "pending"
      /\ k \in 1 .. Quota[m] /\ k < j
  <2>1. j \in 1 .. Quota[m] /\ queue[m][j].st = "pending"
    BY EntriesAre DEF Batches, Marked, TypeOK
  <2> QED  BY <2>1, ConstantTypes
<1>2. queue[m][k].st # "none" /\ queue[m][k].gen <= queue[m][j].gen
  BY <1>1, <1>6 DEF QueueInOrder
<1>3. queue[m][k].st \in {"pending", "delivered"}
  <2>1. queue[m][k].st \in Status
    BY <1>1, EntriesAre DEF TypeOK, Entry
  <2> QED  BY <1>1, <1>2, <1>6, <2>1 DEF CleanEntries
<1>4. CASE queue[m][k].st = "delivered"
  <2>1. k \in Marked(m, "delivered")
    BY <1>1, <1>4, EntriesAre DEF Marked, TypeOK
  <2>2. url[m] = target[m]
    BY <1>6, <2>1 DEF Misplaced, RowsOf
  <2> QED  BY <1>1, <1>4, <1>6, <2>2 DEF CleanEntries
<1>5. CASE queue[m][k].st = "pending"
  <2>1. k \in Marked(m, "pending")
    BY <1>1, <1>5, EntriesAre DEF Marked, TypeOK
  <2>2. queue[m][k].gen \in Nat /\ queue[m][j].gen \in Nat
    BY <1>1, EntriesAre DEF TypeOK, Entry
  <2>3. QueuedBefore(m, k, j)
    BY <1>1, <1>2, <2>2 DEF QueuedBefore
  <2> QED  BY <2>1, <2>3 DEF Batches
<1> QED  BY <1>3, <1>4, <1>5

LEMMA RequestsSendBatch ==
    ASSUME TypeOK, RequestsLeaveNoHole, CleanEntries, QueueInOrder,
           Grows, NEW m \in Machine, SendBatch(m)
    PROVE  RequestsLeaveNoHole'
<1>1. PICK S \in Batches(m) : pass' = [pass EXCEPT ![m] =
            [IdlePass EXCEPT !.pc = "sent", !.to = url[m], !.rows = S,
                             !.round = pass[m].round + 1]]
  BY DEF SendBatch
<1>2. pass'[m].to = url[m] /\ pass'[m].rows = S
  BY <1>1 DEF TypeOK, PassTypeOK, IdlePass
<1>3. \A n \in Machine \ {m} : pass'[n] = pass[n]
  BY <1>1 DEF TypeOK, PassTypeOK
<1>4. stray' = stray /\ held' = held
  BY DEF SendBatch, holdVars
<1>5. \A j \in S : \A k \in 1 .. j - 1 : <<m, k>> \notin suspect' =>
         k \in S \/ <<m, k>> \in held[url[m]]
  BY BatchLeavesNoHole
<1>6. ASSUME NEW n \in Machine, pass'[n].pc = "sent", pass'[n].to \in Machine
      PROVE  LeavesNoHole(n, pass[n].to, pass[n].rows)'
  <2>1. CASE n = m
    BY <1>2, <1>4, <1>5, <2>1 DEF LeavesNoHole
  <2>2. CASE n # m
    BY <1>3, <1>4, <1>6, <2>2 DEF RequestsLeaveNoHole, LeavesNoHole, Grows
  <2> QED  BY <2>1, <2>2
<1>7. \A q \in stray : LeavesNoHole(q.from, q.to, q.rows)'
  BY <1>4 DEF RequestsLeaveNoHole, LeavesNoHole, Grows
<1> QED  BY <1>4, <1>6, <1>7 DEF RequestsLeaveNoHole

LEMMA RequestsStep ==
    ASSUME TypeOK, RequestsLeaveNoHole, CleanEntries, QueueInOrder,
           Grows, Next
    PROVE  RequestsLeaveNoHole'
<1>1. ASSUME NEW m \in Machine, NEW o \in Machine,
             \/ MakeRow(m) \/ NumberOwnRows(m) \/ PruneNodeQueue(m)
             \/ RetryPeerQuarantine(m) \/ RetryFailed(m) \/ PromoteToNode(m)
             \/ RejoinConfirmed(m) \/ RejoinRefused(m) \/ StartNodeServer(m)
             \/ PullDistribution(m, o) \/ StartRejoin(m, o)
      PROVE  UNCHANGED <<pass, stray>>
  BY <1>1 DEF MakeRow, NumberOwnRows, PruneNodeQueue, RetryPeerQuarantine,
     RetryFailed, PromoteToNode, RejoinConfirmed, RejoinRefused,
     StartNodeServer, PullDistribution, StartRejoin
<1>2. CASE UNCHANGED <<pass, stray>>
  BY <1>2, RequestsKept
<1>3. ASSUME NEW q \in stray, LateSync(q) PROVE RequestsLeaveNoHole'
  BY <1>3, RequestsKept DEF LateSync
<1>4. ASSUME NEW m \in Machine,
             \/ BeginPass(m) \/ FillNodeOutbox(m) \/ AskCursors(m)
             \/ EndPass(m) \/ NodeSync(m) \/ SettleNodeBatch(m)
             \/ RefuseBatch(m)
      PROVE  RequestsLeaveNoHole'
  <2>1. stray' = stray
    BY <1>4 DEF BeginPass, FillNodeOutbox, AskCursors, EndPass, NodeSync,
                SettleNodeBatch, RefuseBatch
  <2>2. \A n \in Machine \ {m} : pass'[n] = pass[n]
    BY <1>4 DEF BeginPass, FillNodeOutbox, AdvanceOutbox, DieBeforeCursor,
       AskCursors, EndPass, NodeSync, SettleNodeBatch, RefuseBatch,
       TypeOK, PassTypeOK
  <2>3. pass'[m].pc # "sent"
    <3>1. pass[m] \in Pass /\ pass \in [Machine -> Pass]
      BY DEF TypeOK, PassTypeOK
    <3>2. CASE BeginPass(m) \/ AskCursors(m) \/ EndPass(m)
      BY <3>1, <3>2 DEF BeginPass, AskCursors, EndPass, Pass, IdlePass
    <3>6. CASE NodeSync(m)
      BY <3>1, <3>6 DEF NodeSync, Pass
    <3>3. CASE FillNodeOutbox(m)
      BY <3>1, <3>3
         DEF FillNodeOutbox, AdvanceOutbox, DieBeforeCursor, Pass, IdlePass
    <3>4. CASE SettleNodeBatch(m)
      BY <3>1, <3>4 DEF SettleNodeBatch, Pass, IdlePass
    <3>5. CASE RefuseBatch(m)
      BY <3>1, <3>5 DEF RefuseBatch, Pass, IdlePass
    <3> QED  BY <1>4, <3>2, <3>3, <3>4, <3>5, <3>6
  <2> QED  BY <2>1, <2>2, <2>3, RequestsKept
<1>5. ASSUME NEW m \in Machine, NoAnswer(m) \/ Crash(m)
      PROVE  RequestsLeaveNoHole'
  <2>1. pass' = [pass EXCEPT ![m] = IdlePass]
    BY <1>5 DEF NoAnswer, Crash
  <2>2. \/ stray' = stray
        \/ /\ pass[m].pc = "sent" /\ pass[m].to \in Machine
           /\ stray' = stray \cup
                {[from |-> m, to |-> pass[m].to, rows |-> pass[m].rows]}
    BY <1>5 DEF NoAnswer, Crash, Abandon, TypeOK, PassTypeOK, Pass, Peer
  <2>3. \A n \in Machine : pass'[n].pc = "sent" => pass'[n] = pass[n]
    BY <2>1 DEF TypeOK, PassTypeOK, IdlePass
  <2> QED  BY <2>2, <2>3, RequestsKept
<1> QED
  BY <1>1, <1>2, <1>3, <1>4, <1>5, RequestsSendBatch DEF Next, PushStep

LEMMA AnswersStep ==
    ASSUME TypeOK, AnswersAreTrue, Grows, Next
    PROVE  AnswersAreTrue'
<1>1. ASSUME \A n \in Machine :
               pass'[n].pc = "answered" => pass'[n] = pass[n]
      PROVE  AnswersAreTrue'
  <2> SUFFICES ASSUME NEW n \in Machine, pass'[n].pc = "answered"
               PROVE  /\ pass'[n].to \in Machine
                      /\ \A k \in pass'[n].rows \ pass'[n].bad :
                            <<n, k>> \in held'[pass'[n].to]
                      /\ \A k \in pass'[n].bad : <<n, k>> \in suspect'
    BY DEF AnswersAreTrue
  <2>1. pass'[n] = pass[n]
    BY <1>1
  <2>2. pass[n].to \in Machine
    BY <2>1 DEF AnswersAreTrue
  <2> QED  BY <2>1, <2>2 DEF AnswersAreTrue, Grows
<1>2. ASSUME NEW m \in Machine, NEW o \in Machine,
             \/ MakeRow(m) \/ NumberOwnRows(m) \/ PruneNodeQueue(m)
             \/ RetryPeerQuarantine(m) \/ RetryFailed(m) \/ PromoteToNode(m)
             \/ RejoinConfirmed(m) \/ RejoinRefused(m) \/ StartNodeServer(m)
             \/ PullDistribution(m, o) \/ StartRejoin(m, o)
      PROVE  UNCHANGED pass
  BY <1>2 DEF MakeRow, NumberOwnRows, PruneNodeQueue, RetryPeerQuarantine,
     RetryFailed, PromoteToNode, RejoinConfirmed, RejoinRefused,
     StartNodeServer, PullDistribution, StartRejoin
<1>3. ASSUME NEW q \in stray, LateSync(q) PROVE UNCHANGED pass
  BY <1>3 DEF LateSync
<1>4. ASSUME NEW m \in Machine,
             \/ BeginPass(m) \/ FillNodeOutbox(m) \/ AskCursors(m)
             \/ EndPass(m) \/ SendBatch(m) \/ SettleNodeBatch(m)
             \/ RefuseBatch(m) \/ NoAnswer(m) \/ Crash(m)
      PROVE  AnswersAreTrue'
  <2>1. \A n \in Machine \ {m} : pass'[n] = pass[n]
    BY <1>4 DEF BeginPass, FillNodeOutbox, AdvanceOutbox, DieBeforeCursor,
       AskCursors, EndPass, SendBatch, SettleNodeBatch, RefuseBatch, NoAnswer,
       Crash, TypeOK, PassTypeOK
  <2>2. pass'[m].pc # "answered"
    <3>1. pass[m] \in Pass /\ pass \in [Machine -> Pass]
      BY DEF TypeOK, PassTypeOK
    <3>2. CASE BeginPass(m) \/ AskCursors(m) \/ EndPass(m) \/ NoAnswer(m) \/ Crash(m)
      BY <3>1, <3>2
         DEF BeginPass, AskCursors, EndPass, NoAnswer, Crash, Pass, IdlePass
    <3>3. CASE FillNodeOutbox(m)
      BY <3>1, <3>3
         DEF FillNodeOutbox, AdvanceOutbox, DieBeforeCursor, Pass, IdlePass
    <3>4. CASE SettleNodeBatch(m)
      BY <3>1, <3>4 DEF SettleNodeBatch, Pass, IdlePass
    <3>5. CASE RefuseBatch(m)
      BY <3>1, <3>5 DEF RefuseBatch, Pass, IdlePass
    <3>6. CASE SendBatch(m)
      BY <3>1, <3>6 DEF SendBatch, Pass, IdlePass
    <3> QED  BY <1>4, <3>2, <3>3, <3>4, <3>5, <3>6
  <2> QED  BY <1>1, <2>1, <2>2
<1>5. ASSUME NEW m \in Machine, NodeSync(m) PROVE AnswersAreTrue'
  <2>1. PICK refused \in SUBSET MayRefuse(pass[m].to, m, pass[m].rows) :
          /\ ApplyPeerRows(pass[m].to, m, pass[m].rows, refused)
          /\ pass' = [pass EXCEPT ![m].pc = "answered", ![m].bad = refused]
    BY <1>5 DEF NodeSync
  <2>2. /\ pass'[m].to = pass[m].to /\ pass'[m].bad = refused
        /\ pass'[m].rows = pass[m].rows
        /\ \A n \in Machine \ {m} : pass'[n] = pass[n]
    BY <2>1 DEF TypeOK, PassTypeOK, Pass
  <2>3. pass[m].to \in Machine
    BY <1>5 DEF NodeSync, Serving
  <2>4. /\ held'[pass[m].to] = held[pass[m].to] \cup RowsOf(m, pass[m].rows \ refused)
        /\ suspect' = suspect \cup RowsOf(m, refused)
    BY <2>1, <2>3, TakeGrows DEF ApplyPeerRows
  <2> SUFFICES ASSUME NEW n \in Machine, pass'[n].pc = "answered"
               PROVE  /\ pass'[n].to \in Machine
                      /\ \A k \in pass'[n].rows \ pass'[n].bad :
                            <<n, k>> \in held'[pass'[n].to]
                      /\ \A k \in pass'[n].bad : <<n, k>> \in suspect'
    BY DEF AnswersAreTrue
  <2>5. CASE n = m
    BY <2>2, <2>3, <2>4, <2>5 DEF RowsOf
  <2>6. CASE n # m
    <3>1. pass'[n] = pass[n] /\ pass[n].to \in Machine
      BY <2>2, <2>6 DEF AnswersAreTrue
    <3> QED  BY <3>1 DEF AnswersAreTrue, Grows
  <2> QED  BY <2>5, <2>6
<1>6. ASSUME UNCHANGED pass PROVE AnswersAreTrue'
  BY <1>1, <1>6
<1> QED  BY <1>2, <1>3, <1>4, <1>5, <1>6 DEF Next, PushStep

\* When one machine's queue is rewritten: what must be shown of its clean rows.
LEMMA CleanIfRewritten ==
    ASSUME TypeOK, CleanEntries, Grows, NEW m \in Machine,
           NEW q \in [1 .. Quota[m] -> Entry], queue' = [queue EXCEPT ![m] = q],
           \A n \in Machine \ {m} : target'[n] = target[n],
           \A k \in 1 .. Quota[m] : <<m, k>> \notin suspect' =>
              /\ q[k].st \notin {"failed", "pruned"}
              /\ q[k].st = "delivered" =>
                    /\ q[k].by = target'[m] /\ target'[m] \in Machine
                    /\ <<m, k>> \in held'[target'[m]]
    PROVE  CleanEntries'
<1> SUFFICES ASSUME NEW n \in Machine, NEW k \in 1 .. Quota[n],
                    <<n, k>> \notin suspect'
             PROVE  /\ queue'[n][k].st \notin {"failed", "pruned"}
                    /\ queue'[n][k].st = "delivered" =>
                          /\ queue'[n][k].by = target'[n]
                          /\ target'[n] \in Machine
                          /\ <<n, k>> \in held'[target'[n]]
  BY DEF CleanEntries
<1>1. queue'[m] = q /\ \A x \in Machine \ {m} : queue'[x] = queue[x]
  BY QueueType DEF TypeOK
<1>2. CASE n = m
  BY <1>1, <1>2
<1>3. CASE n # m
  BY <1>1, <1>3 DEF CleanEntries, Grows
<1> QED  BY <1>2, <1>3

LEMMA CleanIfKept ==
    ASSUME CleanEntries, Grows, UNCHANGED <<queue, target>>
    PROVE  CleanEntries'
BY DEF CleanEntries, Grows

\* And of the order of its rows.
LEMMA OrderIfRewritten ==
    ASSUME TypeOK, QueueInOrder, Grows, NEW m \in Machine,
           NEW q \in [1 .. Quota[m] -> Entry], queue' = [queue EXCEPT ![m] = q],
           \A n \in Machine \ {m} : gen'[n] = gen[n],
           \A k \in 1 .. Quota[m] : q[k].gen <= gen'[m],
           \A j \in 1 .. Quota[m] : \A k \in 1 .. j - 1 :
              (q[j].st # "none" /\ <<m, k>> \notin suspect')
                 => q[k].st # "none" /\ q[k].gen <= q[j].gen
    PROVE  QueueInOrder'
<1>1. queue'[m] = q /\ \A x \in Machine \ {m} : queue'[x] = queue[x]
  BY QueueType DEF TypeOK
<1>2. ASSUME NEW n \in Machine, NEW k \in 1 .. Quota[n]
      PROVE  queue'[n][k].gen <= gen'[n]
  BY <1>1, <1>2 DEF QueueInOrder
<1>3. ASSUME NEW n \in Machine, NEW j \in 1 .. Quota[n], NEW k \in 1 .. j - 1,
             queue'[n][j].st # "none", <<n, k>> \notin suspect'
      PROVE  queue'[n][k].st # "none" /\ queue'[n][k].gen <= queue'[n][j].gen
  <2>1. CASE n = m
    BY <1>1, <1>3, <2>1, ZenonT(60)
  <2>2. CASE n # m
    BY <1>1, <1>3, <2>2 DEF QueueInOrder, Grows
  <2> QED  BY <2>1, <2>2
<1> QED  BY <1>2, <1>3 DEF QueueInOrder

\* Entries change, but none comes or goes and none changes place.
LEMMA OrderIfInPlace ==
    ASSUME TypeOK, QueueInOrder, Grows, NEW m \in Machine,
           NEW q \in [1 .. Quota[m] -> Entry], queue' = [queue EXCEPT ![m] = q],
           \A n \in Machine \ {m} : gen'[n] = gen[n],
           gen'[m] \in Nat, gen[m] <= gen'[m],
           \A k \in 1 .. Quota[m] : /\ q[k].st = "none" <=> queue[m][k].st = "none"
                                    /\ q[k].gen = queue[m][k].gen
    PROVE  QueueInOrder'
<1>1. ASSUME NEW k \in 1 .. Quota[m] PROVE q[k].gen <= gen'[m]
  <2>1. q[k].gen \in Nat /\ q[k].gen <= gen[m] /\ gen[m] \in Nat
    BY DEF QueueInOrder, Entry, TypeOK, OutboxTypeOK
  <2> QED  BY <2>1
<1>2. ASSUME NEW j \in 1 .. Quota[m], NEW k \in 1 .. j - 1,
             q[j].st # "none", <<m, k>> \notin suspect'
      PROVE  q[k].st # "none" /\ q[k].gen <= q[j].gen
  <2>1. k \in 1 .. Quota[m]
    BY ConstantTypes
  <2>2. queue[m][k].st # "none" /\ queue[m][k].gen <= queue[m][j].gen
    BY <1>2 DEF QueueInOrder, Grows
  <2> QED  BY <2>1, <2>2
<1> QED  BY <1>1, <1>2, OrderIfRewritten

LEMMA OrderIfKept ==
    ASSUME TypeOK, QueueInOrder, Grows, UNCHANGED <<queue, gen>>
    PROVE  QueueInOrder'
BY DEF QueueInOrder, Grows

\* The queue's part of the invariant, action by action.
Queues == TypeOK /\ OutboxComplete /\ CursorCoversRows /\ AnswersAreTrue
          /\ CleanEntries /\ QueueInOrder

LEMMA QueuesRearm ==
    ASSUME Queues, Grows, NEW m \in Machine, Rearm(m),
           \A n \in Machine \ {m} : target'[n] = target[n]
    PROVE  CleanEntries' /\ QueueInOrder'
<1> USE DEF Queues
<1> DEFINE q == [k \in Entries(m) |->
                   CASE queue[m][k].st \in {"none", "pruned"} -> NoEntry
                     [] OTHER -> Offer(queue[m][k])]
<1>1. q \in [1 .. Quota[m] -> Entry]
  BY EntriesAre, EntryTypes, ConstantTypes DEF TypeOK
<1>2. queue' = [queue EXCEPT ![m] = q]
  BY DEF Rearm
<1>3. \A k \in 1 .. Quota[m] :
        \/ queue[m][k].st \in {"none", "pruned"} /\ q[k].st = "none" /\ q[k].gen = 0
        \/ /\ queue[m][k].st \notin {"none", "pruned"}
           /\ q[k].st = "pending" /\ q[k].gen = queue[m][k].gen
  BY EntriesAre, OfferFields DEF TypeOK, NoEntry
<1>4. /\ \A n \in Machine \ {m} : gen'[n] = gen[n]
      /\ gen'[m] \in Nat /\ gen[m] <= gen'[m] /\ gen[m] \in Nat
  BY DEF Rearm, TypeOK, OutboxTypeOK
<1> HIDE DEF q
<1>5. CleanEntries'
  BY <1>1, <1>2, <1>3, CleanIfRewritten
<1>6. ASSUME NEW k \in 1 .. Quota[m] PROVE q[k].gen <= gen'[m]
  <2>1. queue[m][k].gen \in Nat /\ queue[m][k].gen <= gen[m]
    BY EntriesAre DEF QueueInOrder, Entry, TypeOK
  <2>2. q[k].gen = 0 \/ q[k].gen = queue[m][k].gen
    BY <1>3
  <2> QED  BY <1>4, <2>1, <2>2
<1>7. ASSUME NEW j \in 1 .. Quota[m], NEW k \in 1 .. j - 1,
             q[j].st # "none", <<m, k>> \notin suspect'
      PROVE  q[k].st # "none" /\ q[k].gen <= q[j].gen
  <2>1. k \in 1 .. Quota[m] /\ <<m, k>> \notin suspect
    BY <1>7, ConstantTypes DEF Grows
  <2>2. queue[m][j].st # "none" /\ q[j].gen = queue[m][j].gen
    BY <1>3, <1>7
  <2>3. queue[m][k].st # "none" /\ queue[m][k].gen <= queue[m][j].gen
    BY <2>1, <2>2 DEF QueueInOrder
  <2>4. queue[m][k].st # "pruned"
    BY <2>1 DEF CleanEntries
  <2> QED  BY <1>3, <2>1, <2>2, <2>3, <2>4
<1> QED  BY <1>1, <1>2, <1>4, <1>5, <1>6, <1>7, OrderIfRewritten

LEMMA QueuesReoffer ==
    ASSUME Queues, Grows, NEW m \in Machine, NEW status \in {"delivered", "failed"},
           queue' = [queue EXCEPT ![m] = [k \in Entries(m) |->
               IF queue[m][k].st = status THEN Offer(queue[m][k])
               ELSE queue[m][k]]],
           \A n \in Machine \ {m} : target'[n] = target[n],
           status = "delivered" \/ target'[m] = target[m], gen' = gen
    PROVE  CleanEntries' /\ QueueInOrder'
<1> USE DEF Queues
<1> DEFINE q == [k \in Entries(m) |->
                   IF queue[m][k].st = status THEN Offer(queue[m][k])
                   ELSE queue[m][k]]
<1>1. q \in [1 .. Quota[m] -> Entry]
  BY EntriesAre, EntryTypes, ConstantTypes DEF TypeOK
<1>2. queue' = [queue EXCEPT ![m] = q]
  OBVIOUS
<1>3. \A k \in 1 .. Quota[m] :
        /\ q[k].gen = queue[m][k].gen
        /\ \/ queue[m][k].st = status /\ q[k].st = "pending"
           \/ queue[m][k].st # status /\ q[k] = queue[m][k]
  BY EntriesAre, OfferFields DEF TypeOK
<1>4. gen[m] \in Nat
  BY DEF TypeOK, OutboxTypeOK
<1> HIDE DEF q
<1>5. CleanEntries'
  <2>1. ASSUME NEW k \in 1 .. Quota[m], <<m, k>> \notin suspect'
        PROVE  /\ q[k].st \notin {"failed", "pruned"}
               /\ q[k].st = "delivered" =>
                    /\ q[k].by = target'[m] /\ target'[m] \in Machine
                    /\ <<m, k>> \in held'[target'[m]]
    <3>1. <<m, k>> \notin suspect
      BY <2>1 DEF Grows
    <3>2. CASE q[k].st = "pending"
      BY <3>2
    <3>3. CASE q[k] = queue[m][k] /\ queue[m][k].st # status
      BY <3>1, <3>3 DEF CleanEntries, Grows
    <3> QED  BY <1>3, <3>2, <3>3
  <2> QED  BY <1>1, <1>2, <2>1, CleanIfRewritten
<1>6. \A k \in 1 .. Quota[m] : /\ q[k].st = "none" <=> queue[m][k].st = "none"
                               /\ q[k].gen = queue[m][k].gen
  BY <1>3
<1>7. gen'[m] \in Nat /\ gen[m] <= gen'[m]
  BY <1>4
<1> QED  BY <1>1, <1>2, <1>5, <1>6, <1>7, OrderIfInPlace

LEMMA QueuesBeginPass ==
    ASSUME Queues, Grows, NEW m \in Machine, BeginPass(m)
    PROVE  CleanEntries' /\ QueueInOrder'
<1>1. \A n \in Machine \ {m} : target'[n] = target[n]
  BY DEF BeginPass, NoteTarget, outboxVars, Queues, TypeOK, OutboxTypeOK
<1>2. CASE UNCHANGED outboxVars
  BY <1>2, CleanIfKept, OrderIfKept DEF outboxVars, Queues
<1>3. CASE /\ queue' = [queue EXCEPT ![m] = [k \in Entries(m) |->
                 IF queue[m][k].st = "delivered" THEN Offer(queue[m][k])
                 ELSE queue[m][k]]]
           /\ gen' = gen
  BY <1>1, <1>3, QueuesReoffer
<1>4. CASE Rearm(m)
  BY <1>1, <1>4, QueuesRearm
<1> QED  BY <1>2, <1>3, <1>4 DEF BeginPass, NoteTarget

LEMMA QueuesFillNodeOutbox ==
    ASSUME Queues, TypeOK', Grows, NEW m \in Machine, FillNodeOutbox(m)
    PROVE  CleanEntries' /\ QueueInOrder'
<1> USE DEF Queues
<1>1. PICK asked \in BOOLEAN, upto \in {Least(numbered'[m], outCur[m] + FillRows)} :
         FillTo(m, upto, Recognised(m, asked))
  BY DEF FillNodeOutbox
<1> DEFINE e == Recognised(m, asked)
           q == [k \in Entries(m) |->
                   IF k \in outCur[m] + 1 .. upto /\ e[k].st \in {"none", "pruned"}
                   THEN [NoEntry EXCEPT !.st = "pending", !.gen = gen[m]]
                   ELSE e[k]]
<1>2. /\ e \in [1 .. Quota[m] -> Entry] /\ gen[m] \in Nat
      /\ Entries(m) = 1 .. Quota[m] /\ outCur[m] \in Nat
  BY EntriesAre, EntryTypes, ConstantTypes
     DEF Recognised, TypeOK, OutboxTypeOK
<1>3. \A k \in 1 .. Quota[m] :
        /\ e[k].gen = queue[m][k].gen
        /\ \/ e[k] = queue[m][k]
           \/ queue[m][k].st = "failed" /\ e[k].st = "pending"
  BY EntriesAre, OfferFields DEF Recognised, TypeOK
<1>4. queue' = [queue EXCEPT ![m] = q]
  BY <1>1 DEF FillTo
<1>5. UNCHANGED <<gen, target>>
  BY DEF FillNodeOutbox
<1>11. upto \in Nat
  <2>1. numbered'[m] \in Nat
    BY DEF TypeOK, RowsTypeOK
  <2>2. outCur[m] + FillRows \in Nat
    BY <1>2, ConstantTypes
  <2>3. Least(numbered'[m], outCur[m] + FillRows) \in Nat
    BY <2>1, <2>2, LeastType
  <2> QED  BY <2>3
<1> HIDE DEF e
<1>6. q \in [1 .. Quota[m] -> Entry]
  BY <1>2, EntryTypes, ConstantTypes
<1>7. \A k \in 1 .. Quota[m] :
        \/ /\ k \in outCur[m] + 1 .. upto /\ e[k].st \in {"none", "pruned"}
           /\ q[k].st = "pending" /\ q[k].gen = gen[m]
        \/ /\ ~(k \in outCur[m] + 1 .. upto /\ e[k].st \in {"none", "pruned"})
           /\ q[k] = e[k]
  BY <1>2, FreshFields
<1> HIDE DEF q
<1>8. CleanEntries'
  <2>1. ASSUME NEW k \in 1 .. Quota[m], <<m, k>> \notin suspect'
        PROVE  /\ q[k].st \notin {"failed", "pruned"}
               /\ q[k].st = "delivered" =>
                    /\ q[k].by = target'[m] /\ target'[m] \in Machine
                    /\ <<m, k>> \in held'[target'[m]]
    <3>1. <<m, k>> \notin suspect
      BY <2>1 DEF Grows
    <3>2. CASE q[k].st = "pending"
      BY <3>2
    <3>3. CASE q[k] = queue[m][k]
      BY <1>5, <3>1, <3>3 DEF CleanEntries, Grows
    <3> QED  BY <1>3, <1>7, <3>2, <3>3
  <2> QED  BY <1>4, <1>5, <1>6, <2>1, CleanIfRewritten
<1>9. ASSUME NEW k \in 1 .. Quota[m] PROVE q[k].gen <= gen'[m]
  <2>1. queue[m][k].gen \in Nat /\ queue[m][k].gen <= gen[m]
    BY EntriesAre DEF QueueInOrder, Entry, TypeOK
  <2>2. q[k].gen = gen[m] \/ q[k].gen = queue[m][k].gen
    BY <1>3, <1>7
  <2> QED  BY <1>2, <1>5, <2>1, <2>2
<1>10. ASSUME NEW j \in 1 .. Quota[m], NEW k \in 1 .. j - 1,
              q[j].st # "none", <<m, k>> \notin suspect'
       PROVE  q[k].st # "none" /\ q[k].gen <= q[j].gen
  <2>1. k \in 1 .. Quota[m] /\ <<m, k>> \notin suspect /\ k < j
    BY <1>10, ConstantTypes DEF Grows
  <2>2. queue[m][k].st # "pruned" /\ e[k].st # "pruned"
    BY <1>3, <2>1 DEF CleanEntries
  <2>3. /\ queue[m][k].gen \in Nat /\ queue[m][j].gen \in Nat
        /\ queue[m][k].gen <= gen[m]
    BY <2>1, EntriesAre DEF QueueInOrder, Entry, TypeOK
  <2>4. CASE queue[m][j].st # "none"
    <3>1. queue[m][k].st # "none" /\ queue[m][k].gen <= queue[m][j].gen
      BY <2>1, <2>4 DEF QueueInOrder
    <3>2. e[k].st \notin {"none", "pruned"}
      BY <1>3, <2>1, <2>2, <3>1
    <3>3. q[k].st # "none" /\ q[k].gen = queue[m][k].gen
      BY <1>3, <1>7, <2>1, <3>2
    <3>4. q[j].gen \in {gen[m], queue[m][j].gen}
      BY <1>3, <1>7
    <3> QED  BY <2>3, <3>1, <3>3, <3>4, <1>2
  <2>5. CASE queue[m][j].st = "none"
    <3>1. e[j] = queue[m][j]
      BY <1>3, <2>5
    <3>2. j \in outCur[m] + 1 .. upto /\ q[j].gen = gen[m]
      BY <1>7, <1>10, <2>5, <3>1
    <3>3. CASE k \in 1 .. outCur[m]
      <4>1. queue[m][k].st # "none"
        BY <3>3 DEF OutboxComplete
      <4>2. e[k].st \notin {"none", "pruned"}
        BY <1>3, <2>1, <2>2, <4>1
      <4>3. q[k].st # "none" /\ q[k].gen = queue[m][k].gen
        BY <1>3, <1>7, <2>1, <4>2
      <4> QED  BY <2>3, <3>2, <4>3
    <3>4. CASE k \notin 1 .. outCur[m]
      <4>1. k \in outCur[m] + 1 .. upto
        <5>1. j \in Nat /\ k \in Nat /\ 1 <= k
          BY <2>1, ConstantTypes
        <5> QED  BY <1>2, <1>11, <2>1, <3>2, <3>4, <5>1
      <4>2. CASE e[k].st = "none"
        BY <1>7, <2>1, <2>3, <3>2, <4>1, <4>2, <1>2
      <4>3. CASE e[k].st # "none"
        BY <1>3, <1>7, <2>1, <2>2, <2>3, <3>2, <4>3
      <4> QED  BY <4>2, <4>3
    <3> QED  BY <3>3, <3>4
  <2> QED  BY <2>4, <2>5
<1> QED  BY <1>4, <1>5, <1>6, <1>8, <1>9, <1>10, OrderIfRewritten

LEMMA QueuesAskCursors ==
    ASSUME Queues, Grows, NEW m \in Machine, AskCursors(m)
    PROVE  CleanEntries' /\ QueueInOrder'
<1> USE DEF Queues
<1> DEFINE n == pass[m].to
           q == [k \in Entries(m) |->
                   IF k \in Skippable(m, cur[n][m])
                   THEN [queue[m][k] EXCEPT !.st = "delivered", !.by = n]
                   ELSE queue[m][k]]
<1>1. UNCHANGED <<gen, target>>
  BY DEF AskCursors
<1>2. CASE NoCursors(m, n)
  BY <1>1, <1>2, CleanIfKept, OrderIfKept DEF NoCursors
<1>3. CASE SkipHeldByNode(m, n)
  <2>1. /\ n \in Machine
        /\ suspect' = suspect \cup Misplaced(m, n, Skippable(m, cur[n][m]))
    BY <1>3 DEF SkipHeldByNode, Serving
  <2>2. q \in [1 .. Quota[m] -> Entry]
    BY <2>1, EntriesAre, EntryTypes DEF TypeOK
  <2>3. queue' = [queue EXCEPT ![m] = q]
    BY <1>3 DEF SkipHeldByNode
  <2>4. \A k \in 1 .. Quota[m] :
           /\ q[k].gen = queue[m][k].gen
           /\ \/ q[k] = queue[m][k]
              \/ /\ k \in Skippable(m, cur[n][m]) /\ k <= cur[n][m]
                 /\ queue[m][k].st = "pending"
                 /\ q[k].st = "delivered" /\ q[k].by = n
    <3>1. SUFFICES ASSUME NEW k \in 1 .. Quota[m]
                   PROVE  /\ q[k].gen = queue[m][k].gen
                          /\ \/ q[k] = queue[m][k]
                             \/ /\ k \in Skippable(m, cur[n][m]) /\ k <= cur[n][m]
                                /\ queue[m][k].st = "pending"
                                /\ q[k].st = "delivered" /\ q[k].by = n
      OBVIOUS
    <3>2. k \in Entries(m) /\ queue[m][k] \in Entry
      BY EntriesAre DEF TypeOK
    <3>3. CASE k \in Skippable(m, cur[n][m])
      <4>1. queue[m][k].st = "pending" /\ k <= cur[n][m]
        BY <3>3 DEF Skippable, Marked
      <4>2. q[k] = [queue[m][k] EXCEPT !.st = "delivered", !.by = n]
        BY <3>2, <3>3
      <4> HIDE DEF q
      <4> QED  BY <2>1, <3>2, <3>3, <4>1, <4>2, SkipFields
    <3>4. CASE k \notin Skippable(m, cur[n][m])
      BY <3>2, <3>4
    <3> QED  BY <3>3, <3>4
  <2> HIDE DEF q, n
  <2>5. CleanEntries'
    <3>1. ASSUME NEW k \in 1 .. Quota[m], <<m, k>> \notin suspect'
          PROVE  /\ q[k].st \notin {"failed", "pruned"}
                 /\ q[k].st = "delivered" =>
                      /\ q[k].by = target'[m] /\ target'[m] \in Machine
                      /\ <<m, k>> \in held'[target'[m]]
      <4>1. <<m, k>> \notin suspect
        BY <3>1 DEF Grows
      <4>2. CASE q[k] = queue[m][k]
        BY <1>1, <4>1, <4>2 DEF CleanEntries, Grows
      <4>3. CASE /\ k \in Skippable(m, cur[n][m]) /\ k <= cur[n][m]
                 /\ q[k].st = "delivered" /\ q[k].by = n
        <5>1. <<m, k>> \in held[n]
          BY <2>1, <4>1, <4>3 DEF CursorCoversRows
        <5>2. n = target[m]
          BY <2>1, <3>1, <4>3 DEF Misplaced, RowsOf
        <5> QED  BY <1>1, <2>1, <4>3, <5>1, <5>2 DEF Grows
      <4> QED  BY <2>4, <4>2, <4>3
    <3> QED  BY <1>1, <2>2, <2>3, <3>1, CleanIfRewritten
  <2>6. \A k \in 1 .. Quota[m] : /\ q[k].st = "none" <=> queue[m][k].st = "none"
                                 /\ q[k].gen = queue[m][k].gen
    BY <2>4
  <2>7. gen'[m] \in Nat /\ gen[m] <= gen'[m]
    BY <1>1 DEF TypeOK, OutboxTypeOK
  <2> QED  BY <1>1, <2>2, <2>3, <2>5, <2>6, <2>7, OrderIfInPlace
<1> QED  BY <1>2, <1>3 DEF AskCursors

LEMMA QueuesSettleNodeBatch ==
    ASSUME Queues, Grows, NEW m \in Machine, SettleNodeBatch(m)
    PROVE  CleanEntries' /\ QueueInOrder'
<1> USE DEF Queues
<1> DEFINE q == [k \in Entries(m) |->
          CASE k \in InQueue(m, pass[m].rows \ pass[m].bad)
                  -> Deliver(queue[m][k], pass[m].to)
            [] k \in InQueue(m, pass[m].bad) -> Escalate(queue[m][k])
            [] OTHER                         -> queue[m][k]]
<1>1. UNCHANGED <<gen, target>> /\ pass[m].pc = "answered"
  BY DEF SettleNodeBatch
<1>2. /\ pass[m].to \in Machine
      /\ suspect' = suspect
            \cup Misplaced(m, pass[m].to, pass[m].rows \ pass[m].bad)
      /\ \A k \in pass[m].rows \ pass[m].bad : <<m, k>> \in held[pass[m].to]
      /\ \A k \in pass[m].bad : <<m, k>> \in suspect
  BY <1>1 DEF AnswersAreTrue, SettleNodeBatch
<1>3. q \in [1 .. Quota[m] -> Entry]
  BY EntriesAre, EntryTypes DEF TypeOK, PassTypeOK, Pass
<1>4. queue' = [queue EXCEPT ![m] = q]
  BY DEF SettleNodeBatch
<1>5. \A k \in 1 .. Quota[m] :
        /\ q[k].gen = queue[m][k].gen
        /\ \/ q[k] = queue[m][k]
           \/ /\ k \in pass[m].rows \ pass[m].bad /\ queue[m][k].st # "none"
              /\ q[k].st = "delivered" /\ q[k].by = pass[m].to
           \/ /\ k \in pass[m].bad /\ queue[m][k].st # "none"
              /\ q[k].st \in {"failed", "pending"}
  <2>1. SUFFICES ASSUME NEW k \in 1 .. Quota[m]
        PROVE  /\ q[k].gen = queue[m][k].gen
               /\ \/ q[k] = queue[m][k]
                  \/ /\ k \in pass[m].rows \ pass[m].bad /\ queue[m][k].st # "none"
                     /\ q[k].st = "delivered" /\ q[k].by = pass[m].to
                  \/ /\ k \in pass[m].bad /\ queue[m][k].st # "none"
                     /\ q[k].st \in {"failed", "pending"}
    OBVIOUS
  <2>2. k \in Entries(m) /\ queue[m][k] \in Entry
    BY EntriesAre DEF TypeOK
  <2>3. CASE k \in InQueue(m, pass[m].rows \ pass[m].bad)
    <3>1. k \notin InQueue(m, pass[m].bad)
      BY <2>3 DEF InQueue
    <3>2. q[k] = Deliver(queue[m][k], pass[m].to)
      BY <2>2, <2>3, <3>1
    <3> HIDE DEF q
    <3> QED  BY <1>2, <2>2, <2>3, <3>2, DeliverFields DEF InQueue
  <2>4. CASE k \in InQueue(m, pass[m].bad)
    <3>1. k \notin InQueue(m, pass[m].rows \ pass[m].bad)
      BY <2>4 DEF InQueue
    <3>2. q[k] = Escalate(queue[m][k])
      BY <2>2, <2>4, <3>1
    <3> HIDE DEF q
    <3> QED  BY <2>2, <2>4, <3>2, EscalateFields DEF InQueue
  <2>5. CASE k \notin InQueue(m, pass[m].bad) \cup InQueue(m, pass[m].rows \ pass[m].bad)
    BY <2>2, <2>5
  <2> QED  BY <2>3, <2>4, <2>5
<1> HIDE DEF q
<1>6. CleanEntries'
  <2>1. ASSUME NEW k \in 1 .. Quota[m], <<m, k>> \notin suspect'
        PROVE  /\ q[k].st \notin {"failed", "pruned"}
               /\ q[k].st = "delivered" =>
                    /\ q[k].by = target'[m] /\ target'[m] \in Machine
                    /\ <<m, k>> \in held'[target'[m]]
    <3>1. <<m, k>> \notin suspect
      BY <2>1 DEF Grows
    <3>2. CASE q[k] = queue[m][k]
      BY <1>1, <3>1, <3>2 DEF CleanEntries, Grows
    <3>3. CASE k \in pass[m].rows \ pass[m].bad /\ q[k].st = "delivered" /\ q[k].by = pass[m].to
      <4>1. pass[m].to = target[m]
        BY <1>2, <2>1, <3>3 DEF Misplaced, RowsOf
      <4> QED  BY <1>1, <1>2, <3>3, <4>1 DEF Grows
    <3>4. CASE k \in pass[m].bad
      BY <1>2, <3>1, <3>4
    <3> QED  BY <1>5, <3>2, <3>3, <3>4
  <2> QED  BY <1>1, <1>3, <1>4, <2>1, CleanIfRewritten
<1>7. \A k \in 1 .. Quota[m] : /\ q[k].st = "none" <=> queue[m][k].st = "none"
                               /\ q[k].gen = queue[m][k].gen
  BY <1>5
<1>8. gen'[m] \in Nat /\ gen[m] <= gen'[m]
  BY <1>1 DEF TypeOK, OutboxTypeOK
<1> QED  BY <1>1, <1>3, <1>4, <1>6, <1>7, <1>8, OrderIfInPlace

LEMMA QueuesRefuseBatch ==
    ASSUME Queues, Grows, NEW m \in Machine, RefuseBatch(m)
    PROVE  CleanEntries' /\ QueueInOrder'
<1> USE DEF Queues
<1>1. PICK counted \in {{}, pass[m].rows} :
        /\ queue' = [queue EXCEPT ![m] = [k \in Entries(m) |->
              IF k \in InQueue(m, counted) THEN Escalate(queue[m][k])
              ELSE queue[m][k]]]
        /\ suspect' = suspect \cup RowsOf(m, counted)
  BY DEF RefuseBatch
<1> DEFINE q == [k \in Entries(m) |->
              IF k \in InQueue(m, counted) THEN Escalate(queue[m][k])
              ELSE queue[m][k]]
<1>2. UNCHANGED <<gen, target>>
  BY DEF RefuseBatch
<1>3. q \in [1 .. Quota[m] -> Entry]
  BY EntriesAre, EntryTypes DEF TypeOK
<1>4. queue' = [queue EXCEPT ![m] = q]
  BY <1>1
<1>5. \A k \in 1 .. Quota[m] :
        /\ q[k].gen = queue[m][k].gen
        /\ \/ q[k] = queue[m][k]
           \/ /\ k \in counted /\ queue[m][k].st # "none"
              /\ q[k].st \in {"failed", "pending"}
  BY EntriesAre, EscalateFields DEF TypeOK, InQueue
<1> HIDE DEF q
<1>6. CleanEntries'
  <2>1. ASSUME NEW k \in 1 .. Quota[m], <<m, k>> \notin suspect'
        PROVE  /\ q[k].st \notin {"failed", "pruned"}
               /\ q[k].st = "delivered" =>
                    /\ q[k].by = target'[m] /\ target'[m] \in Machine
                    /\ <<m, k>> \in held'[target'[m]]
    <3>1. <<m, k>> \notin suspect /\ k \notin counted
      BY <1>1, <2>1 DEF RowsOf
    <3>2. q[k] = queue[m][k]
      BY <1>5, <3>1
    <3> QED  BY <1>2, <3>1, <3>2 DEF CleanEntries, Grows
  <2> QED  BY <1>2, <1>3, <1>4, <2>1, CleanIfRewritten
<1>7. \A k \in 1 .. Quota[m] : /\ q[k].st = "none" <=> queue[m][k].st = "none"
                               /\ q[k].gen = queue[m][k].gen
  BY <1>5
<1>8. gen'[m] \in Nat /\ gen[m] <= gen'[m]
  BY <1>2 DEF TypeOK, OutboxTypeOK
<1> QED  BY <1>2, <1>3, <1>4, <1>6, <1>7, <1>8, OrderIfInPlace

LEMMA QueuesNoAnswer ==
    ASSUME Queues, Grows, NEW m \in Machine, NoAnswer(m)
    PROVE  CleanEntries' /\ QueueInOrder'
<1> USE DEF Queues
<1> DEFINE q == [k \in Entries(m) |->
          IF k \in InQueue(m, pass[m].rows)
          THEN TransportNote(queue[m][k]) ELSE queue[m][k]]
<1>1. UNCHANGED <<gen, target>>
  BY DEF NoAnswer
<1>2. q \in [1 .. Quota[m] -> Entry]
  BY EntriesAre, EntryTypes DEF TypeOK
<1>3. queue' = [queue EXCEPT ![m] = q]
  BY DEF NoAnswer
<1>4. \A k \in 1 .. Quota[m] : /\ q[k].gen = queue[m][k].gen
                               /\ q[k].st = queue[m][k].st
                               /\ q[k].by = queue[m][k].by
  BY EntriesAre, NoteFields DEF TypeOK
<1> HIDE DEF q
<1>5. \A k \in 1 .. Quota[m] : <<m, k>> \notin suspect' =>
              /\ q[k].st \notin {"failed", "pruned"}
              /\ q[k].st = "delivered" =>
                    /\ q[k].by = target'[m] /\ target'[m] \in Machine
                    /\ <<m, k>> \in held'[target'[m]]
  BY <1>1, <1>4 DEF CleanEntries, Grows
<1>6. CleanEntries'
  BY <1>1, <1>2, <1>3, <1>5, CleanIfRewritten
<1>7. gen'[m] \in Nat /\ gen[m] <= gen'[m]
  BY <1>1 DEF TypeOK, OutboxTypeOK
<1> QED  BY <1>1, <1>2, <1>3, <1>4, <1>6, <1>7, OrderIfInPlace

LEMMA QueuesPruneNodeQueue ==
    ASSUME Queues, Grows, NEW m \in Machine, PruneNodeQueue(m)
    PROVE  CleanEntries' /\ QueueInOrder'
<1> USE DEF Queues
<1> DEFINE old == Marked(m, "delivered") \cap Of(m, Prunable)
           q == [k \in Entries(m) |->
                  IF k \in old THEN [queue[m][k] EXCEPT !.st = "pruned"]
                  ELSE queue[m][k]]
<1>1. /\ target' = target /\ gen' = [gen EXCEPT ![m] = @ + 1]
      /\ suspect' = suspect \cup RowsOf(m, old)
  BY DEF PruneNodeQueue
<1>2. q \in [1 .. Quota[m] -> Entry]
  BY EntriesAre, EntryTypes DEF TypeOK
<1>3. queue' = [queue EXCEPT ![m] = q]
  BY DEF PruneNodeQueue
<1>4. \A k \in 1 .. Quota[m] :
        /\ q[k].gen = queue[m][k].gen
        /\ \/ q[k] = queue[m][k]
           \/ k \in old /\ queue[m][k].st = "delivered" /\ q[k].st = "pruned"
  BY EntriesAre, PruneFields DEF TypeOK, Marked
<1> HIDE DEF q, old
<1>5. CleanEntries'
  <2>1. ASSUME NEW k \in 1 .. Quota[m], <<m, k>> \notin suspect'
        PROVE  /\ q[k].st \notin {"failed", "pruned"}
               /\ q[k].st = "delivered" =>
                    /\ q[k].by = target'[m] /\ target'[m] \in Machine
                    /\ <<m, k>> \in held'[target'[m]]
    <3>1. <<m, k>> \notin suspect /\ k \notin old
      BY <1>1, <2>1 DEF RowsOf
    <3>2. q[k] = queue[m][k]
      BY <1>4, <3>1
    <3> QED  BY <1>1, <3>1, <3>2 DEF CleanEntries, Grows
  <2> QED  BY <1>1, <1>2, <1>3, <2>1, CleanIfRewritten
<1>6. /\ gen'[m] \in Nat /\ gen[m] <= gen'[m]
      /\ \A n \in Machine \ {m} : gen'[n] = gen[n]
  BY <1>1 DEF TypeOK, OutboxTypeOK
<1>7. \A k \in 1 .. Quota[m] : /\ q[k].st = "none" <=> queue[m][k].st = "none"
                               /\ q[k].gen = queue[m][k].gen
  BY <1>4
<1> QED  BY <1>2, <1>3, <1>5, <1>6, <1>7, OrderIfInPlace

\* Actions that leave the queue and the noted server alone.
LEMMA QueuesKept ==
    ASSUME Queues, Grows, UNCHANGED <<queue, gen, target>>
    PROVE  CleanEntries' /\ QueueInOrder'
BY CleanIfKept, OrderIfKept DEF Queues

LEMMA QueuesStep ==
    ASSUME Queues, TypeOK', Grows, Next
    PROVE  CleanEntries' /\ QueueInOrder'
<1>1. ASSUME NEW m \in Machine, NEW o \in Machine,
             \/ MakeRow(m) \/ NumberOwnRows(m) \/ RetryPeerQuarantine(m)
             \/ PromoteToNode(m) \/ RejoinConfirmed(m) \/ RejoinRefused(m)
             \/ Crash(m) \/ StartNodeServer(m) \/ SendBatch(m) \/ EndPass(m)
             \/ NodeSync(m) \/ PullDistribution(m, o)
      PROVE  UNCHANGED outboxVars
  BY <1>1 DEF MakeRow, NumberOwnRows, RetryPeerQuarantine, PromoteToNode,
     RejoinConfirmed, RejoinRefused, Crash, StartNodeServer, SendBatch,
     EndPass, NodeSync, PullDistribution
<1>2. ASSUME NEW q \in stray, LateSync(q) PROVE UNCHANGED outboxVars
  BY <1>2 DEF LateSync
<1>3. CASE UNCHANGED outboxVars
  BY <1>3, QueuesKept DEF outboxVars
<1>4. ASSUME NEW m \in Machine, RetryFailed(m)
      PROVE  CleanEntries' /\ QueueInOrder'
  <2>1. /\ queue' = [queue EXCEPT ![m] = [k \in Entries(m) |->
              IF queue[m][k].st = "failed" THEN Offer(queue[m][k])
              ELSE queue[m][k]]]
        /\ gen' = gen /\ target' = target
    BY <1>4 DEF RetryFailed
  <2> QED  BY <2>1, QueuesReoffer
<1>5. ASSUME NEW m \in Machine, NEW n \in Machine, StartRejoin(m, n)
      PROVE  CleanEntries' /\ QueueInOrder'
  <2>1. target' = target
    BY <1>5 DEF StartRejoin
  <2>2. CASE Rearm(m)
    BY <2>1, <2>2, QueuesRearm
  <2>3. CASE UNCHANGED <<queue, gen>>
    BY <2>1, <2>3, QueuesKept
  <2> QED  BY <1>5, <2>2, <2>3 DEF StartRejoin
<1> QED
  BY <1>1, <1>2, <1>3, <1>4, <1>5, QueuesBeginPass, QueuesFillNodeOutbox,
     QueuesAskCursors, QueuesSettleNodeBatch, QueuesRefuseBatch,
     QueuesNoAnswer, QueuesPruneNodeQueue DEF Next, PushStep

----------------------------------------------------------------------------
(* The invariant, and what it says.                                        *)

LEMMA SafeInit == Init => SafeInv
<1> SUFFICES ASSUME Init PROVE SafeInv
  OBVIOUS
<1>1. TypeOK
  BY TypeInit
<1>2. OutboxComplete
  BY ConstantTypes DEF Init, OutboxComplete
<1>3. CursorInv
  BY ConstantTypes DEF Init, CursorInv, HeldBelowCursor, CursorCoversRows,
     RequestsLeaveNoHole, AnswersAreTrue, IdlePass
<1>5. \A m \in Machine : \A k \in 1 .. Quota[m] :
         queue[m][k] = NoEntry /\ gen[m] = 0
  BY DEF Init
<1>6. CleanEntries /\ QueueInOrder
  BY <1>5, ConstantTypes DEF CleanEntries, QueueInOrder, NoEntry
<1> QED  BY <1>1, <1>2, <1>3, <1>6 DEF SafeInv, QueueInv

LEMMA SafeStep ==
    ASSUME SafeInv, [Next]_vars PROVE SafeInv'
<1>1. TypeOK' /\ Grows
  BY TypeStep, GrowsStep DEF SafeInv
<1>2. OutboxComplete'
  BY <1>1, CompleteStep DEF SafeInv
<1>3. CASE Next
  <2>1. HeldBelowCursor' /\ CursorCoversRows'
    BY <1>1, <1>3, CursorsStep DEF SafeInv, CursorInv
  <2>2. RequestsLeaveNoHole'
    BY <1>1, <1>3, RequestsStep DEF SafeInv, CursorInv, QueueInv
  <2>3. AnswersAreTrue'
    BY <1>1, <1>3, AnswersStep DEF SafeInv, CursorInv, QueueInv
  <2>5. CleanEntries' /\ QueueInOrder'
    BY <1>1, <1>3, QueuesStep DEF Queues, SafeInv, CursorInv, QueueInv
  <2> QED
    BY <1>1, <1>2, <2>1, <2>2, <2>3, <2>5
       DEF SafeInv, CursorInv, QueueInv
<1>4. CASE UNCHANGED vars
  <2>1. UNCHANGED <<numbered, held, quar, gaveUp, cur, queue, gen, target,
                    pass, stray, url, suspect>>
    BY <1>4 DEF vars, rowVars, holdVars, outboxVars, confVars
  <2>2. CursorInv'
    BY <2>1 DEF SafeInv, CursorInv, HeldBelowCursor, CursorCoversRows,
       RequestsLeaveNoHole, LeavesNoHole, AnswersAreTrue
  <2>3. QueueInv'
    BY <2>1 DEF SafeInv, QueueInv, CleanEntries, QueueInOrder
  <2> QED  BY <1>1, <1>2, <2>2, <2>3 DEF SafeInv
<1> QED  BY <1>3, <1>4

\* noteNodeTarget, takeNodeQueueBatch, applyPeerRows, settleNodeBatch: the
\* cursors, the requests on the wire, the answers on their way back and the
\* queues of every branch agree on the clean rows, whenever tills are promoted,
\* rejoined or put back, in the middle of a push pass too.
THEOREM BranchAgrees == Spec => []SafeInv
<1>1. SafeInv /\ [Next]_vars => SafeInv'
  BY SafeStep
<1> QED  BY <1>1, SafeInit, PTL DEF Spec

\* applyPeerRows, applyDistribution: the cursor a repointed till is answered
\* with covers only rows the machine holds (those never refused anywhere, nor
\* misplaced by a move in the middle of a pass).
THEOREM CursorsCover == Spec => []CursorCoversRows
<1>1. SafeInv => CursorCoversRows
  BY DEF SafeInv, CursorInv
<1> QED  BY <1>1, BranchAgrees, PTL

\* settleNodeBatch, skipHeldByNode: a clean row that a till has crossed off is
\* on the server that said so, through promotions, rejoins, late requests and
\* lost answers.
THEOREM CleanRowsAreHeld == Spec => []CleanDeliveredRowsAreHeld
<1>1. SafeInv => CleanDeliveredRowsAreHeld
  <2> SUFFICES ASSUME SafeInv, NEW m \in Machine, NEW k \in Entries(m),
                      queue[m][k].st \in {"delivered", "pruned"},
                      <<m, k>> \notin suspect
               PROVE  <<m, k>> \in held[queue[m][k].by]
    BY DEF CleanDeliveredRowsAreHeld
  <2>1. k \in 1 .. Quota[m]
    BY EntriesAre DEF SafeInv, TypeOK
  <2> QED  BY <2>1 DEF SafeInv, QueueInv, CleanEntries
<1> QED  BY <1>1, BranchAgrees, PTL

\* noteNodeTarget, resetOutboxCursors: a till repointed to another server
\* still owes it, or knows it holds, every clean row in its outbox.
THEOREM NothingIsForgotten ==
    Spec => []NothingOwedIsForgotten
<1>1. SafeInv => NothingOwedIsForgotten
  <2> SUFFICES ASSUME SafeInv, NEW m \in Machine, NEW k \in 1 .. outCur[m],
                      target[m] = url[m], <<m, k>> \notin suspect
               PROVE  queue[m][k].st = "pending" \/ <<m, k>> \in held[url[m]]
    BY DEF NothingOwedIsForgotten
  <2>1. k \in 1 .. Quota[m] /\ queue[m][k].st # "none"
    BY EntriesAre DEF SafeInv, OutboxComplete, TypeOK
  <2>2. queue[m][k].st \in Status
    BY <2>1 DEF SafeInv, TypeOK, OutboxTypeOK, Entry
  <2> QED
    BY <2>1, <2>2 DEF SafeInv, QueueInv, CleanEntries, Status
<1> QED  BY <1>1, BranchAgrees, PTL

============================================================================
