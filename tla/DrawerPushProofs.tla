------------------------- MODULE DrawerPushProofs ---------------------------
(***************************************************************************)
(* Proofs about DrawerPush: what the till has marked as sent is at the     *)
(* cloud, the till's count is kept, a close waits for the drawer's sales   *)
(* and voids, stock moves once, and the cloud's figure is right.           *)
(***************************************************************************)
EXTENDS DrawerPush, TLAPS

(* TypeOK without the bounds on counters.                                  *)
Typed ==
    /\ drawer \in [st: {"open", "closed", "forced"}, sync: {"pending", "synced"}, adopted: BOOLEAN]
    /\ sale \in [Sales -> {"none", "pending", "synced", "failed"}]
    /\ tries \in [Sales -> Nat]
    /\ cash \in [Cash -> {"none", "pending", "synced"}]
    /\ rev \in [Sales -> [kind: Kinds \cup {"none"}, sync: {"none", "pending", "synced", "refused"}]]
    /\ pass \in [stage: {"idle", "cash", "orders", "reversals", "close"}, tried: SUBSET Sales]
    /\ wait \in Slots \cup {None}
    /\ shift \in [st: {"none", "open", "closed", "forced"}, by: {"none", "till", "web"},
                  count: {"none", "till", "web"}, kept: BOOLEAN, expected: SUBSET Rows]
    /\ order \in [Sales -> {"none", "completed", "voided"}]
    /\ refunded \subseteq Sales /\ held \subseteq Cash
    /\ taken \in [Sales -> Nat] /\ restored \in [Sales -> Nat]
    /\ handler \in [Slots -> Handler \cup {None}]
    /\ overlapped \in BOOLEAN

Ended == {"closed", "forced"}
Settling == {"late", "sum", "cash", "write"}
Reversal == {"void", "refund"}

(* What each kind of request may be about, and where it may be.            *)
Shape(h) ==
    LET k == handler[h] IN k # None =>
      /\ k.job = "order" =>
           /\ \E s \in Sales : k.rows = {s}
           /\ k.at \in {"look", "insert", "stock", "said"} \cup Settling
           /\ k.then = "said"
      /\ k.job \in Reversal =>
           /\ \E s \in Sales : k.rows = {s}
           /\ k.at \in {"look", "claim", "back", "restore", "said"}
           /\ k.job \in Kinds
      /\ k.job = "push" =>
           /\ k.rows \subseteq Cash
           /\ k.at \in {"drawer", "floats", "upsert", "spend", "spent", "said"} \cup Settling
           /\ k.then \in {"spend", "said"}
      /\ k.job \in Closes => /\ k.at \in {"look", "sum", "cash", "write", "said"}
                             /\ k.from # "relay"
      /\ k.at = "said" => wait = h

(* Where a push goes on once the figures are settled.                      *)
Reached(k) == IF k.at \in Settling THEN k.then ELSE k.at

(* What a request has done already, and what its answer says.              *)
Told(h) ==
    LET k == handler[h] IN k # None =>
      /\ k.job = "order" =>
           /\ \/ k.at = "stock" \/ k.at \in Settling \/ (k.at = "said" /\ k.ans = "stored")
              => \A s \in k.rows : order[s] # "none"
           /\ k.from = "till" => \A s \in k.rows : sale[s] # "none"
      /\ k.job = "push" =>
           /\ Reached(k) \in {"spend", "spent", "said"} => k.rows \cap Floats \subseteq held
           /\ Reached(k) \in {"spent", "said"} => k.rows \cap Expenses \subseteq held
      /\ k.job \in Closes =>
           /\ k.at \in {"sum", "cash", "write"} => shift.st # "none"
           /\ k.at = "said" /\ Settles(k.ans) => shift.st \in Ended
           /\ k.from = "till" =>
                /\ drawer.st # "open" /\ (drawer.st = "closed" => k.job = "close")
                /\ \A s \in Sales : sale[s] # "none" => order[s] # "none"

StageOf(job) == CASE job = "push" -> "cash" [] job = "order" -> "orders"
                  [] job \in Reversal -> "reversals" [] OTHER -> "close"

(* The till waits for a request of its own, of the stage its pass is in.   *)
Waits ==
    wait # None => /\ handler[wait] # None /\ handler[wait].from = "till"
                   /\ pass.stage = StageOf(handler[wait].job)

(* A void or refund is known by its kind, and waits only if there is one.  *)
RevsInOrder ==
    \A s \in Sales : /\ rev[s].kind # "none" => rev[s].sync # "none"
                     /\ rev[s].sync = "pending" => rev[s].kind # "none"

HeldInv ==
    /\ Typed /\ Waits /\ SyncedIsHeld
    /\ RevsInOrder
    /\ \A h \in Slots : Shape(h) /\ Told(h)

-----------------------------------------------------------------------------
(* How a step changes the handlers.                                        *)

Others(h) == \A g \in Slots : g # h => handler'[g] = handler[g]
(* Handler h goes on to step a, with then t and answer w.                  *)
Goes(h, a, t, w) ==
    /\ handler' \in [Slots -> Handler \cup {None}] /\ Others(h)
    /\ handler'[h] # None
    /\ /\ handler'[h].job = handler[h].job /\ handler'[h].from = handler[h].from
           /\ handler'[h].rows = handler[h].rows
    /\ handler'[h].rows = handler[h].rows /\ handler'[h].st = handler[h].st
    /\ handler'[h].at = a /\ handler'[h].then = t /\ handler'[h].ans = w
Gone(h) ==
    /\ handler' \in [Slots -> Handler \cup {None}] /\ Others(h)
    /\ handler'[h] = None
(* It ends with answer w, for a till that still waits for it.              *)
Ends(h, w) ==
    IF wait = h THEN Goes(h, "said", handler[h].then, w) ELSE Gone(h)

LEMMA Become ==
  ASSUME Typed, NEW h \in Slots, NEW k \in Handler,
         k.job = handler[h].job, k.from = handler[h].from,
         k.rows = handler[h].rows, k.st = handler[h].st,
         handler' = [handler EXCEPT ![h] = k]
  PROVE  Goes(h, k.at, k.then, k.ans)
  BY NoneAssumption DEF Typed, Goes, Others

LEMMA Vanish ==
  ASSUME Typed, NEW h \in Slots, handler' = [handler EXCEPT ![h] = None]
  PROVE  Gone(h)
  BY DEF Typed, Gone, Others

LEMMA GoGoes ==
  ASSUME Typed, NEW h \in Slots, handler[h] # None, NEW a \in Steps, Go(h, a)
  PROVE  Goes(h, a, handler[h].then, handler[h].ans)
<1> DEFINE k == [handler[h] EXCEPT !.at = a]
<1>1. handler[h] \in Handler
  BY DEF Typed
<1>2. /\ k \in Handler /\ k.job = handler[h].job /\ k.from = handler[h].from
      /\ k.rows = handler[h].rows /\ k.st = handler[h].st
      /\ k.at = a /\ k.then = handler[h].then /\ k.ans = handler[h].ans
  BY <1>1 DEF Handler
<1>3. handler' = [handler EXCEPT ![h] = k]
  BY DEF Go
<1> HIDE DEF k
<1> QED BY <1>2, <1>3, Become

LEMMA SayEnds ==
  ASSUME Typed, NEW h \in Slots, handler[h] # None, NEW w \in Answers, Say(h, w)
  PROVE  Ends(h, w)
<1>1. CASE wait = h
  <2> DEFINE k == [handler[h] EXCEPT !.at = "said", !.ans = w]
  <2>1. handler[h] \in Handler
    BY DEF Typed
  <2>2. /\ k \in Handler /\ k.job = handler[h].job /\ k.from = handler[h].from
        /\ k.rows = handler[h].rows /\ k.st = handler[h].st
        /\ k.at = "said" /\ k.then = handler[h].then /\ k.ans = w
    BY <2>1 DEF Handler, Steps
  <2>3. handler' = [handler EXCEPT ![h] = k]
    BY <1>1 DEF Say
  <2> HIDE DEF k
  <2> QED BY <1>1, <2>2, <2>3, Become DEF Ends
<1>2. CASE wait # h
  BY <1>2, Vanish DEF Say, Ends
<1> QED BY <1>1, <1>2

LEMMA SettleGoes ==
  ASSUME Typed, NEW h \in Slots, handler[h] # None, NEW t \in Steps, Settle(h, t)
  PROVE  Goes(h, "late", t, handler[h].ans)
<1> DEFINE k == [handler[h] EXCEPT !.at = "late", !.then = t]
<1>1. handler[h] \in Handler
  BY DEF Typed
<1>2. /\ k \in Handler /\ k.job = handler[h].job /\ k.from = handler[h].from
      /\ k.rows = handler[h].rows /\ k.st = handler[h].st
      /\ k.at = "late" /\ k.then = t /\ k.ans = handler[h].ans
  BY <1>1 DEF Handler, Steps
<1>3. handler' = [handler EXCEPT ![h] = k]
  BY DEF Settle
<1> HIDE DEF k
<1> QED BY <1>2, <1>3, Become

(* A step that notes what it read.                                         *)
LEMMA NoteGoes ==
  ASSUME Typed, NEW h \in Slots, handler[h] # None, NEW a \in Steps,
         NEW l \in BOOLEAN, NEW b \in SUBSET Rows, NEW v \in SUBSET Rows,
         handler' = [handler EXCEPT ![h] = [handler[h] EXCEPT !.at = a, !.late = l,
                                                            !.seen = b, !.was = v]]
  PROVE  Goes(h, a, handler[h].then, handler[h].ans)
<1> DEFINE k == [handler[h] EXCEPT !.at = a, !.late = l, !.seen = b, !.was = v]
<1>1. handler[h] \in Handler
  BY DEF Typed
<1>2. /\ k \in Handler /\ k.job = handler[h].job /\ k.from = handler[h].from
      /\ k.rows = handler[h].rows /\ k.st = handler[h].st
      /\ k.at = a /\ k.then = handler[h].then /\ k.ans = handler[h].ans
  BY <1>1 DEF Handler
<1> HIDE DEF k
<1> QED BY <1>2, Become DEF k

LEMMA ReturnDoes ==
  ASSUME Typed, NEW h \in Slots, handler[h] # None, NEW a \in Steps, Return(h, a)
  PROVE  IF a = "said"
         THEN Ends(h, IF handler[h].job = "order" THEN "stored" ELSE "done")
         ELSE Goes(h, a, handler[h].then, handler[h].ans)
  BY SayEnds, GoGoes DEF Return, Answers

-----------------------------------------------------------------------------
(* What no step takes back: rows the cloud holds, a drawer it knows or has *)
(* closed; at the till, sales, and a drawer that was closed.               *)
Grows ==
    /\ \A s \in Sales : /\ order[s] # "none" => order'[s] # "none"
                        /\ sale[s] # "none" => sale'[s] # "none"
                        /\ sale'[s] # "none" => sale[s] # "none" \/ drawer.st = "open"
    /\ held \subseteq held'
    /\ shift.st # "none" => shift'.st # "none"
    /\ shift.st \in Ended => shift'.st \in Ended
    /\ drawer.st # "open" => drawer'.st = drawer.st

CloudTyped ==
    /\ shift \in [st: {"none", "open", "closed", "forced"}, by: {"none", "till", "web"},
                  count: {"none", "till", "web"}, kept: BOOLEAN, expected: SUBSET Rows]
    /\ order \in [Sales -> {"none", "completed", "voided"}]
    /\ refunded \subseteq Sales /\ held \subseteq Cash
    /\ taken \in [Sales -> Nat] /\ restored \in [Sales -> Nat]

TillSame == UNCHANGED <<drawer, sale, tries, cash, rev, pass, wait, overlapped, lateRev>>

(* A step of handler h, seen from outside.                                 *)
CloudDoes(h) ==
    /\ Typed' /\ Grows /\ Others(h) /\ TillSame
    /\ Shape(h)' /\ Told(h)'
    /\ handler[h] # None
    /\ IF handler'[h] = None THEN wait # h
       ELSE /\ handler'[h].job = handler[h].job /\ handler'[h].from = handler[h].from
           /\ handler'[h].rows = handler[h].rows

LEMMA ToldStays ==
  ASSUME NEW g \in Slots, Shape(g), Told(g), Grows, handler'[g] = handler[g]
  PROVE  Told(g)'
<1>1. handler[g] # None /\ handler[g].job = "order" => handler[g].rows \subseteq Sales
  BY DEF Shape
<1> QED BY <1>1 DEF Told, Grows, Closes, Reached

(* What a step of a request must bring about, kind by kind.                *)
OrderGoes(h) ==
    \/ \E a \in {"insert", "stock"} \cup Settling :
          /\ Goes(h, a, "said", handler[h].ans)
          /\ a # "insert" => \A s \in handler[h].rows : order'[s] # "none"
    \/ \E w \in Answers :
          /\ Ends(h, w)
          /\ w = "stored" => \A s \in handler[h].rows : order'[s] # "none"
PushGoes(h) ==
    \/ \E a \in {"floats", "upsert", "spend", "spent"} \cup Settling, t \in {"spend", "said"} :
          LET p == IF a \in Settling THEN t ELSE a IN
          /\ Goes(h, a, t, handler[h].ans)
          /\ p \in {"spend", "spent", "said"} => handler[h].rows \cap Floats \subseteq held'
          /\ p \in {"spent", "said"} => handler[h].rows \cap Expenses \subseteq held'
    \/ /\ Ends(h, "done") /\ handler[h].rows \subseteq held'
CloseGoes(h) ==
    /\ \/ /\ \E a \in {"sum", "cash", "write"} : Goes(h, a, handler[h].then, handler[h].ans)
          /\ shift'.st # "none"
       \/ \E w \in Answers : Ends(h, w) /\ (Settles(w) => shift'.st \in Ended)
ReversalGoes(h) ==
    \/ \E a \in {"claim", "back", "restore"} : Goes(h, a, handler[h].then, handler[h].ans)
    \/ \E w \in Answers : Ends(h, w)

LEMMA GoesTyped ==
  ASSUME Typed, CloudTyped', TillSame, NEW h \in Slots,
         (\E a, t, w : Goes(h, a, t, w)) \/ \E w : Ends(h, w)
  PROVE  Typed' /\ Others(h)
  BY DEF Typed, CloudTyped, TillSame, Goes, Ends, Gone

LEMMA OrderDoes ==
  ASSUME HeldInv, NEW h \in Slots, handler[h] # None, handler[h].job = "order",
         CloudTyped', TillSame, Grows, OrderGoes(h)
  PROVE  CloudDoes(h)
<1>1. Typed' /\ Others(h)
  BY GoesTyped DEF OrderGoes, HeldInv
<1>2. Shape(h)' /\ Told(h)'
  BY DEF HeldInv, Shape, Told, TillSame, Grows, OrderGoes, Goes, Ends, Gone, Settling, Reversal, Closes
<1>3. IF handler'[h] = None THEN wait # h
      ELSE /\ handler'[h].job = handler[h].job /\ handler'[h].from = handler[h].from
           /\ handler'[h].rows = handler[h].rows
  BY DEF OrderGoes, Goes, Ends, Gone
<1> QED BY <1>1, <1>2, <1>3 DEF CloudDoes

LEMMA PushDoes ==
  ASSUME HeldInv, NEW h \in Slots, handler[h] # None, handler[h].job = "push",
         CloudTyped', TillSame, Grows, PushGoes(h)
  PROVE  CloudDoes(h)
<1>1. Typed' /\ Others(h)
  BY GoesTyped DEF PushGoes, HeldInv
<1>2. Shape(h)' /\ Told(h)'
  BY DEF HeldInv, Shape, Told, TillSame, PushGoes, Goes, Ends, Gone, Settling, Reversal, Closes, Reached
<1>3. IF handler'[h] = None THEN wait # h
      ELSE /\ handler'[h].job = handler[h].job /\ handler'[h].from = handler[h].from
           /\ handler'[h].rows = handler[h].rows
  BY DEF PushGoes, Goes, Ends, Gone
<1> QED BY <1>1, <1>2, <1>3 DEF CloudDoes

LEMMA CloseDoes ==
  ASSUME HeldInv, NEW h \in Slots, handler[h] # None, handler[h].job \in Closes,
         CloudTyped', TillSame, Grows, CloseGoes(h)
  PROVE  CloudDoes(h)
<1>1. Typed' /\ Others(h)
  BY GoesTyped DEF CloseGoes, HeldInv
<1>2. Shape(h)' /\ Told(h)'
  BY DEF HeldInv, Shape, Told, TillSame, Grows, CloseGoes, Goes, Ends, Gone, Settling, Reversal, Closes
<1>3. IF handler'[h] = None THEN wait # h
      ELSE /\ handler'[h].job = handler[h].job /\ handler'[h].from = handler[h].from
           /\ handler'[h].rows = handler[h].rows
  BY DEF CloseGoes, Goes, Ends, Gone
<1> QED BY <1>1, <1>2, <1>3 DEF CloudDoes

LEMMA ReversalDoes ==
  ASSUME HeldInv, NEW h \in Slots, handler[h] # None, handler[h].job \in Reversal,
         CloudTyped', TillSame, Grows, ReversalGoes(h)
  PROVE  CloudDoes(h)
<1>1. Typed' /\ Others(h)
  BY GoesTyped DEF ReversalGoes, HeldInv
<1>2. Shape(h)' /\ Told(h)'
  BY DEF HeldInv, Shape, Told, TillSame, ReversalGoes, Goes, Ends, Gone, Settling, Reversal, Closes
<1>3. IF handler'[h] = None THEN wait # h
      ELSE /\ handler'[h].job = handler[h].job /\ handler'[h].from = handler[h].from
           /\ handler'[h].rows = handler[h].rows
  BY DEF ReversalGoes, Goes, Ends, Gone
<1> QED BY <1>1, <1>2, <1>3 DEF CloudDoes

-----------------------------------------------------------------------------
(* The cloud's steps, one by one.                                          *)

LEMMA NothingStored == HeldInv /\ UNCHANGED cloud /\ TillSame => CloudTyped' /\ Grows
  BY DEF HeldInv, Typed, CloudTyped, Grows, TillSame, cloud, Ended

LEMMA LookOrderDoes ==
  ASSUME HeldInv, NEW h \in Slots, LookOrder(h)
  PROVE  CloudDoes(h)
<1>1. /\ handler[h] # None /\ handler[h].job = "order" /\ handler[h].at = "look"
      /\ UNCHANGED cloud /\ TillSame
  BY DEF LookOrder, At, TillOnly, till, TillSame
<1>2. PICK s \in handler[h].rows :
         IF order[s] # "none" THEN Say(h, "stored")
         ELSE \/ shift.st = "none" /\ Say(h, "nodrawer")
              \/ s \in Refusable /\ Say(h, "refused")
              \/ /\ shift.st # "none"
                 /\ handler' = [handler EXCEPT ![h].at = "insert", ![h].late = ~IsOpen]
  BY DEF LookOrder
<1>3. handler[h].rows = {s} /\ handler[h].then = "said" /\ handler[h] \in Handler /\ Typed
  BY <1>1, <1>2 DEF HeldInv, Shape, Typed
<1>4. CASE Say(h, "stored") /\ order[s] # "none"
  BY <1>1, <1>3, <1>4, SayEnds, NothingStored, OrderDoes DEF OrderGoes, Answers, cloud
<1>5. CASE Say(h, "nodrawer") \/ Say(h, "refused")
  BY <1>1, <1>3, <1>5, SayEnds, NothingStored, OrderDoes DEF OrderGoes, Answers
<1>6. CASE handler' = [handler EXCEPT ![h].at = "insert", ![h].late = ~IsOpen]
  <2> DEFINE k == [handler[h] EXCEPT !.at = "insert", !.late = ~IsOpen]
  <2>1. /\ k \in Handler /\ k.job = handler[h].job /\ k.from = handler[h].from
        /\ k.rows = handler[h].rows /\ k.st = handler[h].st
        /\ k.at = "insert" /\ k.then = "said" /\ k.ans = handler[h].ans
    BY <1>3 DEF Handler, Steps
  <2>2. handler' = [handler EXCEPT ![h] = k]
    BY <1>6
  <2>3. Goes(h, "insert", "said", handler[h].ans)
    <3> HIDE DEF k
    <3> QED BY <1>3, <2>1, <2>2, Become
  <2> QED BY <1>1, <2>3, NothingStored, OrderDoes DEF OrderGoes
<1> QED BY <1>2, <1>4, <1>5, <1>6

LEMMA InsertOrderDoes ==
  ASSUME HeldInv, NEW h \in Slots, InsertOrder(h)
  PROVE  CloudDoes(h)
<1>1. /\ handler[h] # None /\ handler[h].job = "order" /\ handler[h].at = "insert"
      /\ UNCHANGED <<shift, refunded, taken, restored, held>> /\ TillSame
  BY DEF InsertOrder, At, TillOnly, till, TillSame
<1>2. PICK s \in handler[h].rows :
         IF order[s] # "none" THEN Say(h, "stored") /\ UNCHANGED order
         ELSE order' = [order EXCEPT ![s] = "completed"] /\ Go(h, "stock")
  BY DEF InsertOrder, Conflict
<1>3. handler[h].rows = {s} /\ s \in Sales /\ handler[h].then = "said" /\ Typed
  BY <1>1, <1>2 DEF HeldInv, Shape
<1>4. /\ order' \in [Sales -> {"none", "completed", "voided"}] /\ order'[s] # "none"
      /\ \A x \in Sales : order[x] # "none" => order'[x] # "none"
  BY <1>2, <1>3 DEF Typed
<1>5. CloudTyped' /\ Grows
  BY <1>1, <1>3, <1>4 DEF Typed, CloudTyped, Grows, TillSame
<1>6. OrderGoes(h)
  <2>1. CASE Say(h, "stored")
    BY <1>1, <1>3, <1>4, <2>1, SayEnds DEF OrderGoes, Answers
  <2>2. CASE Go(h, "stock")
    BY <1>1, <1>3, <1>4, <2>2, GoGoes DEF OrderGoes, Steps
  <2> QED BY <1>2, <2>1, <2>2
<1> QED BY <1>1, <1>5, <1>6, OrderDoes

LEMMA TakeStockDoes ==
  ASSUME HeldInv, NEW h \in Slots, TakeStock(h)
  PROVE  CloudDoes(h)
<1>1. /\ handler[h] # None /\ handler[h].job = "order" /\ handler[h].at = "stock"
      /\ UNCHANGED <<shift, order, refunded, restored, held>> /\ TillSame
  BY DEF TakeStock, At, TillOnly, till, TillSame
<1>2. PICK s \in handler[h].rows : taken' = [taken EXCEPT ![s] = @ + 1]
  BY DEF TakeStock
<1>3. /\ handler[h].rows = {s} /\ s \in Sales /\ handler[h].then = "said" /\ Typed
      /\ order[s] # "none"
  BY <1>1, <1>2 DEF HeldInv, Shape, Told
<1>4. CloudTyped' /\ Grows
  <2>1. taken' \in [Sales -> Nat]
    BY <1>2, <1>3 DEF Typed
  <2> QED BY <1>1, <1>3, <2>1 DEF Typed, CloudTyped, Grows, TillSame
<1>5. OrderGoes(h)
  <2>1. CASE Settle(h, "said")
    BY <1>1, <1>3, <2>1, SettleGoes DEF OrderGoes, Steps, Settling
  <2>2. CASE Return(h, "said")
    BY <1>1, <1>3, <2>2, ReturnDoes DEF OrderGoes, Steps, Answers
  <2> QED BY <2>1, <2>2 DEF TakeStock
<1> QED BY <1>1, <1>4, <1>5, OrderDoes

LEMMA StoreDrawerDoes ==
  ASSUME HeldInv, NEW h \in Slots, StoreDrawer(h)
  PROVE  CloudDoes(h)
<1>1. /\ handler[h] # None /\ handler[h].job = "push" /\ handler[h].at = "drawer"
      /\ UNCHANGED <<order, refunded, taken, restored, held>> /\ TillSame
  BY DEF StoreDrawer, At, TillOnly, till, TillSame
<1>2. handler[h].rows \subseteq Cash /\ handler[h].then \in {"spend", "said"} /\ Typed
  BY <1>1 DEF HeldInv, Shape
<1>3. CloudTyped' /\ Grows
  <2>1. shift' = IF shift.st = "none" THEN [shift EXCEPT !.st = "open"] ELSE shift
    BY DEF StoreDrawer
  <2> QED BY <1>1, <1>2, <2>1 DEF Typed, CloudTyped, Grows, TillSame, Ended
<1>4. PICK a \in {"floats", "spend", "said"} :
         /\ Return(h, a)
         /\ a # "floats" => handler[h].rows \cap Floats = {}
         /\ a = "said" => handler[h].rows \cap Expenses = {}
  BY DEF StoreDrawer, SpendArm
<1>5. PushGoes(h)
  <2>1. CASE a = "said"
    BY <1>1, <1>2, <1>4, <2>1, ReturnDoes DEF PushGoes, Steps, Cash
  <2>2. CASE a # "said"
    BY <1>1, <1>2, <1>4, <2>2, ReturnDoes DEF PushGoes, Steps, Settling
  <2> QED BY <2>1, <2>2
<1> QED BY <1>1, <1>3, <1>5, PushDoes

LEMMA ReadForFloatsDoes ==
  ASSUME HeldInv, NEW h \in Slots, ReadForFloats(h)
  PROVE  CloudDoes(h)
<1>1. /\ handler[h] # None /\ handler[h].job = "push" /\ handler[h].at = "floats"
      /\ UNCHANGED cloud /\ TillSame
  BY DEF ReadForFloats, At, TillOnly, till, TillSame
<1>2. handler[h] \in Handler /\ handler[h].then \in {"spend", "said"} /\ Typed
  BY <1>1 DEF HeldInv, Shape, Typed
<1> DEFINE k == [handler[h] EXCEPT !.at = "upsert", !.late = ~IsOpen]
<1>3. /\ k \in Handler /\ k.job = handler[h].job /\ k.from = handler[h].from
      /\ k.rows = handler[h].rows /\ k.st = handler[h].st
      /\ k.at = "upsert" /\ k.then = handler[h].then /\ k.ans = handler[h].ans
  BY <1>2 DEF Handler, Steps
<1>4. handler' = [handler EXCEPT ![h] = k]
  BY DEF ReadForFloats
<1> HIDE DEF k
<1>5. Goes(h, "upsert", handler[h].then, handler[h].ans)
  BY <1>2, <1>3, <1>4, Become
<1> QED BY <1>1, <1>2, <1>5, NothingStored, PushDoes DEF PushGoes, Settling

LEMMA StoreFloatsDoes ==
  ASSUME HeldInv, NEW h \in Slots, StoreFloats(h)
  PROVE  CloudDoes(h)
<1>1. /\ handler[h] # None /\ handler[h].job = "push" /\ handler[h].at = "upsert"
      /\ held' = held \cup (handler[h].rows \cap Floats)
      /\ UNCHANGED <<shift, order, refunded, taken, restored>> /\ TillSame
  BY DEF StoreFloats, At, TillOnly, till, TillSame
<1>2. handler[h].rows \subseteq Cash /\ handler[h].then \in {"spend", "said"} /\ Typed
  BY <1>1 DEF HeldInv, Shape
<1>3. CloudTyped' /\ Grows
  BY <1>1, <1>2 DEF Typed, CloudTyped, Grows, TillSame, Cash
<1>4. PICK a \in {"spend", "said"} :
         /\ Settle(h, a) \/ Return(h, a)
         /\ a = "said" => handler[h].rows \cap Expenses = {}
  BY DEF StoreFloats, SpendArm
<1>5. PushGoes(h)
  <2>1. CASE Settle(h, a)
    BY <1>1, <1>2, <1>4, <2>1, SettleGoes DEF PushGoes, Steps, Settling
  <2>2. CASE Return(h, a) /\ a = "said"
    BY <1>1, <1>2, <1>4, <2>2, ReturnDoes DEF PushGoes, Steps, Cash
  <2>3. CASE Return(h, a) /\ a = "spend"
    BY <1>1, <1>2, <1>4, <2>3, ReturnDoes DEF PushGoes, Steps, Settling
  <2> QED BY <1>4, <2>1, <2>2, <2>3
<1> QED BY <1>1, <1>3, <1>5, PushDoes

LEMMA StoreExpensesDoes ==
  ASSUME HeldInv, NEW h \in Slots, StoreExpenses(h)
  PROVE  CloudDoes(h)
<1>1. /\ handler[h] # None /\ handler[h].job = "push" /\ handler[h].at = "spend"
      /\ held' = held \cup (handler[h].rows \cap Expenses) /\ Go(h, "spent")
      /\ UNCHANGED <<shift, order, refunded, taken, restored>> /\ TillSame
  BY DEF StoreExpenses, At, TillOnly, till, TillSame
<1>2. /\ handler[h].rows \subseteq Cash /\ handler[h].then \in {"spend", "said"} /\ Typed
      /\ handler[h].rows \cap Floats \subseteq held
  BY <1>1 DEF HeldInv, Shape, Told, Reached, Settling
<1>3. CloudTyped' /\ Grows
  BY <1>1, <1>2 DEF Typed, CloudTyped, Grows, TillSame, Cash
<1>4. Goes(h, "spent", handler[h].then, handler[h].ans)
  BY <1>1, <1>2, GoGoes DEF Steps
<1> QED BY <1>1, <1>2, <1>3, <1>4, PushDoes DEF PushGoes, Settling

LEMMA ReadForExpensesDoes ==
  ASSUME HeldInv, NEW h \in Slots, ReadForExpenses(h)
  PROVE  CloudDoes(h)
<1>1. /\ handler[h] # None /\ handler[h].job = "push" /\ handler[h].at = "spent"
      /\ UNCHANGED cloud /\ TillSame
  BY DEF ReadForExpenses, At, TillOnly, till, TillSame
<1>2. /\ handler[h].rows \subseteq Cash /\ Typed
      /\ handler[h].rows \cap Floats \subseteq held /\ handler[h].rows \cap Expenses \subseteq held
  BY <1>1 DEF HeldInv, Shape, Told, Reached, Settling
<1>3. CloudTyped' /\ Grows /\ held' = held
  BY <1>1, NothingStored DEF cloud
<1>4. PushGoes(h)
  <2>1. CASE Settle(h, "said")
    BY <1>1, <1>2, <1>3, <2>1, SettleGoes DEF PushGoes, Steps, Settling
  <2>2. CASE Return(h, "said")
    BY <1>1, <1>2, <1>3, <2>2, ReturnDoes DEF PushGoes, Steps, Cash
  <2> QED BY <2>1, <2>2 DEF ReadForExpenses
<1> QED BY <1>1, <1>3, <1>4, PushDoes

(* The settling of late rows, for a sale or a push.                        *)
LEMMA LateReturns ==
  ASSUME HeldInv, NEW h \in Slots, handler[h] # None,
         handler[h].job \in {"order", "push"}, handler[h].at \in Settling,
         Return(h, handler[h].then), CloudTyped', TillSame, Grows
  PROVE  CloudDoes(h)
<1>1. CASE handler[h].job = "order"
  <2>1. handler[h].then = "said" /\ \A s \in handler[h].rows : s \in Sales /\ order[s] # "none"
    BY <1>1 DEF HeldInv, Shape, Told
  <2>2. OrderGoes(h)
    BY <1>1, <2>1, ReturnDoes DEF OrderGoes, Steps, Answers, Grows, HeldInv
  <2> QED BY <1>1, <2>2, OrderDoes
<1>2. CASE handler[h].job = "push"
  <2>1. /\ handler[h].then \in {"spend", "said"} /\ handler[h].rows \subseteq Cash
        /\ handler[h].rows \cap Floats \subseteq held
        /\ handler[h].then = "said" => handler[h].rows \cap Expenses \subseteq held
    BY <1>2 DEF HeldInv, Shape, Told, Reached
  <2>2. CASE handler[h].then = "said"
    BY <1>2, <2>1, <2>2, ReturnDoes, PushDoes DEF PushGoes, Steps, Cash, Grows, HeldInv
  <2>3. CASE handler[h].then = "spend"
    BY <1>2, <2>1, <2>3, ReturnDoes, PushDoes DEF PushGoes, Steps, Settling, Grows, HeldInv
  <2> QED BY <2>1, <2>2, <2>3
<1> QED BY <1>1, <1>2

LEMMA LateGoes ==
  ASSUME HeldInv, NEW h \in Slots, handler[h] # None,
         handler[h].job \in {"order", "push"}, handler[h].at \in Settling,
         NEW a \in Settling, Goes(h, a, handler[h].then, handler[h].ans),
         CloudTyped', TillSame, Grows
  PROVE  CloudDoes(h)
<1>1. CASE handler[h].job = "order"
  <2>1. handler[h].then = "said" /\ \A s \in handler[h].rows : s \in Sales /\ order[s] # "none"
    BY <1>1 DEF HeldInv, Shape, Told
  <2> QED BY <1>1, <2>1, OrderDoes DEF OrderGoes, Grows
<1>2. CASE handler[h].job = "push"
  <2>1. /\ handler[h].then \in {"spend", "said"}
        /\ handler[h].rows \cap Floats \subseteq held
        /\ handler[h].then = "said" => handler[h].rows \cap Expenses \subseteq held
    BY <1>2 DEF HeldInv, Shape, Told, Reached
  <2> QED BY <1>2, <2>1, PushDoes DEF PushGoes, Settling, Grows
<1> QED BY <1>1, <1>2

LEMMA ReadLateDrawerDoes ==
  ASSUME HeldInv, NEW h \in Slots, ReadLateDrawer(h)
  PROVE  CloudDoes(h)
<1>1. /\ handler[h] # None /\ handler[h].job \in {"order", "push"} /\ handler[h].at = "late"
      /\ UNCHANGED cloud /\ TillSame
  BY DEF ReadLateDrawer, At, TillOnly, till, TillSame
<1>2. handler[h] \in Handler /\ Typed /\ shift.expected \in SUBSET Rows
  BY <1>1 DEF HeldInv, Typed
<1>3. CASE Return(h, handler[h].then)
  BY <1>1, <1>3, NothingStored, LateReturns DEF Settling
<1>4. CASE handler' = [handler EXCEPT ![h].at = "sum", ![h].was = shift.expected]
  <2> DEFINE k == [handler[h] EXCEPT !.at = "sum", !.was = shift.expected]
  <2>1. /\ k \in Handler /\ k.job = handler[h].job /\ k.from = handler[h].from
        /\ k.rows = handler[h].rows /\ k.st = handler[h].st
        /\ k.at = "sum" /\ k.then = handler[h].then /\ k.ans = handler[h].ans
    BY <1>2 DEF Handler, Steps
  <2>2. handler' = [handler EXCEPT ![h] = k]
    BY <1>4
  <2> HIDE DEF k
  <2>3. Goes(h, "sum", handler[h].then, handler[h].ans)
    BY <1>2, <2>1, <2>2, Become
  <2> QED BY <1>1, <2>3, NothingStored, LateGoes DEF Settling
<1> QED BY <1>3, <1>4 DEF ReadLateDrawer

LEMMA SumDoes ==
  ASSUME HeldInv, NEW h \in Slots, SumSales(h) \/ SumCash(h)
  PROVE  CloudDoes(h)
<1>1. /\ handler[h] # None /\ handler[h].job \in {"order", "push"} \cup Closes
      /\ handler[h].at \in {"sum", "cash"}
      /\ UNCHANGED cloud /\ TillSame
  BY DEF SumSales, SumCash, At, TillOnly, till, TillSame, Closes
<1>2. handler[h] \in Handler /\ Typed
  BY <1>1 DEF HeldInv, Typed
<1>3. PICK a \in {"cash", "write"}, b \in SUBSET Rows :
         handler' = [handler EXCEPT ![h].at = a, ![h].seen = b]
  <2>1. CASE SumSales(h)
    <3> DEFINE sold == {s \in Sales : order[s] = "completed"}
               b == sold \cup {Back(s) : s \in {x \in sold : back[x] > 0}}
    <3>1. b \in SUBSET Rows
      BY DEF Rows
    <3>2. handler' = [handler EXCEPT ![h].at = "cash", ![h].seen = b]
      BY <2>1 DEF SumSales
    <3> QED BY <3>1, <3>2
  <2>2. CASE SumCash(h)
    <3>1. handler[h].seen \cup held \in SUBSET Rows
      BY <1>2 DEF Handler, Typed, Rows
    <3>2. handler' = [handler EXCEPT ![h].at = "write", ![h].seen = handler[h].seen \cup held]
      BY <2>2 DEF SumCash
    <3> QED BY <3>1, <3>2
  <2> QED BY <2>1, <2>2
<1> DEFINE k == [handler[h] EXCEPT !.at = a, !.seen = b]
<1>4. /\ k \in Handler /\ k.job = handler[h].job /\ k.from = handler[h].from
      /\ k.rows = handler[h].rows /\ k.st = handler[h].st
      /\ k.at = a /\ k.then = handler[h].then /\ k.ans = handler[h].ans
  BY <1>2 DEF Handler, Steps
<1>5. handler' = [handler EXCEPT ![h] = k]
  BY <1>3
<1> HIDE DEF k
<1>6. Goes(h, a, handler[h].then, handler[h].ans)
  BY <1>2, <1>4, <1>5, Become
<1>7. CASE handler[h].job \in {"order", "push"}
  BY <1>1, <1>6, <1>7, NothingStored, LateGoes DEF Settling
<1>8. CASE handler[h].job \in Closes
  <2>1. shift.st # "none"
    BY <1>1, <1>8 DEF HeldInv, Told
  <2> QED BY <1>1, <1>6, <1>8, <2>1, NothingStored, CloseDoes DEF CloseGoes, Grows
<1> QED BY <1>1, <1>7, <1>8

LEMMA WriteLateDoes ==
  ASSUME HeldInv, NEW h \in Slots, WriteLate(h)
  PROVE  CloudDoes(h)
<1>1. /\ handler[h] # None /\ handler[h].job \in {"order", "push"} /\ handler[h].at = "write"
      /\ UNCHANGED <<order, refunded, taken, restored, held>> /\ TillSame
      /\ Return(h, handler[h].then)
  BY DEF WriteLate, At, TillOnly, till, TillSame
<1>2. handler[h] \in Handler /\ Typed
  BY <1>1 DEF HeldInv, Typed
<1>3. CloudTyped' /\ Grows
  <2>1. shift' = shift \/ shift' = [shift EXCEPT !.expected = handler[h].seen]
    BY DEF WriteLate
  <2>2. handler[h].seen \in SUBSET Rows
    BY <1>2 DEF Handler
  <2> QED BY <1>1, <1>2, <2>1, <2>2 DEF Typed, CloudTyped, Grows, TillSame, Ended
<1> QED BY <1>1, <1>3, LateReturns DEF Settling

LEMMA LookCloseDoes ==
  ASSUME HeldInv, NEW h \in Slots, LookClose(h)
  PROVE  CloudDoes(h)
<1>1. /\ handler[h] # None /\ handler[h].job \in Closes /\ handler[h].at = "look"
      /\ UNCHANGED <<order, refunded, taken, restored, held>> /\ TillSame
  BY DEF LookClose, At, TillOnly, till, TillSame
<1>2. Typed
  BY DEF HeldInv
<1>3. CASE IsOpen /\ Go(h, "sum") /\ UNCHANGED shift
  <2>1. CloudTyped' /\ Grows /\ shift'.st # "none"
    BY <1>1, <1>2, <1>3 DEF Typed, CloudTyped, Grows, TillSame, IsOpen
  <2> QED BY <1>1, <1>2, <1>3, <2>1, GoGoes, CloseDoes DEF CloseGoes, Steps
<1>4. CASE ~IsOpen /\ Say(h, IF shift.st = "none" THEN "nothing" ELSE "closed")
           /\ shift' = IF KeepsCount(h) THEN [shift EXCEPT !.kept = TRUE] ELSE shift
  <2>1. CloudTyped' /\ Grows /\ shift'.st = shift.st
    BY <1>1, <1>2, <1>4 DEF Typed, CloudTyped, Grows, TillSame
  <2>2. shift.st = "none" \/ shift.st \in Ended
    BY <1>2, <1>4 DEF Typed, IsOpen, Ended
  <2>3. CASE shift.st = "none"
    BY <1>1, <1>2, <1>4, <2>1, <2>3, SayEnds, CloseDoes DEF CloseGoes, Answers, Settles
  <2>4. CASE shift.st \in Ended
    BY <1>1, <1>2, <1>4, <2>1, <2>4, SayEnds, CloseDoes DEF CloseGoes, Answers, Ended
  <2> QED BY <2>2, <2>3, <2>4
<1> QED BY <1>3, <1>4 DEF LookClose

LEMMA WriteCloseDoes ==
  ASSUME HeldInv, NEW h \in Slots, WriteClose(h)
  PROVE  CloudDoes(h)
<1>1. /\ handler[h] # None /\ handler[h].job \in Closes /\ handler[h].at = "write"
      /\ UNCHANGED <<order, refunded, taken, restored, held>> /\ TillSame
      /\ Say(h, IF IsOpen THEN "done" ELSE "closed")
  BY DEF WriteClose, At, TillOnly, till, TillSame
<1>2. handler[h] \in Handler /\ Typed /\ shift.st # "none" /\ handler[h].from # "relay"
  BY <1>1 DEF HeldInv, Typed, Told, Shape
<1>3. /\ shift'.st \in Ended /\ Grows
      /\ CloudTyped'
  <2>1. CASE ~IsOpen
    BY <1>1, <1>2, <2>1 DEF WriteClose, Typed, CloudTyped, Grows, TillSame, Ended, IsOpen
  <2>2. CASE IsOpen
    <3> DEFINE forced == handler[h].job = "force"
               by == handler[h].from
    <3>1. shift' = [shift EXCEPT !.st = IF forced THEN "forced" ELSE "closed", !.by = by,
                        !.count = IF forced THEN "none" ELSE by, !.expected = handler[h].seen]
      BY <2>2 DEF WriteClose
    <3>2. handler[h].seen \in SUBSET Rows /\ by \in {"till", "web"}
      BY <1>2 DEF Handler
    <3> QED BY <1>1, <1>2, <2>2, <3>1, <3>2 DEF Typed, CloudTyped, Grows, TillSame, Ended, IsOpen
  <2> QED BY <2>1, <2>2
<1>4. CloseGoes(h)
  BY <1>1, <1>2, <1>3, SayEnds DEF CloseGoes, Answers
<1> QED BY <1>1, <1>3, <1>4, CloseDoes

LEMMA ReversalStepDoes ==
  ASSUME HeldInv, NEW h \in Slots,
         LookReversal(h) \/ ClaimReversal(h) \/ GiveBack(h) \/ RestoreStock(h)
  PROVE  CloudDoes(h)
<1>1. /\ handler[h] # None /\ handler[h].job \in Reversal /\ handler[h].at # "said"
      /\ UNCHANGED <<shift, taken, held>> /\ TillSame
  BY DEF LookReversal, ClaimReversal, GiveBack, RestoreStock, At, TillOnly, till, TillSame,
         Reversal, cloud
<1>2. PICK s \in Sales : handler[h].rows = {s}
  BY <1>1 DEF HeldInv, Shape
<1>3. Typed
  BY DEF HeldInv
<1>4. CASE LookReversal(h)
  <2>1. Go(h, "claim") \/ \E w \in {"done", "refused", "nothing"} : Say(h, w)
    BY <1>2, <1>4 DEF LookReversal
  <2>2. ReversalGoes(h)
    BY <1>1, <1>3, <2>1, SayEnds, GoGoes DEF ReversalGoes, Answers, Steps
  <2>3. UNCHANGED cloud
    BY <1>4 DEF LookReversal
  <2> QED BY <1>1, <2>2, <2>3, NothingStored, ReversalDoes
<1>5. CASE ClaimReversal(h)
  <2>1. Go(h, "back") \/ Say(h, "done")
    BY <1>2, <1>5 DEF ClaimReversal
  <2>2. ReversalGoes(h)
    BY <1>1, <1>3, <2>1, SayEnds, GoGoes DEF ReversalGoes, Answers, Steps
  <2>3. /\ order' = order \/ order' = [order EXCEPT ![s] = "voided"]
        /\ refunded' = refunded \/ refunded' = refunded \cup {s}
        /\ restored' = restored
    BY <1>2, <1>5 DEF ClaimReversal
  <2>4. CloudTyped' /\ Grows
    BY <1>1, <1>2, <1>3, <2>3 DEF Typed, CloudTyped, Grows, TillSame
  <2> QED BY <1>1, <2>2, <2>4, ReversalDoes
<1>6. CASE GiveBack(h)
  <2>1. UNCHANGED <<order, refunded, restored>> /\ Go(h, "restore")
    BY <1>6 DEF GiveBack
  <2>2. CloudTyped' /\ Grows
    BY <1>1, <1>3, <2>1 DEF Typed, CloudTyped, Grows, TillSame
  <2>3. ReversalGoes(h)
    BY <1>1, <1>3, <2>1, GoGoes DEF ReversalGoes, Steps
  <2> QED BY <1>1, <2>2, <2>3, ReversalDoes
<1>7. CASE RestoreStock(h)
  <2>1. /\ UNCHANGED <<order, refunded>> /\ Say(h, "done")
        /\ restored' = [restored EXCEPT ![s] = @ + 1]
    BY <1>2, <1>7 DEF RestoreStock
  <2>2. restored' \in [Sales -> Nat]
    BY <1>2, <1>3, <2>1 DEF Typed
  <2>3. CloudTyped' /\ Grows
    BY <1>1, <1>3, <2>1, <2>2 DEF Typed, CloudTyped, Grows, TillSame
  <2>4. ReversalGoes(h)
    BY <1>1, <1>3, <2>1, SayEnds DEF ReversalGoes, Answers
  <2> QED BY <1>1, <2>3, <2>4, ReversalDoes
<1> QED BY <1>4, <1>5, <1>6, <1>7

LEMMA CloudStepDoes ==
  ASSUME HeldInv, NEW h \in Slots, CloudStep(h)
  PROVE  CloudDoes(h)
  BY LookOrderDoes, InsertOrderDoes, TakeStockDoes, StoreDrawerDoes, ReadForFloatsDoes,
     StoreFloatsDoes, StoreExpensesDoes, ReadForExpensesDoes, ReadLateDrawerDoes, SumDoes,
     WriteLateDoes, LookCloseDoes, WriteCloseDoes, ReversalStepDoes DEF CloudStep

LEMMA HeldCloud ==
  ASSUME HeldInv, NEW h \in Slots, CloudStep(h)
  PROVE  HeldInv'
<1>1. CloudDoes(h)
  BY CloudStepDoes
<1>2. ASSUME NEW g \in Slots PROVE Shape(g)' /\ Told(g)'
  <2>1. CASE g = h
    BY <1>1, <2>1 DEF CloudDoes
  <2>2. CASE g # h
    <3>1. handler'[g] = handler[g] /\ wait' = wait /\ Shape(g) /\ Told(g)
      BY <1>1, <2>2 DEF CloudDoes, Others, TillSame, HeldInv
    <3>2. Shape(g)'
      BY <3>1 DEF Shape
    <3>3. Told(g)'
      BY <1>1, <3>1, ToldStays DEF CloudDoes
    <3> QED BY <3>2, <3>3
  <2> QED BY <2>1, <2>2
<1>3. Waits'
  <2>1. CASE wait = h
    BY <1>1, <2>1 DEF CloudDoes, TillSame, Waits, HeldInv
  <2>2. CASE wait # h
    BY <1>1, <2>2 DEF CloudDoes, TillSame, Waits, HeldInv, Others, Typed
  <2> QED BY <2>1, <2>2
<1>4. SyncedIsHeld' /\ RevsInOrder'
  BY <1>1 DEF CloudDoes, TillSame, Grows, HeldInv, SyncedIsHeld, RevsInOrder, Ended
<1> QED BY <1>1, <1>2, <1>3, <1>4 DEF HeldInv, CloudDoes

-----------------------------------------------------------------------------
(* Steps that send a request, and steps at the till.                       *)

LEMMA ArriveDoes ==
  ASSUME Typed, NEW h \in Slots, NEW job \in {"order", "push", "close", "force", "void", "refund"},
         NEW from \in {"till", "web", "relay"}, NEW rows \in SUBSET (Sales \cup Cash),
         Arrive(h, job, from, rows)
  PROVE  /\ handler' \in [Slots -> Handler \cup {None}] /\ Others(h)
         /\ handler[h] = None /\ handler'[h] # None
         /\ handler'[h].job = job /\ handler'[h].from = from /\ handler'[h].rows = rows
         /\ handler'[h].at = (IF job = "push" THEN "drawer" ELSE "look")
         /\ handler'[h].then = "said"
         /\ overlapped' \in BOOLEAN
<1> DEFINE k == [job |-> job, from |-> from, rows |-> rows, st |-> drawer.st,
                 at |-> IF job = "push" THEN "drawer" ELSE "look", late |-> FALSE,
                 seen |-> {}, was |-> {}, then |-> "said", ans |-> "nothing"]
<1>1. k \in Handler
  BY DEF Typed, Handler, Steps, Answers
<1>2. /\ k.job = job /\ k.from = from /\ k.rows = rows
      /\ k.at = (IF job = "push" THEN "drawer" ELSE "look") /\ k.then = "said"
  OBVIOUS
<1>3. handler[h] = None /\ handler' = [handler EXCEPT ![h] = k]
  BY DEF Arrive
<1>4. overlapped' \in BOOLEAN
  BY DEF Arrive, Typed
<1> HIDE DEF k
<1> QED BY <1>1, <1>2, <1>3, <1>4, NoneAssumption DEF Typed, Others

LEMMA HeldSend ==
  ASSUME HeldInv, NEW h \in Slots,
         NEW job \in {"order", "push", "close", "force", "void", "refund"},
         NEW from \in {"till", "web", "relay"}, NEW rows \in SUBSET (Sales \cup Cash),
         Arrive(h, job, from, rows),
         UNCHANGED <<drawer, sale, tries, cash, rev, cloud>>,
         \/ wait' = wait /\ wait # h /\ pass' = pass
         \/ /\ wait = None /\ wait' = h /\ from = "till"
            /\ pass' \in [stage : {StageOf(job)}, tried : SUBSET Sales],
         job = "order" => \E s \in Sales : rows = {s} /\ (from = "till" => sale[s] # "none"),
         job \in Reversal => job \in Kinds /\ \E s \in Sales : rows = {s},
         job = "push" => rows \subseteq Cash,
         job \in Closes =>
             /\ from # "relay"
             /\ from = "till" => /\ drawer.st # "open" /\ (drawer.st = "closed" => job = "close")
                                 /\ \A s \in Sales : sale[s] # "none" => order[s] # "none"
  PROVE  HeldInv'
<1>a. HeldInv /\ Typed
  BY DEF HeldInv
<1>1. /\ handler' \in [Slots -> Handler \cup {None}] /\ Others(h)
      /\ handler[h] = None /\ handler'[h] # None
      /\ handler'[h].job = job /\ handler'[h].from = from /\ handler'[h].rows = rows
      /\ handler'[h].at = (IF job = "push" THEN "drawer" ELSE "look")
      /\ handler'[h].then = "said"
      /\ overlapped' \in BOOLEAN
  BY <1>a, ArriveDoes
<1>2. Typed'
  <2>1. /\ wait' \in Slots \cup {None}
        /\ pass' \in [stage: {"idle", "cash", "orders", "reversals", "close"}, tried: SUBSET Sales]
    BY <1>a DEF Typed, StageOf
  <2> QED BY <1>a, <1>1, <2>1 DEF Typed, cloud
<1>3. Shape(h)' /\ Told(h)'
  BY <1>1 DEF Shape, Told, Reached, Settling, Reversal, Closes, cloud
<1>4. ASSUME NEW g \in Slots, g # h PROVE Shape(g)' /\ Told(g)'
  <2>1. handler'[g] = handler[g] /\ Shape(g) /\ Told(g)
    BY <1>a, <1>1, <1>4 DEF Others, HeldInv
  <2>2. Shape(g)'
    BY <2>1, SetsAssumption DEF Shape
  <2>3. Told(g)'
    BY <2>1 DEF Told, cloud
  <2> QED BY <2>2, <2>3
<1>5. Waits'
  BY <1>a, <1>1 DEF HeldInv, Waits, Typed, Others
<1>6. SyncedIsHeld' /\ RevsInOrder'
  BY <1>a DEF HeldInv, SyncedIsHeld, RevsInOrder, cloud
<1> QED BY <1>2, <1>3, <1>4, <1>5, <1>6 DEF HeldInv

LEMMA HeldPass ==
  ASSUME HeldInv, NEW h \in Slots,
         \/ PushCash(h) \/ PushClose(h)
         \/ \E s \in Sales : PushOrder(h, s) \/ PushReversal(h, s)
  PROVE  HeldInv'
<1>a. Typed /\ SyncedIsHeld
  BY DEF HeldInv
<1>1. UNCHANGED <<drawer, sale, tries, cash, rev, cloud>> /\ wait = None /\ wait' = h
  BY DEF PushCash, PushClose, PushOrder, PushReversal, PassOnly, till
<1>2. CASE PushCash(h)
  <2>1. Arrive(h, "push", "till", Batch) /\ pass' = pass /\ pass.stage = "cash"
    BY <1>2 DEF PushCash
  <2>2. Batch \subseteq Cash
    BY DEF Batch
  <2>3. pass' \in [stage : {StageOf("push")}, tried : SUBSET Sales]
    BY <1>a, <2>1 DEF Typed, StageOf, Reversal
  <2> QED BY <1>1, <2>1, <2>2, <2>3, HeldSend DEF Reversal, Closes
<1>3. CASE PushClose(h)
  <2>1. PICK job \in {"close", "force"} :
           Arrive(h, job, "till", {}) /\ (drawer.st = "closed" => job = "close")
    BY <1>3 DEF PushClose
  <2>2. /\ pass' = pass /\ pass.stage = "close" /\ drawer.st # "open"
        /\ \A s \in Sales : sale[s] \in {"none", "synced"}
    BY <1>3 DEF PushClose, MayClose
  <2>3. \A s \in Sales : sale[s] # "none" => order[s] # "none"
    BY <1>a, <2>2 DEF SyncedIsHeld
  <2>4. pass' \in [stage : {StageOf(job)}, tried : SUBSET Sales]
    BY <1>a, <2>1, <2>2 DEF Typed, StageOf, Reversal
  <2> QED BY <1>1, <2>1, <2>2, <2>3, <2>4, HeldSend DEF Reversal
<1>4. ASSUME NEW s \in Sales, PushOrder(h, s)
      PROVE  HeldInv'
  <2>1. /\ Arrive(h, "order", "till", {s}) /\ sale[s] # "none" /\ pass.stage = "orders"
        /\ pass' = [pass EXCEPT !.tried = @ \cup {s}]
    BY <1>4 DEF PushOrder, SaleWaits
  <2>2. pass' \in [stage : {StageOf("order")}, tried : SUBSET Sales]
    BY <1>a, <2>1 DEF Typed, StageOf, Reversal
  <2> QED BY <1>1, <2>1, <2>2, HeldSend DEF Reversal, Closes
<1>5. ASSUME NEW s \in Sales, PushReversal(h, s)
      PROVE  HeldInv'
  <2>1. /\ Arrive(h, rev[s].kind, "till", {s}) /\ pass.stage = "reversals"
        /\ pass' = [pass EXCEPT !.tried = @ \cup {s}]
        /\ rev[s].sync = "pending"
    BY <1>5 DEF PushReversal, RevWaits
  <2>2. rev[s].kind \in Reversal /\ rev[s].kind \in Kinds
    BY <1>a, <2>1, BoundsAssumption DEF Typed, Reversal, HeldInv, RevsInOrder
  <2>3. pass' \in [stage : {StageOf(rev[s].kind)}, tried : SUBSET Sales]
    BY <1>a, <2>1, <2>2 DEF Typed, StageOf, Reversal
  <2> QED BY <1>1, <2>1, <2>2, <2>3, HeldSend DEF Reversal, Closes
<1> QED BY <1>2, <1>3, <1>4, <1>5

(* A step that only ends handlers, or none.                                *)
LEMMA HeldFewer ==
  ASSUME HeldInv, Typed', Waits', SyncedIsHeld', Grows,
         RevsInOrder',
         \A g \in Slots : handler'[g] # None =>
             handler'[g] = handler[g] /\ (handler[g].at = "said" => wait' = wait)
  PROVE  HeldInv'
<1>1. ASSUME NEW g \in Slots PROVE Shape(g)' /\ Told(g)'
  <2>1. CASE handler'[g] = None
    BY <2>1 DEF Shape, Told
  <2>2. CASE handler'[g] # None
    <3>1. handler'[g] = handler[g] /\ (handler[g].at = "said" => wait' = wait)
          /\ Shape(g) /\ Told(g)
      BY <2>2 DEF HeldInv
    <3>2. Shape(g)'
      BY <3>1 DEF Shape
    <3>3. Told(g)'
      BY <3>1, ToldStays
    <3> QED BY <3>2, <3>3
  <2> QED BY <2>1, <2>2
<1> QED BY <1>1 DEF HeldInv

LEMMA HeldCounter ==
  ASSUME HeldInv, CounterStep \/ AdoptClose
  PROVE  HeldInv'
<1>a. Typed /\ SyncedIsHeld /\ RevsInOrder
  BY DEF HeldInv
<1>1. UNCHANGED <<pass, wait, handler, overlapped, shift, order, refunded, taken, restored, held>>
  BY DEF CounterStep, AdoptClose, MakeSale, AddCash, Reverse, CloseDrawer, RetryFailed, Counter, cloud
<1>2. /\ Typed' /\ SyncedIsHeld' /\ Grows
      /\ RevsInOrder'
  <2>1. ASSUME NEW s \in Sales, MakeSale(s)
        PROVE  /\ Typed' /\ SyncedIsHeld' /\ Grows /\ rev' = rev
    BY <1>a, <1>1, <2>1 DEF MakeSale, Typed, SyncedIsHeld, Grows
  <2>2. ASSUME NEW s \in Sales, NEW kind \in Kinds, Reverse(s, kind)
        PROVE  /\ Typed' /\ SyncedIsHeld' /\ Grows
               /\ rev' = [rev EXCEPT ![s] = [kind |-> kind, sync |-> "pending"]]
    BY <1>a, <1>1, <2>2 DEF Reverse, Typed, SyncedIsHeld, Grows
  <2>3. ASSUME NEW c \in Cash, AddCash(c)
        PROVE  /\ Typed' /\ SyncedIsHeld' /\ Grows /\ rev' = rev
    BY <1>a, <1>1, <2>3 DEF AddCash, Typed, SyncedIsHeld, Grows
  <2>4. ASSUME NEW st \in Ended, CloseDrawer(st)
        PROVE  /\ Typed' /\ SyncedIsHeld' /\ Grows /\ rev' = rev
    BY <1>a, <1>1, <2>4 DEF CloseDrawer, Typed, SyncedIsHeld, Grows, Ended
  <2>5. CASE RetryFailed
    BY <1>a, <1>1, <2>5 DEF RetryFailed, Typed, SyncedIsHeld, Grows, RevsInOrder
  <2>6. CASE AdoptClose
    BY <1>a, <1>1, <2>6 DEF AdoptClose, Typed, SyncedIsHeld, Grows, Ended, RevsInOrder
  <2>7. ASSUME NEW s \in Sales, NEW kind \in Kinds, Reverse(s, kind)
        PROVE  RevsInOrder'
    <3>1. rev' = [rev EXCEPT ![s] = [kind |-> kind, sync |-> "pending"]] /\ kind # "none"
      BY <2>7, BoundsAssumption DEF Reverse
    <3> QED BY <1>a, <3>1 DEF Typed, RevsInOrder
  <2>8. RetryFailed \/ AdoptClose => rev' = rev
    BY DEF RetryFailed, AdoptClose
  <2> QED BY <1>a, <2>1, <2>2, <2>3, <2>4, <2>5, <2>6, <2>7, <2>8 DEF CounterStep, Ended, RevsInOrder
<1>3. Waits'
  BY <1>1 DEF HeldInv, Waits
<1> QED BY <1>1, <1>2, <1>3, HeldFewer

LEMMA HearDoes ==
  ASSUME HeldInv, NEW h \in Slots, Answered(h)
  PROVE  /\ handler[h] # None /\ handler[h].from = "till" /\ handler[h].at = "said"
         /\ pass.stage = StageOf(handler[h].job) /\ handler[h] \in Handler
         /\ Gone(h) /\ wait = h /\ wait' = None
         /\ UNCHANGED <<shift, order, refunded, taken, restored, held, overlapped>>
<1>1. /\ wait = h /\ wait' = None /\ handler' = [handler EXCEPT ![h] = None]
      /\ handler[h].at = "said"
      /\ UNCHANGED <<shift, order, refunded, taken, restored, held, overlapped>>
  BY DEF Answered, Heard, cloud
<1>2. Typed /\ Waits
  BY DEF HeldInv
<1> QED BY <1>1, <1>2, Vanish, SetsAssumption, ZenonT(60) DEF Waits, Typed

LEMMA HeldHear ==
  ASSUME HeldInv, NEW h \in Slots,
         HearCash(h) \/ HearOrder(h) \/ HearReversal(h) \/ HearClose(h)
  PROVE  HeldInv'
<1>a. /\ Typed /\ SyncedIsHeld /\ Shape(h) /\ Told(h)
      /\ RevsInOrder
  BY DEF HeldInv
<1>1. Answered(h)
  BY DEF HearCash, HearOrder, HearReversal, HearClose
<1>2. /\ handler[h] # None /\ handler[h].from = "till" /\ handler[h].at = "said"
      /\ pass.stage = StageOf(handler[h].job) /\ handler[h] \in Handler
      /\ Gone(h) /\ wait = h /\ wait' = None
      /\ UNCHANGED <<shift, order, refunded, taken, restored, held, overlapped>>
  BY <1>1, HearDoes
<1>3. CASE HearCash(h)
  <2>1. handler[h].job = "push" /\ handler[h].rows \subseteq held
    <3>1. handler[h].job = "push"
      BY <1>2, <1>3 DEF HearCash, StageOf, Reversal, Handler
    <3> QED BY <1>a, <1>2, <3>1 DEF Shape, Told, Reached, Settling, Cash
  <2>2. /\ cash' = [c \in Cash |-> IF c \in handler[h].rows THEN "synced" ELSE cash[c]]
        /\ drawer' = IF handler[h].st = "open" /\ StillAsSent(h)
                     THEN [drawer EXCEPT !.sync = "synced"] ELSE drawer
        /\ pass' = [stage |-> "orders", tried |-> {}] /\ UNCHANGED <<sale, tries, rev>>
    BY <1>3 DEF HearCash
  <2>3. Typed'
    BY <1>a, <1>2, <2>2 DEF Typed, Gone
  <2>4. SyncedIsHeld' /\ Grows
    BY <1>a, <1>2, <2>1, <2>2 DEF SyncedIsHeld, Grows, StillAsSent, Typed
  <2> QED BY <1>a, <1>2, <2>2, <2>3, <2>4, HeldFewer DEF Gone, Others, Waits, HeldInv, Shape, RevsInOrder
<1>4. CASE HearOrder(h)
  <2>1. handler[h].job = "order"
    BY <1>2, <1>4 DEF HearOrder, StageOf, Reversal, Handler
  <2>2. PICK s \in Sales : handler[h].rows = {s} /\ sale[s] # "none"
                           /\ (handler[h].ans = "stored" => order[s] # "none")
    BY <1>a, <1>2, <2>1 DEF Shape, Told
  <2>3. /\ UNCHANGED <<drawer, cash, rev>>
        /\ \/ sale' = sale
           \/ sale' = [sale EXCEPT ![s] = "synced"] /\ handler[h].ans = "stored"
           \/ sale' = [sale EXCEPT ![s] = "failed"] \/ sale' = [sale EXCEPT ![s] = "pending"]
        /\ tries' = tries \/ tries' = [tries EXCEPT ![s] = tries[s] + 1]
        /\ pass' = pass \/ pass' = [pass EXCEPT !.tried = Sales]
    BY <1>4, <2>2 DEF HearOrder
  <2>4. Typed'
    <3>1. sale' \in [Sales -> {"none", "pending", "synced", "failed"}]
      BY <1>a, <2>2, <2>3 DEF Typed
    <3>2. tries' \in [Sales -> Nat]
      BY <1>a, <2>2, <2>3 DEF Typed
    <3>3. pass' \in [stage: {"idle", "cash", "orders", "reversals", "close"}, tried: SUBSET Sales]
      BY <1>a, <2>3 DEF Typed
    <3> QED BY <1>a, <1>2, <2>3, <3>1, <3>2, <3>3 DEF Typed, Gone
  <2>5. SyncedIsHeld' /\ Grows
    BY <1>a, <1>2, <2>2, <2>3 DEF SyncedIsHeld, Grows, Typed
  <2> QED BY <1>a, <1>2, <2>3, <2>4, <2>5, HeldFewer DEF Gone, Others, Waits, HeldInv, Shape, RevsInOrder
<1>5. CASE HearReversal(h)
  <2>1. handler[h].job \in Reversal
    BY <1>2, <1>5 DEF HearReversal, StageOf, Handler, Reversal
  <2>2. PICK s \in Sales : handler[h].rows = {s}
    BY <1>a, <1>2, <2>1 DEF Shape
  <2>3. /\ UNCHANGED <<drawer, sale, tries, cash, pass>>
        /\ rev' = [rev EXCEPT ![s].sync = CASE handler[h].ans = "done"    -> "synced"
                                             [] handler[h].ans = "refused" -> "refused"
                                             [] OTHER                      -> @]
    BY <1>5, <2>2 DEF HearReversal
  <2>4. PICK y \in {"synced", "refused", rev[s].sync} : rev' = [rev EXCEPT ![s].sync = y]
    BY <1>a, <2>3 DEF Typed
  <2>5. /\ rev' \in [Sales -> [kind: Kinds \cup {"none"}, sync: {"none", "pending", "synced", "refused"}]]
        /\ \A x \in Sales : x # s => rev'[x] = rev[x]
        /\ rev'[s].kind = rev[s].kind /\ rev'[s].sync = y
    <3>1. rev[s] \in [kind: Kinds \cup {"none"}, sync: {"none", "pending", "synced", "refused"}]
      BY <1>a DEF Typed
    <3>2. rev' = [rev EXCEPT ![s] = [rev[s] EXCEPT !.sync = y]]
      BY <2>4
    <3> QED BY <1>a, <2>4, <3>1, <3>2 DEF Typed
  <2>6. Typed'
    BY <1>a, <1>2, <2>3, <2>5 DEF Typed, Gone
  <2>7. SyncedIsHeld' /\ Grows /\ RevsInOrder'
    BY <1>a, <1>2, <2>3, <2>4, <2>5 DEF SyncedIsHeld, Grows, RevsInOrder
  <2> QED BY <1>a, <1>2, <2>6, <2>7, HeldFewer DEF Gone, Others, Waits, HeldInv, Shape
<1>6. CASE HearClose(h)
  <2>1. handler[h].job \in Closes
    BY <1>2, <1>6 DEF HearClose, StageOf, Handler, Reversal, Closes
  <2>2. Settles(handler[h].ans) => shift.st \in Ended
    BY <1>a, <1>2, <2>1 DEF Told
  <2>3. /\ drawer' = IF Settles(handler[h].ans) THEN [drawer EXCEPT !.sync = "synced"] ELSE drawer
        /\ pass' = Idle /\ UNCHANGED <<sale, tries, cash, rev>>
    BY <1>6 DEF HearClose
  <2>4. Typed'
    BY <1>a, <1>2, <2>3 DEF Typed, Gone, Idle
  <2>5. SyncedIsHeld' /\ Grows
    BY <1>a, <1>2, <2>2, <2>3 DEF SyncedIsHeld, Grows, Typed, Ended
  <2> QED BY <1>a, <1>2, <2>3, <2>4, <2>5, HeldFewer DEF Gone, Others, Waits, HeldInv, Shape, RevsInOrder
<1> QED BY <1>3, <1>4, <1>5, <1>6

LEMMA HeldFaults ==
  ASSUME HeldInv,
         \/ NextStage \/ GiveUp \/ Restart
         \/ \E h \in Slots : Die(h) \/ UndoRefund(h)
         \/ \E s \in Sales : EnqueueRelay(s) \/ RelayStored(s)
         \/ UNCHANGED vars
  PROVE  HeldInv'
<1>a. Typed /\ SyncedIsHeld /\ RevsInOrder /\ Waits
  BY DEF HeldInv
<1>1. /\ UNCHANGED <<drawer, sale, tries, cash, rev, shift, order, taken, restored, held>>
      /\ refunded' \subseteq refunded
  BY DEF NextStage, PassOnly, GiveUp, Restart, Die, UndoRefund, EnqueueRelay, RelayStored,
         TillOnly, vars, till, cloud
<1>2. SyncedIsHeld' /\ Grows /\ RevsInOrder'
  BY <1>a, <1>1 DEF SyncedIsHeld, Grows, RevsInOrder
<1> DEFINE Fewer == /\ handler' \in [Slots -> Handler \cup {None}]
                    /\ \A g \in Slots : handler'[g] # None =>
                          handler'[g] = handler[g] /\ (handler[g].at = "said" => wait' = wait)
           Passes == pass' \in [stage: {"idle", "cash", "orders", "reversals", "close"}, tried: SUBSET Sales]
           Idles == wait' \in Slots \cup {None} /\ overlapped' \in BOOLEAN
<1>3. Passes /\ Idles /\ Fewer /\ Waits' => HeldInv'
  <2>1. Passes /\ Idles /\ Fewer => Typed'
    BY <1>a, <1>1 DEF Typed
  <2> QED BY <1>2, <2>1, HeldFewer
<1>4. PassAfterNoAnswer \in [stage: {"idle", "cash", "orders", "reversals", "close"}, tried: SUBSET Sales]
  BY <1>a DEF Typed, PassAfterNoAnswer, Idle
<1>5. \A h \in Slots : Shape(h)
  BY DEF HeldInv
<1>6. CASE NextStage
  <2>1. wait = None /\ wait' = None /\ UNCHANGED <<handler, overlapped>> /\ pass' = NextOf(pass.stage)
    BY <1>6 DEF NextStage, PassOnly
  <2>2. NextOf(pass.stage) \in [stage: {"idle", "cash", "orders", "reversals", "close"}, tried: SUBSET Sales]
    <3> DEFINE due == {i \in Later(pass.stage) : ToSend(Order[i], {})}
               first == CHOOSE i \in due : \A j \in due : i <= j
    <3>1. CASE due = {}
      BY <3>1 DEF NextOf, Idle
    <3>2. CASE due # {}
      <4>1. \E i \in due : \A j \in due : i <= j
        <5>1. due \subseteq 1..4
          BY DEF Later
        <5> HIDE DEF due
        <5>2. CASE 1 \in due
          BY <5>1, <5>2
        <5>3. CASE 1 \notin due /\ 2 \in due
          BY <5>1, <5>3
        <5>4. CASE 1 \notin due /\ 2 \notin due /\ 3 \in due
          BY <5>1, <5>4
        <5>5. CASE 1 \notin due /\ 2 \notin due /\ 3 \notin due
          <6>1. \A j \in due : j = 4
            BY <5>1, <5>5
          <6> QED BY <3>2, <6>1
        <5> QED BY <5>2, <5>3, <5>4, <5>5
      <4>2. first \in due
        BY <4>1
      <4>3. first = 1 \/ first = 2 \/ first = 3 \/ first = 4
        <5>1. first \in 1..4
          BY <4>2 DEF Later
        <5> HIDE DEF first
        <5> QED BY <5>1
      <4>4. Order[first] \in {"cash", "orders", "reversals", "close"}
        <5> HIDE DEF first
        <5> QED BY <4>3 DEF Order
      <4>5. NextOf(pass.stage) = [stage |-> Order[first], tried |-> {}]
        BY <3>2 DEF NextOf
      <4> HIDE DEF first
      <4> QED BY <4>4, <4>5
    <3> QED BY <3>1, <3>2
  <2> QED BY <1>a, <1>3, <2>1, <2>2 DEF Typed, Waits
<1>7. CASE GiveUp
  <2>1. /\ wait \in Slots /\ wait' = None /\ pass' = PassAfterNoAnswer /\ overlapped' = overlapped
        /\ handler' = [handler EXCEPT ![wait] = IF @.at = "said" THEN None ELSE @]
    BY <1>a, <1>7 DEF GiveUp, Typed
  <2>2. Fewer
    BY <1>a, <1>5, <2>1 DEF Typed, Shape
  <2> QED BY <1>a, <1>3, <1>4, <2>1, <2>2 DEF Typed, Waits
<1>8. CASE Restart
  <2>1. /\ wait' = None /\ pass' = Idle /\ overlapped' = overlapped
        /\ handler' = [h \in Slots |-> IF h = wait /\ handler[h].at = "said" THEN None ELSE handler[h]]
    BY <1>8 DEF Restart
  <2>2. Fewer
    BY <1>a, <1>5, <2>1 DEF Typed, Shape
  <2> QED BY <1>a, <1>3, <2>1, <2>2 DEF Typed, Waits, Idle
<1>9. ASSUME NEW h \in Slots, Die(h) \/ UndoRefund(h)
      PROVE  HeldInv'
  <2>1. /\ handler' = [handler EXCEPT ![h] = None]
        /\ wait' = IF wait = h THEN None ELSE wait
        /\ pass' = IF wait = h THEN PassAfterNoAnswer ELSE pass
        /\ overlapped' \in BOOLEAN
    BY <1>a, <1>9 DEF Die, UndoRefund, Typed
  <2>2. Fewer
    BY <1>a, <1>5, <2>1 DEF Typed, Shape
  <2> QED BY <1>a, <1>3, <1>4, <2>1, <2>2 DEF Typed, Waits
<1>10. ASSUME \/ \E s \in Sales : EnqueueRelay(s) \/ RelayStored(s)
              \/ UNCHANGED vars
       PROVE  HeldInv'
  <2>1. UNCHANGED <<handler, wait, pass, overlapped>>
    BY <1>10 DEF EnqueueRelay, RelayStored, TillOnly, vars
  <2> QED BY <1>a, <1>3, <2>1 DEF Typed, Waits
<1> QED BY <1>6, <1>7, <1>8, <1>9, <1>10

LEMMA HeldOthers ==
  ASSUME HeldInv, NEW h \in Slots,
         \/ \E s \in Sales : RelayOrder(h, s)
         \/ \E s \in Sales, kind \in Kinds : WebReverse(h, s, kind)
         \/ \E job \in WebCloses : WebClose(h, job)
  PROVE  HeldInv'
<1>1. /\ UNCHANGED <<drawer, sale, tries, cash, rev, cloud, wait, pass>> /\ wait # h
  BY DEF RelayOrder, WebReverse, WebClose, till
<1>2. ASSUME NEW s \in Sales, RelayOrder(h, s)
      PROVE  HeldInv'
  <2>1. Arrive(h, "order", "relay", {s})
    BY <1>2 DEF RelayOrder
  <2> QED BY <1>1, <2>1, HeldSend DEF Reversal, Closes
<1>3. ASSUME NEW s \in Sales, NEW kind \in Kinds, WebReverse(h, s, kind)
      PROVE  HeldInv'
  <2>1. Arrive(h, kind, "web", {s}) /\ kind \in Reversal
    BY <1>3, BoundsAssumption DEF WebReverse, Reversal
  <2> QED BY <1>1, <2>1, HeldSend DEF Reversal, Closes
<1>4. ASSUME NEW job \in WebCloses, WebClose(h, job)
      PROVE  HeldInv'
  <2>1. Arrive(h, job, "web", {}) /\ job \in Closes
    BY <1>4, BoundsAssumption DEF WebClose, Closes
  <2> QED BY <1>1, <2>1, HeldSend DEF Reversal, Closes
<1> QED BY <1>2, <1>3, <1>4

LEMMA HeldInit == Init => HeldInv
<1> SUFFICES ASSUME Init PROVE HeldInv
  OBVIOUS
<1>1. Typed
  BY DEF Init, Typed, Idle, NoRev
<1>2. /\ Waits /\ SyncedIsHeld /\ RevsInOrder
      /\ \A h \in Slots : Shape(h) /\ Told(h)
  BY DEF Init, Waits, SyncedIsHeld, RevsInOrder, NoRev, Shape, Told
<1> QED BY <1>1, <1>2 DEF HeldInv

LEMMA HeldStep == HeldInv /\ [Next]_vars => HeldInv'
  BY HeldCloud, HeldPass, HeldHear, HeldCounter, HeldFaults, HeldOthers
     DEF Next, PassStep, OtherStep

(* What the till marks as taken the cloud has, whatever answers were lost, *)
(* late or given up on (applyCashPushAnswer, markOrderSynced,              *)
(* reconcileClosedShifts).                                                 *)
THEOREM MarksAreTrue == Spec => []SyncedIsHeld
<1>1. HeldInv => SyncedIsHeld
  BY DEF HeldInv
<1> QED BY <1>1, HeldInit, HeldStep, PTL DEF Spec

-----------------------------------------------------------------------------
(* The steps of the system, by what they do to the handlers.               *)

(* A request arrives.                                                      *)
Sends(h) ==
    \/ PushCash(h) \/ PushClose(h)
    \/ \E s \in Sales : PushOrder(h, s) \/ PushReversal(h, s) \/ RelayOrder(h, s)
    \/ \E s \in Sales, kind \in Kinds : WebReverse(h, s, kind)
    \/ \E job \in WebCloses : WebClose(h, job)
(* Handlers end, or nothing about them changes.                            *)
Quits ==
    \/ CounterStep \/ AdoptClose \/ NextStage \/ GiveUp \/ Restart
    \/ \E h \in Slots : \/ HearCash(h) \/ HearOrder(h) \/ HearReversal(h) \/ HearClose(h)
                        \/ Die(h) \/ UndoRefund(h)
    \/ \E s \in Sales : EnqueueRelay(s) \/ RelayStored(s)
    \/ UNCHANGED vars

LEMMA StepKinds ==
  ASSUME [Next]_vars
  PROVE  Quits \/ \E h \in Slots : CloudStep(h) \/ Sends(h)
  BY DEF Next, PassStep, OtherStep, Quits, Sends

CloudData == <<shift, order, back, taken, restored, held>>

LEMMA SendsDoes ==
  ASSUME HeldInv, NEW h \in Slots, Sends(h)
  PROVE  /\ Others(h) /\ handler[h] = None /\ handler'[h] # None
         /\ handler'[h].at \in {"look", "drawer"}
         /\ handler'[h].job \in Closes /\ handler'[h].from = "till" => PushClose(h)
         /\ overlapped' = (overlapped \/ (Running # {} /\ (handler'[h].job \in Closes \/ Closing)))
         /\ UNCHANGED <<CloudData, refunded, drawer, sale, rev>> /\ lateRev \subseteq lateRev'
<1>1. /\ UNCHANGED <<CloudData, refunded, drawer, sale, rev>> /\ lateRev \subseteq lateRev'
  BY DEF Sends, PushCash, PushClose, PushOrder, PushReversal, RelayOrder, WebReverse, WebClose,
         PassOnly, till, cloud, CloudData
<1> DEFINE Asked ==
      \E job \in {"order", "push", "close", "force", "void", "refund"},
         from \in {"till", "web", "relay"}, rows \in SUBSET (Sales \cup Cash) :
         Arrive(h, job, from, rows) /\ (job \in Closes /\ from = "till" => PushClose(h))
<1>2. Asked
  <2>1. CASE PushCash(h)
    <3>1. Batch \subseteq Cash /\ Arrive(h, "push", "till", Batch)
      BY <2>1 DEF Batch, PushCash
    <3> QED BY <3>1 DEF Closes
  <2>2. CASE PushClose(h)
    BY <2>2 DEF PushClose
  <2>3. ASSUME NEW s \in Sales, PushOrder(h, s) \/ PushReversal(h, s) \/ RelayOrder(h, s)
        PROVE  Asked
    <3>1. PushReversal(h, s) => rev[s].kind \in {"void", "refund"}
      BY BoundsAssumption DEF PushReversal, RevWaits, HeldInv, Typed, RevsInOrder
    <3>2. {s} \in SUBSET (Sales \cup Cash)
      OBVIOUS
    <3>3. PushOrder(h, s) => Asked
      BY <3>2 DEF PushOrder, Closes
    <3>4. PushReversal(h, s) => Asked
      BY <3>1, <3>2 DEF PushReversal, Closes
    <3>5. RelayOrder(h, s) => Asked
      BY <3>2 DEF RelayOrder, Closes
    <3> QED BY <2>3, <3>3, <3>4, <3>5
  <2>4. ASSUME NEW s \in Sales, NEW kind \in Kinds, WebReverse(h, s, kind)
        PROVE  Asked
    <3>1. Arrive(h, kind, "web", {s}) /\ kind \in {"void", "refund"}
          /\ {s} \in SUBSET (Sales \cup Cash)
      BY <2>4, BoundsAssumption DEF WebReverse
    <3> QED BY <3>1
  <2>5. ASSUME NEW job \in WebCloses, WebClose(h, job)
        PROVE  Asked
    <3>1. Arrive(h, job, "web", {}) /\ job \in {"close", "force"}
      BY <2>5, BoundsAssumption DEF WebClose
    <3> QED BY <3>1
  <2> QED BY <2>1, <2>2, <2>3, <2>4, <2>5 DEF Sends
<1>3. PICK job \in {"order", "push", "close", "force", "void", "refund"},
           from \in {"till", "web", "relay"}, rows \in SUBSET (Sales \cup Cash) :
         Arrive(h, job, from, rows) /\ (job \in Closes /\ from = "till" => PushClose(h))
  BY <1>2
<1>4. /\ Others(h) /\ handler[h] = None /\ handler'[h] # None
      /\ handler'[h].job = job /\ handler'[h].from = from
      /\ handler'[h].at = (IF job = "push" THEN "drawer" ELSE "look")
  BY <1>3, ArriveDoes DEF HeldInv
<1>5. overlapped' = (overlapped \/ (Running # {} /\ (job \in Closes \/ Closing)))
  BY <1>3 DEF Arrive
<1> QED BY <1>1, <1>3, <1>4, <1>5

LEMMA QuitsDoes ==
  ASSUME HeldInv, Quits
  PROVE  /\ \A g \in Slots : handler'[g] = None \/ handler'[g] = handler[g]
         /\ overlapped => overlapped'
         /\ UNCHANGED CloudData /\ refunded' \subseteq refunded
         /\ refunded' = refunded \/ \E h \in Slots : UndoRefund(h)
         /\ lateRev \subseteq lateRev'
<1>1. Typed
  BY DEF HeldInv
<1> DEFINE Calm == /\ UNCHANGED CloudData /\ refunded' \subseteq refunded /\ (overlapped => overlapped')
                   /\ refunded' = refunded \/ \E h \in Slots : UndoRefund(h)
                   /\ lateRev \subseteq lateRev'
<1>2. Calm
  <2>1. CASE CounterStep \/ AdoptClose
    BY <2>1 DEF CounterStep, AdoptClose, MakeSale, AddCash, Reverse, CloseDrawer, RetryFailed, Counter,
                cloud, CloudData
  <2>2. CASE NextStage \/ GiveUp \/ Restart \/ UNCHANGED vars
    BY <2>2 DEF NextStage, PassOnly, GiveUp, Restart, vars, cloud, CloudData
  <2>3. ASSUME NEW h \in Slots, HearCash(h) \/ HearOrder(h) \/ HearReversal(h) \/ HearClose(h)
        PROVE  Calm
    BY <2>3 DEF HearCash, HearOrder, HearReversal, HearClose, Answered, cloud, CloudData
  <2>4. ASSUME NEW h \in Slots, Die(h) \/ UndoRefund(h)
        PROVE  Calm
    <3>1. CASE Die(h)
      BY <3>1 DEF Die, cloud, CloudData
    <3>2. CASE UndoRefund(h)
      <4>1. /\ UNCHANGED <<CloudData, overlapped>> /\ refunded' = refunded \ handler[h].rows
            /\ lateRev \subseteq lateRev'
        BY <3>2 DEF UndoRefund, CloudData
      <4> QED BY <3>2, <4>1
    <3> QED BY <2>4, <3>1, <3>2
  <2>5. ASSUME NEW s \in Sales, EnqueueRelay(s) \/ RelayStored(s)
        PROVE  Calm
    BY <2>5 DEF EnqueueRelay, RelayStored, TillOnly, CloudData
  <2> HIDE DEF Calm
  <2> QED BY <2>1, <2>2, <2>3, <2>4, <2>5 DEF Quits
<1>3. ASSUME NEW g \in Slots
      PROVE  handler'[g] = None \/ handler'[g] = handler[g]
  BY <1>1 DEF Quits, CounterStep, AdoptClose, MakeSale, AddCash, Reverse, CloseDrawer, RetryFailed, Counter,
         NextStage, PassOnly, GiveUp, Restart, HearCash, HearOrder, HearReversal, HearClose, Answered,
         Die, UndoRefund, EnqueueRelay, RelayStored, TillOnly, vars, Typed
<1> QED BY <1>2, <1>3

(* What each kind of request asks for, and of which rows.                  *)
LEMMA SentDoes ==
  ASSUME HeldInv, NEW h \in Slots, Sends(h)
  PROVE  LET k == handler'[h] IN
         \/ PushCash(h) /\ k.job = "push" /\ k.from = "till" /\ k.rows = Batch
         \/ PushClose(h) /\ k.job \in Closes /\ k.from = "till" /\ k.rows = {}
         \/ \E job \in WebCloses : WebClose(h, job) /\ k.job = job /\ job \in Closes
                                   /\ k.from = "web" /\ k.rows = {}
         \/ \E s \in Sales :
              /\ k.rows = {s}
              /\ \/ PushOrder(h, s) /\ k.job = "order" /\ k.from = "till"
                 \/ RelayOrder(h, s) /\ k.job = "order" /\ k.from = "relay"
                 \/ PushReversal(h, s) /\ k.job = rev[s].kind /\ k.job \in Reversal /\ k.from = "till"
                 \/ \E kind \in Kinds : WebReverse(h, s, kind) /\ k.job = kind
                                        /\ kind \in Reversal /\ k.from = "web"
<1>a. Typed /\ RevsInOrder
  BY DEF HeldInv
<1>1. CASE PushCash(h)
  <2>1. Batch \subseteq Cash /\ Arrive(h, "push", "till", Batch)
    BY <1>1 DEF Batch, PushCash
  <2> QED BY <1>a, <1>1, <2>1, ArriveDoes
<1>2. CASE PushClose(h)
  <2>1. PICK job \in {"close", "force"} : Arrive(h, job, "till", {})
    BY <1>2 DEF PushClose
  <2> QED BY <1>a, <1>2, <2>1, ArriveDoes DEF Closes
<1>3. ASSUME NEW job \in WebCloses, WebClose(h, job)
      PROVE  /\ handler'[h].job = job /\ job \in Closes /\ handler'[h].from = "web"
             /\ handler'[h].rows = {}
  <2>1. Arrive(h, job, "web", {}) /\ job \in {"close", "force"}
    BY <1>3, BoundsAssumption DEF WebClose
  <2> QED BY <1>a, <2>1, ArriveDoes DEF Closes
<1>4. ASSUME NEW s \in Sales,
             PushOrder(h, s) \/ RelayOrder(h, s) \/ PushReversal(h, s)
               \/ \E kind \in Kinds : WebReverse(h, s, kind)
      PROVE  /\ handler'[h].rows = {s}
             /\ \/ PushOrder(h, s) /\ handler'[h].job = "order" /\ handler'[h].from = "till"
                \/ RelayOrder(h, s) /\ handler'[h].job = "order" /\ handler'[h].from = "relay"
                \/ /\ PushReversal(h, s) /\ handler'[h].job = rev[s].kind
                   /\ handler'[h].job \in Reversal /\ handler'[h].from = "till"
                \/ \E kind \in Kinds : /\ WebReverse(h, s, kind) /\ handler'[h].job = kind
                                       /\ kind \in Reversal /\ handler'[h].from = "web"
  <2>0. {s} \in SUBSET (Sales \cup Cash)
    OBVIOUS
  <2>1. CASE PushOrder(h, s)
    BY <1>a, <2>0, <2>1, ArriveDoes DEF PushOrder
  <2>2. CASE RelayOrder(h, s)
    BY <1>a, <2>0, <2>2, ArriveDoes DEF RelayOrder
  <2>3. CASE PushReversal(h, s)
    <3>1. rev[s].kind \in Reversal /\ rev[s].kind \in {"void", "refund"}
      BY <1>a, <2>3, BoundsAssumption DEF PushReversal, RevWaits, Typed, RevsInOrder, Reversal
    <3>2. Arrive(h, rev[s].kind, "till", {s})
      BY <2>3 DEF PushReversal
    <3> QED BY <1>a, <2>0, <2>3, <3>1, <3>2, ArriveDoes
  <2>4. ASSUME NEW kind \in Kinds, WebReverse(h, s, kind)
        PROVE  /\ handler'[h].rows = {s} /\ handler'[h].job = kind
               /\ kind \in Reversal /\ handler'[h].from = "web"
    <3>1. Arrive(h, kind, "web", {s}) /\ kind \in {"void", "refund"}
      BY <2>4, BoundsAssumption DEF WebReverse
    <3> QED BY <1>a, <2>0, <3>1, ArriveDoes DEF Reversal
  <2> QED BY <1>4, <2>1, <2>2, <2>3, <2>4
<1>5. \/ PushCash(h) \/ PushClose(h) \/ \E job \in WebCloses : WebClose(h, job)
      \/ \E s \in Sales : PushOrder(h, s) \/ RelayOrder(h, s) \/ PushReversal(h, s)
                          \/ \E kind \in Kinds : WebReverse(h, s, kind)
  BY DEF Sends
<1> QED BY <1>1, <1>2, <1>3, <1>4, <1>5

-----------------------------------------------------------------------------
(* The till's count.                                                       *)

CountThere == shift.count = "till" \/ shift.kept \/ overlapped
(* A close that finds the drawer closed by another ran beside it.          *)
Counted(h) ==
    LET k == handler[h] IN
    k # None /\ k.job \in Closes /\ k.from = "till" =>
      /\ k.at \in {"sum", "cash", "write"} /\ shift.st \in Ended => overlapped
      /\ k.job = "close" /\ k.at = "said" /\ Settles(k.ans) => CountThere
CloseRuns(h) == handler[h] # None /\ handler[h].job \in Closes /\ handler[h].at # "said"
CountInv ==
    /\ HeldInv /\ TillCountKept
    /\ shift.count # "none" => shift.st \in Ended
    /\ \A h \in Slots : Counted(h)
    /\ \A g, h \in Slots : g # h /\ CloseRuns(g) /\ CloseRuns(h) => overlapped

(* Only a close changes what is known of the count.                        *)
LEMMA CloseSteps ==
  ASSUME HeldInv, NEW h \in Slots, CloudStep(h), ~LookClose(h), ~WriteClose(h)
  PROVE  /\ shift'.count = shift.count /\ shift'.kept = shift.kept /\ shift'.by = shift.by
         /\ shift'.st \in Ended <=> shift.st \in Ended
         /\ handler[h].job \in Closes =>
              /\ handler[h].at \in {"sum", "cash"} /\ handler'[h].at \in {"cash", "write"}
<1>1. Typed /\ (handler[h] # None => handler[h] \in Handler)
  BY DEF HeldInv, Typed
<1>2. CASE StoreDrawer(h) \/ WriteLate(h)
  <2>1. /\ \/ shift' = shift \/ shift' = [shift EXCEPT !.expected = handler[h].seen]
           \/ shift.st = "none" /\ shift' = [shift EXCEPT !.st = "open"]
        /\ handler[h].job \notin Closes
    BY <1>2 DEF StoreDrawer, WriteLate, At, Closes
  <2> QED BY <1>1, <2>1 DEF Typed, Ended
<1>3. CASE SumSales(h) \/ SumCash(h)
  <2>1. UNCHANGED shift /\ handler[h] \in Handler /\ handler[h].at \in {"sum", "cash"}
    BY <1>1, <1>3 DEF SumSales, SumCash, At, cloud
  <2>2. PICK a \in {"cash", "write"} : \E b : handler' = [handler EXCEPT ![h].at = a, ![h].seen = b]
    BY <1>3 DEF SumSales, SumCash
  <2>3. handler'[h].at = a
    BY <1>1, <2>1, <2>2 DEF Handler, Typed
  <2> QED BY <2>1, <2>3
<1>4. CASE ~(StoreDrawer(h) \/ WriteLate(h)) /\ ~(SumSales(h) \/ SumCash(h))
  <2>1. UNCHANGED shift /\ handler[h].job \notin Closes
    BY <1>4 DEF CloudStep, LookOrder, InsertOrder, TakeStock, ReadForFloats, StoreFloats, StoreExpenses,
                ReadForExpenses, ReadLateDrawer, LookReversal, ClaimReversal, GiveBack, RestoreStock,
                At, cloud, Closes
  <2> QED BY <2>1
<1> QED BY <1>2, <1>3, <1>4

LEMMA LookCloseEnds ==
  ASSUME HeldInv, NEW h \in Slots, LookClose(h)
  PROVE  /\ handler[h] # None /\ handler[h].job \in Closes /\ handler[h].at = "look"
         /\ \/ /\ shift.st = "open" /\ shift' = shift
               /\ Goes(h, "sum", handler[h].then, handler[h].ans)
            \/ shift.st = "none" /\ shift' = shift /\ Ends(h, "nothing")
            \/ /\ shift.st \in Ended /\ Ends(h, "closed")
               /\ shift' = IF KeepsCount(h) THEN [shift EXCEPT !.kept = TRUE] ELSE shift
<1>1. handler[h] # None /\ handler[h].job \in Closes /\ handler[h].at = "look" /\ Typed
  BY DEF LookClose, At, HeldInv
<1>2. shift.st = "none" => ~KeepsCount(h)
  BY DEF KeepsCount
<1>3. shift.st \in {"none", "open"} \cup Ended
  BY <1>1 DEF Typed, Ended
<1>4. CASE shift.st = "open"
  BY <1>1, <1>4, GoGoes DEF LookClose, IsOpen, Steps
<1>5. CASE shift.st = "none"
  BY <1>1, <1>2, <1>5, SayEnds DEF LookClose, IsOpen, Answers
<1>6. CASE shift.st \in Ended
  <2>1. Say(h, "closed") /\ shift' = IF KeepsCount(h) THEN [shift EXCEPT !.kept = TRUE] ELSE shift
    BY <1>6 DEF LookClose, IsOpen, Ended
  <2> QED BY <1>1, <1>6, <2>1, SayEnds DEF Answers
<1> QED BY <1>3, <1>4, <1>5, <1>6

LEMMA WriteCloseEnds ==
  ASSUME HeldInv, NEW h \in Slots, WriteClose(h)
  PROVE  /\ handler[h] # None /\ handler[h].job \in Closes /\ handler[h].at = "write"
         /\ shift.st # "none"
         /\ \/ /\ shift.st = "open" /\ shift'.st \in Ended /\ Ends(h, "done")
               /\ shift'.by = handler[h].from /\ shift'.kept = shift.kept
               /\ shift'.expected = handler[h].seen
               /\ shift'.count = IF handler[h].job = "force" THEN "none" ELSE handler[h].from
            \/ shift.st \in Ended /\ shift' = shift /\ Ends(h, "closed")
<1>1. /\ handler[h] # None /\ handler[h].job \in Closes /\ handler[h].at = "write" /\ Typed
      /\ shift.st # "none"
  BY DEF WriteClose, At, HeldInv, Told
<1>2. shift.st \in {"open"} \cup Ended
  BY <1>1 DEF Typed, Ended
<1>3. CASE shift.st = "open"
  <2> DEFINE forced == handler[h].job = "force"
             by == handler[h].from
  <2>1. /\ shift' = [shift EXCEPT !.st = IF forced THEN "forced" ELSE "closed", !.by = by,
                        !.count = IF forced THEN "none" ELSE by, !.expected = handler[h].seen]
        /\ Say(h, "done")
    BY <1>3 DEF WriteClose, IsOpen
  <2>2. /\ shift'.st \in Ended /\ shift'.by = by /\ shift'.kept = shift.kept
        /\ shift'.expected = handler[h].seen
        /\ shift'.count = IF forced THEN "none" ELSE by
    BY <1>1, <2>1 DEF Typed, Ended
  <2> QED BY <1>1, <1>3, <2>1, <2>2, SayEnds DEF Answers
<1>4. CASE shift.st \in Ended
  <2>1. shift' = shift /\ Say(h, "closed")
    BY <1>4 DEF WriteClose, IsOpen, Ended
  <2> QED BY <1>1, <1>4, <2>1, SayEnds DEF Answers
<1> QED BY <1>1, <1>2, <1>3, <1>4

LEMMA CountCloud ==
  ASSUME CountInv, NEW h \in Slots, CloudStep(h)
  PROVE  CountInv'
<1>a. HeldInv /\ HeldInv' /\ CloudDoes(h) /\ Typed
  BY HeldCloud, CloudStepDoes DEF CountInv, HeldInv
<1>1. /\ TillSame /\ Others(h) /\ handler[h] # None
      /\ handler'[h] # None => handler'[h].job = handler[h].job /\ handler'[h].from = handler[h].from
  BY <1>a DEF CloudDoes
<1>2. /\ CountThere => CountThere'
      /\ shift'.count # "none" => shift'.st \in Ended
      /\ CloseRuns(h)' => CloseRuns(h)
      /\ shift'.st \in Ended => shift.st \in Ended \/ CloseRuns(h)
      /\ Counted(h)'
  <2>1. CASE ~LookClose(h) /\ ~WriteClose(h)
    <3>1. /\ shift'.count = shift.count /\ shift'.kept = shift.kept
          /\ shift'.st \in Ended <=> shift.st \in Ended
          /\ handler[h].job \in Closes =>
               /\ handler[h].at \in {"sum", "cash"} /\ handler'[h].at \in {"cash", "write"}
      BY <1>a, <2>1, CloseSteps
    <3> QED BY <1>1, <3>1 DEF CountThere, CountInv, Counted, CloseRuns, TillSame
  <2>2. CASE LookClose(h)
    <3>1. /\ handler[h] # None /\ handler[h].job \in Closes /\ handler[h].at = "look"
          /\ \/ /\ shift.st = "open" /\ shift' = shift
                /\ Goes(h, "sum", handler[h].then, handler[h].ans)
             \/ shift.st = "none" /\ shift' = shift /\ Ends(h, "nothing")
             \/ /\ shift.st \in Ended /\ Ends(h, "closed")
                /\ shift' = IF KeepsCount(h) THEN [shift EXCEPT !.kept = TRUE] ELSE shift
      BY <1>a, <2>2, LookCloseEnds
    <3>2. CASE shift' = shift /\ shift.st = "open" /\ Goes(h, "sum", handler[h].then, handler[h].ans)
      BY <1>1, <3>1, <3>2 DEF CountThere, CountInv, Counted, CloseRuns, TillSame, Goes, Ended
    <3>3. CASE shift' = shift /\ shift.st = "none" /\ Ends(h, "nothing")
      BY <1>1, <3>1, <3>3 DEF CountThere, CountInv, Counted, CloseRuns, TillSame, Goes, Ends, Gone, Settles, Ended
    <3>4. CASE /\ shift.st \in Ended /\ Ends(h, "closed")
               /\ shift' = IF KeepsCount(h) THEN [shift EXCEPT !.kept = TRUE] ELSE shift
      <4>1. shift'.st = shift.st /\ shift'.count = shift.count /\ (shift.kept => shift'.kept)
            /\ (KeepsCount(h) => shift'.kept)
        BY <1>a, <3>4 DEF Typed
      <4>2. handler[h].from = "till" /\ handler[h].job = "close" => CountThere'
        BY <3>4, <4>1 DEF KeepsCount, CountThere, Ended
      <4> QED BY <1>1, <3>1, <3>4, <4>1, <4>2
              DEF CountThere, CountInv, Counted, CloseRuns, TillSame, Goes, Ends, Gone
    <3> QED BY <3>1, <3>2, <3>3, <3>4
  <2>3. CASE WriteClose(h)
    <3>1. /\ handler[h] # None /\ handler[h].job \in Closes /\ handler[h].at = "write"
          /\ \/ /\ shift.st = "open" /\ shift'.st \in Ended /\ Ends(h, "done")
                /\ shift'.kept = shift.kept
                /\ shift'.count = IF handler[h].job = "force" THEN "none" ELSE handler[h].from
             \/ shift.st \in Ended /\ shift' = shift /\ Ends(h, "closed")
      BY <1>a, <2>3, WriteCloseEnds
    <3>2. CASE shift.st \in Ended /\ shift' = shift /\ Ends(h, "closed")
      BY <1>1, <3>1, <3>2 DEF CountThere, CountInv, Counted, CloseRuns, TillSame, Goes, Ends, Gone
    <3>3. CASE /\ shift.st = "open" /\ shift'.st \in Ended /\ Ends(h, "done")
               /\ shift'.kept = shift.kept
               /\ shift'.count = IF handler[h].job = "force" THEN "none" ELSE handler[h].from
      <4>1. shift.count = "none"
        BY <3>3 DEF CountInv, Ended
      <4>2. handler[h].from = "till" /\ handler[h].job = "close" => shift'.count = "till"
        BY <3>3
      <4> QED BY <1>1, <3>1, <3>3, <4>1, <4>2
              DEF CountThere, Counted, CloseRuns, TillSame, Goes, Ends, Gone
    <3> QED BY <3>1, <3>2, <3>3
  <2> QED BY <2>1, <2>2, <2>3
<1>3. ASSUME NEW g \in Slots, g # h
      PROVE  Counted(g)' /\ (CloseRuns(g)' <=> CloseRuns(g)) /\ (CloseRuns(g) /\ CloseRuns(h) => overlapped)
  <2>1. handler'[g] = handler[g] /\ overlapped' = overlapped /\ Counted(g)
        /\ (CloseRuns(g) /\ CloseRuns(h) => overlapped)
    BY <1>1, <1>3 DEF Others, TillSame, CountInv
  <2> QED BY <1>2, <2>1 DEF Counted, CloseRuns
<1>4. TillCountKept'
  BY <1>1, <1>2 DEF TillSame, CountInv, TillCountKept, CountThere
<1>5. ASSUME NEW g \in Slots, NEW f \in Slots, g # f, CloseRuns(g)', CloseRuns(f)'
      PROVE  overlapped'
  <2>1. CloseRuns(g) /\ CloseRuns(f)
    BY <1>2, <1>3, <1>5
  <2> QED BY <1>1, <1>5, <2>1 DEF CountInv, TillSame
<1> QED BY <1>a, <1>2, <1>3, <1>4, <1>5 DEF CountInv

LEMMA CountSends ==
  ASSUME CountInv, NEW h \in Slots, Sends(h), HeldInv'
  PROVE  CountInv'
<1>1. /\ Others(h) /\ handler[h] = None /\ handler'[h] # None
      /\ handler'[h].at \in {"look", "drawer"}
      /\ overlapped' = (overlapped \/ (Running # {} /\ (handler'[h].job \in Closes \/ Closing)))
      /\ UNCHANGED <<CloudData, refunded, drawer, sale, rev>>
  BY SendsDoes DEF CountInv
<1>2. shift' = shift /\ drawer' = drawer /\ (overlapped => overlapped')
  BY <1>1 DEF CloudData, CountInv, HeldInv, Typed
<1>3. ASSUME NEW g \in Slots PROVE Counted(g)'
  <2>1. CASE g = h
    BY <1>1, <2>1 DEF Counted
  <2>2. CASE g # h
    BY <1>1, <1>2, <2>2 DEF Counted, Others, CountInv, CountThere
  <2> QED BY <2>1, <2>2
<1>4. ASSUME NEW g \in Slots, NEW f \in Slots, g # f, CloseRuns(g)', CloseRuns(f)'
      PROVE  overlapped'
  <2>1. CASE g # h /\ f # h
    BY <1>1, <1>2, <1>4, <2>1 DEF CloseRuns, Others, CountInv
  <2>2. CASE g = h \/ f = h
    <3>1. handler'[h].job \in Closes /\ \E e \in Slots : CloseRuns(e)
      BY <1>1, <1>4, <2>2 DEF CloseRuns, Others
    <3>2. Running # {}
      BY <3>1 DEF CloseRuns, Running
    <3> QED BY <1>1, <3>1, <3>2
  <2> QED BY <2>1, <2>2
<1>5. TillCountKept' /\ (shift'.count # "none" => shift'.st \in Ended)
  BY <1>2 DEF CountInv, TillCountKept
<1> QED BY <1>3, <1>4, <1>5 DEF CountInv

LEMMA CountQuits ==
  ASSUME CountInv, Quits, HeldInv'
  PROVE  CountInv'
<1>a. HeldInv /\ Typed
  BY DEF CountInv, HeldInv
<1>1. /\ \A g \in Slots : handler'[g] = None \/ handler'[g] = handler[g]
      /\ overlapped => overlapped'
      /\ shift' = shift
  BY <1>a, QuitsDoes DEF CloudData
<1>2. \A g \in Slots : Counted(g)'
  BY <1>1 DEF Counted, CountInv, CountThere
<1>3. \A g, f \in Slots : g # f /\ CloseRuns(g)' /\ CloseRuns(f)' => overlapped'
  BY <1>1 DEF CloseRuns, CountInv
<1>4. TillCountKept'
  <2>1. drawer' = drawer \/ drawer'.st = "open" \/ drawer'.sync = "pending" \/ drawer'.adopted
        \/ (drawer.st = "closed" => CountThere)
    <3>1. CASE \E h \in Slots : HearClose(h)
      <4>1. PICK h \in Slots : HearClose(h)
        BY <3>1
      <4>2. /\ handler[h] # None /\ handler[h].from = "till" /\ handler[h].at = "said"
            /\ handler[h].job \in Closes
            /\ drawer' = IF Settles(handler[h].ans) THEN [drawer EXCEPT !.sync = "synced"] ELSE drawer
        BY <1>a, <4>1, HearDoes DEF HearClose, StageOf, Handler, Reversal, Closes
      <4>3. drawer.st = "closed" /\ Settles(handler[h].ans) => CountThere
        BY <1>a, <4>2 DEF CountInv, Counted, HeldInv, Told
      <4>4. ~Settles(handler[h].ans) => drawer' = drawer
        BY <4>2
      <4> QED BY <4>3, <4>4
    <3>2. CASE \E h \in Slots : HearCash(h)
      BY <1>a, <3>2 DEF HearCash, StillAsSent, Typed
    <3>3. CASE CounterStep \/ AdoptClose
      BY <3>3 DEF CounterStep, AdoptClose, MakeSale, AddCash, Reverse, CloseDrawer, RetryFailed
    <3>4. CASE ~(\E h \in Slots : HearClose(h) \/ HearCash(h)) /\ ~(CounterStep \/ AdoptClose)
      BY <3>4 DEF Quits, NextStage, PassOnly, GiveUp, Restart, HearOrder, HearReversal,
         Die, UndoRefund, EnqueueRelay, RelayStored, TillOnly, vars, till
    <3> QED BY <3>1, <3>2, <3>3, <3>4
  <2>2. drawer'.st = "closed" => drawer.st = "closed" \/ drawer'.sync = "pending" \/ drawer'.adopted
    <3>1. CASE CounterStep \/ AdoptClose
      BY <3>1 DEF CounterStep, AdoptClose, MakeSale, AddCash, Reverse, CloseDrawer, RetryFailed
    <3>2. CASE \E h \in Slots : HearClose(h) \/ HearCash(h)
      BY <1>a, <3>2 DEF HearCash, HearClose, Typed
    <3>3. CASE ~(\E h \in Slots : HearClose(h) \/ HearCash(h)) /\ ~(CounterStep \/ AdoptClose)
      BY <3>3 DEF Quits, NextStage, PassOnly, GiveUp, Restart, HearOrder, HearReversal,
         Die, UndoRefund, EnqueueRelay, RelayStored, TillOnly, vars, till
    <3> QED BY <3>1, <3>2, <3>3
  <2> QED BY <1>1, <2>1, <2>2 DEF CountInv, TillCountKept, CountThere
<1> QED BY <1>1, <1>2, <1>3, <1>4 DEF CountInv

LEMMA CountStep == CountInv /\ [Next]_vars => CountInv'
  BY HeldStep, StepKinds, CountCloud, CountSends, CountQuits DEF CountInv

LEMMA CountInit == Init => CountInv
  BY HeldInit DEF Init, CountInv, TillCountKept, Counted, CloseRuns

(* The count of a drawer the till closed is on the cloud once the till has *)
(* settled it, as the count that stands or beside it (recordTillCount);    *)
(* two closes that overlap are the exception.                              *)
THEOREM CountsAreKept == Spec => []TillCountKept
<1>1. CountInv => TillCountKept
  BY DEF CountInv
<1> QED BY <1>1, CountInit, CountStep, PTL DEF Spec

-----------------------------------------------------------------------------
(* Voids, refunds and the close.                                           *)

Claimed(s) == order[s] = "voided" \/ s \in refunded
(* A refund that claimed its sale, and one that may still be undone.       *)
Refunding(h, s) ==
    handler[h] # None /\ handler[h].job = "refund" /\ handler[h].at \in {"back", "restore"}
    /\ s \in handler[h].rows
Undoable(h, s) == Refunding(h, s) /\ handler[h].at = "back"
RefundedBy(s) ==
    \A h \in Slots : Refunding(h, s) => s \in refunded /\ \A g \in Slots : Undoable(g, s) => g = h
(* What a void or refund that is done brought about; a refund may have     *)
(* been undone since.                                                      *)
Reversed(s, kind) ==
    order[s] = "voided" \/ (kind = "refund" /\ (s \in refunded \/ s \in lateRev))
RevTold(h) ==
    LET k == handler[h] IN k # None /\ k.job \in Reversal => \A s \in k.rows :
      /\ k.at \in {"claim", "back", "restore"} => order[s] # "none"
      /\ k.job = "void" /\ k.at \in {"back", "restore"} => order[s] = "voided"
      /\ k.at = "said" /\ k.ans = "done" => Reversed(s, k.job)
      /\ k.from = "till" => rev[s].kind = k.job
RevsTold == \A s \in Sales : rev[s].sync = "synced" => Reversed(s, rev[s].kind)
(* Voids and refunds a close had to wait for.                              *)
WaitedFor(s) == rev[s].kind # "none" /\ s \notin lateRev /\ rev[s].sync # "refused"
CloseTold(h) ==
    LET k == handler[h] IN k # None /\ k.job \in Closes /\ k.from = "till" =>
      \A s \in Sales : WaitedFor(s) => rev[s].sync = "synced" /\ Claimed(s)
(* The till waits for an answer only to what is still to be sent.          *)
StillWaits ==
    wait # None /\ handler[wait].job \in Reversal =>
        \A s \in handler[wait].rows : rev[s].sync = "pending"
RevInv ==
    /\ HeldInv /\ RevsTold /\ StillWaits
    /\ \A h \in Slots : RevTold(h) /\ CloseTold(h)
    /\ \A s \in Sales : RefundedBy(s)

LEMMA ReversalSteps ==
  ASSUME HeldInv, NEW h \in Slots, NEW s \in Sales, handler[h].rows = {s},
         LookReversal(h) \/ ClaimReversal(h) \/ GiveBack(h) \/ RestoreStock(h)
  PROVE  /\ handler[h] # None /\ handler[h].job \in Reversal
         /\ \/ /\ LookReversal(h) /\ handler[h].at = "look"
               /\ UNCHANGED <<order, refunded, restored>>
               /\ \/ Ends(h, "nothing") \/ Ends(h, "refused")
                  \/ /\ Ends(h, "done")
                     /\ order[s] = "voided" \/ (handler[h].job = "refund" /\ s \in refunded)
                  \/ /\ Goes(h, "claim", handler[h].then, handler[h].ans)
                     /\ order[s] # "none"
            \/ /\ ClaimReversal(h) /\ handler[h].at = "claim" /\ UNCHANGED restored
               /\ \/ /\ Goes(h, "back", handler[h].then, handler[h].ans)
                     /\ order[s] = "completed" /\ (handler[h].job = "void" \/ s \notin refunded)
                     /\ order' = IF handler[h].job = "void" THEN [order EXCEPT ![s] = "voided"] ELSE order
                     /\ refunded' = IF handler[h].job = "refund" THEN refunded \cup {s} ELSE refunded
                  \/ /\ Ends(h, "done") /\ UNCHANGED <<order, refunded>>
                     /\ order[s] # "completed" \/ (handler[h].job = "refund" /\ s \in refunded)
            \/ /\ GiveBack(h) /\ handler[h].at = "back" /\ UNCHANGED <<order, refunded, restored>>
               /\ Goes(h, "restore", handler[h].then, handler[h].ans)
            \/ /\ RestoreStock(h) /\ handler[h].at = "restore" /\ UNCHANGED <<order, refunded>>
               /\ restored' = [restored EXCEPT ![s] = @ + 1] /\ Ends(h, "done")
<1>1. /\ handler[h] # None /\ handler[h].job \in Reversal /\ Typed
  BY DEF LookReversal, ClaimReversal, GiveBack, RestoreStock, At, Reversal, HeldInv
<1>2. CASE LookReversal(h)
  <2>1. handler[h].at = "look" /\ UNCHANGED <<order, refunded, restored>>
    BY <1>2 DEF LookReversal, At, cloud
  <2>2. \/ Say(h, "nothing") \/ Say(h, "refused")
        \/ /\ Say(h, "done")
           /\ order[s] = "voided" \/ (handler[h].job = "refund" /\ s \in refunded)
        \/ Go(h, "claim") /\ order[s] # "none"
    BY <1>1, <1>2 DEF LookReversal, Reversal
  <2> QED BY <1>1, <1>2, <2>1, <2>2, SayEnds, GoGoes DEF Answers, Steps
<1>3. CASE ClaimReversal(h)
  <2>1. handler[h].at = "claim" /\ UNCHANGED restored
    BY <1>3 DEF ClaimReversal, At
  <2>2. \/ /\ Go(h, "back")
           /\ order[s] = "completed" /\ (handler[h].job = "void" \/ s \notin refunded)
           /\ order' = IF handler[h].job = "void" THEN [order EXCEPT ![s] = "voided"] ELSE order
           /\ refunded' = IF handler[h].job = "refund" THEN refunded \cup {s} ELSE refunded
        \/ /\ Say(h, "done") /\ UNCHANGED <<order, refunded>>
           /\ order[s] # "completed" \/ (handler[h].job = "refund" /\ s \in refunded)
    BY <1>1, <1>3 DEF ClaimReversal, Reversal
  <2> QED BY <1>1, <1>3, <2>1, <2>2, SayEnds, GoGoes DEF Answers, Steps
<1>4. CASE GiveBack(h)
  BY <1>1, <1>4, GoGoes DEF GiveBack, At, Steps
<1>5. CASE RestoreStock(h)
  <2>1. /\ handler[h].at = "restore" /\ UNCHANGED <<order, refunded>>
        /\ restored' = [restored EXCEPT ![s] = @ + 1] /\ Say(h, "done")
    BY <1>5 DEF RestoreStock, At
  <2> QED BY <1>1, <1>5, <2>1, SayEnds DEF Answers
<1> QED BY <1>2, <1>3, <1>4, <1>5

(* Any other step of the cloud leaves voids and refunds as they are.       *)
LEMMA OtherSteps ==
  ASSUME HeldInv, NEW h \in Slots, CloudStep(h),
         ~(LookReversal(h) \/ ClaimReversal(h) \/ GiveBack(h) \/ RestoreStock(h))
  PROVE  /\ handler[h].job \notin Reversal /\ UNCHANGED <<refunded, restored>>
         /\ \A s \in Sales : order'[s] = order[s] \/ (order[s] = "none" /\ order'[s] = "completed")
<1>1. Typed
  BY DEF HeldInv
<1>2. handler[h].job \notin Reversal /\ UNCHANGED <<refunded, restored>>
  BY DEF CloudStep, LookOrder, InsertOrder, TakeStock, StoreDrawer, ReadForFloats, StoreFloats, StoreExpenses,
         ReadForExpenses, ReadLateDrawer, SumSales, SumCash, WriteLate, LookClose, WriteClose, At, cloud,
         Reversal, Closes
<1>3. CASE InsertOrder(h)
  <2>1. PICK s \in handler[h].rows :
           order' = order \/ (order[s] = "none" /\ order' = [order EXCEPT ![s] = "completed"])
    BY <1>3 DEF InsertOrder, Conflict
  <2> QED BY <1>1, <1>2, <2>1 DEF Typed
<1>4. CASE ~InsertOrder(h)
  <2>1. order' = order
    BY <1>4 DEF CloudStep, LookOrder, TakeStock, StoreDrawer, ReadForFloats, StoreFloats, StoreExpenses,
         ReadForExpenses, ReadLateDrawer, SumSales, SumCash, WriteLate, LookClose, WriteClose, cloud
  <2> QED BY <1>2, <2>1
<1> QED BY <1>2, <1>3, <1>4

(* What one step of a void or refund does to the sale it is about.         *)
LEMMA RevStep ==
  ASSUME RevInv, NEW h \in Slots, NEW s \in Sales, handler[h].rows = {s},
         LookReversal(h) \/ ClaimReversal(h) \/ GiveBack(h) \/ RestoreStock(h)
  PROVE  /\ RevTold(h)' /\ refunded \subseteq refunded'
         /\ \A x \in Sales : order'[x] = order[x] \/ (order[x] = "completed" /\ order'[x] = "voided")
         /\ Refunding(h, s)' => s \in refunded' /\ (Refunding(h, s) \/ s \notin refunded)
         /\ Undoable(h, s)' => Undoable(h, s) \/ s \notin refunded
<1>a. HeldInv /\ Typed /\ Shape(h) /\ RevTold(h) /\ RefundedBy(s)
  BY DEF RevInv, HeldInv
<1>b. handler[h] # None /\ handler[h].job \in Reversal /\ UNCHANGED <<rev, lateRev>>
  BY DEF LookReversal, ClaimReversal, GiveBack, RestoreStock, At, Reversal, TillOnly, till
<1>k. /\ handler[h].from = "till" => rev[s].kind = handler[h].job
      /\ handler[h].job # "void" => handler[h].job = "refund"
  BY <1>a, <1>b DEF RevTold, Reversal
<1>1. CASE LookReversal(h)
  <2>1. /\ UNCHANGED <<order, refunded>>
        /\ \/ Ends(h, "nothing") \/ Ends(h, "refused")
           \/ Ends(h, "done") /\ (order[s] = "voided" \/ (handler[h].job = "refund" /\ s \in refunded))
           \/ Goes(h, "claim", handler[h].then, handler[h].ans) /\ order[s] # "none"
    BY <1>a, <1>1, ReversalSteps DEF LookReversal, ClaimReversal, GiveBack, RestoreStock, At
  <2>2. ~Refunding(h, s)' /\ ~Undoable(h, s)'
    BY <2>1 DEF Refunding, Undoable, Ends, Goes, Gone
  <2>3. RevTold(h)'
    BY <1>b, <1>k, <2>1 DEF RevTold, Reversed, Ends, Goes, Gone
  <2> QED BY <2>1, <2>2, <2>3
<1>2. CASE ClaimReversal(h)
  <2>1. /\ handler[h].at = "claim"
        /\ \/ /\ Goes(h, "back", handler[h].then, handler[h].ans)
              /\ order[s] = "completed" /\ (handler[h].job = "void" \/ s \notin refunded)
              /\ order' = IF handler[h].job = "void" THEN [order EXCEPT ![s] = "voided"] ELSE order
              /\ refunded' = IF handler[h].job = "refund" THEN refunded \cup {s} ELSE refunded
           \/ /\ Ends(h, "done") /\ UNCHANGED <<order, refunded>>
              /\ order[s] # "completed" \/ (handler[h].job = "refund" /\ s \in refunded)
    BY <1>a, <1>2, ReversalSteps DEF LookReversal, ClaimReversal, GiveBack, RestoreStock, At
  <2>2. order[s] # "none"
    BY <1>a, <1>b, <2>1 DEF RevTold
  <2>3. CASE Goes(h, "back", handler[h].then, handler[h].ans)
    <3>0. handler'[h].at = "back"
      BY <2>3 DEF Goes
    <3>1. /\ order[s] = "completed" /\ (handler[h].job = "void" \/ s \notin refunded)
          /\ order' = IF handler[h].job = "void" THEN [order EXCEPT ![s] = "voided"] ELSE order
          /\ refunded' = IF handler[h].job = "refund" THEN refunded \cup {s} ELSE refunded
      BY <2>1, <2>3, <3>0 DEF Ends, Goes, Gone
    <3>2. /\ handler[h].job = "void" => order'[s] = "voided"
          /\ order'[s] # "none"
          /\ \A x \in Sales : order'[x] = order[x] \/ (order[x] = "completed" /\ order'[x] = "voided")
      BY <1>a, <3>1 DEF Typed
    <3>3. RevTold(h)'
      BY <1>b, <1>k, <2>3, <3>2 DEF RevTold, Goes
    <3>4. Refunding(h, s)' => s \in refunded' /\ s \notin refunded
      BY <2>3, <3>1 DEF Refunding, Goes
    <3> QED BY <3>1, <3>2, <3>3, <3>4 DEF Undoable
  <2>4. CASE ~Goes(h, "back", handler[h].then, handler[h].ans)
    <3>1. ~Refunding(h, s)' /\ ~Undoable(h, s)'
      BY <2>1, <2>4 DEF Refunding, Undoable, Ends, Goes, Gone
    <3>2. order[s] = "voided" \/ (handler[h].job = "refund" /\ s \in refunded)
      BY <1>a, <2>1, <2>2, <2>4 DEF Typed
    <3>3. RevTold(h)'
      BY <1>b, <1>k, <2>1, <2>4, <3>2 DEF RevTold, Reversed, Ends, Goes, Gone
    <3> QED BY <2>1, <2>4, <3>1, <3>3
  <2> QED BY <2>3, <2>4
<1>3. CASE GiveBack(h)
  <2>1. /\ handler[h].at = "back" /\ UNCHANGED <<order, refunded>>
        /\ Goes(h, "restore", handler[h].then, handler[h].ans)
    BY <1>a, <1>3, ReversalSteps DEF LookReversal, ClaimReversal, GiveBack, RestoreStock, At
  <2>2. ~Undoable(h, s)' /\ (Refunding(h, s)' => Refunding(h, s))
    BY <1>b, <2>1 DEF Refunding, Undoable, Goes
  <2>3. RevTold(h)'
    BY <1>a, <1>b, <2>1 DEF RevTold, Goes
  <2> QED BY <1>a, <2>1, <2>2, <2>3 DEF RefundedBy
<1>4. CASE RestoreStock(h)
  <2>1. /\ handler[h].at = "restore" /\ UNCHANGED <<order, refunded>> /\ Ends(h, "done")
    BY <1>a, <1>4, ReversalSteps DEF LookReversal, ClaimReversal, GiveBack, RestoreStock, At
  <2>2. ~Refunding(h, s)' /\ ~Undoable(h, s)'
    BY <2>1 DEF Refunding, Undoable, Ends, Goes, Gone
  <2>3. order[s] = "voided" \/ (handler[h].job = "refund" /\ s \in refunded)
    BY <1>a, <1>b, <1>k, <2>1 DEF RevTold, RefundedBy, Refunding
  <2>4. RevTold(h)'
    BY <1>b, <1>k, <2>1, <2>3 DEF RevTold, Reversed, Ends, Goes, Gone
  <2> QED BY <2>1, <2>2, <2>4
<1> QED BY <1>1, <1>2, <1>3, <1>4

LEMMA RevCloud ==
  ASSUME RevInv, NEW h \in Slots, CloudStep(h)
  PROVE  RevInv'
<1>a. HeldInv /\ HeldInv' /\ CloudDoes(h) /\ Typed /\ Shape(h)
  BY HeldCloud, CloudStepDoes DEF RevInv, HeldInv
<1>1. /\ UNCHANGED <<rev, lateRev>> /\ Others(h) /\ handler[h] # None
      /\ handler'[h] # None => /\ handler'[h].job = handler[h].job /\ handler'[h].from = handler[h].from
                               /\ handler'[h].rows = handler[h].rows
  BY <1>a DEF CloudDoes, TillSame
<1>2. /\ RevTold(h)' /\ refunded \subseteq refunded'
      /\ \A x \in Sales : /\ order[x] # "none" => order'[x] # "none"
                          /\ order[x] = "voided" => order'[x] = "voided"
      /\ \A x \in Sales :
           /\ Refunding(h, x)' => x \in refunded' /\ (Refunding(h, x) \/ x \notin refunded)
           /\ Undoable(h, x)' => Undoable(h, x) \/ x \notin refunded
  <2>1. CASE ~(LookReversal(h) \/ ClaimReversal(h) \/ GiveBack(h) \/ RestoreStock(h))
    <3>1. /\ handler[h].job \notin Reversal /\ refunded' = refunded
          /\ \A s \in Sales : order'[s] = order[s] \/ (order[s] = "none" /\ order'[s] = "completed")
      BY <1>a, <2>1, OtherSteps
    <3> QED BY <1>1, <3>1 DEF RevTold, Refunding, Undoable, Reversal
  <2>2. CASE LookReversal(h) \/ ClaimReversal(h) \/ GiveBack(h) \/ RestoreStock(h)
    <3>1. handler[h].job \in Reversal
      BY <2>2 DEF LookReversal, ClaimReversal, GiveBack, RestoreStock, At, Reversal
    <3>2. PICK s \in Sales : handler[h].rows = {s}
      BY <1>a, <1>1, <3>1 DEF Shape
    <3>3. \A x \in Sales : Refunding(h, x)' => x = s
      <4>1. handler'[h] # None => handler'[h].rows = {s}
        BY <1>a, <2>2, <3>2, ReversalSteps DEF Ends, Goes, Gone
      <4> QED BY <4>1 DEF Refunding
    <3> QED BY <2>2, <3>2, <3>3, RevStep DEF Undoable
  <2> QED BY <2>1, <2>2
<1>3. ASSUME NEW g \in Slots PROVE RevTold(g)' /\ CloseTold(g)'
  <2>1. CloseTold(g)'
    BY <1>1, <1>2 DEF CloseTold, WaitedFor, Claimed, RevInv, Others
  <2>2. CASE g # h
    <3>1. handler'[g] = handler[g] /\ RevTold(g)
      BY <1>1, <2>2 DEF Others, RevInv
    <3>2. handler[g] # None /\ handler[g].job \in Reversal => handler[g].rows \subseteq Sales
      BY <1>a DEF HeldInv, Shape
    <3>3. RevTold(g)'
      BY <1>1, <1>2, <3>1, <3>2 DEF RevTold, Reversed
    <3> QED BY <2>1, <3>3
  <2> QED BY <1>2, <2>1, <2>2
<1>4. RevsTold'
  BY <1>1, <1>2 DEF RevsTold, RevInv, Reversed
<1>5. ASSUME NEW s \in Sales PROVE RefundedBy(s)'
  <2>0. RefundedBy(s)
    BY DEF RevInv
  <2>1. \A g \in Slots : g # h => (Refunding(g, s)' <=> Refunding(g, s)) /\ (Undoable(g, s)' <=> Undoable(g, s))
    BY <1>1 DEF Others, Refunding, Undoable
  <2>2. \A g \in Slots : Refunding(g, s)' => s \in refunded'
    BY <1>2, <2>0, <2>1 DEF RefundedBy
  <2>3. ASSUME NEW f \in Slots, NEW g \in Slots, Refunding(f, s)', Undoable(g, s)', f # g
        PROVE  FALSE
    <3>1. CASE f # h /\ g # h
      BY <2>0, <2>1, <2>3, <3>1 DEF RefundedBy
    <3>2. CASE f = h
      BY <1>2, <2>0, <2>1, <2>3, <3>2 DEF RefundedBy, Undoable
    <3>3. CASE g = h
      BY <1>2, <2>0, <2>1, <2>3, <3>3 DEF RefundedBy, Undoable
    <3> QED BY <3>1, <3>2, <3>3
  <2> QED BY <2>2, <2>3 DEF RefundedBy
<1>6. StillWaits'
  <2>1. wait' = wait /\ (handler'[h] = None => wait # h)
    BY <1>a DEF CloudDoes, TillSame
  <2> QED BY <1>a, <1>1, <2>1 DEF StillWaits, RevInv, Others, Typed
<1> QED BY <1>a, <1>3, <1>4, <1>5, <1>6 DEF RevInv

LEMMA RevSends ==
  ASSUME RevInv, NEW h \in Slots, Sends(h), HeldInv'
  PROVE  RevInv'
<1>1. /\ Others(h) /\ handler'[h] # None /\ handler'[h].at \in {"look", "drawer"}
      /\ handler'[h].job \in Closes /\ handler'[h].from = "till" => PushClose(h)
      /\ order' = order /\ rev' = rev /\ lateRev \subseteq lateRev' /\ refunded' = refunded
  BY SendsDoes DEF RevInv, CloudData
<1>0. /\ handler'[h].job \in Reversal /\ handler'[h].from = "till" =>
            \A s \in handler'[h].rows : rev[s].kind = handler'[h].job /\ rev[s].sync = "pending"
      /\ wait' = wait \/ (wait' = h /\ handler'[h].from = "till")
  <2>2. \A s \in Sales : PushReversal(h, s) => rev[s].sync = "pending"
    BY DEF PushReversal, RevWaits
  <2>3. PushCash(h) \/ PushClose(h) \/ (\E s \in Sales : PushOrder(h, s) \/ PushReversal(h, s)) => wait' = h
    BY DEF PushCash, PushClose, PushOrder, PushReversal
  <2>4. (\E s \in Sales : RelayOrder(h, s) \/ \E kind \in Kinds : WebReverse(h, s, kind))
          \/ (\E job \in WebCloses : WebClose(h, job)) => wait' = wait
    BY DEF RelayOrder, WebReverse, WebClose
  <2>5. HeldInv
    BY DEF RevInv
  <2>6. CASE handler'[h].from = "till"
    BY <2>2, <2>3, <2>5, <2>6, SentDoes DEF Closes, Reversal
  <2>7. CASE handler'[h].from # "till"
    BY <2>4, <2>5, <2>7, SentDoes
  <2> QED BY <2>6, <2>7
<1>2. PushClose(h) => \A s \in Sales : WaitedFor(s) => rev[s].sync = "synced" /\ Claimed(s)
  BY DEF PushClose, MayClose, ReversalsSent, WaitedFor, RevInv, RevsTold, Reversed, Claimed,
         HeldInv, RevsInOrder, Typed
<1>3. ASSUME NEW g \in Slots PROVE RevTold(g)' /\ CloseTold(g)'
  <2>1. CASE g = h
    BY <1>0, <1>1, <1>2, <2>1 DEF RevTold, CloseTold, WaitedFor, Claimed
  <2>2. CASE g # h
    BY <1>1, <2>2 DEF RevTold, Reversed, CloseTold, WaitedFor, Claimed, Others, RevInv
  <2> QED BY <2>1, <2>2
<1>4. \A s \in Sales : RefundedBy(s)'
  <2>1. \A g \in Slots, s \in Sales : (Refunding(g, s)' => Refunding(g, s)) /\ (Undoable(g, s)' => Undoable(g, s))
    BY <1>1 DEF Refunding, Undoable, Others
  <2> QED BY <1>1, <2>1 DEF RevInv, RefundedBy
<1>5. RevsTold'
  BY <1>1 DEF RevInv, RevsTold, Reversed
<1>6. StillWaits'
  BY <1>0, <1>1, SetsAssumption DEF StillWaits, RevInv, HeldInv, Waits, Typed, Others
<1> QED BY <1>3, <1>4, <1>5, <1>6 DEF RevInv

(* A refund is undone only where another was told it is done, or where     *)
(* nobody counts on it.                                                    *)
LEMMA UndoneIsKnown ==
  ASSUME RevInv, Quits, NEW s \in Sales
  PROVE  /\ s \in refunded => s \in refunded' \/ s \in lateRev' \/ ~CalledDone(s)
         /\ s \in refunded /\ s \notin refunded' => \A g \in Slots : ~Refunding(g, s)'
<1>a. HeldInv /\ Typed /\ RefundedBy(s)
  BY DEF RevInv, HeldInv
<1>1. refunded' = refunded \/ \E h \in Slots : UndoRefund(h)
  BY <1>a, QuitsDoes
<1>2. ASSUME NEW h \in Slots, UndoRefund(h), s \in refunded, s \notin refunded'
      PROVE  (s \in lateRev' \/ ~CalledDone(s)) /\ \A g \in Slots : ~Refunding(g, s)'
  <2>1. /\ handler[h] # None /\ handler[h].job = "refund" /\ handler[h].at = "back"
        /\ s \in handler[h].rows /\ handler' = [handler EXCEPT ![h] = None]
        /\ lateRev' = lateRev \cup {x \in handler[h].rows : CalledDone(x)}
    BY <1>2 DEF UndoRefund
  <2>2. Undoable(h, s)
    BY <2>1 DEF Undoable, Refunding
  <2>3. ASSUME NEW g \in Slots PROVE ~Refunding(g, s)'
    <3>1. CASE g = h
      BY <1>a, <2>1, <3>1 DEF Refunding, Typed
    <3>2. CASE g # h
      BY <1>a, <2>1, <2>2, <3>2 DEF Refunding, Typed, RefundedBy
    <3> QED BY <3>1, <3>2
  <2> QED BY <2>1, <2>3
<1> QED BY <1>1, <1>2

(* What the till hears of its voids and refunds, and its counter adds.     *)
LEMMA RevRows ==
  ASSUME RevInv, Quits, NEW s \in Sales
  PROVE  /\ rev'[s].sync = "synced" => Reversed(s, rev'[s].kind) /\ CalledDone(s)
         /\ rev[s].kind # "none" => rev'[s].kind = rev[s].kind
         /\ WaitedFor(s)' => WaitedFor(s) \/ ~Closing
         /\ rev[s].sync = "synced" => rev'[s].sync = "synced"
         /\ rev[s] # NoRev => rev'[s] # NoRev
         /\ \A h \in Slots : wait' = h /\ handler'[h] = handler[h] /\ handler[h].job \in Reversal
                             /\ s \in handler[h].rows => rev'[s].sync = "pending"
<1>a. HeldInv /\ Typed /\ RevsTold /\ RevsInOrder /\ StillWaits
  BY DEF RevInv, HeldInv
<1>1. lateRev \subseteq lateRev'
  BY <1>a, QuitsDoes
<1>2. CASE \E h \in Slots : HearReversal(h)
  <2>1. PICK h \in Slots : HearReversal(h)
    BY <1>2
  <2>2. /\ handler[h] # None /\ handler[h].at = "said" /\ handler[h].job \in Reversal
        /\ handler[h].from = "till" /\ Shape(h) /\ RevTold(h) /\ wait = h /\ wait' = None
    BY <1>a, <2>1, HearDoes DEF HearReversal, StageOf, Handler, Reversal, HeldInv, RevInv
  <2>3. PICK x \in Sales : handler[h].rows = {x}
    BY <2>2 DEF Shape
  <2>4. rev[x].kind = handler[h].job /\ rev[x].sync = "pending" /\ wait # None
    BY <1>a, <2>2, <2>3, SetsAssumption DEF RevTold, StillWaits
  <2>5. handler[h].ans = "done" => Reversed(x, rev[x].kind) /\ CalledDone(x)
    BY <2>2, <2>3, <2>4 DEF RevTold, CalledDone
  <2>6. rev' = [rev EXCEPT ![x].sync = CASE handler[h].ans = "done"    -> "synced"
                                         [] handler[h].ans = "refused" -> "refused"
                                         [] OTHER                      -> @]
    BY <2>1, <2>3 DEF HearReversal
  <2>7. PICK y \in {"synced", "refused", "pending"} :
           rev' = [rev EXCEPT ![x].sync = y] /\ (y = "synced" => handler[h].ans = "done")
    BY <2>4, <2>6
  <2>8. /\ s # x => rev'[s] = rev[s]
        /\ rev'[x].kind = rev[x].kind /\ rev'[x].sync = y
    <3>1. rev' = [rev EXCEPT ![x] = [rev[x] EXCEPT !.sync = y]]
      BY <2>7
    <3>2. rev[x] \in [kind: Kinds \cup {"none"}, sync: {"none", "pending", "synced", "refused"}]
      BY <1>a DEF Typed
    <3> QED BY <1>a, <3>1, <3>2 DEF Typed
  <2>9. rev[s].sync = "synced" => CalledDone(s)
    BY DEF CalledDone
  <2>10. \A g \in Slots : wait' # g
    BY <2>2, SetsAssumption
  <2>11. CASE s = x
    BY <1>a, <1>1, <2>4, <2>5, <2>7, <2>8, <2>10, <2>11 DEF WaitedFor, RevsInOrder, NoRev
  <2>12. CASE s # x
    BY <1>a, <1>1, <2>8, <2>9, <2>10, <2>12 DEF WaitedFor, RevsTold
  <2> QED BY <2>11, <2>12
<1>3. CASE \E x \in Sales, kind \in Kinds : Reverse(x, kind)
  <2>1. PICK x \in Sales, kind \in Kinds : Reverse(x, kind)
    BY <1>3
  <2>2. /\ rev' = [rev EXCEPT ![x] = [kind |-> kind, sync |-> "pending"]] /\ rev[x] = NoRev
        /\ lateRev' = IF Closing THEN lateRev \cup {x} ELSE lateRev
        /\ wait' = wait
    BY <2>1 DEF Reverse, Counter
  <2>3. /\ s # x => rev'[s] = rev[s]
        /\ rev'[x].sync = "pending" /\ rev[x].kind = "none" /\ rev[x].sync = "none"
    BY <1>a, <2>2 DEF Typed, NoRev
  <2>4. rev[s].sync = "synced" => CalledDone(s)
    BY DEF CalledDone
  <2>5. \A g \in Slots : wait' = g /\ handler[g].job \in Reversal /\ s \in handler[g].rows
                         => rev[s].sync = "pending"
    BY <1>a, <2>2, SetsAssumption DEF StillWaits
  <2>6. CASE s = x
    BY <2>2, <2>3, <2>6 DEF WaitedFor
  <2>7. CASE s # x
    BY <1>a, <1>1, <2>3, <2>4, <2>5, <2>7 DEF WaitedFor, RevsTold
  <2> QED BY <2>6, <2>7
<1>4. CASE ~(\E h \in Slots : HearReversal(h)) /\ ~(\E x \in Sales, kind \in Kinds : Reverse(x, kind))
  <2>1. rev' = rev
    BY <1>4 DEF Quits, CounterStep, AdoptClose, MakeSale, AddCash, CloseDrawer, RetryFailed,
         NextStage, PassOnly, GiveUp, Restart, HearCash, HearOrder, HearClose,
         Die, UndoRefund, EnqueueRelay, RelayStored, TillOnly, vars, till
  <2>2. rev[s].sync = "synced" => CalledDone(s)
    BY DEF CalledDone
  <2>3. wait' = wait \/ wait' = None
    BY <1>4 DEF Quits, CounterStep, AdoptClose, MakeSale, AddCash, CloseDrawer, RetryFailed, Counter,
         NextStage, PassOnly, GiveUp, Restart, HearCash, HearOrder, HearClose, Answered,
         Die, UndoRefund, EnqueueRelay, RelayStored, TillOnly, vars, till
  <2>4. \A g \in Slots : wait' = g /\ handler[g].job \in Reversal /\ s \in handler[g].rows
                         => rev[s].sync = "pending"
    BY <1>a, <2>3, SetsAssumption DEF StillWaits
  <2> QED BY <1>1, <1>a, <2>1, <2>2, <2>4 DEF WaitedFor, RevsTold
<1> QED BY <1>2, <1>3, <1>4

(* Only a close closes the drawer.                                         *)
LEMMA ClosedBy ==
  ASSUME HeldInv, [Next]_vars, shift.st = "open", shift'.st \in Ended
  PROVE  \E h \in Slots : /\ handler[h] # None /\ handler[h].job \in Closes
                          /\ shift'.by = handler[h].from
<1>1. CASE Quits
  BY <1>1, QuitsDoes DEF CloudData, Ended
<1>2. ASSUME NEW h \in Slots, Sends(h) PROVE FALSE
  BY <1>2, SendsDoes DEF CloudData, Ended
<1>3. ASSUME NEW h \in Slots, CloudStep(h)
      PROVE  handler[h] # None /\ handler[h].job \in Closes /\ shift'.by = handler[h].from
  <2>1. CASE ~LookClose(h) /\ ~WriteClose(h)
    BY <1>3, <2>1, CloseSteps DEF Ended
  <2>2. CASE LookClose(h)
    BY <2>2, LookCloseEnds DEF Ended
  <2>3. CASE WriteClose(h)
    BY <2>3, WriteCloseEnds DEF Ended
  <2> QED BY <2>1, <2>2, <2>3
<1> QED BY <1>1, <1>2, <1>3, StepKinds

LEMMA RevQuits ==
  ASSUME RevInv, Quits, HeldInv'
  PROVE  RevInv'
<1>a. HeldInv /\ Typed /\ RevsTold
  BY DEF RevInv, HeldInv
<1>1. /\ \A g \in Slots : handler'[g] = None \/ handler'[g] = handler[g]
      /\ order' = order /\ lateRev \subseteq lateRev' /\ refunded' \subseteq refunded
  BY <1>a, QuitsDoes DEF CloudData
<1>2. ASSUME NEW s \in Sales, NEW kind, Reversed(s, kind), CalledDone(s)
      PROVE  Reversed(s, kind)'
  BY <1>1, <1>2, UndoneIsKnown DEF Reversed
<1>3. RevsTold'
  BY <1>2, RevRows DEF RevsTold
<1>4. ASSUME NEW g \in Slots PROVE RevTold(g)' /\ CloseTold(g)'
  <2>1. CASE handler'[g] = None
    BY <2>1 DEF RevTold, CloseTold
  <2>2. CASE handler'[g] # None
    <3>1. handler'[g] = handler[g] /\ RevTold(g) /\ CloseTold(g) /\ Shape(g) /\ handler[g] # None
      BY <1>1, <1>a, <2>2 DEF RevInv, HeldInv
    <3>2. RevTold(g)'
      <4> SUFFICES ASSUME handler[g].job \in Reversal, NEW s \in handler[g].rows
                   PROVE  LET k == handler[g] IN
                          /\ k.at \in {"claim", "back", "restore"} => order'[s] # "none"
                          /\ k.job = "void" /\ k.at \in {"back", "restore"} => order'[s] = "voided"
                          /\ k.at = "said" /\ k.ans = "done" => Reversed(s, k.job)'
                          /\ k.from = "till" => rev'[s].kind = k.job
        BY <3>1 DEF RevTold
      <4>1. s \in Sales
        BY <3>1 DEF Shape
      <4>2. handler[g].from = "till" => rev[s].kind = handler[g].job /\ rev[s].kind # "none"
        BY <3>1 DEF RevTold, Reversal
      <4>3. handler[g].at = "said" /\ handler[g].ans = "done" => CalledDone(s) /\ Reversed(s, handler[g].job)
        BY <3>1 DEF CalledDone, RevTold
      <4> QED BY <1>1, <1>2, <3>1, <4>1, <4>2, <4>3, RevRows DEF RevTold
    <3>3. CloseTold(g)'
      <4> SUFFICES ASSUME handler[g].job \in Closes, handler[g].from = "till",
                          NEW s \in Sales, WaitedFor(s)'
                   PROVE  rev'[s].sync = "synced" /\ Claimed(s)'
        BY <3>1 DEF CloseTold
      <4>1. WaitedFor(s)
        BY <3>1, RevRows DEF Closing
      <4>2. rev[s].sync = "synced" /\ Claimed(s) /\ CalledDone(s)
        BY <3>1, <4>1 DEF CloseTold, CalledDone
      <4>3. s \notin lateRev'
        BY DEF WaitedFor
      <4> QED BY <1>1, <4>2, <4>3, RevRows, UndoneIsKnown DEF Claimed
    <3> QED BY <3>2, <3>3
  <2> QED BY <2>1, <2>2
<1>5. ASSUME NEW s \in Sales PROVE RefundedBy(s)'
  <2>1. \A g \in Slots : (Refunding(g, s)' => Refunding(g, s)) /\ (Undoable(g, s)' => Undoable(g, s))
    BY <1>1 DEF Refunding, Undoable
  <2>2. RefundedBy(s)
    BY DEF RevInv
  <2>3. \A g \in Slots : Refunding(g, s)' => s \in refunded'
    BY <2>1, <2>2, UndoneIsKnown DEF RefundedBy
  <2> QED BY <2>1, <2>2, <2>3 DEF RefundedBy
<1>6. StillWaits'
  <2> SUFFICES ASSUME wait' # None, handler'[wait'].job \in Reversal, NEW s \in handler'[wait'].rows
               PROVE  rev'[s].sync = "pending"
    BY DEF StillWaits
  <2>1. wait' \in Slots /\ handler'[wait'] # None
    BY DEF HeldInv, Typed, Waits
  <2>2. PICK g \in Slots : g = wait'
    BY <2>1
  <2>3. handler'[g] = handler[g] /\ handler[g] # None /\ s \in Sales
    BY <1>1, <1>a, <2>1, <2>2 DEF HeldInv, Shape
  <2> QED BY <2>2, <2>3, RevRows
<1> QED BY <1>3, <1>4, <1>5, <1>6 DEF RevInv

LEMMA RevInvStep ==
  ASSUME RevInv, [Next]_vars
  PROVE  RevInv'
  BY HeldStep, StepKinds, RevCloud, RevSends, RevQuits DEF RevInv

LEMMA RevInit == Init => RevInv
  BY HeldInit DEF Init, RevInv, RevsTold, NoRev, RevTold, CloseTold, StillWaits, RefundedBy, Refunding

(* The cloud closes a drawer for its till only when it has every sale of   *)
(* it and every void and refund taken before the close was sent            *)
(* (reconcileClosedShifts, F2), but for a refund that was undone after     *)
(* somebody had been told that it is done.                                 *)
THEOREM ClosesWait == Spec => CloseWaits
<1>1. RevInv /\ [Next]_vars =>
        [shift.st = "open" /\ shift'.st \in {"closed", "forced"} /\ shift'.by = "till" =>
           \A s \in Sales : /\ sale[s] # "none" => order[s] # "none"
                            /\ rev[s].kind # "none" /\ s \notin lateRev /\ rev[s].sync # "refused"
                                 => order[s] = "voided" \/ s \in refunded]_vars
  <2> SUFFICES ASSUME RevInv, [Next]_vars, shift.st = "open", shift'.st \in Ended, shift'.by = "till",
                      NEW s \in Sales
               PROVE  /\ sale[s] # "none" => order[s] # "none"
                      /\ WaitedFor(s) => Claimed(s)
    BY DEF Ended, WaitedFor, Claimed
  <2>1. PICK h \in Slots : /\ handler[h] # None /\ handler[h].job \in Closes
                           /\ handler[h].from = "till"
    BY ClosedBy DEF RevInv
  <2> QED BY <2>1 DEF RevInv, HeldInv, Told, CloseTold
<1> QED BY <1>1, RevInit, RevInvStep, PTL DEF Spec, CloseWaits

-----------------------------------------------------------------------------
(* Stock.  A sale's stock is taken by the one request that inserted it, and *)
(* put back by the one that claimed its void and the one that claimed its   *)
(* refund: what was put back, and what those still have to put back, is no  *)
(* more than a void and a refund that stand.                                *)

Taking(h, s) ==
    handler[h] # None /\ handler[h].job = "order" /\ handler[h].at = "stock" /\ s \in handler[h].rows
Restores(h, kind, s) ==
    handler[h] # None /\ handler[h].job = kind /\ handler[h].at \in {"back", "restore"}
    /\ s \in handler[h].rows
Restoring(kind, s) == \E h \in Slots : Restores(h, kind, s)
Stands(kind, s) == IF kind = "void" THEN order[s] = "voided" ELSE s \in refunded
TakenOf(s) ==
    /\ taken[s] <= 1
    /\ order[s] = "none" => taken[s] = 0
    /\ \A h \in Slots : Taking(h, s) => taken[s] = 0 /\ order[s] # "none"
    /\ \A g, h \in Slots : g # h => ~(Taking(g, s) /\ Taking(h, s))
RestoredOf(s) ==
    /\ restored[s] + Once(Restoring("void", s)) + Once(Restoring("refund", s))
          <= Once(Stands("void", s)) + Once(Stands("refund", s))
    /\ \A h \in Slots, kind \in Reversal : Restores(h, kind, s) => Stands(kind, s)
    /\ \A g, h \in Slots, kind \in Reversal : g # h => ~(Restores(g, kind, s) /\ Restores(h, kind, s))
StockInv == HeldInv /\ \A s \in Sales : TakenOf(s) /\ RestoredOf(s)

(* A step that neither takes nor inserts leaves what was taken be.          *)
LEMMA TakenCalm ==
  ASSUME NEW s \in Sales, TakenOf(s), order[s] = "none" <=> order'[s] = "none",
         taken'[s] = taken[s], \A g \in Slots : Taking(g, s)' => Taking(g, s)
  PROVE  TakenOf(s)'
  BY DEF TakenOf

(* A step that neither claims nor restores leaves what was put back be.     *)
LEMMA RestoredCalm ==
  ASSUME NEW s \in Sales, Typed, RestoredOf(s), restored'[s] = restored[s],
         \A kind \in Reversal : Stands(kind, s)' <=> Stands(kind, s),
         \A g \in Slots, kind \in Reversal : Restores(g, kind, s)' => Restores(g, kind, s)
  PROVE  RestoredOf(s)'
<1>1. restored[s] \in Nat
  BY DEF Typed
<1>2. (Restoring("void", s)' => Restoring("void", s)) /\ (Restoring("refund", s)' => Restoring("refund", s))
  BY DEF Restoring, Reversal
<1>3. restored'[s] + Once(Restoring("void", s)') + Once(Restoring("refund", s)')
        <= Once(Stands("void", s)') + Once(Stands("refund", s)')
  BY <1>1, <1>2 DEF RestoredOf, Once, Reversal
<1> QED BY <1>3 DEF RestoredOf, Once

(* The same for one request whose handler moved.                            *)
LEMMA StockCalm ==
  ASSUME NEW s \in Sales, Typed, TakenOf(s), RestoredOf(s), NEW h \in Slots, Others(h),
         order'[s] = order[s], taken'[s] = taken[s], restored'[s] = restored[s],
         (s \in refunded) <=> (s \in refunded'),
         Taking(h, s)' => Taking(h, s),
         \A kind \in Reversal : Restores(h, kind, s)' => Restores(h, kind, s)
  PROVE  TakenOf(s)' /\ RestoredOf(s)'
<1>1. ASSUME NEW g \in Slots
      PROVE  (Taking(g, s)' => Taking(g, s))
             /\ \A kind \in Reversal : Restores(g, kind, s)' => Restores(g, kind, s)
  BY DEF Others, Taking, Restores
<1>2. \A kind \in Reversal : Stands(kind, s)' <=> Stands(kind, s)
  BY DEF Stands
<1> QED BY <1>1, <1>2, TakenCalm, RestoredCalm

(* The cloud takes stock only for the request that inserted the sale.      *)
LEMMA OrderSteps ==
  ASSUME HeldInv, NEW h \in Slots, CloudStep(h), ~InsertOrder(h), ~TakeStock(h),
         ~(LookReversal(h) \/ ClaimReversal(h) \/ GiveBack(h) \/ RestoreStock(h))
  PROVE  /\ UNCHANGED <<order, taken, restored, refunded>>
         /\ handler'[h] # None /\ handler'[h].job = "order" => handler'[h].at # "stock"
<1>1. UNCHANGED <<order, taken, restored, refunded>>
  BY DEF CloudStep, LookOrder, StoreDrawer, ReadForFloats, StoreFloats, StoreExpenses,
         ReadForExpenses, ReadLateDrawer, SumSales, SumCash, WriteLate, LookClose, WriteClose, cloud
<1>2. CASE handler[h].job # "order"
  BY <1>1, <1>2, CloudStepDoes DEF CloudDoes
<1>3. CASE handler[h].job = "order"
  <2>1. /\ Typed /\ handler[h] # None /\ handler[h] \in Handler /\ handler[h].then = "said"
    BY <1>3, CloudStepDoes DEF HeldInv, Shape, CloudDoes, Typed
  <2>2. \/ \E w \in Answers : Say(h, w)
        \/ handler' = [handler EXCEPT ![h].at = "insert", ![h].late = ~IsOpen]
        \/ handler' = [handler EXCEPT ![h].at = "sum", ![h].was = shift.expected]
        \/ \E q \in SUBSET Rows : \/ handler' = [handler EXCEPT ![h].at = "cash", ![h].seen = q]
                                  \/ handler' = [handler EXCEPT ![h].at = "write", ![h].seen = @ \cup held]
    BY <1>3, <2>1 DEF CloudStep, LookOrder, StoreDrawer, ReadForFloats, StoreFloats, StoreExpenses, At, Return, Answers,
         ReadForExpenses, ReadLateDrawer, SumSales, SumCash, WriteLate, LookClose, WriteClose, Closes, Rows
  <2>3. CASE \E w \in Answers : Say(h, w)
    BY <1>1, <2>1, <2>3, SayEnds DEF Ends, Goes, Gone
  <2>4. ASSUME NEW k \in Handler, k.at # "stock", handler' = [handler EXCEPT ![h] = k]
        PROVE  handler'[h].at # "stock"
    BY <2>1, <2>4 DEF Typed
  <2>5. CASE handler' = [handler EXCEPT ![h].at = "insert", ![h].late = ~IsOpen]
    <3> DEFINE k == [handler[h] EXCEPT !.at = "insert", !.late = ~IsOpen]
    <3>1. k \in Handler /\ k.at # "stock"
      BY <2>1 DEF Handler, Steps, IsOpen
    <3>2. handler' = [handler EXCEPT ![h] = k]
      BY <2>5
    <3> HIDE DEF k
    <3> QED BY <1>1, <2>4, <3>1, <3>2
  <2>6. CASE handler' = [handler EXCEPT ![h].at = "sum", ![h].was = shift.expected]
    <3> DEFINE k == [handler[h] EXCEPT !.at = "sum", !.was = shift.expected]
    <3>1. k \in Handler /\ k.at # "stock"
      BY <2>1 DEF Handler, Steps, Typed
    <3>2. handler' = [handler EXCEPT ![h] = k]
      BY <2>6
    <3> HIDE DEF k
    <3> QED BY <1>1, <2>4, <3>1, <3>2
  <2>7. ASSUME NEW q, NEW a \in {"cash", "write"}, q \in SUBSET Rows,
               handler' = [handler EXCEPT ![h].at = a, ![h].seen = q]
        PROVE  handler'[h].at # "stock"
    <3> DEFINE k == [handler[h] EXCEPT !.at = a, !.seen = q]
    <3>1. k \in Handler /\ k.at # "stock"
      BY <2>1, <2>7 DEF Handler, Steps
    <3>2. handler' = [handler EXCEPT ![h] = k]
      BY <2>7
    <3> HIDE DEF k
    <3> QED BY <2>4, <3>1, <3>2
  <2>8. handler[h].seen \cup held \in SUBSET Rows
    BY <2>1 DEF Typed, Handler, Rows
  <2>9. handler' = [handler EXCEPT ![h].at = "write", ![h].seen = @ \cup held]
          => handler'[h].at # "stock"
    <3>1. ASSUME handler' = [handler EXCEPT ![h].at = "write", ![h].seen = @ \cup held]
          PROVE  handler' = [handler EXCEPT ![h].at = "write", ![h].seen = handler[h].seen \cup held]
      BY <3>1
    <3> QED BY <2>7, <2>8, <3>1
  <2> QED BY <1>1, <2>2, <2>3, <2>5, <2>6, <2>7, <2>9
<1> QED BY <1>1, <1>2, <1>3

LEMMA StockInsert ==
  ASSUME StockInv, NEW h \in Slots, InsertOrder(h), Others(h), NEW s \in Sales
  PROVE  TakenOf(s)' /\ RestoredOf(s)'
<1>1. /\ handler[h] # None /\ handler[h].job = "order" /\ handler[h].at = "insert"
      /\ UNCHANGED <<refunded, taken, restored>> /\ Typed /\ TakenOf(s) /\ RestoredOf(s)
  BY DEF InsertOrder, At, StockInv, HeldInv
<1>2. PICK x \in Sales : handler[h].rows = {x}
  BY <1>1 DEF StockInv, HeldInv, Shape
<1>3. CASE order[x] # "none"
  <2>1. Ends(h, "stored") /\ order' = order
    BY <1>1, <1>2, <1>3, SayEnds DEF InsertOrder, Conflict, Answers
  <2>2. ~Taking(h, s)' /\ \A kind \in Reversal : ~Restores(h, kind, s)'
    BY <2>1 DEF Ends, Goes, Gone, Taking, Restores
  <2> QED BY <1>1, <2>1, <2>2, StockCalm
<1>4. CASE order[x] = "none"
  <2>1. Goes(h, "stock", handler[h].then, handler[h].ans) /\ order' = [order EXCEPT ![x] = "completed"]
    BY <1>1, <1>2, <1>4, GoGoes DEF InsertOrder, Conflict, Steps
  <2>2. (\A kind \in Reversal : ~Restores(h, kind, s)') /\ (Taking(h, s)' => s = x)
    BY <1>1, <1>2, <2>1 DEF Goes, Taking, Restores
  <2>3. CASE s # x
    BY <1>1, <2>1, <2>2, <2>3, StockCalm DEF Typed
  <2>4. CASE s = x
    <3>1. order'[s] = "completed"
      BY <1>1, <2>1, <2>4 DEF Typed
    <3>2. taken[s] = 0 /\ \A g \in Slots : ~Taking(g, s)
      BY <1>1, <1>4, <2>4 DEF TakenOf
    <3>3. ASSUME NEW g \in Slots
          PROVE  (Taking(g, s)' => g = h)
                 /\ \A kind \in Reversal : Restores(g, kind, s)' => Restores(g, kind, s)
      BY <2>2, <3>2 DEF Others, Taking, Restores
    <3>4. \A kind \in Reversal : Stands(kind, s)' <=> Stands(kind, s)
      BY <1>1, <1>4, <2>4, <3>1 DEF Stands
    <3>5. RestoredOf(s)'
      BY <1>1, <3>3, <3>4, RestoredCalm
    <3> QED BY <1>1, <3>1, <3>2, <3>3, <3>5 DEF TakenOf
  <2> QED BY <2>3, <2>4
<1> QED BY <1>3, <1>4

LEMMA StockTake ==
  ASSUME StockInv, NEW h \in Slots, TakeStock(h), Others(h), NEW s \in Sales
  PROVE  TakenOf(s)' /\ RestoredOf(s)'
<1>1. /\ handler[h] # None /\ handler[h].job = "order" /\ handler[h].at = "stock"
      /\ UNCHANGED <<order, refunded, restored>> /\ Typed /\ TakenOf(s) /\ RestoredOf(s)
      /\ handler[h].then = "said"
  BY DEF TakeStock, At, StockInv, HeldInv, Shape
<1>2. PICK x \in Sales : handler[h].rows = {x}
  BY <1>1 DEF StockInv, HeldInv, Shape
<1>3. taken' = [taken EXCEPT ![x] = @ + 1] /\ Taking(h, x)
  BY <1>1, <1>2 DEF TakeStock, Taking
<1>4. Goes(h, "late", "said", handler[h].ans) \/ Ends(h, "stored")
  BY <1>1, SettleGoes, ReturnDoes DEF TakeStock, Steps
<1>5. ~Taking(h, s)' /\ \A kind \in Reversal : ~Restores(h, kind, s)'
  BY <1>1, <1>4 DEF Ends, Goes, Gone, Taking, Restores
<1>6. CASE s # x
  BY <1>1, <1>3, <1>5, <1>6, StockCalm DEF Typed
<1>7. CASE s = x
  <2>1. taken'[s] = 1 /\ order[s] # "none"
    BY <1>1, <1>3, <1>7 DEF Typed, TakenOf
  <2>2. ASSUME NEW g \in Slots
        PROVE  ~Taking(g, s)' /\ \A kind \in Reversal : Restores(g, kind, s)' => Restores(g, kind, s)
    <3>1. g # h => ~Taking(g, s)
      BY <1>1, <1>3, <1>7 DEF TakenOf
    <3> QED BY <1>5, <3>1 DEF Others, Taking, Restores
  <2>3. \A kind \in Reversal : Stands(kind, s)' <=> Stands(kind, s)
    BY <1>1 DEF Stands
  <2>4. RestoredOf(s)'
    BY <1>1, <2>2, <2>3, RestoredCalm
  <2> QED BY <1>1, <2>1, <2>2, <2>4 DEF TakenOf
<1> QED BY <1>6, <1>7

(* A claim lets the sale's stock be put back once more, by the request that *)
(* claimed it: the conditional update lets one void through, and one refund *)
(* of a sale that has none.                                                 *)
LEMMA StockClaim ==
  ASSUME StockInv, NEW h \in Slots, ClaimReversal(h), Others(h), NEW s \in Sales
  PROVE  TakenOf(s)' /\ RestoredOf(s)'
<1>1. /\ handler[h] # None /\ handler[h].job \in Reversal /\ handler[h].at = "claim"
      /\ UNCHANGED <<taken, restored>> /\ HeldInv /\ Typed /\ TakenOf(s) /\ RestoredOf(s)
  BY DEF ClaimReversal, At, StockInv, HeldInv, Reversal
<1>2. PICK x \in Sales : handler[h].rows = {x}
  BY <1>1 DEF HeldInv, Shape
<1>3. \/ /\ Goes(h, "back", handler[h].then, handler[h].ans)
         /\ order[x] = "completed" /\ (handler[h].job = "void" \/ x \notin refunded)
         /\ order' = IF handler[h].job = "void" THEN [order EXCEPT ![x] = "voided"] ELSE order
         /\ refunded' = IF handler[h].job = "refund" THEN refunded \cup {x} ELSE refunded
      \/ Ends(h, "done") /\ UNCHANGED <<order, refunded>>
  BY <1>1, <1>2, ReversalSteps DEF LookReversal, GiveBack, RestoreStock, At
<1>4. CASE Ends(h, "done") /\ UNCHANGED <<order, refunded>>
  <2>1. ~Taking(h, s)' /\ \A kind \in Reversal : ~Restores(h, kind, s)'
    BY <1>4 DEF Ends, Goes, Gone, Taking, Restores
  <2> QED BY <1>1, <1>4, <2>1, StockCalm
<1>5. CASE /\ Goes(h, "back", handler[h].then, handler[h].ans)
           /\ order[x] = "completed" /\ (handler[h].job = "void" \/ x \notin refunded)
           /\ order' = IF handler[h].job = "void" THEN [order EXCEPT ![x] = "voided"] ELSE order
           /\ refunded' = IF handler[h].job = "refund" THEN refunded \cup {x} ELSE refunded
  <2>1. /\ ~Taking(h, s)'
        /\ \A kind \in Reversal : Restores(h, kind, s)' => s = x /\ kind = handler[h].job
    BY <1>1, <1>2, <1>5 DEF Goes, Taking, Restores, Reversal
  <2>2. CASE s # x
    BY <1>1, <1>5, <2>1, <2>2, StockCalm DEF Typed
  <2>3. CASE s = x
    <3>0. PICK mine \in Reversal : mine = handler[h].job
      BY <1>1
    <3>1. ~Stands(mine, s)
      BY <1>1, <1>5, <2>3, <3>0 DEF Stands, Reversal
    <3>2. \A g \in Slots : ~Restores(g, mine, s)
      BY <1>1, <3>1 DEF RestoredOf
    <3>3. ASSUME NEW g \in Slots
          PROVE  /\ Taking(g, s)' => Taking(g, s)
                 /\ \A kind \in Reversal : Restores(g, kind, s)' =>
                        IF kind = mine THEN g = h ELSE Restores(g, kind, s)
      BY <2>1, <3>0, <3>2 DEF Others, Taking, Restores
    <3>4. /\ Stands(mine, s)' /\ order'[s] # "none"
          /\ \A kind \in Reversal : kind # mine => (Stands(kind, s)' <=> Stands(kind, s))
      <4>1. CASE mine = "void"
        <5>1. order'[s] = "voided" /\ refunded' = refunded
          BY <1>1, <1>5, <2>3, <3>0, <4>1 DEF Typed
        <5> QED BY <4>1, <5>1 DEF Stands, Reversal
      <4>2. CASE mine = "refund"
        <5>1. order' = order /\ s \in refunded'
          BY <1>1, <1>5, <2>3, <3>0, <4>2 DEF Typed
        <5> QED BY <1>5, <2>3, <4>2, <5>1 DEF Stands, Reversal
      <4> QED BY <1>1, <4>1, <4>2 DEF Reversal
    <3>5. TakenOf(s)'
      BY <1>1, <1>5, <2>3, <3>3, <3>4, TakenCalm
    <3>6. \A kind \in Reversal : kind # mine => (Restoring(kind, s)' => Restoring(kind, s))
      BY <3>3 DEF Restoring
    <3>7. restored'[s] + Once(Restoring("void", s)') + Once(Restoring("refund", s)')
            <= Once(Stands("void", s)') + Once(Stands("refund", s)')
      <4>1. ~Restoring(mine, s) /\ restored'[s] = restored[s] /\ restored[s] \in Nat
        BY <1>1, <3>2 DEF Restoring, Typed
      <4>2. CASE mine = "void"
        <5>1. /\ ~Restoring("void", s) /\ (Restoring("refund", s)' => Restoring("refund", s))
              /\ ~Stands("void", s) /\ Stands("void", s)' /\ (Stands("refund", s)' <=> Stands("refund", s))
          BY <3>1, <3>4, <3>6, <4>1, <4>2 DEF Reversal
        <5> QED BY <1>1, <4>1, <5>1 DEF RestoredOf, Once
      <4>3. CASE mine = "refund"
        <5>1. /\ ~Restoring("refund", s) /\ (Restoring("void", s)' => Restoring("void", s))
              /\ ~Stands("refund", s) /\ Stands("refund", s)' /\ (Stands("void", s)' <=> Stands("void", s))
          BY <3>1, <3>4, <3>6, <4>1, <4>3 DEF Reversal
        <5> QED BY <1>1, <4>1, <5>1 DEF RestoredOf, Once
      <4> QED BY <1>1, <4>2, <4>3 DEF Reversal
    <3>8. ASSUME NEW g \in Slots, NEW kind \in Reversal, Restores(g, kind, s)'
          PROVE  Stands(kind, s)'
      <4>1. CASE kind = mine
        BY <3>4, <4>1
      <4>2. CASE kind # mine
        <5>1. Stands(kind, s)
          BY <1>1, <3>3, <3>8, <4>2 DEF RestoredOf
        <5> QED BY <3>4, <4>2, <5>1
      <4> QED BY <4>1, <4>2
    <3>9. \A f, g \in Slots, kind \in Reversal : f # g => ~(Restores(f, kind, s)' /\ Restores(g, kind, s)')
      BY <1>1, <3>3 DEF RestoredOf
    <3> QED BY <3>5, <3>7, <3>8, <3>9 DEF RestoredOf, Once
  <2> QED BY <2>2, <2>3
<1> QED BY <1>3, <1>4, <1>5

LEMMA StockReversal ==
  ASSUME StockInv, NEW h \in Slots, LookReversal(h) \/ GiveBack(h) \/ RestoreStock(h),
         Others(h), NEW s \in Sales
  PROVE  TakenOf(s)' /\ RestoredOf(s)'
<1>1. /\ handler[h] # None /\ handler[h].job \in Reversal /\ HeldInv /\ Typed
      /\ TakenOf(s) /\ RestoredOf(s) /\ UNCHANGED taken
  BY DEF LookReversal, GiveBack, RestoreStock, At, StockInv, HeldInv, Reversal, cloud
<1>2. PICK x \in Sales : handler[h].rows = {x}
  BY <1>1 DEF HeldInv, Shape
<1>3. CASE LookReversal(h)
  <2>1. UNCHANGED <<order, refunded, restored>>
        /\ ((\E w : Ends(h, w)) \/ Goes(h, "claim", handler[h].then, handler[h].ans))
    BY <1>1, <1>2, <1>3, ReversalSteps DEF ClaimReversal, GiveBack, RestoreStock, LookReversal, At
  <2>2. ~Taking(h, s)' /\ \A kind \in Reversal : ~Restores(h, kind, s)'
    BY <2>1 DEF Ends, Goes, Gone, Taking, Restores
  <2> QED BY <1>1, <2>1, <2>2, StockCalm
<1>4. CASE GiveBack(h)
  <2>1. UNCHANGED <<order, refunded, restored>> /\ handler[h].at = "back"
        /\ Goes(h, "restore", handler[h].then, handler[h].ans)
    BY <1>1, <1>2, <1>4, ReversalSteps DEF ClaimReversal, LookReversal, RestoreStock, GiveBack, At
  <2>2. ~Taking(h, s)' /\ \A kind \in Reversal : Restores(h, kind, s)' => Restores(h, kind, s)
    BY <1>1, <2>1 DEF Goes, Taking, Restores
  <2> QED BY <1>1, <2>1, <2>2, StockCalm
<1>5. CASE RestoreStock(h)
  <2>1. /\ UNCHANGED <<order, refunded>> /\ handler[h].at = "restore"
        /\ restored' = [restored EXCEPT ![x] = @ + 1] /\ Ends(h, "done")
    BY <1>1, <1>2, <1>5, ReversalSteps DEF ClaimReversal, LookReversal, RestoreStock, GiveBack, At
  <2>2. /\ ~Taking(h, s)' /\ (\A kind \in Reversal : ~Restores(h, kind, s)')
        /\ Restores(h, handler[h].job, x)
    BY <1>1, <1>2, <2>1 DEF Ends, Goes, Gone, Taking, Restores
  <2>3. CASE s # x
    BY <1>1, <2>1, <2>2, <2>3, StockCalm DEF Typed
  <2>4. CASE s = x
    <3>0. PICK mine \in Reversal : mine = handler[h].job
      BY <1>1
    <3>1. restored'[s] = restored[s] + 1 /\ restored[s] \in Nat
      BY <1>1, <2>1, <2>4 DEF Typed
    <3>2. ASSUME NEW g \in Slots
          PROVE  /\ Taking(g, s)' => Taking(g, s)
                 /\ \A kind \in Reversal : Restores(g, kind, s)' => Restores(g, kind, s) /\ kind # mine
      <4>1. g # h => ~Restores(g, mine, s)
        BY <1>1, <2>2, <2>4, <3>0 DEF RestoredOf
      <4>2. CASE g = h
        BY <2>2, <4>2
      <4>3. CASE g # h
        BY <4>1, <4>3 DEF Others, Taking, Restores
      <4> QED BY <4>2, <4>3
    <3>3. \A kind \in Reversal : Stands(kind, s)' <=> Stands(kind, s)
      BY <2>1 DEF Stands
    <3>4. /\ Restoring(mine, s) /\ ~Restoring(mine, s)'
          /\ \A kind \in Reversal : Restoring(kind, s)' => Restoring(kind, s)
      <4>1. Restoring(mine, s)
        BY <2>2, <2>4, <3>0 DEF Restoring
      <4>2. ~Restoring(mine, s)'
        BY <1>1, <3>2 DEF Restoring
      <4> QED BY <3>2, <4>1, <4>2 DEF Restoring
    <3>5. restored'[s] + Once(Restoring("void", s)') + Once(Restoring("refund", s)')
            <= Once(Stands("void", s)') + Once(Stands("refund", s)')
      <4>1. CASE mine = "void"
        <5>1. /\ Restoring("void", s) /\ ~Restoring("void", s)'
              /\ Restoring("refund", s)' => Restoring("refund", s)
              /\ Stands("void", s)' <=> Stands("void", s)
              /\ Stands("refund", s)' <=> Stands("refund", s)
          BY <3>3, <3>4, <4>1 DEF Reversal
        <5> QED BY <1>1, <3>1, <5>1 DEF RestoredOf, Once
      <4>2. CASE mine = "refund"
        <5>1. /\ Restoring("refund", s) /\ ~Restoring("refund", s)'
              /\ Restoring("void", s)' => Restoring("void", s)
              /\ Stands("void", s)' <=> Stands("void", s)
              /\ Stands("refund", s)' <=> Stands("refund", s)
          BY <3>3, <3>4, <4>2 DEF Reversal
        <5> QED BY <1>1, <3>1, <5>1 DEF RestoredOf, Once
      <4> QED BY <4>1, <4>2 DEF Reversal
    <3>6. RestoredOf(s)'
      BY <1>1, <3>2, <3>3, <3>5 DEF RestoredOf, Once
    <3> QED BY <1>1, <2>1, <3>2, <3>6, TakenCalm
  <2> QED BY <2>3, <2>4
<1> QED BY <1>3, <1>4, <1>5

LEMMA StockCloud ==
  ASSUME StockInv, NEW h \in Slots, CloudStep(h), NEW s \in Sales
  PROVE  TakenOf(s)' /\ RestoredOf(s)'
<1>1. /\ Others(h) /\ HeldInv /\ Typed /\ TakenOf(s) /\ RestoredOf(s) /\ handler[h] # None
      /\ handler'[h] # None => handler'[h].job = handler[h].job
  BY CloudStepDoes DEF CloudDoes, StockInv, HeldInv
<1>2. CASE ~InsertOrder(h) /\ ~TakeStock(h)
           /\ ~(LookReversal(h) \/ ClaimReversal(h) \/ GiveBack(h) \/ RestoreStock(h))
  <2>1. ~Taking(h, s)' /\ \A kind \in Reversal : ~Restores(h, kind, s)'
    BY <1>1, <1>2, OrderSteps, OtherSteps DEF Taking, Restores
  <2> QED BY <1>1, <1>2, <2>1, OrderSteps, StockCalm
<1> QED BY <1>1, <1>2, StockInsert, StockTake, StockClaim, StockReversal

LEMMA StockSends ==
  ASSUME StockInv, NEW h \in Slots, Sends(h), NEW s \in Sales
  PROVE  TakenOf(s)' /\ RestoredOf(s)'
<1>1. /\ Others(h) /\ handler'[h].at \in {"look", "drawer"} /\ Typed /\ TakenOf(s) /\ RestoredOf(s)
      /\ UNCHANGED <<order, taken, restored, refunded>>
  BY SendsDoes DEF StockInv, HeldInv, CloudData
<1>2. ~Taking(h, s)' /\ \A kind \in Reversal : ~Restores(h, kind, s)'
  BY <1>1 DEF Taking, Restores
<1> QED BY <1>1, <1>2, StockCalm

(* A request that ends leaves the sale to the others; a refund that is      *)
(* undone takes its own part away, which it had not put back yet.           *)
LEMMA StockQuits ==
  ASSUME StockInv, Quits, NEW s \in Sales
  PROVE  TakenOf(s)' /\ RestoredOf(s)'
<1>1. /\ UNCHANGED <<order, taken, restored>> /\ refunded' \subseteq refunded
      /\ TakenOf(s) /\ RestoredOf(s) /\ Typed
      /\ refunded' = refunded \/ \E h \in Slots : UndoRefund(h)
      /\ \A g \in Slots : handler'[g] = None \/ handler'[g] = handler[g]
  BY QuitsDoes DEF StockInv, HeldInv, CloudData
<1>2. ASSUME NEW g \in Slots
      PROVE  (Taking(g, s)' => Taking(g, s))
             /\ \A kind \in Reversal : Restores(g, kind, s)' => Restores(g, kind, s)
  BY <1>1 DEF Taking, Restores
<1>3. TakenOf(s)'
  BY <1>1, <1>2, TakenCalm
<1>4. CASE s \in refunded' \/ s \notin refunded
  <2>1. \A kind \in Reversal : Stands(kind, s)' <=> Stands(kind, s)
    BY <1>1, <1>4 DEF Stands
  <2> QED BY <1>1, <1>2, <1>3, <2>1, RestoredCalm
<1>5. CASE s \in refunded /\ s \notin refunded'
  <2>1. PICK h \in Slots : UndoRefund(h)
    BY <1>1, <1>5
  <2>2. Restores(h, "refund", s) /\ handler' = [handler EXCEPT ![h] = None]
    BY <1>5, <2>1 DEF UndoRefund, Restores
  <2>3. Restoring("refund", s) /\ \A g \in Slots : ~Restores(g, "refund", s)'
    <3>1. ~Restores(h, "refund", s)'
      BY <1>1, <2>2 DEF Restores, Typed
    <3>2. \A g \in Slots : g # h => ~Restores(g, "refund", s)
      BY <1>1, <2>2 DEF RestoredOf, Reversal
    <3> QED BY <1>2, <2>2, <3>1, <3>2 DEF Restoring, Reversal
  <2>4. ~Restoring("refund", s)' /\ (Restoring("void", s)' => Restoring("void", s))
    BY <1>2, <2>3 DEF Restoring, Reversal
  <2>5. /\ Stands("refund", s) /\ ~Stands("refund", s)'
        /\ Stands("void", s)' <=> Stands("void", s)
    BY <1>1, <1>5 DEF Stands
  <2>6. restored[s] \in Nat
    BY <1>1 DEF Typed
  <2>7. restored'[s] + Once(Restoring("void", s)') + Once(Restoring("refund", s)')
            <= Once(Stands("void", s)') + Once(Stands("refund", s)')
    BY <1>1, <2>3, <2>4, <2>5, <2>6 DEF RestoredOf, Once
  <2>8. \A g \in Slots, kind \in Reversal : Restores(g, kind, s)' => Stands(kind, s)'
    BY <1>1, <1>2, <2>3, <2>5 DEF RestoredOf, Reversal
  <2> QED BY <1>1, <1>2, <1>3, <2>7, <2>8 DEF RestoredOf, Once
<1> QED BY <1>4, <1>5

LEMMA StockStep ==
  ASSUME StockInv, [Next]_vars
  PROVE  StockInv'
<1>1. HeldInv'
  BY HeldStep DEF StockInv
<1>2. ASSUME NEW s \in Sales PROVE TakenOf(s)' /\ RestoredOf(s)'
  BY StepKinds, StockCloud, StockSends, StockQuits
<1> QED BY <1>1, <1>2 DEF StockInv

LEMMA StockInit == Init => StockInv
<1> SUFFICES ASSUME Init, NEW s \in Sales PROVE TakenOf(s) /\ RestoredOf(s)
  BY HeldInit DEF StockInv
<1>1. \A h \in Slots : ~Taking(h, s) /\ \A kind \in Reversal : ~Restores(h, kind, s)
  BY DEF Init, Taking, Restores
<1>2. ~Restoring("void", s) /\ ~Restoring("refund", s) /\ ~Stands("void", s) /\ ~Stands("refund", s)
  BY <1>1 DEF Init, Restoring, Stands, Reversal
<1>3. restored[s] = 0 /\ taken[s] = 0
  BY DEF Init
<1> QED BY <1>1, <1>2, <1>3 DEF TakenOf, RestoredOf, Once

(* The stock of a sale is taken at most once, and put back at most once for *)
(* a void and once for a refund that stands, though the sale has two        *)
(* senders that may each send it, its void and its refund again             *)
(* (create_order_atomic, the conditional updates of a void and a refund).   *)
THEOREM StockIsMovedOnce == Spec => []StockMovesOnce
<1>1. StockInv => StockMovesOnce
  <2> SUFFICES ASSUME StockInv, NEW s \in Sales
               PROVE  /\ taken[s] <= 1
                      /\ restored[s] <= Once(order[s] = "voided") + Once(s \in refunded)
    BY DEF StockMovesOnce
  <2>1. restored[s] \in Nat /\ TakenOf(s) /\ RestoredOf(s)
    BY DEF StockInv, HeldInv, Typed
  <2> QED BY <2>1 DEF TakenOf, RestoredOf, Once, Stands
<1>2. StockInv /\ [Next]_vars => StockInv'
  BY StockStep
<1> QED BY <1>1, <1>2, StockInit, PTL DEF Spec

-----------------------------------------------------------------------------
(***************************************************************************)
(* The figures of a drawer: what the cloud has stored as its expected cash *)
(* is, when all is answered, the sum of the rows the till counts           *)
(* (DrawerPush!FiguresAgree).                                              *)
(*                                                                         *)
(* While no request ran beside the close, at most one handler is busy from *)
(* the close's arrival on.  So what a close or a settling request summed   *)
(* cannot have changed when it writes, and the stored figure is exact      *)
(* whenever no request that must still settle it is on its way.            *)
(***************************************************************************)

Busy(h) == handler[h] # None /\ handler[h].at # "said"

(* The figure A is right in the drawer's sales and the money given back,   *)
(* and in its cash rows; but for sales voided or refunded too late.        *)
SalesRight(A) ==
    \A s \in Sales \ LateRev :
        /\ s \in A <=> order[s] = "completed"
        /\ Back(s) \in A <=> order[s] = "completed" /\ back[s] > 0
CashRight(A) == \A c \in Cash : c \in A <=> c \in held
Right(A) == SalesRight(A) /\ CashRight(A)

(* A request that has still to put the closed drawer's figure right.       *)
Unsettled(h) ==
    handler[h] # None /\ \/ handler[h].job = "order" /\ handler[h].at \in {"stock"} \cup Settling
                         \/ handler[h].job = "push" /\ handler[h].at \in {"spent"} \cup Settling

(* What a busy request knows: that it is late, whose sale is reversed late,*)
(* and what it summed.                                                     *)
Knows(h) ==
    LET k == handler[h] IN k # None =>
      /\ \/ k.job = "order" /\ k.at \in {"insert", "stock"}
         \/ k.job = "push" /\ k.at = "upsert"
         => (shift.st \in Ended => k.late)
      /\ k.job \in Reversal /\ k.at # "said" /\ shift.st \in Ended => k.rows \subseteq LateRev
      /\ k.at = "cash" => SalesRight(k.seen) /\ k.seen \cap Cash = {}
      /\ k.at = "write" => Right(k.seen)
      /\ k.at \in {"sum", "cash", "write"} /\ k.job \in {"order", "push"} /\ shift.st \in Ended
            => k.was = shift.expected
Exact ==
    shift.st \in Ended => Right(shift.expected) \/ \E h \in Slots : Unsettled(h)
Figures ==
    ~overlapped /\ Closing =>
      /\ \A g, h \in Slots : Busy(g) /\ Busy(h) => g = h
      /\ \A h \in Slots : Knows(h)
      /\ Exact

(* The money of a sale is given back by the request that claimed it.       *)
BackOf(s) ==
    /\ back[s] \in Nat
    /\ order[s] = "none" => back[s] = 0 /\ s \notin refunded
    /\ order[s] = "completed" /\ back[s] > 0 => s \in refunded
    /\ order[s] = "completed" => \A h \in Slots : Undoable(h, s) => back[s] = 0
    /\ ~overlapped /\ order[s] = "completed" /\ s \in refunded
         => back[s] > 0 \/ \E h \in Slots : Undoable(h, s)

(* The cloud has only what the till made.                                  *)
MadeFirst ==
    /\ \A s \in Sales : order[s] # "none" \/ relay[s] # "none" => sale[s] # "none"
    /\ \A c \in held : cash[c] # "none"
    /\ \A h \in Slots : handler[h] # None =>
         /\ handler[h].job = "order" => \A s \in handler[h].rows : sale[s] # "none"
         /\ handler[h].job = "push" => \A c \in handler[h].rows : cash[c] # "none"

(* Whoever closed the drawer is known, and the till closed it when its     *)
(* voids and refunds were there.                                           *)
ClosedKnown ==
    /\ shift.st \in Ended <=> shift.by # "none"
    /\ shift.by = "till" => \A s \in Sales : WaitedFor(s) => rev[s].sync = "synced"

FigInv ==
    /\ RevInv /\ ClosedKnown /\ MadeFirst /\ Figures
    /\ back \in [Sales -> Nat] /\ relay \in [Sales -> {"none", "queued", "done"}]
    /\ \A s \in Sales : BackOf(s)

-----------------------------------------------------------------------------
(* What a handler keeps of what it read, as it goes on.                    *)
Keeps(h, l, v, w) ==
    handler'[h].late = l /\ handler'[h].seen = v /\ handler'[h].was = w

LEMMA GoKeeps ==
  ASSUME Typed, NEW h \in Slots, handler[h] # None, NEW a \in Steps, Go(h, a)
  PROVE  /\ Goes(h, a, handler[h].then, handler[h].ans)
         /\ Keeps(h, handler[h].late, handler[h].seen, handler[h].was)
<1> DEFINE k == [handler[h] EXCEPT !.at = a]
<1>1. handler[h] \in Handler
  BY DEF Typed
<1>2. k.late = handler[h].late /\ k.seen = handler[h].seen /\ k.was = handler[h].was
  BY <1>1 DEF Handler
<1>3. handler' = [handler EXCEPT ![h] = k]
  BY DEF Go
<1>4. handler'[h] = k
  BY <1>3 DEF Typed
<1> HIDE DEF k
<1> QED BY <1>2, <1>4, GoGoes DEF Keeps

(* A step that notes what it read.                                         *)
LEMMA NoteKeeps ==
  ASSUME Typed, NEW h \in Slots, handler[h] # None, NEW a \in Steps,
         NEW l \in BOOLEAN, NEW v \in SUBSET Rows, NEW w \in SUBSET Rows,
         handler' = [handler EXCEPT ![h] = [handler[h] EXCEPT !.at = a, !.late = l,
                                                            !.seen = v, !.was = w]]
  PROVE  /\ Goes(h, a, handler[h].then, handler[h].ans)
         /\ Keeps(h, l, v, w)
<1> DEFINE k == [handler[h] EXCEPT !.at = a, !.late = l, !.seen = v, !.was = w]
<1>1. handler[h] \in Handler
  BY DEF Typed
<1>2. k.late = l /\ k.seen = v /\ k.was = w
  BY <1>1 DEF Handler
<1>4. handler'[h] = k
  BY DEF Typed
<1> HIDE DEF k
<1> QED BY <1>2, <1>4, NoteGoes DEF Keeps

(* Sales voided or refunded too late only become more.                     *)
LEMMA LateStays ==
  ASSUME FigInv, [Next]_vars
  PROVE  LateRev \subseteq LateRev'
<1>a. HeldInv /\ RevInv /\ ClosedKnown
  BY DEF FigInv, RevInv
<1>1. CASE Quits
  <2>1. lateRev \subseteq lateRev' /\ shift' = shift
    BY <1>a, <1>1, QuitsDoes DEF CloudData
  <2>2. \A s \in Sales : rev[s] # NoRev => rev'[s] # NoRev
    BY <1>a, <1>1, RevRows
  <2> QED BY <2>1, <2>2 DEF LateRev
<1>2. ASSUME NEW h \in Slots, Sends(h) PROVE LateRev \subseteq LateRev'
  BY <1>a, <1>2, SendsDoes DEF LateRev, CloudData
<1>3. ASSUME NEW h \in Slots, CloudStep(h) PROVE LateRev \subseteq LateRev'
  <2>1. UNCHANGED <<rev, lateRev>>
    BY <1>a, <1>3, CloudStepDoes DEF CloudDoes, TillSame
  <2>2. shift.by = "web" => shift'.by = "web"
    <3>1. CASE ~LookClose(h) /\ ~WriteClose(h)
      BY <1>a, <1>3, <3>1, CloseSteps
    <3>2. CASE LookClose(h)
      BY <1>a, <3>2, LookCloseEnds DEF HeldInv, Typed
    <3>3. CASE WriteClose(h)
      BY <1>a, <3>3, WriteCloseEnds DEF ClosedKnown, Ended
    <3> QED BY <3>1, <3>2, <3>3
  <2> QED BY <2>1, <2>2 DEF LateRev
<1> QED BY <1>1, <1>2, <1>3, StepKinds

(* A figure stays right while no row it depends on changes.                *)
LEMMA RightStays ==
  ASSUME LateRev \subseteq LateRev', held' = held,
         \A s \in Sales \ LateRev' : order'[s] = order[s] /\ back'[s] = back[s],
         NEW A
  PROVE  (Right(A) => Right(A)') /\ (SalesRight(A) => SalesRight(A)')
  BY DEF Right, SalesRight, CashRight

-----------------------------------------------------------------------------
(* One step of the only busy handler, after the close has arrived.         *)
After(h) ==
    /\ Knows(h)'
    /\ shift'.st \in Ended => Right(shift.expected)' \/ Unsettled(h)'
Watched(h) ==
    /\ FigInv /\ ~overlapped /\ Closing /\ LateRev \subseteq LateRev'
    /\ CloudStep(h)

LEMMA Before ==
  ASSUME NEW h \in Slots, Watched(h)
  PROVE  /\ HeldInv /\ HeldInv' /\ Typed /\ Shape(h) /\ Told(h) /\ Knows(h)
         /\ CloudDoes(h)
         /\ Busy(h) /\ \A g \in Slots : Busy(g) => g = h
         /\ shift.st \in Ended => Right(shift.expected) \/ Unsettled(h)
<1>1. FigInv /\ HeldInv /\ Typed /\ Shape(h) /\ Told(h) /\ Knows(h) /\ Figures
      /\ ~overlapped /\ Closing /\ CloudStep(h)
  BY DEF Watched, FigInv, RevInv, HeldInv, Figures
<1>2. Busy(h)
  BY <1>1 DEF CloudStep, LookOrder, InsertOrder, TakeStock, StoreDrawer, ReadForFloats, StoreFloats,
         StoreExpenses, ReadForExpenses, ReadLateDrawer, SumSales, SumCash, WriteLate, LookClose, WriteClose,
         LookReversal, ClaimReversal, GiveBack, RestoreStock, At, Busy
<1>3. \A g \in Slots : Busy(g) => g = h
  BY <1>1, <1>2 DEF Figures
<1>4. \A g \in Slots : Unsettled(g) => g = h
  BY <1>3 DEF Unsettled, Busy, Settling
<1> QED BY <1>1, <1>2, <1>3, <1>4, HeldCloud, CloudStepDoes DEF Figures, Exact

LEMMA EndsAfter ==
  ASSUME NEW h \in Slots, NEW w, Ends(h, w), shift'.st \in Ended => Right(shift.expected)'
  PROVE  After(h)
  BY DEF After, Knows, Ends, Goes, Gone

LEMMA LookOrderAfter ==
  ASSUME NEW h \in Slots, Watched(h), LookOrder(h)
  PROVE  After(h)
<1>a. Typed /\ Shape(h) /\ Busy(h) /\ (shift.st \in Ended => Right(shift.expected) \/ Unsettled(h))
  BY Before
<1>1. /\ handler[h].job = "order" /\ handler[h].at = "look" /\ handler[h] # None
      /\ UNCHANGED cloud /\ LateRev \subseteq LateRev'
  BY DEF LookOrder, At, Watched
<1>2. shift'.st \in Ended => Right(shift.expected)'
  <2>1. ~Unsettled(h)
    BY <1>1 DEF Unsettled, Settling
  <2> QED BY <1>a, <1>1, <2>1, RightStays DEF cloud
<1>3. PICK s \in handler[h].rows :
         \/ \E w \in {"stored", "nodrawer", "refused"} : Say(h, w)
         \/ handler' = [handler EXCEPT ![h].at = "insert", ![h].late = ~IsOpen]
  BY DEF LookOrder
<1>4. CASE \E w \in {"stored", "nodrawer", "refused"} : Say(h, w)
  BY <1>a, <1>1, <1>2, <1>4, SayEnds, EndsAfter DEF Answers
<1>5. CASE handler' = [handler EXCEPT ![h].at = "insert", ![h].late = ~IsOpen]
  <2>1. handler[h] \in Handler
    BY <1>a, <1>1 DEF Typed
  <2>2. handler' = [handler EXCEPT ![h] = [handler[h] EXCEPT !.at = "insert", !.late = ~IsOpen,
                                              !.seen = handler[h].seen, !.was = handler[h].was]]
    BY <1>a, <1>5, <2>1, ZenonT(60) DEF Handler, Typed
  <2>3. Goes(h, "insert", handler[h].then, handler[h].ans)
        /\ Keeps(h, ~IsOpen, handler[h].seen, handler[h].was)
    BY <1>a, <1>1, <2>1, <2>2, NoteKeeps DEF Handler, Steps, IsOpen
  <2> QED BY <1>1, <1>2, <2>3 DEF After, Knows, Goes, Keeps, IsOpen, Ended, cloud, Reversal
<1> QED BY <1>3, <1>4, <1>5

LEMMA InsertOrderAfter ==
  ASSUME NEW h \in Slots, Watched(h), InsertOrder(h)
  PROVE  After(h)
<1>a. Typed /\ Shape(h) /\ Busy(h) /\ Knows(h)
      /\ (shift.st \in Ended => Right(shift.expected) \/ Unsettled(h))
  BY Before
<1>1. /\ handler[h].job = "order" /\ handler[h].at = "insert" /\ handler[h] # None
      /\ shift' = shift /\ back' = back /\ held' = held /\ LateRev \subseteq LateRev'
  BY DEF InsertOrder, At, Watched
<1>2. CASE Say(h, "stored") /\ order' = order
  <2>1. ~Unsettled(h)
    BY <1>1 DEF Unsettled, Settling
  <2>2. shift'.st \in Ended => Right(shift.expected)'
    BY <1>a, <1>1, <1>2, <2>1, RightStays
  <2> QED BY <1>a, <1>1, <1>2, <2>2, SayEnds, EndsAfter DEF Answers
<1>3. CASE Go(h, "stock")
  <2>1. Goes(h, "stock", handler[h].then, handler[h].ans)
        /\ Keeps(h, handler[h].late, handler[h].seen, handler[h].was)
    BY <1>a, <1>1, <1>3, GoKeeps DEF Steps
  <2> QED BY <1>a, <1>1, <2>1 DEF After, Knows, Goes, Keeps, Unsettled, Reversal
<1> QED BY <1>2, <1>3 DEF InsertOrder

LEMMA SettlesAfter ==
  ASSUME NEW h \in Slots, handler[h] # None, handler[h].job \in {"order", "push"},
         NEW t, NEW w, Goes(h, "late", t, w)
  PROVE  After(h)
  BY DEF After, Knows, Goes, Unsettled, Settling, Reversal

LEMMA TakeStockAfter ==
  ASSUME NEW h \in Slots, Watched(h), TakeStock(h)
  PROVE  After(h)
<1>a. Typed /\ Shape(h) /\ Busy(h) /\ Knows(h)
  BY Before
<1>1. /\ handler[h].job = "order" /\ handler[h].at = "stock" /\ handler[h] # None
      /\ shift' = shift
  BY DEF TakeStock, At
<1>2. CASE handler[h].late
  BY <1>a, <1>1, <1>2, SettleGoes, SettlesAfter DEF TakeStock, LateSale, Steps
<1>3. CASE ~handler[h].late
  <2>1. shift'.st \notin Ended
    BY <1>a, <1>1, <1>3 DEF Knows
  <2>2. Ends(h, "stored")
    BY <1>a, <1>1, <1>3, ReturnDoes DEF TakeStock, LateSale, Steps
  <2> QED BY <2>1, <2>2, EndsAfter
<1> QED BY <1>2, <1>3

(* A request that goes on where nothing has to be known.                   *)
LEMMA ReturnsAfter ==
  ASSUME NEW h \in Slots, Typed, handler[h] # None, handler[h].job \in {"order", "push"},
         NEW a \in {"floats", "spend", "said"}, Return(h, a),
         shift'.st \in Ended => Right(shift.expected)'
  PROVE  After(h)
<1>1. CASE a = "said"
  BY <1>1, ReturnDoes, EndsAfter DEF Steps
<1>2. CASE a # "said"
  <2>1. Goes(h, a, handler[h].then, handler[h].ans)
    BY <1>2, ReturnDoes DEF Steps
  <2> QED BY <1>2, <2>1 DEF After, Knows, Goes, Reversal
<1> QED BY <1>1, <1>2

LEMMA StoreDrawerAfter ==
  ASSUME NEW h \in Slots, Watched(h), StoreDrawer(h)
  PROVE  After(h)
<1>a. Typed /\ (shift.st \in Ended => Right(shift.expected) \/ Unsettled(h))
  BY Before
<1>1. /\ handler[h].job = "push" /\ handler[h].at = "drawer" /\ handler[h] # None
      /\ shift' = (IF shift.st = "none" THEN [shift EXCEPT !.st = "open"] ELSE shift)
      /\ UNCHANGED <<order, back, held>> /\ LateRev \subseteq LateRev'
  BY DEF StoreDrawer, At, Watched
<1>2. (shift'.st \in Ended => shift.st \in Ended) /\ shift'.expected = shift.expected
  BY <1>a, <1>1 DEF Typed, Ended
<1>3. ~Unsettled(h)
  BY <1>1 DEF Unsettled, Settling
<1>4. shift'.st \in Ended => Right(shift.expected)'
  <2>1. ASSUME NEW A, Right(A) PROVE Right(A)'
    BY <1>1, <2>1, RightStays
  <2>2. PICK A : A = shift.expected
    OBVIOUS
  <2>3. Right(A)' => Right(shift.expected)'
    BY <1>2, <2>2 DEF Right, SalesRight, CashRight
  <2> QED BY <1>a, <1>2, <1>3, <2>1, <2>2, <2>3
<1>5. PICK a \in {"floats", "spend", "said"} : Return(h, a)
  BY DEF StoreDrawer, SpendArm
<1> QED BY <1>a, <1>1, <1>4, <1>5, ReturnsAfter

LEMMA ReadForFloatsAfter ==
  ASSUME NEW h \in Slots, Watched(h), ReadForFloats(h)
  PROVE  After(h)
<1>a. Typed /\ (shift.st \in Ended => Right(shift.expected) \/ Unsettled(h))
  BY Before
<1>1. /\ handler[h].job = "push" /\ handler[h].at = "floats" /\ handler[h] # None
      /\ UNCHANGED cloud /\ LateRev \subseteq LateRev'
      /\ handler' = [handler EXCEPT ![h].at = "upsert", ![h].late = ~IsOpen]
  BY DEF ReadForFloats, At, Watched
<1>2. ~Unsettled(h)
  BY <1>1 DEF Unsettled, Settling
<1>3. shift'.st \in Ended => Right(shift.expected)'
  BY <1>a, <1>1, <1>2, RightStays DEF cloud
<1>4. handler[h] \in Handler
  BY <1>a, <1>1 DEF Typed
<1>5. handler' = [handler EXCEPT ![h] = [handler[h] EXCEPT !.at = "upsert", !.late = ~IsOpen,
                                            !.seen = handler[h].seen, !.was = handler[h].was]]
  <2>1. h \in DOMAIN handler
    BY <1>a DEF Typed
  <2>2. handler' = [handler EXCEPT ![h] = [handler[h] EXCEPT !.at = "upsert", !.late = ~IsOpen]]
    BY <1>1, <2>1
  <2>3. [handler[h] EXCEPT !.at = "upsert", !.late = ~IsOpen]
          = [handler[h] EXCEPT !.at = "upsert", !.late = ~IsOpen,
                               !.seen = handler[h].seen, !.was = handler[h].was]
    BY <1>4 DEF Handler
  <2> QED BY <2>2, <2>3
<1>6. Goes(h, "upsert", handler[h].then, handler[h].ans)
      /\ Keeps(h, ~IsOpen, handler[h].seen, handler[h].was)
  BY <1>a, <1>1, <1>4, <1>5, NoteKeeps DEF Handler, Steps, IsOpen
<1> QED BY <1>1, <1>3, <1>6 DEF After, Knows, Goes, Keeps, IsOpen, Ended, cloud, Reversal

LEMMA StoreFloatsAfter ==
  ASSUME NEW h \in Slots, Watched(h), StoreFloats(h)
  PROVE  After(h)
<1>a. Typed /\ Knows(h)
  BY Before
<1>1. /\ handler[h].job = "push" /\ handler[h].at = "upsert" /\ handler[h] # None /\ shift' = shift
      /\ IF handler[h].late THEN Settle(h, SpendArm(h)) ELSE Return(h, SpendArm(h))
  BY DEF StoreFloats, At
<1>2. SpendArm(h) \in {"spend", "said"}
  BY DEF SpendArm
<1>3. CASE handler[h].late
  BY <1>a, <1>1, <1>2, <1>3, SettleGoes, SettlesAfter DEF Steps
<1>4. CASE ~handler[h].late
  <2>1. shift'.st \notin Ended
    BY <1>a, <1>1, <1>4 DEF Knows
  <2> QED BY <1>a, <1>1, <1>2, <1>4, <2>1, ReturnsAfter
<1> QED BY <1>3, <1>4

LEMMA StoreExpensesAfter ==
  ASSUME NEW h \in Slots, Watched(h), StoreExpenses(h)
  PROVE  After(h)
<1>1. /\ handler[h].job = "push" /\ handler[h] # None /\ Go(h, "spent")
  BY DEF StoreExpenses, At
<1>2. Goes(h, "spent", handler[h].then, handler[h].ans)
  BY <1>1, Before, GoGoes DEF Steps
<1> QED BY <1>1, <1>2 DEF After, Knows, Goes, Unsettled, Reversal

LEMMA ReadForExpensesAfter ==
  ASSUME NEW h \in Slots, Watched(h), ReadForExpenses(h)
  PROVE  After(h)
<1>1. /\ handler[h].job = "push" /\ handler[h] # None /\ shift' = shift
      /\ IF IsOpen THEN Return(h, "said") ELSE Settle(h, "said")
  BY DEF ReadForExpenses, At, cloud
<1>2. CASE IsOpen
  BY <1>1, <1>2, Before, ReturnsAfter DEF IsOpen, Ended
<1>3. CASE ~IsOpen
  BY <1>1, <1>3, Before, SettleGoes, SettlesAfter DEF Steps
<1> QED BY <1>2, <1>3

LEMMA ReadLateDrawerAfter ==
  ASSUME NEW h \in Slots, Watched(h), ReadLateDrawer(h)
  PROVE  After(h)
<1>a. Typed /\ Shape(h)
  BY Before
<1>1. /\ handler[h].job \in {"order", "push"} /\ handler[h].at = "late" /\ handler[h] # None
      /\ shift' = shift
      /\ IF IsOpen THEN Return(h, handler[h].then)
         ELSE handler' = [handler EXCEPT ![h].at = "sum", ![h].was = shift.expected]
  BY DEF ReadLateDrawer, At, cloud
<1>2. CASE IsOpen
  <2>1. handler[h].then \in {"floats", "spend", "said"}
    BY <1>a, <1>1 DEF Shape
  <2> QED BY <1>a, <1>1, <1>2, <2>1, ReturnsAfter DEF IsOpen, Ended
<1>3. CASE ~IsOpen
  <2>1. handler[h] \in Handler /\ shift.expected \in SUBSET Rows
    BY <1>a, <1>1 DEF Typed
  <2>2. handler' = [handler EXCEPT ![h] = [handler[h] EXCEPT !.at = "sum", !.late = handler[h].late,
                                              !.seen = handler[h].seen, !.was = shift.expected]]
    <3>1. [handler[h] EXCEPT !.at = "sum", !.was = shift.expected]
            = [handler[h] EXCEPT !.at = "sum", !.late = handler[h].late,
                                 !.seen = handler[h].seen, !.was = shift.expected]
      BY <2>1 DEF Handler
    <3>2. handler' = [handler EXCEPT ![h] = [handler[h] EXCEPT !.at = "sum", !.was = shift.expected]]
      BY <1>1, <1>3
    <3> QED BY <3>1, <3>2
  <2>3. Goes(h, "sum", handler[h].then, handler[h].ans)
        /\ Keeps(h, handler[h].late, handler[h].seen, shift.expected)
    BY <1>a, <1>1, <2>1, <2>2, NoteKeeps DEF Handler, Steps
  <2> QED BY <1>1, <2>3 DEF After, Knows, Goes, Keeps, Unsettled, Settling, Reversal
<1> QED BY <1>2, <1>3

LEMMA BackIsOfOne ==
  ASSUME NEW s, NEW x, Back(s) = Back(x)
  PROVE  s = x
  BY DEF Back

(* The sum of the drawer's sales.                                          *)
LEMMA SumIsRight ==
  ASSUME Typed
  PROVE  LET sold == {s \in Sales : order[s] = "completed"}
             sum  == sold \cup {Back(s) : s \in {x \in sold : back[x] > 0}}
         IN  SalesRight(sum) /\ sum \cap Cash = {} /\ sum \in SUBSET Rows
<1> DEFINE sold == {s \in Sales : order[s] = "completed"}
           given == {Back(s) : s \in {x \in sold : back[x] > 0}}
<1>1. \A s \in Sales : s \in sold <=> order[s] = "completed"
  OBVIOUS
<1>2. \A s \in Sales : Back(s) \in given <=> order[s] = "completed" /\ back[s] > 0
  BY BackIsOfOne
<1>3. sold \subseteq Sales /\ given \subseteq {Back(s) : s \in Sales}
  OBVIOUS
<1> HIDE DEF sold, given
<1>4. \A s \in Sales : s \notin given /\ Back(s) \notin sold
  BY <1>3, SetsAssumption
<1>5. SalesRight(sold \cup given)
  BY <1>1, <1>2, <1>4 DEF SalesRight
<1>6. (sold \cup given) \cap Cash = {} /\ sold \cup given \in SUBSET Rows
  BY <1>3, SetsAssumption DEF Rows
<1> QED BY <1>5, <1>6 DEF sold, given

LEMMA SumSalesAfter ==
  ASSUME NEW h \in Slots, Watched(h), SumSales(h)
  PROVE  After(h)
<1>a. Typed /\ Shape(h) /\ Knows(h)
      /\ (shift.st \in Ended => Right(shift.expected) \/ Unsettled(h))
  BY Before
<1> DEFINE sold == {s \in Sales : order[s] = "completed"}
           sum  == sold \cup {Back(s) : s \in {x \in sold : back[x] > 0}}
<1>1. /\ handler[h].job \in {"order", "push"} \cup Closes /\ handler[h].at = "sum" /\ handler[h] # None
      /\ UNCHANGED cloud /\ LateRev \subseteq LateRev'
      /\ handler' = [handler EXCEPT ![h].at = "cash", ![h].seen = sum]
  BY DEF SumSales, At, Watched, Closes
<1>2. SalesRight(sum) /\ sum \cap Cash = {} /\ sum \in SUBSET Rows
  BY <1>a, SumIsRight
<1> HIDE DEF sum
<1>v. PICK v \in SUBSET Rows : v = sum
  BY <1>2
<1>3. SalesRight(v)' /\ v \cap Cash = {}
  BY <1>1, <1>2, <1>v, RightStays DEF cloud
<1>4. handler[h] \in Handler
  BY <1>a, <1>1 DEF Typed
<1>5. handler' = [handler EXCEPT ![h] = [handler[h] EXCEPT !.at = "cash", !.late = handler[h].late,
                                            !.seen = v, !.was = handler[h].was]]
  <2>1. [handler[h] EXCEPT !.at = "cash", !.seen = v]
          = [handler[h] EXCEPT !.at = "cash", !.late = handler[h].late,
                               !.seen = v, !.was = handler[h].was]
    BY <1>4 DEF Handler
  <2>2. handler' = [handler EXCEPT ![h] = [handler[h] EXCEPT !.at = "cash", !.seen = v]]
    BY <1>1, <1>v
  <2> QED BY <2>1, <2>2
<1>6. Goes(h, "cash", handler[h].then, handler[h].ans)
      /\ Keeps(h, handler[h].late, v, handler[h].was)
  BY <1>a, <1>1, <1>4, <1>5, NoteKeeps DEF Handler, Steps
<1>7. Knows(h)'
  <2>1. handler'[h].seen = v /\ handler'[h].at = "cash"
    BY <1>6 DEF Keeps, Goes
  <2>2. SalesRight(handler[h].seen)'
    BY <1>3, <2>1 DEF SalesRight
  <2> QED BY <1>a, <1>1, <1>3, <1>6, <2>1, <2>2 DEF Knows, Goes, Keeps, cloud, Reversal, Closes
<1>8. Unsettled(h) => Unsettled(h)'
  BY <1>1, <1>6 DEF Unsettled, Goes, Settling
<1> QED BY <1>a, <1>1, <1>7, <1>8, RightStays DEF After, cloud

LEMMA SumCashAfter ==
  ASSUME NEW h \in Slots, Watched(h), SumCash(h)
  PROVE  After(h)
<1>a. Typed /\ Shape(h) /\ Knows(h)
      /\ (shift.st \in Ended => Right(shift.expected) \/ Unsettled(h))
  BY Before
<1>1. /\ handler[h].job \in {"order", "push"} \cup Closes /\ handler[h].at = "cash" /\ handler[h] # None
      /\ UNCHANGED cloud /\ LateRev \subseteq LateRev'
      /\ handler' = [handler EXCEPT ![h].at = "write", ![h].seen = @ \cup held]
  BY DEF SumCash, At, Watched, Closes
<1>2. handler[h] \in Handler /\ SalesRight(handler[h].seen) /\ handler[h].seen \cap Cash = {}
  BY <1>a, <1>1 DEF Typed, Knows
<1>v. PICK v \in SUBSET Rows : v = handler[h].seen \cup held
  BY <1>a, <1>2 DEF Handler, Typed, Rows
<1>3. Right(v)
  <2>1. \A s \in Sales : s \notin held /\ Back(s) \notin held
    BY <1>a, SetsAssumption DEF Typed
  <2>2. SalesRight(v)
    BY <1>2, <1>v, <2>1 DEF SalesRight
  <2>3. CashRight(v)
    BY <1>2, <1>v DEF CashRight
  <2> QED BY <2>2, <2>3 DEF Right
<1>4. Right(v)'
  BY <1>1, <1>3, RightStays DEF cloud
<1>5. handler' = [handler EXCEPT ![h] = [handler[h] EXCEPT !.at = "write", !.late = handler[h].late,
                                            !.seen = v, !.was = handler[h].was]]
  <2>1. [handler[h] EXCEPT !.at = "write", !.seen = v]
          = [handler[h] EXCEPT !.at = "write", !.late = handler[h].late,
                               !.seen = v, !.was = handler[h].was]
    BY <1>2 DEF Handler
  <2>2. handler' = [handler EXCEPT ![h] = [handler[h] EXCEPT !.at = "write", !.seen = v]]
    BY <1>1, <1>2, <1>v DEF Handler
  <2> QED BY <2>1, <2>2
<1>6. Goes(h, "write", handler[h].then, handler[h].ans)
      /\ Keeps(h, handler[h].late, v, handler[h].was)
  BY <1>a, <1>1, <1>2, <1>5, NoteKeeps DEF Handler, Steps
<1>7. Knows(h)'
  <2>1. handler'[h].seen = v /\ handler'[h].at = "write"
    BY <1>6 DEF Keeps, Goes
  <2>2. Right(handler[h].seen)'
    BY <1>4, <2>1 DEF SalesRight, CashRight, Right
  <2> QED BY <1>a, <1>1, <1>6, <2>1, <2>2 DEF Knows, Goes, Keeps, cloud, Reversal, Closes
<1>8. Unsettled(h) => Unsettled(h)'
  BY <1>1, <1>6 DEF Unsettled, Goes, Settling
<1> QED BY <1>a, <1>1, <1>7, <1>8, RightStays DEF After, cloud

(* What is written is what was summed, or the same as what stood.          *)
LEMMA WriteLateAfter ==
  ASSUME NEW h \in Slots, Watched(h), WriteLate(h)
  PROVE  After(h)
<1>a. Typed /\ Shape(h) /\ Knows(h)
  BY Before
<1>1. /\ handler[h].job \in {"order", "push"} /\ handler[h].at = "write" /\ handler[h] # None
      /\ UNCHANGED <<order, back, held>> /\ LateRev \subseteq LateRev'
      /\ shift' = IF handler[h].seen # handler[h].was /\ ~IsOpen
                  THEN [shift EXCEPT !.expected = handler[h].seen] ELSE shift
      /\ Return(h, handler[h].then)
  BY DEF WriteLate, At, Watched
<1>2. handler[h].then \in {"floats", "spend", "said"}
  BY <1>a, <1>1 DEF Shape
<1>3. PICK v : v = handler[h].seen
  OBVIOUS
<1>4. Right(v)'
  BY <1>a, <1>1, <1>3, RightStays DEF Knows
<1>5. shift.st \in Ended => shift'.expected = v
  BY <1>a, <1>1, <1>3 DEF Knows, Typed, IsOpen, Ended
<1>6. shift'.st = shift.st
  BY <1>a, <1>1 DEF Typed
<1>7. shift'.st \in Ended => Right(shift.expected)'
  BY <1>4, <1>5, <1>6 DEF Right, SalesRight, CashRight
<1> QED BY <1>a, <1>1, <1>2, <1>7, ReturnsAfter

LEMMA LookCloseAfter ==
  ASSUME NEW h \in Slots, Watched(h), LookClose(h)
  PROVE  After(h)
<1>a. HeldInv /\ Typed /\ (shift.st \in Ended => Right(shift.expected) \/ Unsettled(h))
  BY Before
<1>1. UNCHANGED <<order, back, held>> /\ LateRev \subseteq LateRev'
  BY DEF LookClose, Watched
<1>2. /\ handler[h].job \in Closes
      /\ \/ /\ shift.st = "open" /\ shift' = shift
            /\ Goes(h, "sum", handler[h].then, handler[h].ans)
         \/ shift.st = "none" /\ shift' = shift /\ Ends(h, "nothing")
         \/ /\ shift.st \in Ended /\ Ends(h, "closed")
            /\ shift' = IF KeepsCount(h) THEN [shift EXCEPT !.kept = TRUE] ELSE shift
  BY <1>a, LookCloseEnds
<1>3. shift'.st = shift.st /\ shift'.expected = shift.expected
  BY <1>a, <1>2 DEF Typed
<1>4. ~Unsettled(h)
  BY <1>2 DEF Unsettled, Closes
<1>v. PICK v : v = shift.expected
  OBVIOUS
<1>5. shift'.st \in Ended => Right(v)'
  BY <1>a, <1>1, <1>3, <1>4, <1>v, RightStays
<1>6. shift'.st \in Ended => Right(shift.expected)'
  BY <1>3, <1>5, <1>v DEF Right, SalesRight, CashRight
<1>7. CASE Goes(h, "sum", handler[h].then, handler[h].ans) /\ shift.st = "open"
  BY <1>2, <1>3, <1>7 DEF After, Knows, Goes, Ended, Closes, Reversal
<1> QED BY <1>2, <1>6, <1>7, EndsAfter

LEMMA WriteCloseAfter ==
  ASSUME NEW h \in Slots, Watched(h), WriteClose(h)
  PROVE  After(h)
<1>a. HeldInv /\ Typed /\ Knows(h) /\ (shift.st \in Ended => Right(shift.expected) \/ Unsettled(h))
  BY Before
<1>1. UNCHANGED <<order, back, held>> /\ LateRev \subseteq LateRev'
  BY DEF WriteClose, Watched
<1>2. /\ handler[h] # None /\ handler[h].job \in Closes /\ handler[h].at = "write"
      /\ \/ /\ Ends(h, "done") /\ shift'.expected = handler[h].seen
         \/ shift.st \in Ended /\ shift' = shift /\ Ends(h, "closed")
  BY <1>a, WriteCloseEnds
<1>3. ~Unsettled(h)
  BY <1>2 DEF Unsettled, Closes
<1>v. PICK v : v = shift'.expected
  OBVIOUS
<1>4. Right(v)
  BY <1>a, <1>2, <1>3, <1>v DEF Knows
<1>5. Right(v)'
  BY <1>1, <1>4, RightStays
<1>6. Right(shift.expected)'
  BY <1>5, <1>v DEF Right, SalesRight, CashRight
<1> QED BY <1>2, <1>6, EndsAfter

(* A void or refund that comes beside or after the close is one of those   *)
(* the figures leave out.                                                  *)
LEMMA ReversalAfter ==
  ASSUME NEW h \in Slots, Watched(h),
         LookReversal(h) \/ ClaimReversal(h) \/ GiveBack(h) \/ RestoreStock(h)
  PROVE  After(h)
<1>a. /\ HeldInv /\ Typed /\ Shape(h) /\ Knows(h) /\ Busy(h)
      /\ shift.st \in Ended => Right(shift.expected) \/ Unsettled(h)
  BY Before
<1>1. /\ handler[h].job \in Reversal /\ handler[h] # None /\ LateRev \subseteq LateRev'
      /\ shift' = shift /\ held' = held
  BY DEF LookReversal, ClaimReversal, GiveBack, RestoreStock, At, Watched, Reversal, cloud
<1>2. PICK s \in Sales : handler[h].rows = {s}
  BY <1>a, <1>1 DEF Shape
<1>3. \A x \in Sales : x # s => order'[x] = order[x] /\ back'[x] = back[x]
  BY <1>a, <1>2 DEF LookReversal, ClaimReversal, GiveBack, RestoreStock, cloud, Typed, Watched, FigInv
<1>4. ~Unsettled(h)
  BY <1>1 DEF Unsettled, Reversal
<1>5. shift.st \in Ended => s \in LateRev
  BY <1>a, <1>1, <1>2 DEF Knows, Busy
<1>6. shift'.st \in Ended => Right(shift.expected)'
  BY <1>a, <1>1, <1>3, <1>4, <1>5, RightStays
<1>7. \/ \E w : Ends(h, w)
      \/ \E a \in {"claim", "back", "restore"} : Goes(h, a, handler[h].then, handler[h].ans)
  BY <1>a, <1>2, ReversalSteps
<1>8. CASE \E a \in {"claim", "back", "restore"} : Goes(h, a, handler[h].then, handler[h].ans)
  BY <1>1, <1>2, <1>5, <1>6, <1>8 DEF After, Knows, Goes, Reversal
<1> QED BY <1>6, <1>7, <1>8, EndsAfter

-----------------------------------------------------------------------------
(* The figures, in every kind of step.                                     *)

LEMMA FiguresCloud ==
  ASSUME FigInv, [Next]_vars, NEW h \in Slots, CloudStep(h)
  PROVE  Figures'
<1>a. HeldInv /\ LateRev \subseteq LateRev' /\ CloudDoes(h)
  BY LateStays, CloudStepDoes DEF FigInv, RevInv
<1>1. overlapped' = overlapped /\ Others(h) /\ handler[h] # None
      /\ (handler'[h] # None => handler'[h].job = handler[h].job)
  BY <1>a DEF CloudDoes, TillSame
<1> SUFFICES ASSUME ~overlapped', Closing' PROVE
      /\ \A f, g \in Slots : Busy(f)' /\ Busy(g)' => f = g
      /\ \A g \in Slots : Knows(g)'
      /\ Exact'
  BY DEF Figures
<1>2. Closing
  <2>1. CASE shift.st \in Ended
    BY <2>1 DEF Closing, Ended
  <2>2. CASE \E g \in Slots : handler'[g] # None /\ handler'[g].job \in Closes
    BY <1>1, <2>2 DEF Closing, Others
  <2>3. CASE shift.st \notin Ended /\ shift'.st \in Ended
    <3>1. LookClose(h) \/ WriteClose(h)
      BY <1>a, <2>3, CloseSteps
    <3>2. handler[h].job \in Closes
      BY <1>a, <3>1, LookCloseEnds, WriteCloseEnds
    <3> QED BY <1>1, <3>2 DEF Closing
  <2> QED BY <2>1, <2>2, <2>3 DEF Closing, Ended
<1>3. Watched(h)
  BY <1>a, <1>1, <1>2 DEF Watched
<1>4. \A g \in Slots : Busy(g) => g = h
  BY <1>3, Before
<1>5. After(h)
  BY <1>3, LookOrderAfter, InsertOrderAfter, TakeStockAfter, StoreDrawerAfter, ReadForFloatsAfter,
     StoreFloatsAfter, StoreExpensesAfter, ReadForExpensesAfter, ReadLateDrawerAfter, SumSalesAfter,
     SumCashAfter, WriteLateAfter, LookCloseAfter, WriteCloseAfter, ReversalAfter DEF CloudStep
<1>6. \A g \in Slots : g # h => ~Busy(g)'
  BY <1>1, <1>4 DEF Busy, Others
<1>7. \A g \in Slots : ~Busy(g)' => Knows(g)'
  BY DEF Busy, Knows
<1> QED BY <1>5, <1>6, <1>7 DEF After, Exact

LEMMA FiguresSends ==
  ASSUME FigInv, [Next]_vars, NEW h \in Slots, Sends(h)
  PROVE  Figures'
<1>a. HeldInv /\ RevInv /\ LateRev \subseteq LateRev' /\ ClosedKnown
  BY LateStays DEF FigInv, RevInv
<1>1. /\ Others(h) /\ handler'[h] # None /\ handler'[h].at \in {"look", "drawer"}
      /\ overlapped' = (overlapped \/ (Running # {} /\ (handler'[h].job \in Closes \/ Closing)))
      /\ UNCHANGED <<shift, order, back, held>>
  BY <1>a, SendsDoes DEF CloudData
<1> SUFFICES ASSUME ~overlapped', Closing' PROVE
      /\ \A f, g \in Slots : Busy(f)' /\ Busy(g)' => f = g
      /\ \A g \in Slots : Knows(g)'
      /\ Exact'
  BY DEF Figures
<1>2. handler'[h].job \in Closes \/ Closing
  BY <1>1 DEF Closing, Others
<1>3. ~overlapped /\ \A g \in Slots : ~Busy(g)
  BY <1>1, <1>2 DEF Running, Busy
<1>4. \A g \in Slots : g # h => ~Busy(g)'
  BY <1>1, <1>3 DEF Busy, Others
<1>5. \A g \in Slots : g # h => Knows(g)'
  BY <1>4 DEF Busy, Knows
<1>6. Exact'
  <2> SUFFICES ASSUME shift.st \in Ended PROVE Right(shift.expected)'
    BY <1>1 DEF Exact
  <2>1. Closing /\ \A g \in Slots : ~Unsettled(g)
    BY <1>3 DEF Closing, Ended, Unsettled, Busy, Settling
  <2>2. Right(shift.expected)
    BY <1>3, <2>1 DEF FigInv, Figures, Exact
  <2> QED BY <1>a, <1>1, <2>2, RightStays
<1>7. handler'[h].job \in Reversal /\ shift.st \in Ended => handler'[h].rows \subseteq LateRev'
  <2> SUFFICES ASSUME handler'[h].job \in Reversal, shift.st \in Ended
               PROVE  handler'[h].rows \subseteq LateRev'
    OBVIOUS
  <2>1. PICK s \in Sales : handler'[h].rows = {s}
          /\ (PushReversal(h, s) \/ \E kind \in Kinds : WebReverse(h, s, kind))
    BY <1>a, SentDoes DEF Reversal, Closes
  <2>2. CASE PushReversal(h, s)
    <3>1. rev[s].sync = "pending" /\ rev[s].kind # "none"
      BY <1>a, <2>2 DEF PushReversal, RevWaits, HeldInv, RevsInOrder
    <3>2. shift.by = "till" \/ shift.by = "web"
      BY <1>a DEF ClosedKnown, HeldInv, Typed
    <3>3. s \in LateRev
      BY <1>a, <3>1, <3>2 DEF ClosedKnown, WaitedFor, LateRev, NoRev
    <3> QED BY <1>a, <2>1, <3>3
  <2>3. CASE \E kind \in Kinds : WebReverse(h, s, kind)
    <3>1. Closing
      BY DEF Closing, Ended
    <3>2. s \in lateRev'
      BY <2>3, <3>1 DEF WebReverse
    <3> QED BY <2>1, <3>2 DEF LateRev
  <2> QED BY <2>1, <2>2, <2>3
<1>8. Knows(h)'
  BY <1>1, <1>7 DEF Knows
<1> QED BY <1>4, <1>5, <1>6, <1>8

(* A request that is neither cut nor undone runs on.                       *)
LEMMA BusyStays ==
  ASSUME HeldInv, Quits, NEW g \in Slots, Busy(g)
  PROVE  handler'[g] = handler[g] \/ Die(g) \/ UndoRefund(g)
<1>1. Typed /\ \A h \in Slots : Heard(h) => h # g
  BY DEF HeldInv, Heard, Busy
<1>2. CASE CounterStep \/ AdoptClose \/ NextStage \/ UNCHANGED vars
           \/ \E s \in Sales : EnqueueRelay(s) \/ RelayStored(s)
  BY <1>2 DEF CounterStep, AdoptClose, MakeSale, AddCash, Reverse, CloseDrawer, RetryFailed, Counter,
              NextStage, vars, EnqueueRelay, RelayStored
<1>3. CASE GiveUp
  BY <1>1, <1>3 DEF GiveUp, Typed, Busy
<1>4. CASE Restart
  BY <1>1, <1>4 DEF Restart, Typed, Busy
<1>5. ASSUME NEW h \in Slots, HearCash(h) \/ HearOrder(h) \/ HearReversal(h) \/ HearClose(h)
      PROVE  handler'[g] = handler[g]
  <2>1. Answered(h)
    BY <1>5 DEF HearCash, HearOrder, HearReversal, HearClose
  <2> QED BY <1>1, <2>1 DEF Answered, Typed
<1>6. ASSUME NEW h \in Slots, Die(h) \/ UndoRefund(h), h # g
      PROVE  handler'[g] = handler[g]
  BY <1>1, <1>6 DEF Die, UndoRefund, Typed
<1> QED BY <1>2, <1>3, <1>4, <1>5, <1>6 DEF Quits

LEMMA FiguresQuits ==
  ASSUME FigInv, [Next]_vars, Quits
  PROVE  Figures'
<1>a. HeldInv /\ LateRev \subseteq LateRev'
  BY LateStays DEF FigInv, RevInv
<1>1. /\ \A g \in Slots : handler'[g] = None \/ handler'[g] = handler[g]
      /\ overlapped => overlapped'
      /\ UNCHANGED <<shift, order, back, held>>
  BY <1>a, QuitsDoes DEF CloudData
<1> SUFFICES ASSUME ~overlapped', Closing' PROVE
      /\ \A f, g \in Slots : Busy(f)' /\ Busy(g)' => f = g
      /\ \A g \in Slots : Knows(g)'
      /\ Exact'
  BY DEF Figures
<1>2. ~overlapped /\ Closing
  BY <1>1 DEF Closing
<1>3. \A g \in Slots : Busy(g)' => Busy(g)
  BY <1>1 DEF Busy
<1>4. \A f, g \in Slots : Busy(f)' /\ Busy(g)' => f = g
  BY <1>2, <1>3 DEF FigInv, Figures
<1>5. ASSUME NEW g \in Slots PROVE Knows(g)'
  <2>1. CASE handler'[g] = None
    BY <2>1 DEF Knows
  <2>2. CASE handler'[g] # None
    <3>1. handler'[g] = handler[g] /\ Knows(g)
      BY <1>1, <1>2, <2>2 DEF FigInv, Figures
    <3>2. PICK v : v = handler[g].seen
      OBVIOUS
    <3>3. (Right(v) => Right(v)') /\ (SalesRight(v) => SalesRight(v)')
      BY <1>a, <1>1, RightStays
    <3>4. (Right(handler[g].seen) => Right(handler[g].seen)')
          /\ (SalesRight(handler[g].seen) => SalesRight(handler[g].seen)')
      BY <3>1, <3>2, <3>3 DEF Right, SalesRight, CashRight
    <3> QED BY <1>a, <1>1, <3>1, <3>4 DEF Knows
  <2> QED BY <2>1, <2>2
<1>6. Exact'
  <2> SUFFICES ASSUME shift.st \in Ended PROVE Right(shift.expected)' \/ \E g \in Slots : Unsettled(g)'
    BY <1>1 DEF Exact
  <2>1. CASE Right(shift.expected)
    BY <1>a, <1>1, <2>1, RightStays
  <2>2. ASSUME NEW g \in Slots, Unsettled(g) PROVE Unsettled(g)'
    <3>1. Busy(g) /\ handler[g].job \notin Reversal
      BY <2>2 DEF Unsettled, Busy, Settling, Reversal
    <3>2. ~Die(g) /\ ~UndoRefund(g)
      BY <1>2, <3>1 DEF Die, UndoRefund, Reversal
    <3> QED BY <1>a, <2>2, <3>1, <3>2, BusyStays DEF Unsettled
  <2> QED BY <1>2, <2>1, <2>2 DEF FigInv, Figures, Exact
<1> QED BY <1>4, <1>5, <1>6

-----------------------------------------------------------------------------
(* Money given back, step by step.                                         *)

(* A step that leaves a sale, its claim and its reversals as they are.     *)
LEMMA BackCalm ==
  ASSUME NEW s \in Sales, BackOf(s), overlapped => overlapped',
         order'[s] = order[s], back'[s] = back[s], (s \in refunded') <=> (s \in refunded),
         \A h \in Slots : Undoable(h, s)' <=> Undoable(h, s)
  PROVE  BackOf(s)'
  BY DEF BackOf

LEMMA BackCloud ==
  ASSUME FigInv, NEW h \in Slots, CloudStep(h), NEW s \in Sales
  PROVE  BackOf(s)'
<1>a. /\ HeldInv /\ Typed /\ Shape(h) /\ RevTold(h) /\ RefundedBy(s) /\ BackOf(s)
      /\ back \in [Sales -> Nat] /\ CloudDoes(h)
  BY CloudStepDoes DEF FigInv, RevInv, HeldInv
<1>1. /\ Others(h) /\ handler[h] # None /\ overlapped' = overlapped
      /\ handler'[h] # None => handler'[h].job = handler[h].job /\ handler'[h].rows = handler[h].rows
  BY <1>a DEF CloudDoes, TillSame
<1>2. \A g \in Slots : g # h => (Undoable(g, s)' <=> Undoable(g, s))
  BY <1>1 DEF Others, Undoable, Refunding
<1>3. CASE ~(LookReversal(h) \/ ClaimReversal(h) \/ GiveBack(h) \/ RestoreStock(h))
  <2>1. /\ handler[h].job \notin Reversal /\ refunded' = refunded
        /\ order'[s] = order[s] \/ (order[s] = "none" /\ order'[s] = "completed")
    BY <1>a, <1>3, OtherSteps
  <2>2. back' = back
    BY <1>3 DEF CloudStep, LookOrder, InsertOrder, TakeStock, StoreDrawer, ReadForFloats, StoreFloats,
         StoreExpenses, ReadForExpenses, ReadLateDrawer, SumSales, SumCash, WriteLate, LookClose, WriteClose,
         cloud
  <2>3. ~Undoable(h, s) /\ ~Undoable(h, s)'
    BY <1>1, <2>1 DEF Undoable, Refunding, Reversal
  <2>4. CASE order'[s] = order[s]
    BY <1>a, <1>1, <1>2, <2>1, <2>2, <2>3, <2>4, BackCalm
  <2>5. CASE order[s] = "none" /\ order'[s] = "completed"
    BY <1>a, <2>1, <2>2, <2>5 DEF BackOf
  <2> QED BY <2>1, <2>4, <2>5
<1>4. CASE LookReversal(h) \/ ClaimReversal(h) \/ GiveBack(h) \/ RestoreStock(h)
  <2>0. handler[h].job \in Reversal
    BY <1>4 DEF LookReversal, ClaimReversal, GiveBack, RestoreStock, At, Reversal
  <2>1. PICK x \in Sales : handler[h].rows = {x}
    BY <1>a, <1>1, <2>0 DEF Shape
  <2>2. CASE x # s
    <3>1. /\ order'[s] = order[s] /\ back'[s] = back[s]
          /\ s \in refunded' <=> s \in refunded
      BY <1>a, <1>4, <2>1, <2>2 DEF LookReversal, ClaimReversal, GiveBack, RestoreStock, cloud, Typed
    <3>2. ~Undoable(h, s) /\ ~Undoable(h, s)'
      BY <1>1, <2>1, <2>2 DEF Undoable, Refunding
    <3> QED BY <1>a, <1>1, <1>2, <3>1, <3>2, BackCalm
  <2>3. CASE x = s /\ (LookReversal(h) \/ RestoreStock(h))
    <3>1. UNCHANGED <<order, back, refunded>>
      BY <2>3 DEF LookReversal, RestoreStock, cloud
    <3>2. ~Undoable(h, s) /\ ~Undoable(h, s)'
      BY <1>a, <2>1, <2>3, ReversalSteps
         DEF LookReversal, RestoreStock, ClaimReversal, GiveBack, At, Undoable, Refunding, Goes, Ends, Gone
    <3> QED BY <1>a, <1>1, <1>2, <3>1, <3>2, BackCalm
  <2>4. CASE x = s /\ ClaimReversal(h)
    <3>1. back' = back /\ handler[h].at = "claim" /\ ~Undoable(h, s)
      BY <2>4 DEF ClaimReversal, At, Undoable, Refunding
    <3>2. \/ /\ Goes(h, "back", handler[h].then, handler[h].ans)
             /\ order[s] = "completed" /\ (handler[h].job = "void" \/ s \notin refunded)
             /\ order' = IF handler[h].job = "void" THEN [order EXCEPT ![s] = "voided"] ELSE order
             /\ refunded' = IF handler[h].job = "refund" THEN refunded \cup {s} ELSE refunded
          \/ Ends(h, "done") /\ UNCHANGED <<order, refunded>>
      BY <1>a, <2>1, <2>4, ReversalSteps DEF LookReversal, RestoreStock, ClaimReversal, GiveBack, At
    <3>3. CASE Ends(h, "done") /\ UNCHANGED <<order, refunded>>
      <4>1. ~Undoable(h, s)'
        BY <3>3 DEF Undoable, Refunding, Ends, Goes, Gone
      <4> QED BY <1>a, <1>1, <1>2, <3>1, <3>3, <4>1, BackCalm
    <3>4. CASE handler[h].job = "void" /\ order' = [order EXCEPT ![s] = "voided"]
      BY <1>a, <3>4, <3>1 DEF BackOf, Typed
    <3>5. CASE /\ Goes(h, "back", handler[h].then, handler[h].ans) /\ handler[h].job = "refund"
               /\ order[s] = "completed" /\ s \notin refunded
               /\ order' = order /\ refunded' = refunded \cup {s}
      <4>1. back[s] = 0
        BY <1>a, <3>5 DEF BackOf
      <4>2. Undoable(h, s)'
        BY <2>1, <2>4, <3>5 DEF Undoable, Refunding, Goes
      <4> QED BY <1>a, <3>1, <3>5, <4>1, <4>2 DEF BackOf
    <3> QED BY <2>0, <3>2, <3>3, <3>4, <3>5 DEF Reversal
  <2>5. CASE x = s /\ GiveBack(h)
    <3>1. /\ handler[h].at = "back" /\ UNCHANGED <<order, refunded>>
          /\ back' = [back EXCEPT ![s] = @ + 1]
      BY <2>1, <2>5 DEF GiveBack, At
    <3>2. Goes(h, "restore", handler[h].then, handler[h].ans)
      BY <1>a, <2>1, <2>5, ReversalSteps DEF LookReversal, RestoreStock, ClaimReversal, GiveBack, At
    <3>3. ~Undoable(h, s)' /\ back'[s] = back[s] + 1 /\ back[s] \in Nat
      BY <1>a, <3>1, <3>2 DEF Undoable, Refunding, Goes
    <3>4. order[s] # "none"
      BY <1>a, <1>1, <2>0, <2>1, <2>5, <3>1 DEF RevTold
    <3>5. order[s] = "completed" => Undoable(h, s)
      BY <1>a, <1>1, <2>0, <2>1, <2>5, <3>1 DEF RevTold, Undoable, Refunding, Reversal
    <3>6. order[s] = "completed" => s \in refunded /\ \A g \in Slots : ~Undoable(g, s)'
      BY <1>a, <1>2, <3>3, <3>5 DEF RefundedBy, Undoable
    <3> QED BY <1>a, <3>1, <3>3, <3>4, <3>6 DEF BackOf
  <2> QED BY <1>4, <2>2, <2>3, <2>4, <2>5
<1> QED BY <1>3, <1>4

LEMMA BackSends ==
  ASSUME FigInv, NEW h \in Slots, Sends(h), NEW s \in Sales
  PROVE  BackOf(s)'
<1>1. /\ Others(h) /\ handler[h] = None /\ handler'[h].at \in {"look", "drawer"}
      /\ overlapped => overlapped'
      /\ UNCHANGED <<order, back, refunded>> /\ BackOf(s)
  BY SendsDoes DEF FigInv, RevInv, CloudData
<1>2. \A g \in Slots : Undoable(g, s)' <=> Undoable(g, s)
  BY <1>1 DEF Undoable, Refunding, Others
<1> QED BY <1>1, <1>2, BackCalm

LEMMA BackQuits ==
  ASSUME FigInv, Quits, NEW s \in Sales
  PROVE  BackOf(s)'
<1>a. HeldInv /\ RevInv /\ BackOf(s)
  BY DEF FigInv, RevInv
<1>1. /\ \A g \in Slots : handler'[g] = None \/ handler'[g] = handler[g]
      /\ overlapped => overlapped'
      /\ refunded' = refunded \/ \E h \in Slots : UndoRefund(h)
      /\ UNCHANGED <<order, back>> /\ refunded' \subseteq refunded
  BY <1>a, QuitsDoes DEF CloudData
<1>2. \A g \in Slots : Undoable(g, s)' => Undoable(g, s)
  BY <1>1 DEF Undoable, Refunding
<1>3. CASE s \in refunded /\ s \notin refunded'
  <2>1. PICK h \in Slots : UndoRefund(h)
    BY <1>1, <1>3
  <2>2. Undoable(h, s)
    BY <1>3, <2>1 DEF UndoRefund, Undoable, Refunding
  <2> QED BY <1>a, <1>1, <1>2, <1>3, <2>2 DEF BackOf
<1>4. CASE s \notin refunded
  BY <1>a, <1>1, <1>2, <1>4 DEF BackOf
<1>5. CASE s \in refunded'
  <2>1. ASSUME NEW g \in Slots, Undoable(g, s), ~overlapped' PROVE Undoable(g, s)'
    <3>1. Busy(g)
      BY <2>1 DEF Busy, Undoable, Refunding
    <3>2. ~Die(g) /\ ~UndoRefund(g)
      BY <1>5, <2>1 DEF Die, UndoRefund, Undoable, Refunding
    <3> QED BY <1>a, <2>1, <3>1, <3>2, BusyStays DEF Undoable, Refunding
  <2> QED BY <1>a, <1>1, <1>2, <1>5, <2>1 DEF BackOf
<1> QED BY <1>3, <1>4, <1>5

-----------------------------------------------------------------------------
(* Who closed the drawer, and what the till had made.                      *)

LEMMA ClosedStep ==
  ASSUME FigInv, RevInv', [Next]_vars
  PROVE  ClosedKnown'
<1>a. HeldInv /\ RevInv /\ Typed /\ ClosedKnown /\ RevsInOrder /\ \A h \in Slots : CloseTold(h)
  BY DEF FigInv, RevInv, HeldInv
<1>1. CASE Quits
  <2>1. shift' = shift
    BY <1>a, <1>1, QuitsDoes DEF CloudData
  <2>2. shift.by = "till" => Closing
    BY <1>a DEF ClosedKnown, Closing, Ended
  <2> QED BY <1>a, <1>1, <2>1, <2>2, RevRows DEF ClosedKnown
<1>2. ASSUME NEW h \in Slots, Sends(h) PROVE ClosedKnown'
  BY <1>a, <1>2, SendsDoes DEF ClosedKnown, WaitedFor, CloudData
<1>3. ASSUME NEW h \in Slots, CloudStep(h) PROVE ClosedKnown'
  <2>1. UNCHANGED <<rev, lateRev>>
    BY <1>a, <1>3, CloudStepDoes DEF CloudDoes, TillSame
  <2>2. CASE ~LookClose(h) /\ ~WriteClose(h)
    BY <1>a, <1>3, <2>1, <2>2, CloseSteps DEF ClosedKnown, WaitedFor
  <2>3. CASE LookClose(h)
    <3>1. shift'.st = shift.st /\ shift'.by = shift.by
      BY <1>a, <2>3, LookCloseEnds DEF Typed
    <3> QED BY <1>a, <2>1, <3>1 DEF ClosedKnown, WaitedFor
  <2>4. CASE WriteClose(h)
    <3>1. /\ handler[h] # None /\ handler[h].job \in Closes
          /\ \/ shift'.st \in Ended /\ shift'.by = handler[h].from
             \/ shift' = shift
      BY <1>a, <2>4, WriteCloseEnds
    <3>2. handler[h].from # "none" /\ Shape(h)
      BY <1>a, <3>1 DEF HeldInv, Typed, Handler
    <3> QED BY <1>a, <2>1, <3>1, <3>2 DEF ClosedKnown, WaitedFor, CloseTold
  <2> QED BY <2>2, <2>3, <2>4
<1> QED BY <1>1, <1>2, <1>3, StepKinds

(* What the till made stays made, and the branch server queues no other    *)
(* sale.                                                                   *)
LEMMA MadeStays ==
  ASSUME FigInv, Quits
  PROVE  /\ \A s \in Sales : /\ sale[s] # "none" => sale'[s] # "none"
                             /\ relay'[s] # "none" => relay[s] # "none" \/ sale[s] # "none"
         /\ \A c \in Cash : cash[c] # "none" => cash'[c] # "none"
<1>a. HeldInv /\ Typed
  BY DEF FigInv, RevInv, HeldInv
<1> DEFINE Made == /\ \A s \in Sales : /\ sale[s] # "none" => sale'[s] # "none"
                                       /\ relay'[s] # "none" => relay[s] # "none" \/ sale[s] # "none"
                   /\ \A c \in Cash : cash[c] # "none" => cash'[c] # "none"
<1>1. ASSUME NEW s \in Sales, MakeSale(s) PROVE Made
  <2>1. UNCHANGED <<cash, relay>> /\ \A x \in Sales : sale[x] # "none" => sale'[x] # "none"
    BY <1>a, <1>1 DEF MakeSale, Counter, cloud, Typed
  <2> QED BY <2>1
<1>2. ASSUME NEW c \in Cash, AddCash(c) PROVE Made
  BY <1>a, <1>2 DEF AddCash, Counter, cloud, Typed
<1>3. ASSUME RetryFailed PROVE Made
  <2>1. UNCHANGED <<cash, relay>> /\ \A x \in Sales : sale[x] # "none" => sale'[x] # "none"
    BY <1>a, <1>3 DEF RetryFailed, Counter, cloud, Typed
  <2> QED BY <2>1
<1>4. ASSUME AdoptClose \/ NextStage \/ GiveUp \/ Restart \/ UNCHANGED vars PROVE Made
  BY <1>4 DEF AdoptClose, Counter, NextStage, PassOnly, GiveUp, Restart, vars, till, cloud
<1>5. ASSUME NEW h \in Slots, Die(h) \/ UndoRefund(h) \/ HearReversal(h) \/ HearClose(h) PROVE Made
  BY <1>5 DEF Die, UndoRefund, HearReversal, HearClose, Answered, till, cloud
<1>6. ASSUME NEW h \in Slots, HearCash(h) PROVE Made
  BY <1>a, <1>6 DEF HearCash, Answered, cloud, Typed
<1>7. ASSUME NEW h \in Slots, HearOrder(h) PROVE Made
  <2>1. PICK s \in handler[h].rows : \/ sale' = sale \/ sale' = [sale EXCEPT ![s] = "synced"]
                                     \/ sale' = [sale EXCEPT ![s] = "failed"]
                                     \/ sale' = [sale EXCEPT ![s] = "pending"]
    BY <1>7 DEF HearOrder
  <2>2. \A x \in Sales : sale[x] # "none" => sale'[x] # "none"
    BY <1>a, <2>1 DEF Typed
  <2>3. UNCHANGED <<cash, relay>>
    BY <1>7 DEF HearOrder, Answered, cloud
  <2> QED BY <2>2, <2>3
<1>8. ASSUME NEW s \in Sales, EnqueueRelay(s) \/ RelayStored(s) PROVE Made
  <2>1. UNCHANGED <<sale, cash>>
    BY <1>8 DEF EnqueueRelay, RelayStored, TillOnly, till
  <2>2. relay \in [Sales -> {"none", "queued", "done"}]
    BY DEF FigInv
  <2>3. \A x \in Sales : relay'[x] # "none" => relay[x] # "none" \/ sale[x] # "none"
    BY <1>8, <2>2 DEF EnqueueRelay, RelayStored
  <2> QED BY <2>1, <2>3
<1> HIDE DEF Made
<1>9. CounterStep => Made
  <2>1. ASSUME NEW s \in Sales, NEW kind \in Kinds, Reverse(s, kind) PROVE Made
    BY <2>1 DEF Reverse, Counter, cloud, Made
  <2>2. ASSUME NEW st \in {"closed", "forced"}, CloseDrawer(st) PROVE Made
    BY <2>2 DEF CloseDrawer, Counter, cloud, Made
  <2>3. CASE \E s \in Sales : MakeSale(s)
    BY <1>1, <2>3
  <2>4. CASE \E s \in Sales, kind \in Kinds : Reverse(s, kind)
    BY <2>1, <2>4
  <2>5. CASE \E c \in Cash : AddCash(c)
    BY <1>2, <2>5
  <2>6. CASE \E st \in {"closed", "forced"} : CloseDrawer(st)
    BY <2>2, <2>6
  <2> QED BY <1>3, <2>3, <2>4, <2>5, <2>6 DEF CounterStep
<1>10. Made
  <2>1. CASE \E h \in Slots : HearCash(h) \/ HearOrder(h) \/ HearReversal(h) \/ HearClose(h)
                              \/ Die(h) \/ UndoRefund(h)
    BY <1>5, <1>6, <1>7, <2>1
  <2>2. CASE \E s \in Sales : EnqueueRelay(s) \/ RelayStored(s)
    BY <1>8, <2>2
  <2> QED BY <1>4, <1>9, <2>1, <2>2 DEF Quits
<1> QED BY <1>10 DEF Made

LEMMA MadeStep ==
  ASSUME FigInv, [Next]_vars
  PROVE  MadeFirst'
<1>a. HeldInv /\ Typed /\ MadeFirst
  BY DEF FigInv, RevInv, HeldInv
<1>1. CASE Quits
  <2>1. /\ \A g \in Slots : handler'[g] = None \/ handler'[g] = handler[g]
        /\ UNCHANGED <<order, held>>
    BY <1>a, <1>1, QuitsDoes DEF CloudData
  <2>2. \A g \in Slots : handler[g] # None =>
           /\ handler[g].job = "order" => handler[g].rows \subseteq Sales
           /\ handler[g].job = "push" => handler[g].rows \subseteq Cash
    BY <1>a DEF HeldInv, Shape
  <2>3. \A g \in Slots : handler'[g] # None =>
           /\ handler'[g].job = "order" => \A s \in handler'[g].rows : sale'[s] # "none"
           /\ handler'[g].job = "push" => \A c \in handler'[g].rows : cash'[c] # "none"
    BY <1>a, <1>1, <2>1, <2>2, MadeStays DEF MadeFirst
  <2>4. /\ \A s \in Sales : order'[s] # "none" \/ relay'[s] # "none" => sale'[s] # "none"
        /\ \A c \in held' : cash'[c] # "none"
    BY <1>a, <1>1, <2>1, MadeStays DEF MadeFirst, Typed
  <2> QED BY <2>3, <2>4 DEF MadeFirst
<1>2. ASSUME NEW h \in Slots, Sends(h) PROVE MadeFirst'
  <2>1. Others(h) /\ handler'[h] # None /\ UNCHANGED <<order, held, sale>>
    BY <1>a, <1>2, SendsDoes DEF CloudData
  <2>2. UNCHANGED <<cash, relay>>
    BY <1>2 DEF Sends, PushCash, PushClose, PushOrder, PushReversal, RelayOrder, WebReverse, WebClose,
         PassOnly, till, cloud
  <2>3. /\ handler'[h].job = "order" => \A s \in handler'[h].rows : sale[s] # "none"
        /\ handler'[h].job = "push" => \A c \in handler'[h].rows : cash[c] # "none"
    BY <1>a, <1>2, SentDoes DEF PushOrder, SaleWaits, RelayOrder, Batch, Closes, Reversal, MadeFirst
  <2>4. \A g \in Slots : handler'[g] # None =>
           /\ handler'[g].job = "order" => \A s \in handler'[g].rows : sale[s] # "none"
           /\ handler'[g].job = "push" => \A c \in handler'[g].rows : cash[c] # "none"
    BY <1>a, <2>1, <2>3 DEF MadeFirst, Others
  <2> QED BY <1>a, <2>1, <2>2, <2>4 DEF MadeFirst
<1>3. ASSUME NEW h \in Slots, CloudStep(h) PROVE MadeFirst'
  <2>1. /\ Others(h) /\ handler[h] # None /\ UNCHANGED <<sale, cash>>
        /\ handler'[h] # None => handler'[h].job = handler[h].job /\ handler'[h].rows = handler[h].rows
    BY <1>a, <1>3, CloudStepDoes DEF CloudDoes, TillSame
  <2>2. relay' = relay
    BY <1>3 DEF CloudStep, LookOrder, InsertOrder, TakeStock, StoreDrawer, ReadForFloats, StoreFloats,
         StoreExpenses, ReadForExpenses, ReadLateDrawer, SumSales, SumCash, WriteLate, LookClose, WriteClose,
         LookReversal, ClaimReversal, GiveBack, RestoreStock, cloud
  <2>3. \A s \in Sales : order'[s] # "none" => order[s] # "none" \/ sale[s] # "none"
    <3>1. CASE InsertOrder(h)
      <4>1. PICK s \in handler[h].rows : order' = order \/ order' = [order EXCEPT ![s] = "completed"]
        BY <3>1 DEF InsertOrder
      <4>2. sale[s] # "none"
        BY <1>a, <2>1, <3>1, <4>1 DEF InsertOrder, At, MadeFirst
      <4> QED BY <1>a, <4>1, <4>2 DEF Typed
    <3>2. CASE ClaimReversal(h)
      <4>1. PICK s \in handler[h].rows : order' = order
                \/ (order[s] = "completed" /\ order' = [order EXCEPT ![s] = "voided"])
        BY <3>2 DEF ClaimReversal
      <4> QED BY <1>a, <4>1 DEF Typed
    <3>3. CASE ~InsertOrder(h) /\ ~ClaimReversal(h)
      BY <1>3, <3>3 DEF CloudStep, LookOrder, TakeStock, StoreDrawer, ReadForFloats, StoreFloats,
         StoreExpenses, ReadForExpenses, ReadLateDrawer, SumSales, SumCash, WriteLate, LookClose, WriteClose,
         LookReversal, GiveBack, RestoreStock, cloud
    <3> QED BY <3>1, <3>2, <3>3
  <2>4. \A c \in held' : c \in held \/ cash[c] # "none"
    <3>1. CASE StoreFloats(h) \/ StoreExpenses(h)
      <4>1. handler[h].job = "push" /\ held' \subseteq held \cup handler[h].rows
        BY <3>1 DEF StoreFloats, StoreExpenses, At
      <4> QED BY <1>a, <2>1, <4>1 DEF MadeFirst
    <3>2. CASE ~StoreFloats(h) /\ ~StoreExpenses(h)
      BY <1>3, <3>2 DEF CloudStep, LookOrder, InsertOrder, TakeStock, StoreDrawer, ReadForFloats,
         ReadForExpenses, ReadLateDrawer, SumSales, SumCash, WriteLate, LookClose, WriteClose,
         LookReversal, ClaimReversal, GiveBack, RestoreStock, cloud
    <3> QED BY <3>1, <3>2
  <2>5. \A g \in Slots : handler'[g] # None =>
           /\ handler'[g].job = "order" => \A s \in handler'[g].rows : sale[s] # "none"
           /\ handler'[g].job = "push" => \A c \in handler'[g].rows : cash[c] # "none"
    BY <1>a, <2>1 DEF MadeFirst, Others
  <2>6. /\ \A s \in Sales : order'[s] # "none" \/ relay'[s] # "none" => sale'[s] # "none"
        /\ \A c \in held' : cash'[c] # "none"
    BY <1>a, <2>1, <2>2, <2>3, <2>4 DEF MadeFirst
  <2> QED BY <2>1, <2>5, <2>6 DEF MadeFirst
<1> QED BY <1>1, <1>2, <1>3, StepKinds

LEMMA RestTyped ==
  ASSUME FigInv, [Next]_vars
  PROVE  back' \in [Sales -> Nat] /\ relay' \in [Sales -> {"none", "queued", "done"}]
<1>a. /\ HeldInv /\ back \in [Sales -> Nat] /\ relay \in [Sales -> {"none", "queued", "done"}]
  BY DEF FigInv, RevInv
<1>1. CASE Quits
  <2>1. back' = back
    BY <1>a, <1>1, QuitsDoes DEF CloudData
  <2>2. ASSUME NEW s \in Sales, EnqueueRelay(s) \/ RelayStored(s)
        PROVE  relay' \in [Sales -> {"none", "queued", "done"}]
    BY <1>a, <2>2 DEF EnqueueRelay, RelayStored
  <2>3. CASE \A s \in Sales : ~EnqueueRelay(s) /\ ~RelayStored(s)
    <3>1. relay' = relay
      BY <1>1, <2>3 DEF Quits, CounterStep, AdoptClose, MakeSale, AddCash, Reverse, CloseDrawer, RetryFailed,
         Counter, NextStage, PassOnly, GiveUp, Restart, HearCash, HearOrder, HearReversal, HearClose, Answered,
         Die, UndoRefund, vars, cloud
    <3> QED BY <1>a, <2>1, <3>1
  <2>4. relay' \in [Sales -> {"none", "queued", "done"}]
    BY <2>2, <2>3
  <2> QED BY <1>a, <2>1, <2>4
<1>2. ASSUME NEW h \in Slots, Sends(h) PROVE back' = back /\ relay' = relay
  BY <1>2 DEF Sends, PushCash, PushClose, PushOrder, PushReversal, RelayOrder, WebReverse, WebClose,
         PassOnly, cloud
<1>3. ASSUME NEW h \in Slots, CloudStep(h) PROVE back' \in [Sales -> Nat] /\ relay' = relay
  <2>1. CASE GiveBack(h)
    <3>1. PICK s \in handler[h].rows : back' = [back EXCEPT ![s] = @ + 1] /\ relay' = relay
      BY <2>1 DEF GiveBack
    <3>2. s \in Sales
      BY <1>a, <2>1, <3>1 DEF GiveBack, At, HeldInv, Shape, Reversal
    <3> QED BY <1>a, <3>1, <3>2
  <2>2. CASE ~GiveBack(h)
    BY <1>3, <1>a, <2>2 DEF CloudStep, LookOrder, InsertOrder, TakeStock, StoreDrawer, ReadForFloats, StoreFloats,
         StoreExpenses, ReadForExpenses, ReadLateDrawer, SumSales, SumCash, WriteLate, LookClose, WriteClose,
         LookReversal, ClaimReversal, RestoreStock, cloud
  <2> QED BY <2>1, <2>2
<1> QED BY <1>a, <1>1, <1>2, <1>3, StepKinds

LEMMA FigStep ==
  ASSUME FigInv, [Next]_vars
  PROVE  FigInv'
<1>1. RevInv'
  BY RevInvStep DEF FigInv
<1>2. /\ ClosedKnown' /\ MadeFirst' /\ back' \in [Sales -> Nat]
      /\ relay' \in [Sales -> {"none", "queued", "done"}]
  BY <1>1, ClosedStep, MadeStep, RestTyped
<1>3. Figures'
  BY StepKinds, FiguresCloud, FiguresSends, FiguresQuits
<1>4. \A s \in Sales : BackOf(s)'
  BY StepKinds, BackCloud, BackSends, BackQuits
<1> QED BY <1>1, <1>2, <1>3, <1>4 DEF FigInv

LEMMA FigInit == Init => FigInv
<1> SUFFICES ASSUME Init PROVE FigInv
  OBVIOUS
<1>1. RevInv /\ back \in [Sales -> Nat] /\ relay \in [Sales -> {"none", "queued", "done"}]
  BY RevInit DEF Init
<1>2. ClosedKnown /\ MadeFirst /\ \A s \in Sales : BackOf(s)
  BY DEF Init, ClosedKnown, MadeFirst, BackOf, WaitedFor, NoRev, Ended, Undoable, Refunding
<1>3. Figures
  BY DEF Init, Figures, Closing
<1> QED BY <1>1, <1>2, <1>3 DEF FigInv

(* Where all is answered and nothing ran beside the close, the rows of the *)
(* drawer's expected cash are those of the till's books.                   *)
LEMMA FiguresHold ==
  ASSUME FigInv, Quiet, ~overlapped
  PROVE  shift.expected \ LateRows = OwnBooks \ LateRows
<1>a. /\ HeldInv /\ RevInv /\ Typed /\ SyncedIsHeld /\ RevsInOrder /\ RevsTold /\ MadeFirst
      /\ \A s \in Sales : BackOf(s)
  BY DEF FigInv, RevInv, HeldInv
<1>1. /\ \A h \in Slots : handler[h] = None
      /\ \A s \in Sales : /\ sale[s] # "none" => order[s] # "none"
                          /\ rev[s].sync = "none" \/ rev[s].sync = "synced"
      /\ \A c \in Cash : cash[c] # "none" => c \in held
      /\ shift.st \in Ended
  BY <1>a DEF Quiet, SyncedIsHeld, Typed, Ended
<1>2. Right(shift.expected)
  <2>1. Exact
    BY <1>1 DEF FigInv, Figures, Closing, Ended
  <2> QED BY <1>1, <2>1 DEF Exact, Unsettled
<1> DEFINE sold == {s \in Sales : sale[s] # "none" /\ rev[s].kind # "void" /\ order[s] # "voided"}
           given == {Back(s) : s \in {x \in sold : rev[x].kind = "refund" \/ x \in refunded}}
           paid == {c \in Cash : cash[c] # "none"}
<1>3. \A s \in Sales : s \in sold <=> order[s] = "completed"
  BY <1>a, <1>1 DEF Typed, MadeFirst, RevsTold, RevsInOrder, Reversed
<1>4. \A s \in Sales \ LateRev : s \in sold => (rev[s].kind = "refund" \/ s \in refunded <=> back[s] > 0)
  <2> SUFFICES ASSUME NEW s \in Sales, s \notin LateRev, order[s] = "completed"
               PROVE  rev[s].kind = "refund" \/ s \in refunded <=> back[s] > 0
    BY <1>3
  <2>1. rev[s].kind = "refund" => s \in refunded
    BY <1>a, <1>1 DEF RevsTold, RevsInOrder, Reversed, LateRev
  <2>2. s \in refunded <=> back[s] > 0
    BY <1>a, <1>1 DEF BackOf, Undoable, Refunding
  <2> QED BY <2>1, <2>2
<1>5. /\ OwnBooks = sold \cup given \cup paid
      /\ sold \subseteq Sales /\ paid \subseteq Cash
      /\ \A s \in Sales : Back(s) \in given <=> s \in sold /\ (rev[s].kind = "refund" \/ s \in refunded)
      /\ given \subseteq {Back(s) : s \in Sales}
      /\ \A c \in Cash : c \in paid <=> cash[c] # "none"
  BY BackIsOfOne DEF OwnBooks
<1> HIDE DEF sold, given, paid
<1>6. ASSUME NEW s \in Sales, s \notin LateRows PROVE s \in shift.expected <=> s \in OwnBooks
  BY <1>2, <1>3, <1>5, <1>6, SetsAssumption DEF LateRows, Right, SalesRight
<1>7. ASSUME NEW s \in Sales, Back(s) \notin LateRows PROVE Back(s) \in shift.expected <=> Back(s) \in OwnBooks
  <2>1. s \notin LateRev
    BY <1>7 DEF LateRows
  <2>2. Back(s) \in OwnBooks <=> Back(s) \in given
    BY <1>5, SetsAssumption
  <2> QED BY <1>2, <1>3, <1>4, <1>5, <2>1, <2>2 DEF Right, SalesRight
<1>8. ASSUME NEW c \in Cash PROVE c \in shift.expected <=> c \in OwnBooks
  <2>1. c \in OwnBooks <=> c \in paid
    BY <1>5, SetsAssumption
  <2>2. c \in held => cash[c] # "none"
    BY <1>a DEF MadeFirst
  <2> QED BY <1>1, <1>2, <1>5, <2>1, <2>2 DEF Right, CashRight
<1>9. shift.expected \subseteq Rows /\ OwnBooks \subseteq Rows
  BY <1>a, <1>5 DEF Typed, Rows
<1> QED BY <1>6, <1>7, <1>8, <1>9 DEF Rows

(* The expected cash stored on a closed drawer is the sum of exactly the   *)
(* rows the till counts, whoever closed it and however late rows came, as  *)
(* long as no other request ran beside the close or beside another after   *)
(* it (reconcileClosedShifts, settleLateRows).                             *)
THEOREM FiguresAreRight == Spec => []FiguresAgree
<1>1. FigInv => FiguresAgree
  BY FiguresHold DEF FiguresAgree
<1>2. FigInv /\ [Next]_vars => FigInv'
  BY FigStep
<1> QED BY <1>1, <1>2, FigInit, PTL DEF Spec
=============================================================================
