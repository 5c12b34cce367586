----------------------------- MODULE DrawerPush -----------------------------
(* One drawer of one till on its way to the cloud: its sales, its cash rows, *)
(* its voids and refunds, and its close (syncEngine.ts, runPushStagesOnce),  *)
(* and the cloud's handlers of those requests (routes/orders.ts, sync.ts,    *)
(* shifts.ts, lib/lateRows.ts).  A handler runs in steps, one per read or    *)
(* write of the database that another handler may come between; a till that  *)
(* gave up waiting leaves its handler running.                               *)
(*                                                                           *)
(* A drawer's expected cash is modelled by the SET of rows it was computed   *)
(* from: an amount missing from the sum is a row missing from the set.       *)
EXTENDS Naturals, FiniteSets

CONSTANTS Sales,       \* sales a till may make in the drawer
          Floats,      \* cash put in or taken out (float_transactions)
          Expenses,    \* expenses paid from the drawer
          Slots,       \* handlers the cloud runs at once (bound)
          None,        \* no handler, no answer
          Attempts,    \* a sale refused this often is failed (5 in the code)
          Refusable,   \* sales the cloud may refuse (4xx)
          MaxFaults,   \* handlers cut, answers given up on (bound)
          Kinds,       \* what is done to a sale afterwards: "void", "refund"
          WebCloses,   \* how a manager may close the drawer on the web: "close", "force"
          WebReverses, \* the web may void or refund a sale of the drawer
          Relayed      \* sales the branch server also sends

Cash == Floats \cup Expenses
Back(s) == <<"back", s>>         \* the negative row a refund of s leaves
Rows == Sales \cup Cash \cup {Back(s) : s \in Sales}

ASSUME SetsAssumption ==
    /\ Floats \cap Expenses = {} /\ Sales \cap Cash = {}
    /\ Refusable \subseteq Sales /\ Relayed \subseteq Sales
    /\ None \notin Slots /\ None \notin Rows
    /\ \A s \in Sales : Back(s) \notin Sales \cup Cash
ASSUME BoundsAssumption ==
    Attempts \in Nat \ {0} /\ MaxFaults \in Nat
    /\ WebReverses \in BOOLEAN
    /\ Kinds \subseteq {"void", "refund"} /\ WebCloses \subseteq {"close", "force"}

Steps == {"look", "drawer", "insert", "stock", "floats", "upsert", "spend", "spent",
          "claim", "back", "restore", "sum", "cash", "write", "late", "said"}
Answers == {"stored", "nodrawer", "refused", "done", "closed", "nothing"}
(* One handler: what it was asked ("job"), about which rows, with the        *)
(* drawer's status as sent; where it is; "late" what it read of the drawer's *)
(* status, "seen" the rows it summed so far, "was" the figure it read before *)
(* (settleLateRows), "then" where it returns to, "ans" its answer.           *)
Handler ==
    [job: {"order", "push", "close", "force", "void", "refund"}, from: {"till", "web", "relay"},
     rows: SUBSET (Sales \cup Cash), st: {"open", "closed", "forced"}, at: Steps, late: BOOLEAN,
     seen: SUBSET Rows, was: SUBSET Rows, then: Steps, ans: Answers]
ASSUME NoneAssumption == None \notin Handler

VARIABLES
  (* the till *)
  drawer,    \* [st, sync, adopted]: the row of shifts
  sale,      \* [Sales -> none, pending, synced, failed]: orders and sync_queue
  tries,     \* [Sales -> attempts]
  cash,      \* [Cash -> none, pending, synced]
  rev,       \* [Sales -> [kind, sync]]: pending_reversals
  pass,      \* [stage, tried]: runPushStagesOnce
  wait,      \* the handler the till is waiting for
  (* the cloud *)
  shift,     \* [st, by, count, kept, expected]: the row of shifts
  order,     \* [Sales -> none, completed, voided]
  refunded,  \* sales with refunded_at
  back,      \* [Sales -> times the payment was given back]
  taken,     \* [Sales -> times its stock was taken]
  restored,  \* [Sales -> times its stock was put back]
  held,      \* cash rows the cloud holds
  relay,     \* [Sales -> none, queued, done]: the branch server's own queue
  handler,   \* [Slots -> Handler or None]
  (* bounds and history *)
  faults,    \* faults used
  overlapped, \* requests ran beside the close or together after it, or one was cut there
  lateRev    \* sales voided or refunded once the close had been sent, or whose refund
             \* was undone when it had been called done

till  == <<drawer, sale, tries, cash, rev>>
cloud == <<shift, order, refunded, back, taken, restored, held, relay>>
vars  == <<till, pass, wait, cloud, handler, faults, overlapped, lateRev>>

Idle == [stage |-> "idle", tried |-> {}]
NoRev == [kind |-> "none", sync |-> "none"]

TypeOK ==
    /\ drawer \in [st: {"open", "closed", "forced"}, sync: {"pending", "synced"}, adopted: BOOLEAN]
    /\ sale \in [Sales -> {"none", "pending", "synced", "failed"}]
    /\ tries \in [Sales -> 0..Attempts]
    /\ cash \in [Cash -> {"none", "pending", "synced"}]
    /\ rev \in [Sales -> [kind: Kinds \cup {"none"}, sync: {"none", "pending", "synced", "refused"}]]
    /\ pass \in [stage: {"idle", "cash", "orders", "reversals", "close"}, tried: SUBSET Sales]
    /\ wait \in Slots \cup {None}
    /\ shift \in [st: {"none", "open", "closed", "forced"}, by: {"none", "till", "web"},
                  count: {"none", "till", "web"}, kept: BOOLEAN, expected: SUBSET Rows]
    /\ order \in [Sales -> {"none", "completed", "voided"}]
    /\ refunded \subseteq Sales /\ held \subseteq Cash
    /\ back \in [Sales -> 0..2] /\ taken \in [Sales -> 0..2] /\ restored \in [Sales -> 0..2]
    /\ relay \in [Sales -> {"none", "queued", "done"}]
    /\ handler \in [Slots -> Handler \cup {None}]
    /\ faults \in 0..MaxFaults /\ overlapped \in BOOLEAN /\ lateRev \subseteq Sales

Init ==
    /\ drawer = [st |-> "open", sync |-> "pending", adopted |-> FALSE]
    /\ sale = [s \in Sales |-> "none"] /\ tries = [s \in Sales |-> 0]
    /\ cash = [c \in Cash |-> "none"] /\ rev = [s \in Sales |-> NoRev]
    /\ pass = Idle /\ wait = None
    /\ shift = [st |-> "none", by |-> "none", count |-> "none", kept |-> FALSE, expected |-> {}]
    /\ order = [s \in Sales |-> "none"] /\ refunded = {} /\ held = {}
    /\ back = [s \in Sales |-> 0] /\ taken = [s \in Sales |-> 0] /\ restored = [s \in Sales |-> 0]
    /\ relay = [s \in Sales |-> "none"] /\ handler = [h \in Slots |-> None]
    /\ faults = 0 /\ overlapped = FALSE /\ lateRev = {}

Closes == {"close", "force"}
Running == {h \in Slots : handler[h] # None /\ handler[h].at # "said"}
(* The close is on its way, or was made.                                     *)
Closing == shift.st \in {"closed", "forced"} \/ \E h \in Slots : handler[h] # None /\ handler[h].job \in Closes
(* A request reaches the cloud in a free slot.                               *)
Arrive(h, job, from, rows) ==
    /\ handler[h] = None
    /\ handler' = [handler EXCEPT ![h] =
         [job |-> job, from |-> from, rows |-> rows, st |-> drawer.st,
          at |-> IF job = "push" THEN "drawer" ELSE "look", late |-> FALSE,
          seen |-> {}, was |-> {}, then |-> "said", ans |-> "nothing"]]
    /\ overlapped' = (overlapped \/ (Running # {} /\ (job \in Closes \/ Closing)))

-----------------------------------------------------------------------------
(* THE TILL: its counter                                                     *)

Counter == UNCHANGED <<pass, wait, cloud, handler, faults, overlapped>>

(* A sale is rung up (createLocalOrder): local, and queued.                  *)
MakeSale(s) ==
    /\ drawer.st = "open" /\ sale[s] = "none"
    /\ sale' = [sale EXCEPT ![s] = "pending"]
    /\ Counter /\ UNCHANGED <<drawer, tries, cash, rev, lateRev>>

(* Cash in, cash out or an expense (addFloatToShift).                        *)
AddCash(c) ==
    /\ drawer.st = "open" /\ cash[c] = "none"
    /\ cash' = [cash EXCEPT ![c] = "pending"]
    /\ Counter /\ UNCHANGED <<drawer, sale, tries, rev, lateRev>>

(* A void or refund taken at the till (reverseOffline): once per sale.       *)
Reverse(s, kind) ==
    /\ sale[s] # "none" /\ rev[s] = NoRev
    /\ rev' = [rev EXCEPT ![s] = [kind |-> kind, sync |-> "pending"]]
    /\ lateRev' = IF Closing THEN lateRev \cup {s} ELSE lateRev
    /\ Counter /\ UNCHANGED <<drawer, sale, tries, cash>>

(* The drawer is counted and closed, or force-closed (closeShift,            *)
(* forceCloseShift): its row waits again.                                    *)
CloseDrawer(st) ==
    /\ drawer.st = "open"
    /\ drawer' = [st |-> st, sync |-> "pending", adopted |-> FALSE]
    /\ Counter /\ UNCHANGED <<sale, tries, cash, rev, lateRev>>

(* The till learns that the web closed its drawer (pullShiftCloses).         *)
AdoptClose ==
    /\ drawer.st = "open" /\ shift.st \in {"closed", "forced"}
    /\ drawer' = [st |-> shift.st, sync |-> "synced", adopted |-> TRUE]
    /\ Counter /\ UNCHANGED <<sale, tries, cash, rev, lateRev>>

(* A person sends the failed sales again (retryFailedOrders).                *)
RetryFailed ==
    /\ \E s \in Sales : sale[s] = "failed"
    /\ sale' = [s \in Sales |-> IF sale[s] = "failed" THEN "pending" ELSE sale[s]]
    /\ tries' = [s \in Sales |-> IF sale[s] = "failed" THEN 0 ELSE tries[s]]
    /\ Counter /\ UNCHANGED <<drawer, cash, rev, lateRev>>

-----------------------------------------------------------------------------
(* THE TILL: its pass (runPushStagesOnce)                                    *)

PassOnly == UNCHANGED <<till, cloud, faults, lateRev>>
Batch == {c \in Cash : cash[c] = "pending"}
SaleWaits(s, tried)   == sale[s] = "pending" /\ s \notin tried
RevWaits(s, tried) == rev[s].sync = "pending" /\ sale[s] = "synced" /\ s \notin tried
\* Mutant: a drawer with a void or refund still to send is closed all the same.
ReversalsSentUnasked == TRUE
ReversalsSent == \A s \in Sales : rev[s].sync # "pending"
(* A closed drawer is closed on the cloud once all its sales, voids and      *)
(* refunds are there (reconcileClosedShifts).                                *)
MayClose ==
    /\ drawer.st # "open" /\ drawer.sync = "pending"
    /\ \A s \in Sales : sale[s] \in {"none", "synced"}
    /\ ReversalsSent                                         \* reversalWaits
ToSend(stage, tried) ==
    CASE stage = "cash"      -> drawer.sync = "pending" \/ Batch # {}
      [] stage = "orders"    -> \E s \in Sales : SaleWaits(s, tried)
      [] stage = "reversals" -> \E s \in Sales : RevWaits(s, tried)
      [] stage = "close"     -> MayClose
      [] OTHER               -> FALSE
Order == <<"cash", "orders", "reversals", "close">>
Later(stage) == {i \in 1..4 : \A j \in 1..4 : Order[j] = stage => j < i}
(* The stage a pass goes to when one ended: the next with something to send. *)
NextOf(stage) ==
    LET due == {i \in Later(stage) : ToSend(Order[i], {})} IN
    IF due = {} THEN Idle
    ELSE [stage |-> Order[CHOOSE i \in due : \A j \in due : i <= j], tried |-> {}]

(* The pass begins, or goes on to its next stage.                            *)
NextStage ==
    /\ wait = None /\ ~ToSend(pass.stage, pass.tried)
    /\ pass' = NextOf(pass.stage) /\ pass' # pass
    /\ PassOnly /\ UNCHANGED <<wait, handler, overlapped>>

(* The drawer and the waiting cash rows (pushLocalRecords, pushCashBatch).   *)
PushCash(h) ==
    /\ pass.stage = "cash" /\ wait = None /\ ToSend("cash", {})
    /\ Arrive(h, "push", "till", Batch) /\ wait' = h
    /\ PassOnly /\ UNCHANGED pass
(* One sale (pushPendingOrders).                                             *)
PushOrder(h, s) ==
    /\ pass.stage = "orders" /\ wait = None /\ SaleWaits(s, pass.tried)
    /\ Arrive(h, "order", "till", {s}) /\ wait' = h
    /\ pass' = [pass EXCEPT !.tried = @ \cup {s}] /\ PassOnly
(* One void or refund (pushOfflineReversals).                                *)
PushReversal(h, s) ==
    /\ pass.stage = "reversals" /\ wait = None /\ RevWaits(s, pass.tried)
    /\ Arrive(h, rev[s].kind, "till", {s}) /\ wait' = h
    /\ pass' = [pass EXCEPT !.tried = @ \cup {s}] /\ PassOnly
(* The close, counted or forced.                                             *)
PushClose(h) ==
    /\ pass.stage = "close" /\ wait = None /\ MayClose
    /\ Arrive(h, IF drawer.st = "forced" THEN "force" ELSE "close", "till", {}) /\ wait' = h
    /\ PassOnly /\ UNCHANGED pass

(* The answer to the waited-for request.                                     *)
Heard(h) == wait = h /\ handler[h].at = "said"
Answered(h) ==
    /\ Heard(h) /\ wait' = None /\ handler' = [handler EXCEPT ![h] = None]
    /\ UNCHANGED <<cloud, faults, overlapped, lateRev>>
\* Mutant: whatever the drawer is by now, its row is marked.
StillAsSentUnasked(h) == TRUE
StillAsSent(h) == drawer.st = handler[h].st
(* What was sent is marked, if it is still what was sent                     *)
(* (applyCashPushAnswer).  A closed drawer waits for its close.              *)
HearCash(h) ==
    /\ pass.stage = "cash" /\ Answered(h)
    /\ cash' = [c \in Cash |-> IF c \in handler[h].rows THEN "synced" ELSE cash[c]]
    /\ drawer' = IF handler[h].st = "open" /\ StillAsSent(h)
                 THEN [drawer EXCEPT !.sync = "synced"] ELSE drawer
    /\ pass' = [stage |-> "orders", tried |-> {}] /\ UNCHANGED <<sale, tries, rev>>
FailsAt(n) == n >= Attempts
HearOrder(h) ==
    /\ pass.stage = "orders" /\ Answered(h)
    /\ \E s \in handler[h].rows :
         LET n == tries[s] + 1 IN
         \/ /\ handler[h].ans = "stored"               \* markOrderSynced
            /\ sale' = [sale EXCEPT ![s] = "synced"] /\ UNCHANGED <<tries, pass>>
         \/ /\ handler[h].ans = "refused"
            /\ tries' = [tries EXCEPT ![s] = n]
            /\ sale' = [sale EXCEPT ![s] = IF FailsAt(n) THEN "failed" ELSE "pending"]
            /\ UNCHANGED pass
         \/ /\ handler[h].ans = "nodrawer"             \* 424: the drawer's sales wait
            /\ pass' = [pass EXCEPT !.tried = Sales] /\ UNCHANGED <<sale, tries>>
    /\ UNCHANGED <<drawer, cash, rev>>
(* replayOutcome: done, refused for good, or tried again next pass.          *)
HearReversal(h) ==
    /\ pass.stage = "reversals" /\ Answered(h)
    /\ \E s \in handler[h].rows :
         rev' = [rev EXCEPT ![s].sync = CASE handler[h].ans = "done"    -> "synced"
                                          [] handler[h].ans = "refused" -> "refused"
                                          [] OTHER                      -> @]
    /\ UNCHANGED <<drawer, sale, tries, cash, pass>>
\* Mutant: a drawer that is closed already is sent again and again.
SettlesUnlessClosed(ans) == ans = "done"
Settles(ans) == ans \in {"done", "closed"}
(* 2xx and 409 ALREADY_CLOSED settle the close; 404 leaves it waiting.       *)
HearClose(h) ==
    /\ pass.stage = "close" /\ Answered(h)
    /\ drawer' = IF Settles(handler[h].ans) THEN [drawer EXCEPT !.sync = "synced"] ELSE drawer
    /\ pass' = Idle /\ UNCHANGED <<sale, tries, cash, rev>>

(* No answer, or a 5xx: what was sent keeps waiting.  A sale ends its stage, *)
(* a reversal does not.                                                      *)
PassAfterNoAnswer ==
    CASE pass.stage = "cash"   -> [stage |-> "orders", tried |-> {}]
      [] pass.stage = "orders" -> [stage |-> "reversals", tried |-> {}]
      [] pass.stage = "close"  -> Idle
      [] OTHER                 -> pass
GiveUp ==
    /\ wait # None /\ faults < MaxFaults /\ faults' = faults + 1
    /\ wait' = None /\ pass' = PassAfterNoAnswer
    /\ handler' = [handler EXCEPT ![wait] = IF @.at = "said" THEN None ELSE @]
    /\ UNCHANGED <<till, cloud, overlapped, lateRev>>
(* The till's program restarts: its pass is forgotten.                       *)
Restart ==
    /\ faults < MaxFaults /\ faults' = faults + 1 /\ pass # Idle
    /\ wait' = None /\ pass' = Idle
    /\ handler' = [h \in Slots |-> IF h = wait /\ handler[h].at = "said" THEN None ELSE handler[h]]
    /\ UNCHANGED <<till, cloud, overlapped, lateRev>>
(* A handler is cut (a failed read or write, a server that goes down): the   *)
(* steps it did stay done.                                                   *)
Die(h) ==
    /\ h \in Running /\ faults < MaxFaults /\ faults' = faults + 1
    /\ handler' = [handler EXCEPT ![h] = None] 
    /\ overlapped' = (overlapped \/ Closing \/ handler[h].at = "back")
    /\ wait' = IF wait = h THEN None ELSE wait
    /\ pass' = IF wait = h THEN PassAfterNoAnswer ELSE pass
    /\ UNCHANGED <<till, cloud, lateRev>>
(* The refund's payment row is refused by the database: the claim is undone, *)
(* whoever was told meanwhile that the sale is refunded.                     *)
CalledDone(s) ==
    \/ rev[s].sync = "synced"
    \/ \E g \in Slots : handler[g] # None /\ handler[g].at = "said" /\ handler[g].ans = "done"
                        /\ s \in handler[g].rows
UndoRefund(h) ==
    /\ handler[h] # None /\ handler[h].job = "refund" /\ handler[h].at = "back"
    /\ faults < MaxFaults /\ faults' = faults + 1
    /\ refunded' = refunded \ handler[h].rows
    /\ handler' = [handler EXCEPT ![h] = None]
    /\ wait' = IF wait = h THEN None ELSE wait
    /\ pass' = IF wait = h THEN PassAfterNoAnswer ELSE pass
    /\ lateRev' = lateRev \cup {s \in handler[h].rows : CalledDone(s)}
    /\ UNCHANGED <<till, shift, order, back, taken, restored, held, relay, overlapped>>

-----------------------------------------------------------------------------
(* THE CLOUD: its handlers                                                   *)

TillOnly == UNCHANGED <<till, pass, wait, faults, overlapped, lateRev>>
At(h, jobs, step) == handler[h] # None /\ handler[h].job \in jobs /\ handler[h].at = step
Go(h, step) == handler' = [handler EXCEPT ![h].at = step]
(* A handler that ends answers the till if the till still waits for it.      *)
Say(h, ans) ==
    handler' = [handler EXCEPT ![h] = IF wait = h THEN [@ EXCEPT !.at = "said", !.ans = ans] ELSE None]
Return(h, step) == IF step = "said" THEN Say(h, IF handler[h].job = "order" THEN "stored" ELSE "done") ELSE Go(h, step)
Settle(h, step) == handler' = [handler EXCEPT ![h].at = "late", ![h].then = step]
IsOpen == shift.st = "open"

(* createOrder: the idempotency key is looked up; then the drawer's row is   *)
(* read: 424 without one, and whether it was closed already                  *)
(* (drawerClosedBeforeSale).  The sale may be refused.  (The two reads are   *)
(* one step: what comes between them the insert finds.)                      *)
LookOrder(h) ==
    /\ At(h, {"order"}, "look")
    /\ \E s \in handler[h].rows :
         IF order[s] # "none" THEN Say(h, "stored")
         ELSE \/ shift.st = "none" /\ Say(h, "nodrawer")
              \/ s \in Refusable /\ Say(h, "refused")
              \/ /\ shift.st # "none"
                 /\ handler' = [handler EXCEPT ![h].at = "insert", ![h].late = ~IsOpen]
    /\ TillOnly /\ UNCHANGED cloud
\* Mutant: a second insert of the same sale goes on like the first.
ConflictUnseen(s) == FALSE
Conflict(s) == order[s] # "none"
(* create_order_atomic: the unique idempotency key lets one insert through;  *)
(* the other answers with the order that is there.                           *)
InsertOrder(h) ==
    /\ At(h, {"order"}, "insert")
    /\ \E s \in handler[h].rows :
         IF Conflict(s) THEN Say(h, "stored") /\ UNCHANGED order
         ELSE order' = [order EXCEPT ![s] = "completed"] /\ Go(h, "stock")
    /\ TillOnly /\ UNCHANGED <<shift, refunded, back, taken, restored, held, relay>>
\* Mutant: a sale whose drawer was closed settles nothing.
LateSaleForgotten(h) == FALSE
LateSale(h) == handler[h].late
(* applyStockEffects, and a late sale settles its drawer.                    *)
TakeStock(h) ==
    /\ At(h, {"order"}, "stock")
    /\ \E s \in handler[h].rows : taken' = [taken EXCEPT ![s] = @ + 1]
    /\ IF LateSale(h) THEN Settle(h, "said") ELSE Return(h, "said")
    /\ TillOnly /\ UNCHANGED <<shift, order, refunded, back, restored, held, relay>>

(* syncPushHandler, shifts arm: a new drawer is inserted open, one the cloud *)
(* has keeps its status.                                                     *)
SpendArm(h) == IF handler[h].rows \cap Expenses # {} THEN "spend" ELSE "said"
StoreDrawer(h) ==
    /\ At(h, {"push"}, "drawer")
    /\ shift' = IF shift.st = "none" THEN [shift EXCEPT !.st = "open"] ELSE shift
    /\ Return(h, IF handler[h].rows \cap Floats # {} THEN "floats" ELSE SpendArm(h))
    /\ TillOnly /\ UNCHANGED <<order, refunded, back, taken, restored, held, relay>>
(* Floats arm: the drawer's status is read before the rows are written.      *)
ReadForFloats(h) ==
    /\ At(h, {"push"}, "floats")
    /\ handler' = [handler EXCEPT ![h].at = "upsert", ![h].late = ~IsOpen]
    /\ TillOnly /\ UNCHANGED cloud
StoreFloats(h) ==
    /\ At(h, {"push"}, "upsert")
    /\ held' = held \cup (handler[h].rows \cap Floats)
    /\ IF handler[h].late THEN Settle(h, SpendArm(h)) ELSE Return(h, SpendArm(h))
    /\ TillOnly /\ UNCHANGED <<shift, order, refunded, back, taken, restored, relay>>
(* Expenses arm: the status is read after the rows are written.              *)
StoreExpenses(h) ==
    /\ At(h, {"push"}, "spend")
    /\ held' = held \cup (handler[h].rows \cap Expenses) /\ Go(h, "spent")
    /\ TillOnly /\ UNCHANGED <<shift, order, refunded, back, taken, restored, relay>>
\* Mutant: expenses never settle a closed drawer.
ReadForExpensesOnly(h) ==
    At(h, {"push"}, "spent") /\ Return(h, "said") /\ TillOnly /\ UNCHANGED cloud
ReadForExpenses(h) ==
    /\ At(h, {"push"}, "spent")
    /\ IF IsOpen THEN Return(h, "said") ELSE Settle(h, "said")
    /\ TillOnly /\ UNCHANGED cloud

(* settleLateRows: the drawer's row is read, its cash summed again, and the  *)
(* new figure written if it moved.                                           *)
ReadLateDrawer(h) ==
    /\ At(h, {"order", "push"}, "late")
    /\ IF IsOpen THEN Return(h, handler[h].then)
       ELSE handler' = [handler EXCEPT ![h].at = "sum", ![h].was = shift.expected]
    /\ TillOnly /\ UNCHANGED cloud
(* computeExpectedCash, and the same sums inside the two closes: completed   *)
(* sales with their payments, then floats and expenses.                      *)
SumSales(h) ==
    /\ At(h, {"order", "push", "close", "force"}, "sum")
    /\ LET sold == {s \in Sales : order[s] = "completed"} IN
       handler' = [handler EXCEPT ![h].at = "cash",
                     ![h].seen = sold \cup {Back(s) : s \in {x \in sold : back[x] > 0}}]
    /\ TillOnly /\ UNCHANGED cloud
SumCash(h) ==
    /\ At(h, {"order", "push", "close", "force"}, "cash")
    /\ handler' = [handler EXCEPT ![h].at = "write", ![h].seen = @ \cup held]
    /\ TillOnly /\ UNCHANGED cloud
WriteLate(h) ==
    /\ At(h, {"order", "push"}, "write")
    /\ shift' = IF handler[h].seen # handler[h].was /\ ~IsOpen
                THEN [shift EXCEPT !.expected = handler[h].seen] ELSE shift
    /\ Return(h, handler[h].then)
    /\ TillOnly /\ UNCHANGED <<order, refunded, back, taken, restored, held, relay>>

\* Mutant: the till's count is dropped when the web closed first (before A522).
KeepsCountNever(h) == FALSE
KeepsCount(h) ==
    /\ shift.st # "none" /\ shift.count # "till"
    /\ handler[h].job = "close" /\ handler[h].from = "till"
(* POST /close and /force-close, openShiftOr409: 404 without the drawer, 409 *)
(* when it is closed already, and then the till's own count is kept beside   *)
(* the one that stands (recordTillCount).                                    *)
LookClose(h) ==
    /\ At(h, Closes, "look")
    /\ IF IsOpen THEN Go(h, "sum") /\ UNCHANGED shift
       ELSE /\ Say(h, IF shift.st = "none" THEN "nothing" ELSE "closed")
            /\ shift' = IF KeepsCount(h) THEN [shift EXCEPT !.kept = TRUE] ELSE shift
    /\ TillOnly /\ UNCHANGED <<order, refunded, back, taken, restored, held, relay>>
(* The close is written only over an open drawer; whoever came second is     *)
(* told so (alreadyClosed).                                                  *)
WriteClose(h) ==
    /\ At(h, Closes, "write")
    /\ LET forced == handler[h].job = "force"  by == handler[h].from IN
       shift' = IF ~IsOpen THEN shift
                ELSE [shift EXCEPT !.st = IF forced THEN "forced" ELSE "closed", !.by = by,
                        !.count = IF forced THEN "none" ELSE by, !.expected = handler[h].seen]
    /\ Say(h, IF IsOpen THEN "done" ELSE "closed")
    /\ TillOnly /\ UNCHANGED <<order, refunded, back, taken, restored, held, relay>>

(* POST /orders/:id/void and /refund: the sale is read, claimed by one       *)
(* conditional update, its payment given back, its stock put back.           *)
LookReversal(h) ==
    /\ At(h, {"void", "refund"}, "look")
    /\ \E s \in handler[h].rows :
         LET isVoid == handler[h].job = "void" IN
         CASE order[s] = "none"     -> Say(h, "nothing")
           [] order[s] = "voided"   -> Say(h, IF isVoid THEN "done" ELSE "refused")
           [] order[s] = "completed" /\ ~isVoid /\ s \in refunded -> Say(h, "done")
           [] OTHER                 -> Go(h, "claim")
    /\ TillOnly /\ UNCHANGED cloud
ClaimReversal(h) ==
    /\ At(h, {"void", "refund"}, "claim")
    /\ \E s \in handler[h].rows :
         LET mine == order[s] = "completed" /\ (handler[h].job = "void" \/ s \notin refunded) IN
         /\ IF mine THEN Go(h, "back") ELSE Say(h, "done")
         /\ order' = IF mine /\ handler[h].job = "void" THEN [order EXCEPT ![s] = "voided"] ELSE order
         /\ refunded' = IF mine /\ handler[h].job = "refund" THEN refunded \cup {s} ELSE refunded
    /\ TillOnly /\ UNCHANGED <<shift, back, taken, restored, held, relay>>
GiveBack(h) ==
    /\ At(h, {"void", "refund"}, "back")
    /\ \E s \in handler[h].rows : back' = [back EXCEPT ![s] = @ + 1]
    /\ Go(h, "restore")
    /\ TillOnly /\ UNCHANGED <<shift, order, refunded, taken, restored, held, relay>>
RestoreStock(h) ==
    /\ At(h, {"void", "refund"}, "restore")
    /\ \E s \in handler[h].rows : restored' = [restored EXCEPT ![s] = @ + 1]
    /\ Say(h, "done")
    /\ TillOnly /\ UNCHANGED <<shift, order, refunded, back, taken, held, relay>>

(* The branch server gets a till's sale and queues it for the cloud once     *)
(* (enqueuePeerRelay); its own push sends it until it is stored.             *)
EnqueueRelay(s) ==
    /\ s \in Relayed /\ sale[s] # "none" /\ relay[s] = "none"
    /\ relay' = [relay EXCEPT ![s] = "queued"]
    /\ TillOnly /\ UNCHANGED <<shift, order, refunded, back, taken, restored, held, handler>>
Relaying(s) == \E h \in Slots : handler[h] # None /\ handler[h].from = "relay" /\ handler[h].rows = {s}
RelayOrder(h, s) ==
    /\ relay[s] = "queued" /\ ~Relaying(s) /\ h # wait
    /\ Arrive(h, "order", "relay", {s})
    /\ UNCHANGED <<till, pass, wait, cloud, faults, lateRev>>
RelayStored(s) ==
    /\ relay[s] = "queued" /\ order[s] # "none" /\ ~Relaying(s)
    /\ relay' = [relay EXCEPT ![s] = "done"]
    /\ TillOnly /\ UNCHANGED <<shift, order, refunded, back, taken, restored, held, handler>>

(* A manager on the web closes the drawer, or voids or refunds a sale; one   *)
(* refunded already is offered for a void only (OrdersPage, isRefunded).     *)
WebClose(h, job) ==
    /\ IsOpen /\ h # wait /\ Arrive(h, job, "web", {})
    /\ UNCHANGED <<till, pass, wait, cloud, faults, lateRev>>
WebReverse(h, s, kind) ==
    /\ WebReverses /\ order[s] = "completed" /\ (kind = "refund" => s \notin refunded)
    /\ h # wait /\ Arrive(h, kind, "web", {s})
    /\ lateRev' = IF Closing THEN lateRev \cup {s} ELSE lateRev
    /\ UNCHANGED <<till, pass, wait, cloud, faults>>

-----------------------------------------------------------------------------
CounterStep ==
    \/ \E s \in Sales : MakeSale(s) \/ \E kind \in Kinds : Reverse(s, kind)
    \/ \E c \in Cash : AddCash(c)
    \/ \E st \in {"closed", "forced"} : CloseDrawer(st)
    \/ RetryFailed
PassStep ==
    \/ NextStage
    \/ \E h \in Slots :
         \/ PushCash(h) \/ PushClose(h)
         \/ \E s \in Sales : PushOrder(h, s) \/ PushReversal(h, s)
         \/ HearCash(h) \/ HearOrder(h) \/ HearReversal(h) \/ HearClose(h)
CloudStep(h) ==
    \/ LookOrder(h) \/ InsertOrder(h) \/ TakeStock(h)
    \/ StoreDrawer(h) \/ ReadForFloats(h) \/ StoreFloats(h) \/ StoreExpenses(h) \/ ReadForExpenses(h)
    \/ ReadLateDrawer(h) \/ SumSales(h) \/ SumCash(h) \/ WriteLate(h)
    \/ LookClose(h) \/ WriteClose(h)
    \/ LookReversal(h) \/ ClaimReversal(h) \/ GiveBack(h) \/ RestoreStock(h)
OtherStep ==
    \/ \E h \in Slots : (\E s \in Sales : RelayOrder(h, s) \/ \E kind \in Kinds : WebReverse(h, s, kind))
                        \/ \E job \in WebCloses : WebClose(h, job)
    \/ \E s \in Sales : EnqueueRelay(s) \/ RelayStored(s)
Next ==
    \/ CounterStep \/ AdoptClose \/ PassStep \/ OtherStep
    \/ GiveUp \/ Restart
    \/ \E h \in Slots : CloudStep(h) \/ Die(h) \/ UndoRefund(h)
Spec == Init /\ [][Next]_vars
(* The till's pass goes on (a timer starts it again and again), a handler    *)
(* that runs comes to its end.  Nobody at the counter or on the web, and no  *)
(* fault, has to happen.                                                     *)
Fairness == WF_vars(PassStep) /\ \A h \in Slots : WF_vars(CloudStep(h))
FairSpec == Spec /\ Fairness

-----------------------------------------------------------------------------
(* What the till counts in its drawer, less what the web took back from it.  *)
OwnBooks ==
    LET sold == {s \in Sales : sale[s] # "none" /\ rev[s].kind # "void" /\ order[s] # "voided"} IN
    sold \cup {Back(s) : s \in {x \in sold : rev[x].kind = "refund" \/ x \in refunded}}
         \cup {c \in Cash : cash[c] # "none"}
(* Everything about the drawer is answered for and nothing runs.             *)
Quiet ==
    /\ drawer.st # "open" /\ drawer.sync = "synced" /\ \A h \in Slots : handler[h] = None
    /\ \A s \in Sales : sale[s] \in {"none", "synced"} /\ rev[s].sync \notin {"pending", "refused"}
    /\ \A c \in Cash : cash[c] # "pending"
(* Sales voided or refunded after the close was sent; on the web's close,    *)
(* any voided or refunded sale: nothing settles the drawer for those.        *)
LateRev == lateRev \cup {s \in Sales : shift.by = "web" /\ rev[s] # NoRev}
LateRows == LateRev \cup {Back(s) : s \in LateRev}

(* What the till marks as taken the cloud has: a synced sale and cash row,   *)
(* and the close of a drawer the till has settled, whatever answers were     *)
(* lost, late or given up on (applyCashPushAnswer, reconcileClosedShifts).   *)
SyncedIsHeld ==
    /\ \A s \in Sales : sale[s] = "synced" => order[s] # "none"
    /\ \A c \in Cash : cash[c] = "synced" => c \in held
    /\ drawer.st # "open" /\ drawer.sync = "synced" => shift.st \in {"closed", "forced"}
(* When all is answered, the expected cash stored on the closed drawer is    *)
(* the sum of exactly the rows the till counts, whether the till or the web  *)
(* closed it and however late rows came, as long as no other request ran     *)
(* beside the close or beside another after it (reconcileClosedShifts,       *)
(* settleLateRows).                                                          *)
FiguresAgree ==
    Quiet /\ ~overlapped => shift.expected \ LateRows = OwnBooks \ LateRows
(* lateRows.ts: settleLateRows "is the one place that puts the drawer's      *)
(* figures right when they land": whoever closed it and whatever overlapped. *)
LateRowsAreSettled == Quiet => shift.expected \ LateRows = OwnBooks \ LateRows
(* The stock of a sale is taken at most once, and put back at most once for  *)
(* a void and once for a refund that stands, though the sale has two senders *)
(* and each of them may send it, its void and its refund again.  (One both   *)
(* refunded and voided is put back twice: the void asks for no refund.)      *)
Once(was) == IF was THEN 1 ELSE 0
StockMovesOnce ==
    \A s \in Sales : /\ taken[s] <= 1
                     /\ restored[s] <= Once(order[s] = "voided") + Once(s \in refunded)
(* The count of a drawer the till closed is on the cloud once the till has   *)
(* settled it, as the count that stands or beside it (recordTillCount); two  *)
(* closes that overlap are the exception.                                    *)
TillCountKept ==
    drawer.st = "closed" /\ drawer.sync = "synced" /\ ~drawer.adopted
        => shift.count = "till" \/ shift.kept \/ overlapped
(* The cloud closes a drawer for its till only when it has every sale of the *)
(* drawer and every void and refund taken before the close was sent (F2).    *)
CloseWaits ==
    [][shift.st = "open" /\ shift'.st \in {"closed", "forced"} /\ shift'.by = "till" =>
         \A s \in Sales : /\ sale[s] # "none" => order[s] # "none"
                          /\ rev[s].kind # "none" /\ s \notin lateRev /\ rev[s].sync # "refused"
                               => order[s] = "voided" \/ s \in refunded]_vars
(* A drawer the till closed reaches the cloud with all that is in it, unless *)
(* a sale of it was failed and waits for a person: the sales wait for their  *)
(* drawer, its voids for their sales and its close for all of them, and this *)
(* never becomes a circle (pushPendingOrders, reconcileClosedShifts).        *)
DrawerArrives ==
    drawer.st # "open" ~> Quiet \/ \E s \in Sales : sale[s] = "failed" \/ rev[s].sync = "refused"
=============================================================================
