----------------------------- MODULE RowEvents -----------------------------
(***************************************************************************)
(* Changes after the fact in SwiftPOS's branch replication (register       *)
(* phase 2b, F8, A364, A501; apps/desktop/src/main: nodeIngest.ts,         *)
(* dayService.ts, webSales.ts, ipc/reversals.ts, nodeServer.ts).           *)
(*                                                                         *)
(* Replicas never overwrite a row they hold, so a trading day that closes  *)
(* or reopens and a sale that is voided or refunded travel as events, rows *)
(* of one more replicated table, which each replica applies to its copy.   *)
(* A replica's database allows one open day per till: a day's row that     *)
(* arrives before the event closing the day before it is refused, and the  *)
(* event closing a day may arrive before the day's row.                    *)
(*                                                                         *)
(* One till makes the rows; "server" is its branch server, "peer" another  *)
(* till that pulls from the server.  Rows are the till's trading days, in  *)
(* order, and one sale.  Reinstalls, promotions and refusals of other      *)
(* kinds are the subject of NodeReplication.                               *)
(***************************************************************************)
EXTENDS Naturals, FiniteSets, Sequences, SequencesExt

CONSTANTS
    MaxDays,      \* bound: trading days the till opens
    MaxReopens,   \* bound: cash-ups followed by another shift that day
    BatchRows,    \* queue rows per request (200, or what fits in 2 MB)
    PullRows,     \* rows per pull (500)
    MaxAttempts,  \* refusals before a queue row is 'failed' (5)
    MaxFaults     \* bound: requests whose answer is lost

ASSUME BoundsAssumption ==
    /\ {MaxReopens, MaxFaults} \subseteq Nat
    /\ {MaxDays, BatchRows, PullRows, MaxAttempts} \subseteq Nat \ {0}

VARIABLES
    own,      \* the till's rows
    log,      \* its events, in seq order
    queue,    \* its node_queue
    copy,     \* each replica's copies of the rows
    ev,       \* each replica's events: 'applied' 0, 1 or -1, in arrival order
    pulled,   \* the peer's cursor for the days
    quar,     \* the peer's peer_quarantine
    reopens,  \* budget spent on reopened days
    faults    \* budget left for lost answers

vars == <<own, log, queue, copy, ev, pulled, quar, reopens, faults>>
tillVars == <<own, log, reopens>>
peerVars == <<pulled, quar>>

Replica == {"server", "peer"}
Sale == 0
Row == 0 .. MaxDays

\* The numbers of S up to n, in order.
InOrder(S, n) ==
    LET before[k \in 0 .. n + 1] ==
          IF k = 0 THEN <<>>
          ELSE IF k - 1 \in S THEN Append(before[k - 1], k - 1) ELSE before[k - 1]
    IN before[n + 1]

\* What a row says: its status, the cash-ups a day carries, the refund leg a
\* sale carries (a payment of status 'refunded', under an id of its own).
Leg == {"leg"}
Status == {"open", "closed", "completed", "voided"}
Value == [st : Status, cashUps : 0 .. MaxReopens + 1, legs : SUBSET Leg]
Kind == {"day_closed", "day_reopened", "order_voided", "order_refunded"}

Opened == [st |-> "open", cashUps |-> 0, legs |-> {}]
Rung == [st |-> "completed", cashUps |-> 0, legs |-> {}]

\* An event carries the row's columns as they are once the change is made.
Event(kind, row, value) == [kind |-> kind, row |-> row, value |-> value]

With(rows, r, v) == [q \in DOMAIN rows \cup {r} |-> IF q = r THEN v ELSE rows[q]]

Queued == {queue[i].row : i \in {j \in DOMAIN queue : ~queue[j].isEvent}}
Days == DOMAIN own \ {Sale}

Init ==
    /\ own = [r \in {} |-> Opened] /\ log = <<>> /\ queue = <<>>
    /\ copy = [x \in Replica |-> own]
    /\ ev = [x \in Replica |-> <<>>]
    /\ pulled = 0 /\ quar = <<>> /\ reopens = 0 /\ faults = MaxFaults

----------------------------------------------------------------------------
(* What happens at the till.                                               *)

\* A local change of row r and the event telling of it.
Change(r, kind, value) ==
    /\ own' = With(own, r, value)
    /\ log' = Append(log, Event(kind, r, value))
    /\ UNCHANGED <<queue, copy, ev, peerVars, faults>>

\* A new date's first shift: the day before is closed.
OpenDay ==
    LET d == Cardinality(Days) + 1 IN
    /\ d <= MaxDays
    /\ \A r \in Days : own[r].st = "closed"
    /\ own' = With(own, d, Opened)
    /\ UNCHANGED <<log, queue, copy, ev, peerVars, reopens, faults>>

\* The cash-up.  A day lasts longer than the outbox's beat (15 s), so its row
\* was queued while it was open.
CloseDay(d) ==
    /\ d \in Queued /\ own[d].st = "open"
    /\ Change(d, "day_closed",
              [own[d] EXCEPT !.st = "closed", !.cashUps = @ + 1])
    /\ UNCHANGED reopens

\* A shift opened after the cash-up, on the same date.
ReopenDay(d) ==
    /\ own[d].st = "closed" /\ d + 1 \notin Days
    /\ reopens < MaxReopens /\ reopens' = reopens + 1
    /\ Change(d, "day_reopened", [own[d] EXCEPT !.st = "open"])

RingSale ==
    /\ Sale \notin DOMAIN own
    /\ own' = With(own, Sale, Rung)
    /\ UNCHANGED <<log, queue, copy, ev, peerVars, reopens, faults>>

\* A void at the till, online or not, or one made on the web and pulled.
VoidSale ==
    /\ Sale \in DOMAIN own /\ own[Sale].st = "completed"
    /\ Change(Sale, "order_voided", [own[Sale] EXCEPT !.st = "voided"])
    /\ UNCHANGED reopens

\* A refund at the till writes its money-out leg; one pulled from the web is
\* stored under the cloud's id for it, once.  Neither emits an event.
RefundSale ==
    /\ Sale \in DOMAIN own
    /\ own[Sale].st = "completed" /\ own[Sale].legs = {}
    /\ own' = [own EXCEPT ![Sale].legs = Leg]
    /\ UNCHANGED <<log, queue, copy, ev, peerVars, reopens, faults>>

\* emitRefundEvents looks for refunded sales of this till without an event.
RefundUntold ==
    /\ Sale \in DOMAIN own /\ own[Sale].legs # {}
    /\ \A i \in DOMAIN log : log[i].kind # "order_refunded"

Scanned ==
    log \o (IF RefundUntold
            THEN <<Event("order_refunded", Sale, own[Sale])>> ELSE <<>>)

----------------------------------------------------------------------------
(* The outbox.                                                             *)

Item(isEvent, n, value) ==
    [isEvent |-> isEvent, row |-> n, value |-> value, att |-> 0,
     st |-> "pending"]

\* Rows as they are now, table by table: orders, business_days, events.
NewItems ==
    LET rows == InOrder(DOMAIN own \ Queued, MaxDays)
        told == Cardinality({i \in DOMAIN queue : queue[i].isEvent})
    IN [i \in DOMAIN rows |-> Item(FALSE, rows[i], own[rows[i]])]
       \o [i \in 1 .. Len(Scanned) - told |->
             Item(TRUE, told + i, Scanned[told + i].value)]

FillNodeOutbox ==
    /\ NewItems # <<>>
    /\ log' = Scanned
    /\ queue' = queue \o NewItems
    /\ UNCHANGED <<own, copy, ev, peerVars, reopens, faults>>

\* takeNodeQueueBatch: the oldest pending rows.
Batch ==
    LET pending == InOrder({i \in DOMAIN queue : queue[i].st = "pending"},
                           Len(queue))
    IN SubSeq(pending, 1, IF Len(pending) < BatchRows THEN Len(pending)
                                                      ELSE BatchRows)

Sending == LET batch == Batch IN [i \in DOMAIN batch |-> queue[batch[i]]]

\* Mutant: a refusal for the row's order is final.
RefuseAtOnce(item) == [item EXCEPT !.att = @ + 1, !.st = "failed"]

Refuse(item) ==
    [item EXCEPT !.att = @ + 1,
                 !.st = IF @ = "pending" /\ item.att + 1 < MaxAttempts
                        THEN "pending" ELSE "failed"]

----------------------------------------------------------------------------
(* What a replica does with rows and events.  Its state here is a record:  *)
(* its rows, its events' marks, and the items it refused.                  *)

\* The unique index: one open day per till.
OpenClash(rows, r) ==
    r # Sale /\ \E d \in DOMAIN rows \ {Sale, r} : rows[d].st = "open"

Repaired(rows, v) == [rows EXCEPT ![Sale].legs = @ \cup v.legs]

\* applyPeerRows on one row: new, already held (a sale's payments are
\* repaired, by id), or refused by the index.
TakeRow(s, item) ==
    IF item.row \in DOMAIN s.rows
      THEN [s EXCEPT !.rows = IF item.row = Sale THEN Repaired(@, item.value)
                                                 ELSE @]
    ELSE IF item.value.st = "open" /\ OpenClash(s.rows, item.row)
      THEN [s EXCEPT !.refused = Append(@, item)]
    ELSE [s EXCEPT !.rows = With(@, item.row, item.value)]

\* Events are only stored: an item's event number is its place.
TakeEvent(s, item) ==
    IF item.row <= Len(s.marks) THEN s
    ELSE [s EXCEPT !.marks = Append(@, "waiting")]

TakeItem(s, item) ==
    IF item.isEvent THEN TakeEvent(s, item) ELSE TakeRow(s, item)

Take(s, items) ==
    LET after[n \in 0 .. Len(items)] ==
          IF n = 0 THEN [s EXCEPT !.refused = <<>>]
                   ELSE TakeItem(after[n - 1], items[n])
    IN after[Len(items)]

\* The columns each kind may change, and a refund's legs, by their own ids.
Changed(v, e) ==
    CASE e.kind \in {"day_closed", "day_reopened"} ->
           [v EXCEPT !.st = e.value.st, !.cashUps = e.value.cashUps]
      [] e.kind = "order_voided" -> [v EXCEPT !.st = "voided"]
      [] e.kind = "order_refunded" -> [v EXCEPT !.legs = @ \cup e.value.legs]

\* Mutant: an event that finds no row is done with.
ApplyEventOnce(s, i) ==
    LET e == log[i] IN
    IF s.marks[i] # "waiting" THEN s
    ELSE IF e.row \notin DOMAIN s.rows
      THEN [s EXCEPT !.marks[i] = "applied"]
    ELSE IF e.kind = "day_reopened" /\ OpenClash(s.rows, e.row)
      THEN [s EXCEPT !.marks[i] = "refused"]
    ELSE [s EXCEPT !.rows[e.row] = Changed(@, e), !.marks[i] = "applied"]

\* One waiting event: its row is not here yet, or the UPDATE throws (the
\* index again), or the row takes the change.
ApplyEvent(s, i) ==
    LET e == log[i] IN
    IF s.marks[i] # "waiting" \/ e.row \notin DOMAIN s.rows THEN s
    ELSE IF e.kind = "day_reopened" /\ OpenClash(s.rows, e.row)
      THEN [s EXCEPT !.marks[i] = "refused"]
    ELSE [s EXCEPT !.rows[e.row] = Changed(@, e), !.marks[i] = "applied"]

\* applyPendingEvents, in the order the events arrived.
Sweep(s) ==
    LET after[n \in 0 .. Len(s.marks)] ==
          IF n = 0 THEN s ELSE ApplyEvent(after[n - 1], n)
    IN after[Len(s.marks)]

State(x) == [rows |-> copy[x], marks |-> ev[x], refused |-> <<>>]

Becomes(x, s) ==
    /\ copy' = [copy EXCEPT ![x] = s.rows]
    /\ ev' = [ev EXCEPT ![x] = s.marks]

----------------------------------------------------------------------------
(* Push: till to server (/node/sync).                                      *)

\* The batch, the sweep, the refused rows once more, the sweep again.
NodeSync(items) ==
    LET first == Take(State("server"), items)
        again == Take(Sweep(first), first.refused)
    IN [Sweep(again) EXCEPT !.refused = again.refused]

\* settleNodeBatch: what the answer names as refused, and the rest delivered.
Settled(after) ==
    LET bad == {after.refused[i].row : i \in DOMAIN after.refused}
        sent == ToSet(Batch)
    IN [i \in DOMAIN queue |->
          IF i \notin sent THEN queue[i]
          ELSE IF ~queue[i].isEvent /\ queue[i].row \in bad THEN Refuse(queue[i])
          ELSE [queue[i] EXCEPT !.st = "delivered"]]

Push ==
    /\ Batch # <<>>
    /\ LET after == NodeSync(Sending)
       IN Becomes("server", after) /\ queue' = Settled(after)
    /\ UNCHANGED <<tillVars, peerVars, faults>>

\* The server took the batch; the till never heard.
PushAnswerLost ==
    /\ Batch # <<>> /\ faults > 0
    /\ Becomes("server", NodeSync(Sending))
    /\ faults' = faults - 1
    /\ UNCHANGED <<tillVars, queue, peerVars>>

----------------------------------------------------------------------------
(* Pull: server to peer.                                                   *)

\* collectDistribution: the server's rows as they are, past the cursors.
Offered ==
    LET rows == InOrder({r \in DOMAIN copy["server"] :
                    IF r = Sale THEN Sale \notin DOMAIN copy["peer"]
                                ELSE r > pulled}, MaxDays)
        from == Len(ev["peer"])
        all == [i \in DOMAIN rows |-> Item(FALSE, rows[i], copy["server"][rows[i]])]
               \o [i \in 1 .. Len(ev["server"]) - from |->
                     Item(TRUE, from + i, log[from + i].value)]
    IN SubSeq(all, 1, IF Len(all) < PullRows THEN Len(all) ELSE PullRows)

\* retryPeerQuarantine: each row alone, days in order, then a sweep.
Retried(s, items) ==
    LET t == Take(s, items) IN [Sweep(t) EXCEPT !.refused = t.refused]

\* applyDistribution: refused rows are kept and the cursor moves on; after
\* the sweep the rows refused just now are tried once more.
Pull ==
    /\ Offered # <<>>
    /\ LET first == Take(State("peer"), Offered)
           after == Retried(Sweep(first), first.refused)
           days == {Offered[i].row : i \in {j \in DOMAIN Offered :
                                              ~Offered[j].isEvent}}
       IN /\ Becomes("peer", after)
          /\ quar' = quar \o after.refused
          /\ pulled' = CHOOSE n \in days \cup {pulled} :
                          \A d \in days \cup {pulled} : d <= n
    /\ UNCHANGED <<tillVars, queue, faults>>

\* A quarantined row's backoff ends.
RetryPeerQuarantine ==
    /\ quar # <<>>
    /\ LET after == Retried(State("peer"), quar)
       IN Becomes("peer", after) /\ quar' = after.refused
    /\ UNCHANGED <<tillVars, queue, pulled, faults>>

----------------------------------------------------------------------------

Trade ==
    \/ OpenDay \/ RingSale \/ VoidSale \/ RefundSale
    \/ \E d \in Days : CloseDay(d) \/ ReopenDay(d)

Next ==
    \/ Trade
    \/ FillNodeOutbox \/ Push \/ PushAnswerLost
    \/ Pull \/ RetryPeerQuarantine

Spec == Init /\ [][Next]_vars

----------------------------------------------------------------------------

EventRow == [kind : Kind, row : Row, value : Value]
QueueRow == [isEvent : BOOLEAN, row : Nat, value : Value, att : 0 .. MaxAttempts,
             st : {"pending", "delivered", "failed"}]

\* Every variable has its type.
TypeOK ==
    /\ DOMAIN own \subseteq Row /\ \A r \in DOMAIN own : own[r] \in Value
    /\ log \in Seq(EventRow) /\ queue \in Seq(QueueRow) /\ quar \in Seq(QueueRow)
    /\ \A x \in Replica :
         /\ DOMAIN copy[x] \subseteq Row
         /\ \A r \in DOMAIN copy[x] : copy[x][r] \in Value
         /\ ev[x] \in Seq({"waiting", "applied", "refused"})
    /\ pulled \in Row
    /\ reopens \in 0 .. MaxReopens /\ faults \in 0 .. MaxFaults

\* A replica that holds a row and has every event of the till shows the row
\* as the till does, whatever order rows and events came in, however often
\* they came, and whatever the row said when it was queued: the last close or
\* reopen, the void, and each refund leg once.
CopiesAgree ==
    \A x \in Replica : \A r \in DOMAIN copy[x] :
        ~RefundUntold /\ Len(ev[x]) = Len(log) => copy[x][r] = own[r]

\* Nothing is left to send, to pull or to retry that would still be taken.
Quiet ==
    /\ NewItems = <<>> /\ Batch = <<>> /\ Offered = <<>>
    /\ Retried(State("peer"), quar).refused = quar

\* No row and no change is lost on the way: when the timers have nothing more
\* to do, the server holds all of the till's rows, as they are on the till,
\* and so does the peer, but for a day in its quarantine while a later day is
\* open.  No day stays refused, no event waits, no queue row is given up.
NothingLeftOut ==
    Quiet =>
        /\ \A x \in Replica : Len(ev[x]) = Len(log)
        /\ copy["server"] = own
        /\ \/ copy["peer"] = own
           \/ quar # <<>> /\ \E d \in Days : own[d].st = "open"
=============================================================================
