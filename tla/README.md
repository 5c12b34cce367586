# SwiftPOS: models and proofs

TLA+ models of the protocols of SwiftPOS that run between several machines,
the TLC runs that check them on small instances, and TLAPS proofs of their
main properties for every instance. Every definition is a translation of the
source; `PROJECT.json` gives, definition by definition, the lines it stands for.

| file | what it is |
| --- | --- |
| `NodeReplication.tla` | branch replication: a till's outbox, the branch server, the pull of the other tills, promotion and rejoin |
| `NodeReplicationProofs.tla` | its proofs |
| `MCNodeReplication.tla`, `Node*.cfg` | its TLC instances |
| `RowEvents.tla`, `RowEvents.cfg` | days closed and reopened, sales voided and refunded, on the replicas |
| `RowEventsProofs.tla` | its proofs |
| `DrawerPush.tla` | a drawer's sales, cash rows, reversals and close on their way to the cloud, and the cloud's handlers |
| `DrawerPushProofs.tla` | its proofs |
| `MCDrawerPush.tla`, `Drawer*.cfg` | its TLC instances |
| `Instructions.tla`, `Instructions.cfg` | what the branch server tells a till to do |
| `InstructionsProofs.tla` | its proofs |
| `PaymentLedger.tla` | what the list of received M-Pesa payments promises (abstract) |
| `MpesaClaims.tla` | the protocol that keeps that promise |
| `MpesaClaimsProofs.tla` | its proofs, the refinement included |
| `MCMpesaClaims.tla`, `MpesaClaims.cfg` | its TLC instance |
| `MpesaPrompt.tla`, `MpesaPrompt.cfg` | the M-Pesa prompt of one bill |
| `MpesaPromptProofs.tla` | its proofs |
| `TillChanges.tla` | a manager's change made at a till, on its way to the cloud and back |
| `TillChangesProofs.tla` | its proofs |
| `MCTillChanges.tla`, `TillChanges*.cfg` | its TLC instances |
| `SessionRenewal.tla` | how a till renews its session with the cloud |
| `SessionRenewalProofs.tla` | its proofs |
| `MCSessionRenewal.tla`, `Renewal*.cfg` | its TLC instances |

To check a run: `tlc -config NodeFailover.cfg MCNodeReplication.tla`. To check
the proofs: `tlapm NodeReplicationProofs.tla`.

## 1. The system

A business has branches; a branch has tills (Electron, `apps/desktop`), one of
which, or a machine of its own, is the *branch server* or *node*; the cloud
(`apps/server`, Express over Postgres) serves them all. A till never waits for
the network to sell: it writes to its own SQLite database, and everything else
happens behind it.

```
   till --- node_queue, POST /node/sync ---> branch server
   till <-- GET /node/distribution, cursors -- (rows of the other tills)
   till --- POST /api/sync/push, /orders -----> cloud
   till <-- reference pull (menus, settings) -- cloud
   till --- /api/auth/refresh, /refresh/ack --> cloud (or through the node)
   till --- POST /node/instructions/poll, ack -> branch server
   till --- M-Pesa: prompts, received payments -> cloud <-- Safaricom
   branch server --- relay of its tills' rows -> cloud
```

What makes it hard is that each arrow can break at any time, that a till may be
moved from one server to another in the middle of any of them, and that the
same row can travel by two roads.

### Inventory

**Branch replication** (`nodeIngest.ts`, `nodeClient.ts`, `syncEngine.ts`
3680-3900; *modelled*). State: `device_seq` (numbers of own rows), `node_queue`
(one entry per own row: pending, delivered, failed; attempts; last error),
`outbox_cursors`, `node_target`, `node_identity`, `node_rearm_skip`. Operations:
number own rows, fill the queue, take a batch, push it, settle it, skip what a
new server already holds, re-arm, prune after seven days, retry failed rows.
Interacts with the server by requests that may be lost, late, or applied after
the till gave up; with the configuration, which may change during a push.
Correct when: no row is left out of the queue; nothing is crossed off that the
server does not hold; nothing owed to a new server is forgotten; an outage
never exhausts a row's attempts.

**Branch server** (`nodeServer.ts`, `nodeIngest.ts` 346-525; *modelled*).
State: replica rows, `peer_cursors` (highest number taken per origin),
`peer_quarantine`. Operations: `/node/sync`, `/node/cursors`,
`/node/distribution`, quarantine retries. Correct when: a cursor says the truth
about what was taken, and every till ends with what the server holds.

**Promotion, rejoin, repointing** (`ipc/join.ts`, `ipc/tech.ts`,
`deviceConfig.ts`, `nodeFollow.ts`; *modelled where it touches replication*).
State: role, address of the server, the configuration to restore. Correct when
any sequence of them leaves the two parts above correct.

**Session renewal** (`lib/refreshHandshake.ts`, `routes/auth.ts`,
`syncEngine.ts` 285-550, `tokenStore.ts`; *modelled for a till's own session*).
State: `refresh_tokens` (acked, revoked, replaced_by), `device_secret_hash`;
on the till the token and the device secret on disk. Operations: refresh,
confirm, device sign-in, keep the pair. Correct when: an honest till is never
refused, an outdated copy is, and the secret a till holds is the one on record.

**Row events** (`nodeIngest.ts` 1042-1064, 1460-1643; `dayService.ts`,
`webSales.ts`, `offlineReversal.ts`; *modelled in RowEvents*). A replica never
overwrites a row, so a day closed or reopened and a sale voided or refunded
travel as events in a table of their own. State: `events` with `applied` 0, 1 or
-1. They may arrive before their row, twice, or with a row that is newer than
they are. Correct when a replica that has every event shows what the till shows,
and nothing is left refused or waiting.

**Cloud push of a drawer** (`syncEngine.ts` 751-838, 2970-4278; `routes/sync.ts`,
`routes/orders.ts`, `routes/shifts.ts`, `lib/lateRows.ts`, `peerRelay.ts`;
*modelled in DrawerPush, trading days excepted*). State: what is pending, synced
or failed on the till; at the cloud the drawer, its orders, its cash rows and
its stored expected cash. Operations: cash rows with the drawer, then sales,
then reversals, then the close; a sale carries an idempotency key and may come
from its till and from the node's relay. Correct when: exactly one order per
sale; nothing is marked sent that the cloud does not have; a drawer is closed
after all that is in it; the figure stored with it is the sum of what is in it.

**Branch close and instructions** (`branchClose.ts`, `index.ts` 462-520,
`nodeServer.ts` 612-655, `ipc/dayClose.ts`; *modelled in Instructions*). The
server leaves instructions (close the day, confirm a shift, record money) that a
till collects, carries out and answers; they expire, are replaced or withdrawn.
Correct when one is carried out once, what the screen says of it is true, a late
close closes no later day, and none stays unanswered.

**M-Pesa, received payments** (`lib/c2b.ts`, `lib/c2bStore.ts`, `routes/c2b.ts`,
`mpesaC2b.ts`, `MpesaReceivedPanel.tsx`; *modelled in MpesaClaims*). A payment
is received, held by a till for a bill, given back, used by a sale. Correct when
one till holds it at a time and one order uses it.

**M-Pesa, prompts** (`routes/mpesa.ts`, `mpesaStk.ts`, the web's
`MpesaStkPanel.tsx`; *modelled in MpesaPrompt*). A prompt is sent to a phone and the panel polls what became of
it, while Safaricom calls back. Correct when "Paid" is shown only for what was
paid and a payment once reported stays on record.

**Trading day and drawers** (`dayService.ts`, `shiftService.ts`): *modelled
where they meet the three protocols above*; hand-over and sibling drawers are
not.

**Open tabs** (`nodeTabs.ts`; *not modelled*). The lease on an open bill has unit
tests but no caller: no endpoint, IPC handler or screen of this commit imports
it.

**Back-office changes made at a till** (`localChanges.ts`, `changeQueue.ts`,
`lib/changeApply.ts`, `routes/changes.ts`, `core/tillChanges.ts`; *modelled in
TillChanges*). A manager's change works at once on the till and waits in
`local_changes`; till and branch server both send it; the cloud judges it once
(`change_requests`) and may hold it for the owner. Correct when each edit is
judged, none overwrites what the till never saw, the last one stays on the till
while it waits, and till and cloud agree in the end.

**Reference pull** (`referenceBundle.ts`, `lib/syncVersions.ts`,
`lib/syncChanges.ts`), **PIN sign-in** (`pinCache.ts`, `pinAttempts.ts`),
**bill numbers** (`billNumber.ts`): later candidates; versioned copies, a
counter with windows and a small counter. **Stock** (`lib/stockEffects.ts`,
`lib/batches.ts`): how often it moves is in DrawerPush, the quantities are not.

**Not planned**: printing and kitchen, backups and updates, attendance devices,
reports and mail, the web, admin and Android front ends (I/O, layout and
read-only views); permission lookups (pure tables with unit tests).

`PROJECT.json` lists every component with its files and every hazard with its
line, those no property covers yet included.

## 2. NodeReplication

### State and code

A row is `<<m, k>>`, the k-th row machine `m` numbered. A machine holds its own
rows (`made`, `numbered`) and replicas of others' (`held`, `cur`, `quar`,
`gaveUp`: the replica tables, `peer_cursors`, `peer_quarantine` waiting and
given up). `outCur`, `queue`, `target`, `ident`, `skipOwed` are
`outbox_cursors`, `node_queue` and three rows of `maintenance_state`. `pass[m]`
is the push pass in progress, one per till, in the phases of `pushToNodeOnce`:

| phase | action | code |
| --- | --- | --- |
| idle -> noted | `BeginPass` (`NoteTarget`) | `noteNodeTarget`, `resetOutboxCursors` |
| noted -> asking / ready | `FillNodeOutbox` | `checkNodeIdentity`, `numberOwnRows`, `fillNodeOutbox` |
| asking -> ready | `AskCursors` | `fetchNodeCursors`, `skipHeldByNode` |
| ready -> sent | `SendBatch` | `takeNodeQueueBatch`, the POST |
| sent -> answered | `NodeSync` | the server: `applyPeerRows` |
| answered -> ready | `SettleNodeBatch` | `settleNodeBatch` and its marks |
| sent -> idle | `NoAnswer`, `RefuseBatch` | transport outcomes, 413 and other 4xx |

`LateSync` is a request the till gave up on that arrives all the same (`stray`).
`PullDistribution`, `RetryPeerQuarantine`, `PruneNodeQueue`, `RetryFailed` are
the tills' other beats; `PromoteToNode`, `StartRejoin`, `RejoinConfirmed`,
`RejoinRefused`, `Crash`, `StartNodeServer` the moves and deaths.

Some variables are history or budget: `suspect` (rows ever refused,
quarantined, pruned or misplaced), `by` in a queue entry (whose answer crossed
it off), `moves` and `faults`. A till may be promoted, rejoined or put back at
any moment, in the middle of its push pass too; the pass goes on, its next batch
to the new server, though `node_target` names the old one until the next pass.
A row that it then crosses off, or leaves out of a batch as crossed off, for
another server than the one noted is `Misplaced`.

### Abstractions

- One insert-only table. Rows that change are in RowEvents.
- Whether the INSERT of a row throws is a choice, for the rows in `Refusable`.
- The 2 MB cap of a request is "any prefix of the pending rows, up to
  `BatchRows`"; seven days in quarantine are a choice (`lost`).
- One outstanding request per till, plus the abandoned ones. The server's
  cursors are read in one step; pulls are per origin.
- A changed access code at the same address is a re-arm with the same server.
- The once-a-minute throttle of the identity check is a choice (`asked`).
- `nodeFollow` (the same server at a new address) changes nothing told apart
  here. `config:save` refuses a typed address (`ipc/device.ts` 168-174), so a
  till is repointed by a rejoin only.

### Properties

Invariants: `OutboxComplete`, `CleanDeliveredRowsAreHeld`, `CursorCoversRows`,
`NothingOwedIsForgotten`. Action property: `OnlyAnswersCount`. Liveness:
`HeldOrFailed`, `ReachesItsServer`, `ReachesEveryTill`. They are about *clean*
rows, those not in `suspect`, where the code's reasoning with cursors is sound;
the two that say it of all rows (`DeliveredRowsAreHeld`, `PulledRowsAreHeld`)
are refuted, see section 10. A rejoin while a request to the old server
is out is not excepted as such: its answer settles entries that were just offered
anew, and the next pass, which notes the new server, offers them again. Excepted
are the rows it settles only if the same pass also sends the new server others.

### Bounds

Three machines are the least with an origin, an old and a new server, and each
till can be any of them. Two rows are the least for "one refused, the next
taken", "one queued, one beyond the LIMIT" and "younger overtakes older". Two
moves allow to leave a server and come back, or go on to a third; one fault
cuts a request, a cursor write or a machine once. `NodeFailover` sends batches
of up to two and may refuse the first row. `NodeOneServer` fills the queue one
row at a time, so that the fill's LIMIT leaves a row behind, and sends batches of
up to two, either row of which may be refused, twice before it is failed, and the
first pruned; it has no moves, for `HeldOrFailed`. `NodeLive` has one row and two
moves. Two more configurations hold and are not among the runs: `NodePruned.cfg`
fills and sends one row at a time, through two moves, and may prune the first row
(5.39 M states); `NodeRefused.cfg` has batches of two with one move, a refused
and a pruned row (2.35 M).

### Fairness

Weak fairness of each till's push steps (the 15 s beat; each step of a pass has
a timeout), of the pull (30 s beat), of the server's numbering, of a machine
that died being switched on again, and of the cloud's confirmation of a rejoin.
None of people, none of the network: faults are bounded, not fair.

### Proofs

`NodeReplicationProofs` proves, for any machines, quotas and bounds:

- `TypeCorrect`, `OutboxIsComplete` (`OutboxComplete`) and `AttemptsAreAnswers`
  (`OnlyAnswersCount`);
- `CursorsCover` (`CursorCoversRows`), `CleanRowsAreHeld`
  (`CleanDeliveredRowsAreHeld`) and `NothingIsForgotten`
  (`NothingOwedIsForgotten`).

The inductive invariant (`BranchAgrees`) has three parts. `CursorInv`: a clean
row at or below a cursor is held; each request on its way and each abandoned one
is for rows whose older rows the server has, so that taking it leaves no hole,
and an answer says what the server did. `QueueInv`: a clean entry crossed off is
on the server noted last; clean rows are in the queue in the order of their
numbers, so that a batch of the oldest pending entries leaves no hole at that
server. `OutboxComplete`, without which "the oldest pending entry" says nothing
about the rows. Neither cursors nor queue can be argued about alone: the skip
believes the cursor, and the cursor is right because of the order of the queue.

## 3. SessionRenewal

### State and code

`rows` is `refresh_tokens` of one till, tokens numbered as minted; `hash` the
device-secret hash on its `user_devices` row. A renewal in hand at the cloud is
a record of `req`, whose `pc` is the next database call of the handler: `sent`
(`validateRefreshToken`, then the till's row), `confirm` and `retire` (the
implicit ack), `orphan` (a re-ask revokes the successor nobody got), `store`
(`storeRefreshToken`), `link` (`replaced_by`), `secret` (`issueSecret`),
`answer`. The handler may die between any two, and each write may fail with an
error that is only logged. `acks`, `acking`, `retiring` are `/refresh/ack` on
the way and between its writes. The till has `disk` and `secret`, and `pc`,
`slot`, `got` for the renewal it waits for: `SendRenewal`, `GiveUp` (timeout),
`KeepRenewedPair` (disk first, then the ack), `WriteDeviceSecret`,
`DeviceGrant`, `HoldBack`, `Restart`.

### Abstractions

- One till and its own device session. Of a person's session only the
  difference "replay revokes all" is lost.
- A token stands for its row, a secret for its hash. Expiry, blocked tills and
  identity mismatches are one refusal, `other`.
- The token row, its successor and the till's row are read in one step.
- By way of the branch server or straight to the cloud makes no difference but
  one: after a refusal that came through the server there is no device sign-in
  (`HoldBack` is always possible).
- Waiting times (15 minutes, 429) are not modelled; the till may ask again.
- The till's disk keeps one token; wrapping it (`*_enc`) is left out.

### Properties

`KeptKeyIsAccepted`: in every state, in the middle of a renewal too, the cloud
would take the token on the till's disk (unless its INSERT had failed).
`NeverStale`: the honest till is never told its token is outdated.
`SecretStandsGood`: a till's device secret is the one on record.
`OldKeysAreRefused`: a token the till replaced is refused once the newest is
confirmed, and after one more renewal though every ack was lost; this holds
while no retiring write has failed or been cut off (`spoilt`): the handler
then does not come back to it.

Nothing keeps two renewals of one till apart: it gives up on an answer while
the cloud still has the request, and asks again at once. The four properties
hold as long as no two of them cross (`crossed`). They cross when the cloud
starts on one (`ReadToken`) while it is at work on another, or starts on one
the till sent before it got its present token (`late`). Without either half of
that exception TLC finds `KeptKeyIsAccepted` violated. Less is not excepted: a
late request that the cloud refuses, because the till has confirmed the newer
token, costs nothing, and neither does one that is still waiting to be read.
`SlowLineCostsNothing` and `OneSecretIsHandedOut` are two of the properties
without the exception; TLC refutes them (section 10).

### Bounds

Four tokens are three renewals: enough for an ack lost or a re-ask and a
renewal after it, or a new session in between. Three faults are the most a
single renewal can meet without ending; giving up costs one. Two requests in
hand are the fewest that can cross, and which is which does not matter
(`SYMMETRY Alike`). Five tokens with two faults, without the symmetry, hold too
(6.4 M states). There is no liveness property: the till asks on a timer and
nothing else is promised.

### Proofs

`SessionRenewalProofs` proves, for any number of tokens, faults and renewals in
hand, `RenewalTypes` (types, and chains of replaced tokens have no cycles),
`KeyStaysGood` (`KeptKeyIsAccepted`), `HonestTill` (`NeverStale`) and
`SecretGood` (`SecretStandsGood`). Each invariant holds until renewals cross
(`UntilCrossed`). The one for `NeverStale` and `KeptKeyIsAccepted`: the cloud is
at work on one renewal at most, and that one and the one the till waits for show
the token on disk (`InTurn`); only tokens that were once on disk are
confirmed, and all of those are at most as young as it (`RowsInOrder`); what is
being revoked or handed out is younger (`KeysInOrder`). So the successor of the
token on disk, if it has one, was never confirmed, and the cloud re-mints it.
The secret needs `SecretsInOrder`: while a secret is on its way the till holds
none, and what the handler read is still on record.

`OldKeysDie` (`OldKeysAreRefused`) needs what the rows say of each other. `SessionsInOrder`: a row is stored exactly when it has a
session, its successor is stored and of the same session, and so is whatever is
on its way to the till. `RetiresInOrder`, as long as no retiring write failed:
whoever is confirmed has its parent revoked, or a writer under way to do it; and
a token the till has replaced was confirmed itself (its use confirmed it before
the successor was minted) and points at another token the till once had. So of
two replaced tokens in a row the older is revoked with a successor that was
confirmed, and the last one is outdated as soon as the token on disk is
confirmed: neither is a rotation nor a re-ask.

## 4. RowEvents

### State and code

One till (`own` rows, `log` of events), two replicas: `server`, and `peer`, a
till that pulls. Rows are trading days, in order, and one sale. `queue` is
`node_queue`; `copy[x]` the replicated tables of replica x; `ev[x]` its
`events` with `applied` 0 (`waiting`), 1 or -1; `pulled` the peer's cursor,
`quar` its quarantine.

`OpenDay`, `CloseDay`, `ReopenDay`, `RingSale`, `VoidSale`, `RefundSale` change
a row and emit its event (`emitEvent`, `emitRefundEvents`). `FillNodeOutbox`
queues both, and a row queued is read when it is sent. `Push` is a request with
what the server makes of it (`NodeSync`): the batch, the sweep of waiting events
(`applyPendingEvents`), the refused rows of that batch once more
(`retryRefusedAfterEvents`), a second sweep; then the answer is settled.
`PushAnswerLost` does the same at the server only. `Pull` and
`RetryPeerQuarantine` are the peer's beats.

What makes it hard: a replica allows one open day per till (the unique index,
`localDb.ts` 536-538), so day 2 may be refused until the event closing day 1 is
applied, while that event may come before day 1; and a row sent late is already
newer than events still on their way.

### Abstractions

Events are applied in the order they arrived (the index on `applied` gives rowid
order). Close and reopen carry the row's new values, as in the code; a refund leg
is a payment row under its own id, so a set. `shift_closed` is a plain UPDATE
like `day_closed` and is left out, as are reinstalls, promotions and refusals for
other reasons (NodeReplication).

### Properties and bounds

`CopiesAgree`: a replica that holds a row and has every event shows the row as
the till does, whatever the order, repeats and ages. `NothingLeftOut`: when no
timer has anything more to do, both replicas hold everything; nothing is refused
or waiting. It is a safety property of the quiet states, so it needs no fairness;
that quiet states are reached is not claimed.

Two days are the least for the refusal, one reopening the least for "closed,
reopened, closed"; three rows in a batch or a pull (of up to nine) cut batches in
every place the order matters: a row without its event, an event without its row.
One lost answer sends a batch twice. Five refusals per queue row are the code's.

### Proofs

`RowEventsProofs` proves type correctness (`RowEventsTypeCorrect`) and
`ReplicasAgree` (`CopiesAgree`) for any number of days, reopenings, refusals and
lost answers, and batches and pulls of any size. `CopiesAgree` speaks of replicas
that have every event; the inductive invariant (`RowsInv`) says what holds on the
way there:

- At the till (`AtTill`): days come in order and all but the last are closed; a
  day is as its last event says, and open and untouched if it has none; a void
  has its event, and a refund is on the sale before its event is.
- On the way (`OnTheWay`): a row queued or offered carries a value the till's row
  had once, or one its events will overwrite (`Sound`); nothing says more of a
  sale than the till does. A row may be older than the events behind it or newer
  than those before it.
- At a replica (`Copied`): the events of a row are settled in their order, and
  only once the row is here; the row is as the last one applied says; after a
  sweep no event waits whose row is here (`Swept`).

Two facts carry it. An event that finds no row waits, and so do all later ones of
that row: a row that arrives late, however new its columns, is brought through
all of them, and ends at the last. And an event the unique index refuses for good
is never the last of its row (`ClashIsPast`): the day it would reopen clashes
only with a later day, which the till opened after closing the earlier one again,
so another event of it is in the log. With `ApplyEventOnce`, the mutant where an
event that finds no row is done with, the first fails.

This proof does not use that a day's row is queued before its cash-up (the guard
of `CloseDay`), nor how often a row may be refused. The next one does.

`NothingIsLeftOut` proves `NothingLeftOut` of every quiet state in which no queue
row was given up (`~GivenUp`). Its invariant (`LeftInv`) adds to `RowsInv`:

- Each day is queued once, in order and open, and a day not queued is untouched
  (`RowsQueued`: here the guard of `CloseDay` counts). Each event is queued once,
  in order, and none is skipped (`EventsQueued`).
- What the till takes for delivered is at the server (`Delivered`).
- The server has no day without the earlier ones, and the peer has, or has in
  quarantine, each day its cursor passed (`Passed`).

`Delivered` is where batches cut anywhere are dealt with: a row refused at the
server stays pending or fails, and only what the server took is settled. `Passed`
is where `~GivenUp` is needed: a day given up leaves a gap at the server; filled
later, by an operator, it lies behind the cursor of the peer. In a quiet state a
day still in quarantine clashes with an open one (`StuckIsOpen`).

Without `~GivenUp` the formula is false where batches are of one row. A day
refused at the head of the queue is then sent alone until its refusals are spent,
and the event that would let it in is never reached (`BatchRows = 1` shows this
in fourteen steps). At the run's bounds, with three rows in a batch, TLC shows
`NothingLeftOut` without the condition. With the code's 200 rows and five
refusals it takes some thousand queue rows between a day's row and the event that
closes the day before.

## 5. DrawerPush

### State and code

One drawer. On the till: `drawer` (the row of `shifts`), `sale`/`tries`
(`orders` and `sync_queue`), `cash` (floats and expenses), `rev`
(`pending_reversals`), `pass` (the stage of `runPushStagesOnce`) and `wait`, the
handler the till waits for. At the cloud: `shift`, `order`, `refunded`, `back`,
`taken`, `restored`, `held`; `relay` is the branch server's queue of a till's
sale.

A request is a record in `handler[h]`, stepping through the reads and writes of
its handler; `Slots` bounds how many run at once, and everything may happen
between two steps. `GiveUp` leaves the handler running: the till sends again
while the old request still works. `Die` cuts a handler between two statements.

| stage | till | cloud |
| --- | --- | --- |
| cash | `PushCash`, `HearCash` | `StoreDrawer`, `ReadForFloats`, `StoreFloats`, `StoreExpenses`, `ReadForExpenses` |
| orders | `PushOrder`, `HearOrder` | `LookOrder`, `InsertOrder`, `TakeStock` |
| reversals | `PushReversal`, `HearReversal` | `LookReversal`, `ClaimReversal`, `GiveBack`, `RestoreStock` |
| close | `PushClose`, `HearClose` | `LookClose`, `SumSales`, `SumCash`, `WriteClose` |
| late rows | - | `ReadLateDrawer`, `SumSales`, `SumCash`, `WriteLate` |

Other senders: `RelayOrder`, and the web (`WebClose`, `WebReverse`), whose close
the till adopts (`AdoptClose`).

### Abstractions

Expected cash is the SET of rows it was summed from: an amount left out is a row
left out, and amounts that would happen to cancel cannot hide it. One sale is
refunded in full. `create_order_atomic` is one step (a database function).
Pricing, loyalty, credit, audit rows, attendance and trading days are left out.

### Properties

- `SyncedIsHeld`: what the till has marked sent is at the cloud.
- `CloseWaits`: the till sends a close only when all sales, voids and refunds
  that existed are there.
- `TillCountKept`: the till's own count is not lost to a close made on the web.
- `FiguresAgree`: when all is answered, the expected cash stored is the sum of
  exactly what the till counts, provided no request overlapped the close or
  another after it.
- `StockMovesOnce`: whatever the two senders and the retries do, a sale's stock
  is taken at most once, and put back at most once for a void and once for a
  refund that stands.
- `DrawerArrives` (liveness): once faults stop and the drawer is closed, all is
  settled or visibly failed.

The two exceptions of `FiguresAgree` are history variables: `overlapped`, and
`lateRev` (reversed once the close had been sent, or whose refund was undone after
another request for it had been told it is done). Section 10 says what happens in
those cases.

### Bounds and fairness

`drawer_push` has a sale that may be refused, a float, an expense, a refund, a
close by the till or the web, two handlers at once and one fault.
`drawer_two_senders` has a sale that till and relay both send, and that is voided
and refunded, in any order, at the till and on the web; with two faults
`StockMovesOnce` holds there too (`DrawerStock.cfg`, 4.75 M states, not among the
runs). Two handlers are the least for a retry that meets the request it retries;
with one sale every pair of kinds of request still meets. The expected cash is a
sum, so a second sale would only repeat the first one's steps.

Fair are the till's pass (a timer) and each handler's own steps (a handler runs
to its end or dies, and deaths are bounded). People are not fair: nobody has to
close the drawer.

### Proofs

`DrawerPushProofs` proves, for any sales, cash rows, senders, number of handlers
at once and faults:

- `MarksAreTrue` (`SyncedIsHeld`). The invariant `HeldInv` says, of each request
  at the cloud, what its place in the handler tells: past `insert` its sale is
  there, past `floats` its floats are, at `sum` the drawer is known, and an
  answer is only given to the till that waits for it in the stage the request
  belongs to. A close of the till is under way only when all sales are there,
  and no sale is added to a drawer that was closed.
- `CountsAreKept` (`TillCountKept`). A close of the till that finds the drawer
  closed by another one either met it at its first read, and then left its
  count beside, or ran beside it: two closes that run together have set
  `overlapped`.
- `ClosesWait` (`CloseWaits`). A void answered `done` is a void on the order, for
  good. A refund is not: its claim may be undone by a failed payment row
  (`UndoRefund`, `orders.ts` 1873), while a second request for the same refund
  was answered `done` from the claim (1778), and the close no longer waits for
  it. Such a sale is put in `lateRev` and excepted; without the exception the
  property is false, though it takes two requests for one refund and a fault,
  more than the bounds of `drawer_push`.
- `StockIsMovedOnce` (`StockMovesOnce`). Only the request that inserted the order
  takes its stock, and only the one whose conditional update claimed the void or
  the refund puts it back, each once. So what was put back, and what the requests
  past their claim still have to put back, is no more than the void and the
  refund that stand (`RestoredOf`); a refund that is undone takes its own part
  away, which it had not put back. A sale refunded and then voided is put back by
  each (section 10).

`FiguresAreRight` (`FiguresAgree`) is proved for the same constants, refunds
included. The stored figure is wrong in between, so the invariant (`FigInv`) says
when it may be. While nothing overlapped, at most one handler is busy from the
arrival of the close on. So what it knows stays true until it writes (`Knows`):
whether it is late, whose sale it reverses, the figure it replaces, and, step by
step, that what it has summed so far is what the cloud holds. And the figure on a
closed drawer is the sum of what the cloud holds, or a handler on its way has
still to settle it (`Exact`). When all is answered no handler is left, and what
the cloud holds is what the till counts: everything the till marked is there
(`HeldInv`), the cloud has only what the till made (`MadeFirst`), and a refund
counts at both or at neither (`BackOf`).

## 6. Instructions

### State and code

`ins` is `node_instructions`, in the order given; `report` the till's last row
of `node_peer_state`; `quiet` whether it was heard of in two minutes. On the till
`day`, `shift`, `today`; `books` counts what each instruction wrote; `pend` the
answers kept in memory (`pendingAcks`); `tick[k]` a beat of 15 s: flush kept
answers, poll, carry out one by one, answer each. `acks` are answers on their
way. Nothing stops a tick from starting while one waits.

The manager: `GiveClose`, `GiveConfirm`, `GiveMoney`, `Cancel`; the sweep:
`Upgrade`, `Expire`. The till: `StartTick`, `Flush`, `Poll`, `Execute`, `GiveUp`
(five seconds), `Restart` (kept answers are lost). `TakeAnswer` is `recordAck`.

### Properties

`ToldTruly`: an instruction withdrawn, refused or expired is not in the till's
books, and an answered one is. `RecordedOnce`: money is recorded once, a shift
has one count. `NeverALaterDay`: a close closes no day that began after its date.
`Answered` (liveness): while the till stays in reach with no money waiting,
nothing stays pending.

These rest on one idea of the code, which no single function states: only what
was never collected may be withdrawn, and what is collected twice is recognised
by the row it wrote.

### Bounds and fairness

Two instructions are the least for one to replace, wait for or race another; two
shifts for a count and an open drawer; two dates for a close that comes late. One
tick at a time here (`Ticks = {1}`); with two at once see section 10, and the
proofs, which hold for any number. Fair are the ticks (a timer) and the arrival
of an answer not lost.

### Proofs

`InstructionsProofs` proves `ToldTruly`, `RecordedOnce` and `NeverALaterDay` for
any number of instructions, shifts, dates, faults and ticks that run at once, from
the bounds being natural numbers alone. None is inductive: an answer that is kept
in memory, on its way or waited for will one day become what the screen says, so
`InstrInv` asks that every one of them is true now (`Truths`), and the argument
is that a true answer stays true (`ToldStays`). It does because no step goes back
(`Forward`): a collected instruction is never changed, a shift opens once and is
over for good, and money refused for a shift that is over can never be written
later. That is why only what was never collected may be withdrawn
(`StatesAreRight`), and why the till must look at the row it wrote rather than at
the instruction (`Writes`): with two ticks the same job is in hand twice.
`RecordedOnce` adds that a count is written only on a shift that awaits one, and
`NeverALaterDay` that a close never changes its date. TLC checked `InstrInv` with
one tick in full and with two up to 22 million states.

## 7. MpesaClaims and PaymentLedger

### State and code

`PaymentLedger` is what a branch relies on: a payment is `known` once, has one
`holder`, and is `usedBy` one order for good. `MpesaClaims` is how it is kept.
`payment` is `mpesa_c2b_payments`; `panel[l]` the M-Pesa leg of a bill on a
till's screen, with the list it shows and the payment it took; `last` the list
the till's client cached; `claim[l]` the request a leg waits for, which the cloud
handles in three statements (`claimPayment`: update where received, read the
row, update where held by this till); `releases` the unanswered releases;
`arrived` the sold legs whose order reached the cloud, which marks the payment
used.

Cloud: `Confirm` (Safaricom's notice), `ClaimFirst`, `ClaimRead`, `ClaimAgain`,
`Release`, `OwnerRelease`, `OrderArrives`. Till: `OpenPanel`, `Ask` (the list),
`Tap`, `Answer`, `TakeOff`, `TypeCode`, `CloseUnsold`, `Sell`, `Restart`, and the
losses of what is asked, claimed, released or marked. Every payment fits every leg exactly, the worst case for a race.

### Properties

`SoldStaysHeld`, `OneTillPerPayment`, `HeldForALeg`, and `KeepsLedger`, the
refinement: every behaviour of the protocol is one of the ledger. Excepted in the
first two (`loose`) are payments the owner released by hand or a till tapped
again while it had them; in the third (`orphans`) those whose claim was answered
after their panel closed. Section 10 states them without the exceptions.

### Bounds

One payment, since claims on different payments never touch the same row; till a
with two legs (the second after the first), till b with one that may be typed;
one fault in all, of any of six kinds. `Split = FALSE`: one M-Pesa leg open per till.

### Proofs

`MpesaClaimsProofs` proves for any payments, legs, tills and faults, splits
included, `ClaimsTypeCorrect`, the safety properties below, and `ClaimsKeepLedger`:
`Spec => KeepsLedger`. The invariant (`LedgerInv`): a payment has an order iff
it is used, is held by a till iff it is held, and a claim on its way names a
payment. With it every action maps to one step of the ledger or to none, argued
action by action; the interesting ones are the third statement of a claim (the
row may have been given back and taken again in between: it changes only if this
till still holds it) and the marking of a payment as used when the order arrives.

`SoldPaymentsStayHeld` and `OneTillHasAPayment` follow from `HoldersInv`. A leg
*touches* a payment if it has it or a claim or release for it is on its way, and
is *sure* of it if it has it, its claim was granted, or its release is on its
way. Of a payment that is not `loose`: at most one leg of a till touches it, what
a leg gives back it neither has nor asks for, a sure leg is the holder on record
until an order uses the payment, and no two legs are sure. The step that could
break this is a release that arrives late: it frees what that very leg held, and
nobody else's. `HeldPaymentsHaveALeg` (`HeldForALeg`) adds that without a
fault nothing sent is lost, so that each held payment is backed by a leg that has
it, waits for it or is giving it back (`HeldInv`).

## 8. MpesaPrompt

### State and code

One bill (`bill`): on the desktop or a share of one split on the web, where each
prompt has its row of `mpesa_stk_requests` (`/stk-push-pos`), or a web order, with
one M-Pesa leg in `payments` for all its prompts (`/stk-push`). `panel` is what
the screen shows and of which prompt; `posts` the POSTs it has no answer of;
`poll[i]` the polls asked and the answers on their way back; `handler[i]` the POST
of prompt i at the cloud (row first, then Safaricom, then the checkout id);
`phone[i]` what the customer did; `callback[i]` Safaricom's success report while
it is handled; `expiring` prompts a poll found too old, not marked yet. Callbacks
come once, twice, late or never; a failure may come after a success.

The two panels are separate actions. The desktop's (`mpesaStk.ts`) counts its
runs: `HearStart`, `NoAnswer` and `HearPoll` change nothing when the panel was
reset or has sent another prompt. The web's (`MpesaStkPanel.tsx`) asks nothing of
the kind: `HearPush` starts the intervals of a POST answered after Cancel and
makes them the ones `cleanup` can clear (`ref`), leaving earlier ones running
(`polling`); `NoPush` and `CountedDown` show "failed" whatever is on the screen,
and `HearPollWeb` "Paid" or "failed" for whichever prompt it is about. A web panel
taken off the screen counts as a cancelled one: what it would show it still tells
its parent (`onSuccess`, which clearing the intervals does not stop).

Each read or write of the cloud may fail, and each answer be lost (`Fault`). The
error of the write that completes a payment, of the one that keeps a checkout id
and of a status read is discarded by the code, after 200 in the callback's case:
`Settle` then leaves the row as it is, and on an order completes the order all the
same. `dropped` remembers the reports whose last handling ended so, found no row
or died half way (`Die`).

### Properties

`PaidMeansPaid`: either panel shows "Paid" only if the customer paid this bill in
full, by the prompt the panel heard that of, whose row says so; on the desktop
that is the last prompt sent. On the web it may be an earlier one (`PaidIsTheLast`
is false there: section 10). `PaidIsRecorded`: a success report that was handled is
on record, unless it is `dropped`. `PaidStaysPaid`: no late failure, timeout or
poll undoes it (A495). Excepted (`again`) is an order prompted again while a
prompt was out.

### Bounds

Two prompts are the least for one given up and paid late while the next is out;
two faults for a lost answer and a failed write.

### Proofs

`MpesaPromptProofs` proves all four for any number of prompts and faults:
`PromptTypeCorrect`, `PanelTellsTheTruth`, `PaymentsAreRecorded`,
`PaidIsForGood`. The invariant (`PromptInv`): prompts are sent in order and at
most one of an order is out unless `again` (`OneOut`); a checkout id is in one row;
a completed row was paid by the prompt it names (`CompletedWasPaid`); a "paid" on
its way to the panel is as true as one it shows (`AnswersAreTrue`), which is why
it does not matter on the web when it arrives; the desktop's panel is about the
last prompt (`PanelMakesSense`). Two lemmas carry it: `NothingPaidIsOverwritten`
(a new prompt overwrites the leg's row of an order only while nothing paid is in
it) and `NotPaidBeforeSaved` (a row of a prompt's own is completed only once its
checkout id is saved); `NothingUndone` is what every step keeps for the panel's
sake.

## 9. TillChanges

### State and code

One category. `here` is its row on the till, `cloud` the cloud's, `Absent` when
there is none. `queue["till"]` is `local_changes` of the till (pending or
awaiting), `queue["server"]` the copies the branch server was handed (relayed and
forwarded); `told` what the till shows of a settled change. `request` is
`change_requests`. `handler[h]` is a POST of `/api/changes`, which takes its rows
one by one: replay check and maker (`Look`), judge (`Read`), `Write`, `Record`;
everything may happen between two of these. `fetched` is a pull read and not yet
stored, `news` that the change log has something to pull.

| till or server | code | cloud | code |
| --- | --- | --- | --- |
| `Create`, `Alter`, `Delete` | `recordChange` | `Look`, `Read`, `Write`, `Record` | `applyChange`, `write`, `record` |
| `Fetch`, `Store` | the pull, `overlayLocalChanges` | `Decide` | `decideChange` |
| `HandOver`, `Post`, `Skip` | `sendOnce`, `pushLocalChanges` | `WebEdit`, `WebDelete` | `routes/categories.ts` |
| `Hear`, `Ask` | its answers, the states asked | `GiveUp`, `Die` | answers lost, a process that ends |

An edit joins the change that still waits, keeping its id and base. The answer to
a change that was edited on the way is an answer to the older values: the change
is requeued under a new id (`requeueMergedChange`, F9). These two rules and the
replay check, on opposite ends of a lossy line, are what the properties are
about.

### Abstractions

The base of an update is the whole thing as the till saw it (the code keeps the
same fields). Whether the maker is allowed, refused or not proven is a choice
(`Rulings`); `later` is an answer with `retry`, `halfway` a write whose handler
then threw, `unrecorded` a failed insert into `change_requests`. A till behind a
server pulls what the cloud has. `Decide` is one step. Not modelled: staff and
PINs, products' soft delete, the same thing under another id, changes made at the
branch server itself, batches of 50.

### Properties

- `EveryEditIsJudged`: when nothing waits on the till, the cloud has judged its
  last edits.
- `NothingUnseenIsOverwritten` (action): an update from the till overwrites no
  value that the till has never shown.
- `OwnChangeStays`: the till's last change, while it waits, is what it shows.
- `NoFalseAlarm`: without a change on the web, the owner is not asked about a
  clash.
- `ComesToRest` (liveness): every change settles and the till shows the cloud's.
  `TillChangesRest.cfg` checks it with two edits and none on the web (241 K
  states, over three minutes, for TLC evaluates ENABLED of every action in each);
  with one edit and two on the web it holds too (54 K). It is not among the runs.

What they except is in `odd`, a history variable of what happened: other values
under an id handed over before (`mixed`, section 10 says what comes of it); two
requests at once judging one change (`twice`); a maker not proven (`held`); a web
edit between a handler's look and its write (`raced`, which has no condition and
overwrites it); an old pull stored late (`stale`); and of a change whose answer
took it off the till or gave it a new id (`OddAnswers`): that the cloud has its
values and did not say so (`half`: the handler threw after its write, and the
requeued edit starts from the older values), or that it is not on record while the
branch server or another request still has a copy (`copied`: the copy is judged as
if it were new). Each is excepted only where it makes the property false:
`EveryEditIsJudged` excepts `mixed` alone, `NothingUnseenIsOverwritten` `raced`
alone, `NoFalseAlarm` all but `raced`, for each of the others does raise one false
alarm or another (TLC finds one for each with three edits and two faults). `raced` itself needs no exception there: with no edit on the web
the handler that raced it wrote for the same till.

### Bounds and fairness

One field, three values (one that is neither what the till saw nor what it
wrote), two edits (one joins the other), one change on the web, one fault of five
kinds. Without a branch server two requests run at once: a retry meets the
request it retries. With one, whose copy is a retry in itself, `Bounded` allows
one request at a time, and a fault or a web change but not both. Larger instances
(two fields without a server, three edits, two requests with a server and no
fault) hold too and take minutes. `ComesToRest` has one request at a time, for
two at once refute it by the trace of `TillChangesAwaited.cfg`.

Fair are the 20-second beat, the pull, each handler's own steps and the owner's
decision (a change that waits for him does so until then). Nobody has to edit.

### Proofs

`TillChangesProofs` proves `ChangesTypeCorrect` (`TypeOK`), `OwnChangesStay`,
`EditsAreJudged`, `NothingUnseen` and `NoFalseAlarms` for any fields, values,
rulings, faults, edits and number of requests at once, with or without a branch
server. The inductive invariant (`IndInv`) has two halves.

`ChangesInv`: the queue is in order (`Good`: a create can only be the first and a
delete the last change, what still waits to be sent is the last or an update
before a delete, ids are distinct and no newer than the last one made), and its last change shows on the till. This
is not kept by an answer alone: what an answer may do to the change depends on
whether an edit joined it since it was sent. Hence `OnTheWay`: a row the till
waits for an answer to is its change as it is, or an edit has joined the change,
which still waits. At most one request of the till is heard at a time.

`EditsInv`, unless other values went out under an id handed over before (`mixed`):
all copies of a change that are anywhere, in requests, at the branch server and on
record, say what was first sent of it (`AsFirstSent`); and an edit not yet judged
is one of the last change, which waits, and no answer on its way is to what it is
now (`StillOwed`). So an answer that takes a change off the queue is to a change
whose edits have been judged.

`NothingUnseen` (`NothingUnseenIsOverwritten`) rests on a second invariant,
`ShownInv`. `TillShows`: of every change in a queue or a request, the base and the
values are ones the till has shown, as is what it shows now. `AsRead`: unless the
thing changed under a handler that had read it (`raced`), what an update at its
write is about to replace is what its base says, or already what it writes. The
first is kept by whatever makes a change anew: an edit takes its base from what the
till shows, and `requeueMergedChange` from the old base and what was sent, both
shown before (`StartsFrom`); marking, relaying, parking and filtering change
neither. The second is `judgeUpdate`'s verdict, kept until the write.

`NoFalseAlarms` (`NoFalseAlarm`) rests on a third, `AlarmInv`, beside `IndInv`.
While nobody else changes the thing, nothing excepted has happened and nothing
was refused (`Calm`), four things hold (`FairInv`). `TillFair`: the cloud has what
each change on the till starts from or, once it was sent, what it makes of that,
and the latter if the cloud has taken it (`Agreed`); and the till shows the
cloud's thing with its last change over it (`Stands`). `AllStem`: a copy the cloud
has no record of, at the branch server or in a request, is of a change still open
on the till, with the same base. `JudgesWell`: a change is judged by one request
and once. `NoneHeld`: none is with the owner. The first is what makes a verdict
fair: `judgeUpdate` compares the cloud's value with the base and with what is
written, and `Agreed` says it is one of the two. An edit that joins keeps it
because what was sent is kept beside what is to be sent (`OverAgain`); a requeue,
because `requeueMergedChange` starts from what was taken exactly if it was; an
answer, because what leaves the till or gets a new id leaves no copy behind, or
`copied` is noted. TLC checked this invariant, on instances of up to 8.2 M states,
before it was proved.

A response answers many changes, and they are taken one by one
(`AllAnswered`, `AllForwarded`, `AllDecided`, folds along the rows). What such a
fold returns for every length takes an induction over sequences. The library's
induction theorems take an operator and cannot be used; the module derives
induction over the naturals from the well-foundedness of strict inclusion of
finite sets, a theorem about sets (`Least`), and with it proves once that a
fold goes step by step (`FoldSteps`), and what `Those`, which keeps the elements
of a sequence that are in a set, returns (`ThosePicks`). Each kind of answer then has a
lemma about one step (`Progress`, `Keeps`) that is carried along the fold. The
operators are folds for this reason: `SelectSeq` is a recursion the prover cannot
unfold.

## 10. Runs

| run | expects | distinct states | question |
| --- | --- | --- | --- |
| `node_failover` | pass | 7.86 M | do cursors and marks stay true through moves at any moment, a refused row and a fault? |
| `node_one_server` | pass | 0.52 M | does the queue get every row, and does each end at the server or in sight, as failed? |
| `node_live` | pass | 233 K | do rows reach the server, and come back down, through moves? |
| `node_pull_past_refused` | violation | - | does a row reach every till that pulled past it? |
| `row_events` | pass | 1.81 M | do replicas end as the till is, whatever the order of rows and events? |
| `drawer_push` | pass | 8.17 M | is a drawer at the cloud what it is on the till? |
| `drawer_two_senders` | pass | 1.40 M | does a sale sent, refunded and voided twice count once, does its stock move once for each, and does all arrive? |
| `instructions` | pass | 1.28 M | is an instruction carried out once and told truly? |
| `mpesa_claims` | pass | 2.88 M | does a payment pay one bill, and is it held for one? |
| `mpesa_prompt` | pass | 7.81 M | does "Paid" mean paid, for good? |
| `till_changes` | pass | 2.82 M | is each edit judged and shown meanwhile, and does none overwrite what was never seen? |
| `renewal` | pass | 2.78 M | does an honest till keep its session and its secret, and do old tokens die, as long as no renewals cross? |

Deadlock is not checked: a bounded system that has made all its rows, prompts or
tokens and spent its faults stops, and so may the real one, where nobody has to
sell.

`node_pull_past_refused` refutes a comment of `nodeIngest.ts`: a row the server
refuses at first and takes on a later pass is below the cursors of the tills that
pulled its successors meanwhile, and they never get it.

Each property of a passing run has a mutant in its module: a definition changed
as a bug would change the code, under which that run fails.

The `TypeOK` of DrawerPush, RowEvents, Instructions and TillChanges is not
among the properties of their runs; it says what the variables range over and
holds when added to their configurations.

### Refuted, and not a run

These properties are stated in the modules, say what a comment or a design
implies, and TLC finds them violated. Each takes a coincidence the passing runs
exclude by a named constant or history variable. Those of TillChanges have
configurations of their own, `TillChangesJoined.cfg` to `TillChangesDeleted.cfg`,
in this order, and the first three rows have `NodeMovedMidPass.cfg`,
`RenewalCrossed.cfg` and `RenewalTwoSecrets.cfg`; TLC ends each with the trace in
seconds.

| property | what happens |
| --- | --- |
| `NodeReplication!DeliveredRowsAreHeld` | a till rejoins through a new server and delivers its first row there; while its next pass runs the cloud refuses the join and the old address is put back, with nothing offered anew; the pass sends the second row to the old server, whose cursor now covers both; the next pass notes the old server, asks for its cursors and crosses off the first row, which that server never had (`syncEngine.ts` 3779, `nodeIngest.ts` 829). A rejoin while an answer of the old server is out ends the same way |
| `SessionRenewal!SlowLineCostsNothing` | a till gives up on a renewal and asks again with the same token; the cloud serves the second request, then reads the first, takes it for a re-ask and revokes the token it has just given (`auth.ts` 1288). The next renewal is told `TOKEN_STALE`, though "a slow line must never cost a till its session" (`refreshHandshake.ts` 4-6); the device secret has to bring the till back |
| `OneSecretIsHandedOut` | `issueSecret` returns its secret also when its conditional UPDATE changed no row (`auth.ts` 1343): of two renewals that both saw none the till may keep the secret that is not on record, though "two renewals at once never hand out two secrets" (1338) |
| `NodeReplication!DeliveredRowsAreHeld`, no move in mid-pass | a transport note overwrites the reason a row was refused (`nodeIngest.ts` 1283-1287); after a rejoin `skipHeldByNode` takes it for held and marks it delivered |
| `SessionRenewal!NeverUnknown` | a token whose INSERT failed is answered all the same and replaces the good one on disk (`auth.ts` 1308-1358) |
| `DrawerPush!LateRowsAreSettled` | two requests overlapping after the close, each summing before the other wrote, leave the older figure |
| `MpesaClaims!OneLegPerPayment`, `Split = TRUE` | the claim of a till that holds a payment already is granted again (`c2bStore.ts` 131-134): two legs of one till have it; the second order is refused the payment |
| `ClosedUnsoldGivesBack` | tap, close the panel before the answer: held until the owner releases it |
| `MpesaPrompt!PaidIsTheLast` | Cancel, a second prompt, then the first one is paid: its POST was answered after Cancel, its poll shows "Paid" for it on the web while the second prompt is out (`MpesaStkPanel.tsx` 106-158 checks nothing after an await) |
| `HandledIsRecorded` | a callback is answered 200 and its row is not there yet, or cannot be read or written: the payment is on no record and Safaricom does not send it again (`mpesa.ts` 448, 488, 553-562) |
| `PaidHasItsRow` | a callback that comes before the checkout id is saved finds no row and is dropped |
| `VoidedStaysVoided` | a success callback sets a voided order to completed (`mpesa.ts` 580-583) |
| `CompletedStaysCompleted` | a second prompt for a web leg resets the completed leg (`mpesa.ts` 286-296) |
| `TillChanges!EditSurvives` | an edit that joins a pending change whose id the cloud has judged already (its answer was lost, or the branch server relayed it) goes out under that id, is answered as the first one was (`changeApply.ts` 207) and marked done; the next pull brings the older value back |
| `WithdrawnIsNowhere` | a create is still pending while it is on its way; deleting the thing then sends nothing (`localChanges.ts` 196), and the cloud keeps it |
| `ApprovedIsNotRefused` | a change sent again after the owner approved it is answered `approved`, which `pushLocalChanges` takes for a refusal (383-386): a create is undone |
| `AwaitedIsWithTheOwner` | one change in two requests at once: one applies it, the other meets a web edit and answers `awaiting` though its record failed on the id (`changeApply.ts` 130-140); the state query says `applied`, which the till does not know, and it waits for ever |
| `RefusedIsGone` | a refused edit changes no row of the cloud, so a pass that takes what changed (`syncEngine.ts` 1109) does not bring the old value back before the daily whole pull |
| `DeletesNothingUnseen` | a delete is applied without a look at its base (`changeApply.ts` 308) |
| `Instructions!WaitingIsNotRefused` | a plain refusal sent before a close was made to wait retires it when it arrives |
| `RefusedClosedNothing` | two ticks, or a restart, carry out a close twice: refused, then done, or the other way round |

Seen while modelling, without a property: a void at the cloud does not look at
`refunded_at`, so a sale both refunded and voided puts its stock back twice; a
refund cut between claim and payment row is answered "already refunded" from then
on; one whose claim is undone may have been answered so meanwhile (section 5); a close that loses the conditional update drops the till's count;
`reconcileClosedShifts` does not wait for pending cash rows (late rows settle
them); a handler cut after the order's insert never takes its stock; a create applied by two
requests at once is refused to the second, and the till undoes its own (the pull
brings it back); a change written but not recorded is written again by its retry,
over a web edit that put the old value back; an edit that joins keeps the base of
the first one for the other fields; closing a
day and emitting its event are two statements, not one transaction, on the till.

## 11. What is only model-checked

Liveness (fairness and ENABLED are outside the prover): `HeldOrFailed`,
`ReachesItsServer`, `ReachesEveryTill`, `DrawerArrives`, `Answered`, `ComesToRest`.
`NothingLeftOut` of RowEvents in states with a queue row given up: false for some
batch sizes (section 4), true at the bounds of the run.

The proofs assume the named ASSUMEs of the modules (sets disjoint, bounds
natural) and nothing else.

## 12. Not modelled

- Trading days on their way to the cloud and the clash rule for two open days
  (`syncEngine.ts` 3943 on); the drawer's own push is.
- `nodeTabs.ts`: no caller.
- The reference pull, PIN lockout, bill numbers,
  enrolment: section 13.
- Amounts. Wherever money is summed the model keeps which rows are in the sum.
- Pricing, discounts, loyalty, credit, recipes and batches: sequential
  arithmetic in handlers and SQL functions.
- Front ends, printing, backups, updates, attendance devices, reports and mail:
  I/O and layout over the state modelled here. They are most of the repository's
  lines, which is why the mapped share is small.

## 13. Plan

1. `BranchLog`, an abstract specification of replication (each origin has a log,
   each replica a growing subset), implemented by NodeReplication.
2. Trading days at the cloud: the clash rule ends, and no sale is lost to it.
3. That no queue row of RowEvents is given up, under an assumption that relates
   the batch size to the rows a till has.
4. The reference pull, PIN lockout and bill numbers.
