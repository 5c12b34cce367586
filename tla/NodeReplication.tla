-------------------------- MODULE NodeReplication --------------------------
(***************************************************************************)
(* Branch replication of SwiftPOS: how the rows a till makes reach the     *)
(* branch server (the "node") over the LAN, and how they come back down to *)
(* the branch's other tills (apps/desktop/src/main: nodeIngest.ts,         *)
(* nodeClient.ts, nodeServer.ts, syncEngine.ts, ipc/join.ts, ipc/tech.ts). *)
(*                                                                         *)
(* One replicated table of insert-only rows is modelled.  Row <<m, k>> is  *)
(* the k-th row machine m numbered (its device_id and seq).  A till queues *)
(* its own rows (node_queue), pushes them in batches to the server it is   *)
(* pointed at, and pulls everybody else's rows by a high-water mark per    *)
(* origin (peer_cursors).  Servers die, tills are promoted and rejoined,   *)
(* answers are lost, requests arrive late, inserts are refused.            *)
(***************************************************************************)
EXTENDS Integers, FiniteSets, FiniteSetsExt

CONSTANTS
    Machine,      \* the branch's machines, each with its own device id
    NoMachine,    \* "no server": a null node_url, a target never noted
    FirstServer,  \* the machine that serves the branch at the start
    Quota,        \* how many rows each machine makes (bounds the model)
    Refusable,    \* rows whose INSERT on a replica may throw
    Prunable,     \* rows that get older than seven days
    FillRows,     \* rows taken per table by one outbox fill (500)
    BatchRows,    \* queue rows per request (200, or what fits in 2 MB)
    MaxRounds,    \* requests per push pass (3)
    MaxAttempts,  \* refusals before a queue row is 'failed' (5)
    MaxMoves,     \* bound: promotions, rejoins, technician's retries
    MaxFaults     \* bound: lost messages, crashes, whole-batch refusals

Row == {r \in Machine \X Nat : r[2] \in 1 .. Quota[r[1]]}

ASSUME ConstantsAssumption ==
    /\ NoMachine \notin Machine
    /\ FirstServer \in Machine
    /\ Quota \in [Machine -> Nat]
    /\ Refusable \subseteq Row /\ Prunable \subseteq Row
    /\ {FillRows, BatchRows, MaxRounds, MaxAttempts} \subseteq Nat \ {0}
    /\ {MaxMoves, MaxFaults} \subseteq Nat

VARIABLES
    made,      \* rows a machine has written locally
    numbered,  \* of those, how many carry a seq
    held,      \* other machines' rows a machine holds
    cur,       \* peer_cursors: highest seq taken, per machine and origin
    quar,      \* peer_quarantine, status 'waiting'
    gaveUp,    \* peer_quarantine, status 'given_up'
    outCur,    \* outbox_cursors: highest own seq put in the queue
    queue,     \* node_queue: one entry per own row
    gen,       \* position stamp of the next queue entries (see QueuedBefore)
    target,    \* maintenance_state 'node_target'
    ident,     \* maintenance_state 'node_identity'
    skipOwed,  \* maintenance_state 'node_rearm_skip'
    pass,      \* the push pass in progress (_nodePushInFlight)
    stray,     \* requests a till gave up on that may still arrive
    url,       \* device config: node_url (with its node_secret)
    role,      \* device config: device_role
    serving,   \* is the node server listening?
    before,    \* a rejoin waiting for the cloud: what to restore if it fails
    suspect,   \* history: rows ever refused, quarantined, pruned or misplaced
    moves,     \* budget spent on promotions, rejoins and retries
    faults     \* budget left for faults

rowVars    == <<made, numbered>>
holdVars   == <<held, cur, quar, gaveUp>>
outboxVars == <<outCur, queue, gen, target, ident, skipOwed>>
confVars   == <<url, role, serving, before>>
vars == <<rowVars, holdVars, outboxVars, pass, stray, confVars, suspect,
          moves, faults>>

----------------------------------------------------------------------------
(* Queue entries, passes and other records.                                *)

Peer == Machine \cup {NoMachine}
Status == {"none", "pending", "delivered", "failed", "pruned"}

\* last_error is NULL, a reason the server gave, or a 'transport: ' note.
Note == {"null", "reason", "transport"}

\* by is history: the server whose answer or cursor marked it delivered.
Entry == [st : Status, att : Nat, err : Note, gen : Nat, by : Peer]
NoEntry == [st |-> "none", att |-> 0, err |-> "null", gen |-> 0,
            by |-> NoMachine]

Phase == {"idle", "noted", "asking", "ready", "sent", "answered"}
\* rows is the batch, bad what the server refused of it.
Pass == [pc : Phase, to : Peer, rows : SUBSET Nat, bad : SUBSET Nat, round : Nat]
IdlePass == [pc |-> "idle", to |-> NoMachine, rows |-> {}, bad |-> {},
             round |-> 0]

Rejoin == [url : Peer, role : {"till", "node", "none"}]
NoRejoin == [url |-> NoMachine, role |-> "none"]

Least(a, b) == IF a <= b THEN a ELSE b

Entries(m) == DOMAIN queue[m]
Marked(m, status) == {k \in Entries(m) : queue[m][k].st = status}
Of(m, S) == {k \in 1 .. Quota[m] : <<m, k>> \in S}
RowsOf(m, S) == {<<m, k>> : k \in S}

Holds(n, r) ==
    IF r[1] = n THEN r[2] <= numbered[n] ELSE r \in held[n]

\* A push pass of m still running; the single-flight guard is per till.
Busy(m) == pass[m].pc # "idle"

Serving(n) == n \in Machine /\ serving[n]

\* takeNodeQueueBatch reads ORDER BY created_at, id: a row enqueued again
\* after it was pruned comes after the rows that stayed in the queue.
QueuedBefore(m, j, k) ==
    \/ queue[m][j].gen < queue[m][k].gen
    \/ queue[m][j].gen = queue[m][k].gen /\ j < k

Init ==
    /\ made = [m \in Machine |-> 0] /\ numbered = made
    /\ held = [m \in Machine |-> {}] /\ quar = held /\ gaveUp = held
    /\ cur = [m \in Machine |-> [o \in Machine |-> 0]]
    /\ outCur = made /\ gen = made
    /\ queue = [m \in Machine |-> [k \in 1 .. Quota[m] |-> NoEntry]]
    /\ target = [m \in Machine |-> NoMachine] /\ ident = target
    /\ skipOwed = [m \in Machine |-> FALSE]
    /\ pass = [m \in Machine |-> IdlePass]
    /\ stray = {}
    /\ serving = [m \in Machine |-> m = FirstServer]
    /\ role = [m \in Machine |-> IF serving[m] THEN "node" ELSE "till"]
    /\ url = [m \in Machine |->
                IF serving[m] THEN NoMachine ELSE FirstServer]
    /\ before = [m \in Machine |-> NoRejoin]
    /\ suspect = {} /\ moves = 0 /\ faults = MaxFaults

----------------------------------------------------------------------------
(* The rows a machine makes.                                               *)

\* A sale, expense, shift ... is written with no seq.
MakeRow(m) ==
    /\ made[m] < Quota[m]
    /\ made' = [made EXCEPT ![m] = @ + 1]
    /\ UNCHANGED <<numbered, holdVars, outboxVars, pass, stray, confVars,
                   suspect, moves, faults>>

\* Mutant: the numbering goes past the last row.
NumberOwnRowsPastLast(n) ==
    /\ role[n] = "node" /\ numbered[n] <= made[n]
    /\ numbered' = [numbered EXCEPT ![n] = @ + FillRows]
    /\ UNCHANGED <<made, holdVars, outboxVars, pass, stray, confVars,
                   suspect, moves, faults>>

\* The server numbers its own rows on its beat; a till does it in the fill.
NumberOwnRows(n) ==
    /\ role[n] = "node" /\ numbered[n] < made[n]
    /\ numbered' = [numbered EXCEPT ![n] = Least(made[n], @ + FillRows)]
    /\ UNCHANGED <<made, holdVars, outboxVars, pass, stray, confVars,
                   suspect, moves, faults>>

----------------------------------------------------------------------------
(* Taking rows: the one function every replica runs.                       *)

\* An INSERT that may throw; a row already held is a duplicate, never refused.
MayRefuse(n, o, S) ==
    {k \in S : <<o, k>> \in Refusable /\ <<o, k>> \notin held[n]}

\* Rows are written and, per origin, the cursor goes to the highest of the
\* rows in counted (never backwards).
Take(n, rows, counted) ==
    /\ held' = [held EXCEPT ![n] = @ \cup rows]
    /\ cur' = [cur EXCEPT ![n] =
          [o \in Machine |-> Max({cur[n][o]} \cup Of(o, counted))]]

\* applyPeerRows at the server: the rows of o but the refused ones are taken,
\* and the cursor stays at what was taken.
ApplyPeerRows(n, o, S, refused) ==
    /\ Take(n, RowsOf(o, S \ refused), RowsOf(o, S \ refused))
    /\ suspect' = suspect \cup RowsOf(o, refused)

----------------------------------------------------------------------------
(* The till's outbox.                                                      *)

Offer(e) == [e EXCEPT !.st = "pending", !.att = 0, !.by = NoMachine]

\* Mutant: only what failed is offered to the new server (register A21).
RearmFailedOnly(m) ==
    /\ queue' = [queue EXCEPT ![m] = [k \in Entries(m) |->
          IF queue[m][k].st = "failed" THEN Offer(queue[m][k])
          ELSE queue[m][k]]]
    /\ skipOwed' = [skipOwed EXCEPT ![m] = TRUE]
    /\ UNCHANGED <<outCur, gen>>

\* resetOutboxCursors: every entry pending again with a clean count, the
\* cursor forgotten, and the skip of what the new server holds owed.
Rearm(m) ==
    /\ queue' = [queue EXCEPT ![m] = [k \in Entries(m) |->
          CASE queue[m][k].st \in {"none", "pruned"} -> NoEntry
            [] OTHER -> Offer(queue[m][k])]]
    /\ outCur' = [outCur EXCEPT ![m] = 0]
    /\ skipOwed' = [skipOwed EXCEPT ![m] = TRUE]
    /\ gen' = [gen EXCEPT ![m] = IF Marked(m, "pruned") = {} THEN @ ELSE @ + 1]

\* rearmPeerQuarantine: what was given up is tried again.
ReleaseQuarantine(m) ==
    /\ quar' = [quar EXCEPT ![m] = @ \cup gaveUp[m]]
    /\ gaveUp' = [gaveUp EXCEPT ![m] = {}]

\* noteNodeTarget, the first step of a pass.
NoteTarget(m) ==
    \/ /\ target[m] = url[m]
       /\ UNCHANGED <<outboxVars, quar, gaveUp>>
    \/ /\ target[m] = NoMachine
       /\ queue' = [queue EXCEPT ![m] = [k \in Entries(m) |->
             IF queue[m][k].st = "delivered" THEN Offer(queue[m][k])
             ELSE queue[m][k]]]
       /\ target' = [target EXCEPT ![m] = url[m]]
       /\ UNCHANGED <<outCur, gen, ident, skipOwed, quar, gaveUp>>
    \/ /\ target[m] \notin {url[m], NoMachine}
       /\ Rearm(m)
       /\ ReleaseQuarantine(m)
       /\ target' = [target EXCEPT ![m] = url[m]]
       /\ UNCHANGED ident

BeginPass(m) ==
    /\ role[m] = "till" /\ url[m] # NoMachine /\ ~Busy(m)
    /\ NoteTarget(m)
    /\ pass' = [pass EXCEPT ![m].pc = "noted"]
    /\ UNCHANGED <<rowVars, held, cur, stray, confVars, suspect, moves, faults>>

\* checkNodeIdentity (at most once a minute): another machine answers, so
\* failed entries and given-up rows get a fresh try.
Recognised(m, asked) ==
    IF asked /\ Serving(url[m]) /\ ident[m] # url[m]
    THEN [k \in Entries(m) |-> IF queue[m][k].st = "failed"
                               THEN Offer(queue[m][k]) ELSE queue[m][k]]
    ELSE queue[m]

NoteIdentity(m, asked) ==
    IF asked /\ Serving(url[m]) /\ ident[m] # url[m]
    THEN /\ ident' = [ident EXCEPT ![m] = url[m]]
         /\ ReleaseQuarantine(m)
    ELSE UNCHANGED <<ident, quar, gaveUp>>

\* fillNodeOutbox: number own rows, queue those beyond the outbox cursor
\* (INSERT OR IGNORE).  upto is the last seq this fill reaches.
FillTo(m, upto, entries) ==
    queue' = [queue EXCEPT ![m] = [k \in Entries(m) |->
        IF k \in outCur[m] + 1 .. upto /\ entries[k].st \in {"none", "pruned"}
        THEN [NoEntry EXCEPT !.st = "pending", !.gen = gen[m]]
        ELSE entries[k]]]

\* Mutant: the cursor goes to the last row numbered, not the last one queued.
AdvanceOutboxToNumbered(m, upto) ==
    /\ outCur' = [outCur EXCEPT ![m] = numbered'[m]]
    /\ pass' = [pass EXCEPT ![m].pc = IF skipOwed[m] THEN "asking" ELSE "ready",
                            ![m].to = url[m]]
    /\ UNCHANGED faults

AdvanceOutbox(m, upto) ==
    /\ outCur' = [outCur EXCEPT ![m] = upto]
    /\ pass' = [pass EXCEPT ![m].pc = IF skipOwed[m] THEN "asking" ELSE "ready",
                            ![m].to = url[m]]
    /\ UNCHANGED faults

\* The queue is written in a transaction, the cursor after it: the process
\* may die, or the write fail, in between; the pass is over either way.
DieBeforeCursor(m) ==
    /\ faults > 0 /\ faults' = faults - 1
    /\ pass' = [pass EXCEPT ![m] = IdlePass]
    /\ UNCHANGED outCur

FillNodeOutbox(m) ==
    /\ pass[m].pc = "noted"
    /\ numbered' = [numbered EXCEPT ![m] = Least(made[m], @ + FillRows)]
    /\ LET upto == Least(numbered'[m], outCur[m] + FillRows)
       IN  /\ \E asked \in BOOLEAN :
                 /\ NoteIdentity(m, asked)
                 /\ FillTo(m, upto, Recognised(m, asked))
           /\ AdvanceOutbox(m, upto) \/ DieBeforeCursor(m)
    /\ UNCHANGED <<made, held, cur, gen, target, skipOwed, stray, confVars,
                   suspect, moves>>

----------------------------------------------------------------------------
(* Pushing.                                                                *)

\* Mutant: the row after the server's cursor is skipped too.
SkippablePastCursor(m, c) ==
    {k \in Marked(m, "pending") : k <= c + 1 /\ queue[m][k].err # "reason"}

\* History: the rows S of m, crossed off or passed over for the server n, when
\* n is not the one m noted last: m was repointed in the middle of the pass,
\* and node_target is only written at the start of the next.
Misplaced(m, n, S) == IF n = target[m] THEN {} ELSE RowsOf(m, S)

\* skipHeldByNode: pending entries the server's cursor covers are marked
\* delivered, unless their last note is a reason the server gave.
Skippable(m, c) ==
    {k \in Marked(m, "pending") : k <= c /\ queue[m][k].err # "reason"}

SkipHeldByNode(m, n) ==
    /\ Serving(n)
    /\ queue' = [queue EXCEPT ![m] = [k \in Entries(m) |->
          IF k \in Skippable(m, cur[n][m])
          THEN [queue[m][k] EXCEPT !.st = "delivered", !.by = n]
          ELSE queue[m][k]]]
    /\ skipOwed' = [skipOwed EXCEPT ![m] = FALSE]
    /\ suspect' = suspect \cup Misplaced(m, n, Skippable(m, cur[n][m]))
    /\ UNCHANGED faults

\* fetchNodeCursors got no answer: the skip stays owed, the pass goes on.
NoCursors(m, n) ==
    /\ \/ ~Serving(n) /\ UNCHANGED faults
       \/ faults > 0 /\ faults' = faults - 1
    /\ UNCHANGED <<queue, skipOwed, suspect>>

AskCursors(m) ==
    /\ pass[m].pc = "asking"
    /\ SkipHeldByNode(m, pass[m].to) \/ NoCursors(m, pass[m].to)
    /\ pass' = [pass EXCEPT ![m].pc = "ready"]
    /\ UNCHANGED <<rowVars, holdVars, outCur, gen, target, ident, stray,
                   confVars, moves>>

\* Mutant: any pending entries, whatever their age.
BatchesUnordered(m) ==
    {S \in SUBSET Marked(m, "pending") : S # {} /\ Cardinality(S) <= BatchRows}

\* takeNodeQueueBatch: the oldest pending entries, at most BatchRows of them
\* (fewer when their bytes fill a request).
Batches(m) ==
    {S \in SUBSET Marked(m, "pending") :
        /\ S # {} /\ Cardinality(S) <= BatchRows
        /\ \A k \in S : \A j \in Marked(m, "pending") :
              QueuedBefore(m, j, k) => j \in S}

\* A round: the batch goes to the server the till is pointed at now, past what
\* is crossed off.
SendBatch(m) ==
    /\ pass[m].pc = "ready" /\ pass[m].round < MaxRounds
    /\ \E S \in Batches(m) :
          pass' = [pass EXCEPT ![m] =
              [IdlePass EXCEPT !.pc = "sent", !.to = url[m], !.rows = S,
                               !.round = pass[m].round + 1]]
    /\ suspect' = suspect \cup Misplaced(m, url[m], Marked(m, "delivered"))
    /\ UNCHANGED <<rowVars, holdVars, outboxVars, stray, confVars, moves, faults>>

EndPass(m) ==
    /\ pass[m].pc = "ready"
    /\ pass[m].round = MaxRounds \/ Marked(m, "pending") = {}
    /\ pass' = [pass EXCEPT ![m] = IdlePass]
    /\ UNCHANGED <<rowVars, holdVars, outboxVars, stray, confVars, suspect,
                   moves, faults>>

\* POST /node/sync at the server, which answers per row.
NodeSync(m) ==
    /\ pass[m].pc = "sent" /\ Serving(pass[m].to)
    /\ \E refused \in SUBSET MayRefuse(pass[m].to, m, pass[m].rows) :
          /\ ApplyPeerRows(pass[m].to, m, pass[m].rows, refused)
          /\ pass' = [pass EXCEPT ![m].pc = "answered", ![m].bad = refused]
    /\ UNCHANGED <<rowVars, quar, gaveUp, outboxVars, stray, confVars, moves,
                   faults>>

\* Mutant: a refusal is noted but never counted.
EscalateUncounted(e) == [e EXCEPT !.err = "reason"]

\* markNodeQueueFailed with escalate: an answer on the row's merits counts.
Escalate(e) ==
    [e EXCEPT !.att = @ + 1, !.err = "reason",
              !.st = IF e.att + 1 >= MaxAttempts THEN "failed" ELSE "pending"]

\* markNodeQueueDelivered.
Deliver(e, n) == [e EXCEPT !.st = "delivered", !.att = @ + 1, !.by = n]

InQueue(m, S) == {k \in S : queue[m][k].st \notin {"none", "pruned"}}

\* settleNodeBatch and its two marks; a pass that moved nothing ends.
SettleNodeBatch(m) ==
    LET p == pass[m] IN
    /\ p.pc = "answered"
    /\ queue' = [queue EXCEPT ![m] = [k \in Entries(m) |->
          CASE k \in InQueue(m, p.rows \ p.bad) -> Deliver(queue[m][k], p.to)
            [] k \in InQueue(m, p.bad)          -> Escalate(queue[m][k])
            [] OTHER                            -> queue[m][k]]]
    /\ pass' = [pass EXCEPT ![m] =
          IF p.rows = p.bad THEN IdlePass
          ELSE [IdlePass EXCEPT !.pc = "ready", !.round = p.round]]
    /\ suspect' = suspect \cup Misplaced(m, p.to, p.rows \ p.bad)
    /\ UNCHANGED <<rowVars, holdVars, outCur, gen, target, ident, skipOwed,
                   stray, confVars, moves, faults>>

\* The server answers the batch as such: another 4xx, which ends the pass,
\* or 413, after which a smaller batch (or the next one) is sent.
RefuseBatch(m) ==
    LET p == pass[m] IN
    /\ p.pc = "sent" /\ Serving(p.to) /\ faults > 0
    /\ \E tooLarge \in BOOLEAN :
          LET counted == IF tooLarge /\ Cardinality(p.rows) > 1 THEN {}
                         ELSE p.rows
          IN  /\ queue' = [queue EXCEPT ![m] = [k \in Entries(m) |->
                    IF k \in InQueue(m, counted) THEN Escalate(queue[m][k])
                    ELSE queue[m][k]]]
              /\ suspect' = suspect \cup RowsOf(m, counted)
              /\ pass' = [pass EXCEPT ![m] =
                    IF tooLarge
                    THEN [IdlePass EXCEPT !.pc = "ready", !.round = p.round]
                    ELSE IdlePass]
    /\ faults' = faults - 1
    /\ UNCHANGED <<rowVars, holdVars, outCur, gen, target, ident, skipOwed,
                   stray, confVars, moves>>

\* The request p may still reach its server after the till gave up on it.
Abandon(m) ==
    \/ UNCHANGED stray
    \/ /\ pass[m].pc = "sent" /\ pass[m].to # NoMachine
       /\ stray' = stray \cup
             {[from |-> m, to |-> pass[m].to, rows |-> pass[m].rows]}

\* Mutant: every pass that did not land counts (before F3).
TransportNoteCounted(e) == [e EXCEPT !.err = "transport", !.att = @ + 1]

\* markNodeQueueFailed without escalate.
TransportNote(e) == [e EXCEPT !.err = "transport"]

\* A transport outcome (no answer, 5xx, 401, 400, 403, 426): noted on every
\* row of the batch, no attempt counted, and the pass ends.
NoAnswer(m) ==
    /\ \/ /\ pass[m].pc = "sent" /\ ~Serving(pass[m].to)
          /\ UNCHANGED <<stray, faults>>
       \/ /\ pass[m].pc \in {"sent", "answered"} /\ faults > 0
          /\ faults' = faults - 1
          /\ Abandon(m)
    /\ queue' = [queue EXCEPT ![m] = [k \in Entries(m) |->
          IF k \in InQueue(m, pass[m].rows)
          THEN TransportNote(queue[m][k]) ELSE queue[m][k]]]
    /\ pass' = [pass EXCEPT ![m] = IdlePass]
    /\ UNCHANGED <<rowVars, holdVars, outCur, gen, target, ident, skipOwed,
                   confVars, suspect, moves>>

\* A request its till has given up on reaches the server after all.
LateSync(q) ==
    /\ q \in stray /\ Serving(q.to)
    /\ \E refused \in SUBSET MayRefuse(q.to, q.from, q.rows) :
          ApplyPeerRows(q.to, q.from, q.rows, refused)
    /\ stray' = stray \ {q}
    /\ UNCHANGED <<rowVars, quar, gaveUp, outboxVars, pass, confVars, moves,
                   faults>>

\* pruneNodeQueue, hourly: delivered entries older than seven days go.
PruneNodeQueue(m) ==
    /\ role[m] = "till" /\ url[m] # NoMachine
    /\ LET old == Marked(m, "delivered") \cap Of(m, Prunable)
       IN  /\ old # {}
           /\ queue' = [queue EXCEPT ![m] = [k \in Entries(m) |->
                 IF k \in old THEN [queue[m][k] EXCEPT !.st = "pruned"]
                 ELSE queue[m][k]]]
           /\ suspect' = suspect \cup RowsOf(m, old)
    /\ gen' = [gen EXCEPT ![m] = @ + 1]
    /\ UNCHANGED <<rowVars, holdVars, outCur, target, ident, skipOwed, pass,
                   stray, confVars, moves, faults>>

----------------------------------------------------------------------------
(* Pulling: distribution and the quarantine.                               *)

\* Mutant: the row right after the puller's cursor is left out.
DistributionSkipsNext(n, m, o) ==
    LET beyond == {k \in 1 .. Quota[o] :
                      k > cur[m][o] + 1 /\ Holds(n, <<o, k>>)}
    IN  {S \in SUBSET beyond :
            S # {} /\ \A k \in S : \A j \in beyond : j < k => j \in S}

\* collectDistribution for one origin: what the server holds beyond the
\* puller's cursor, in seq order, as many as fit.
Distribution(n, m, o) ==
    LET beyond == {k \in 1 .. Quota[o] : k > cur[m][o] /\ Holds(n, <<o, k>>)}
    IN  {S \in SUBSET beyond :
            S # {} /\ \A k \in S : \A j \in beyond : j < k => j \in S}

\* applyDistribution: the cursor moves past a refused row, which waits in the
\* quarantine; the trailing retry takes some of the rows waiting there (back)
\* and gives up on some that have waited for seven days (lost).
PullTakes(m, o, S, refused) ==
    LET waiting == quar[m] \cup (RowsOf(o, refused) \ gaveUp[m])
    IN  /\ \E back \in SUBSET waiting :
           \E lost \in SUBSET (quar[m] \ (back \cup held[m])) :
              /\ Take(m, RowsOf(o, S \ refused) \cup back, RowsOf(o, S) \cup back)
              /\ quar' = [quar EXCEPT ![m] = waiting \ (back \cup lost)]
              /\ gaveUp' = [gaveUp EXCEPT ![m] = @ \cup lost]
        /\ suspect' = suspect \cup RowsOf(o, refused)

PullDistribution(m, o) ==
    /\ role[m] = "till" /\ Serving(url[m]) /\ o # m
    /\ \E S \in Distribution(url[m], m, o) :
       \E refused \in SUBSET MayRefuse(m, o, S) : PullTakes(m, o, S, refused)
    /\ UNCHANGED <<rowVars, outboxVars, pass, stray, confVars, moves,
                   faults>>

\* retryPeerQuarantine: of the rows waiting, those in back are taken now and
\* those in lost have been refused for seven days.
RetryQuarantined(m, waiting, back, lost) ==
    /\ Take(m, back, back)
    /\ quar' = [quar EXCEPT ![m] = waiting \ (back \cup lost)]
    /\ gaveUp' = [gaveUp EXCEPT ![m] = (@ \ waiting) \cup lost]

RetryPeerQuarantine(m) ==
    /\ role[m] = "till" /\ url[m] # NoMachine
    /\ \E back, lost \in SUBSET quar[m] :
          /\ back \cup lost # {} /\ back \cap lost = {}
          /\ lost \cap held[m] = {}
          /\ RetryQuarantined(m, quar[m], back, lost)
    /\ UNCHANGED <<rowVars, outboxVars, pass, stray, confVars, suspect, moves,
                   faults>>

\* "Retry failed records" on the Tech page, on any machine: failed entries
\* are pending again, given-up rows wait again and every waiting row is tried.
RetryFailed(m) ==
    /\ moves < MaxMoves /\ moves' = moves + 1
    /\ queue' = [queue EXCEPT ![m] = [k \in Entries(m) |->
          IF queue[m][k].st = "failed" THEN Offer(queue[m][k])
          ELSE queue[m][k]]]
    /\ \E back \in SUBSET (quar[m] \cup gaveUp[m]) :
          RetryQuarantined(m, quar[m] \cup gaveUp[m], back, {})
    /\ UNCHANGED <<rowVars, outCur, gen, target, ident, skipOwed, pass, stray,
                   confVars, suspect, faults>>

----------------------------------------------------------------------------
(* Who serves the branch.                                                  *)

\* promoteToNode: refused while the till's server answers the probe.
PromoteToNode(m) ==
    /\ role[m] = "till" /\ moves < MaxMoves /\ before[m] = NoRejoin
    /\ \/ ~Serving(url[m]) /\ UNCHANGED faults
       \/ faults > 0 /\ faults' = faults - 1
    /\ role' = [role EXCEPT ![m] = "node"]
    /\ url' = [url EXCEPT ![m] = NoMachine]
    /\ serving' = [serving EXCEPT ![m] = TRUE]
    /\ moves' = moves + 1
    /\ UNCHANGED <<rowVars, holdVars, outboxVars, pass, stray, before,
                   suspect>>

\* A set-up machine rejoins through server n; a server steps down first.  The
\* address is saved and, when it or the access code is new, everything is
\* offered again; only then does the cloud confirm the join.
StartRejoin(m, n) ==
    /\ n # m /\ Serving(n) /\ moves < MaxMoves /\ before[m] = NoRejoin
    /\ before' = [before EXCEPT ![m] = [url |-> url[m], role |-> role[m]]]
    /\ url' = [url EXCEPT ![m] = n]
    /\ role' = [role EXCEPT ![m] = "till"]
    /\ serving' = [serving EXCEPT ![m] = FALSE]
    /\ \/ Rearm(m)
       \/ url[m] = n /\ UNCHANGED <<queue, outCur, skipOwed, gen>>
    /\ moves' = moves + 1
    /\ UNCHANGED <<rowVars, holdVars, target, ident, pass, stray, suspect,
                   faults>>

RejoinConfirmed(m) ==
    /\ before[m] # NoRejoin
    /\ before' = [before EXCEPT ![m] = NoRejoin]
    /\ UNCHANGED <<rowVars, holdVars, outboxVars, pass, stray, url, role,
                   serving, suspect, moves, faults>>

\* The cloud refused: the configuration is put back, nothing else is.
RejoinRefused(m) ==
    /\ before[m] # NoRejoin
    /\ url' = [url EXCEPT ![m] = before[m].url]
    /\ role' = [role EXCEPT ![m] = before[m].role]
    /\ before' = [before EXCEPT ![m] = NoRejoin]
    /\ UNCHANGED <<rowVars, holdVars, outboxVars, pass, stray, serving,
                   suspect, moves, faults>>

\* A machine dies: its pass is gone, its request may still be on the wire.
Crash(m) ==
    /\ faults > 0 /\ faults' = faults - 1
    /\ Busy(m) \/ serving[m] \/ before[m] # NoRejoin
    /\ Abandon(m)
    /\ pass' = [pass EXCEPT ![m] = IdlePass]
    /\ serving' = [serving EXCEPT ![m] = FALSE]
    /\ before' = [before EXCEPT ![m] = NoRejoin]
    /\ UNCHANGED <<rowVars, holdVars, outboxVars, url, role, suspect, moves>>

\* A machine whose role is node serves again from its next start.
StartNodeServer(m) ==
    /\ role[m] = "node" /\ ~serving[m] /\ before[m] = NoRejoin
    /\ serving' = [serving EXCEPT ![m] = TRUE]
    /\ UNCHANGED <<rowVars, holdVars, outboxVars, pass, stray, url, role,
                   before, suspect, moves, faults>>

----------------------------------------------------------------------------
PushStep(m) ==
    \/ BeginPass(m) \/ FillNodeOutbox(m) \/ AskCursors(m) \/ SendBatch(m)
    \/ NodeSync(m) \/ SettleNodeBatch(m) \/ RefuseBatch(m) \/ NoAnswer(m)
    \/ EndPass(m)

Next ==
    \/ \E m \in Machine :
          \/ MakeRow(m) \/ NumberOwnRows(m) \/ PushStep(m)
          \/ PruneNodeQueue(m) \/ RetryPeerQuarantine(m) \/ RetryFailed(m)
          \/ PromoteToNode(m) \/ RejoinConfirmed(m) \/ RejoinRefused(m)
          \/ Crash(m) \/ StartNodeServer(m)
    \/ \E m, o \in Machine : PullDistribution(m, o)
    \/ \E m, n \in Machine : StartRejoin(m, n)
    \/ \E q \in stray : LateSync(q)

Spec == Init /\ [][Next]_vars

\* Fairness the scheduling justifies: the push beat (15 s) and the pull tick
\* (30 s) run for ever on every till, each step of a pass is bounded by a
\* timeout, the server's beat numbers its rows and a machine that died is
\* switched on again.  Nothing is assumed of people or of the network.
Fairness ==
    /\ \A m \in Machine : WF_vars(PushStep(m))
    /\ \A m \in Machine : WF_vars(NumberOwnRows(m))
    /\ \A m \in Machine : WF_vars(StartNodeServer(m))
    /\ \A m \in Machine : WF_vars(RejoinConfirmed(m))
    /\ \A m, o \in Machine : WF_vars(PullDistribution(m, o))

FairSpec == Spec /\ Fairness

----------------------------------------------------------------------------
(* Properties.                                                             *)

RowsTypeOK ==
    /\ made \in [Machine -> Nat] /\ numbered \in [Machine -> Nat]
    /\ \A m \in Machine : numbered[m] <= made[m] /\ made[m] <= Quota[m]

HoldTypeOK ==
    /\ held \in [Machine -> SUBSET Row]
    /\ quar \in [Machine -> SUBSET Row] /\ gaveUp \in [Machine -> SUBSET Row]
    /\ cur \in [Machine -> [Machine -> Nat]]

OutboxTypeOK ==
    /\ outCur \in [Machine -> Nat] /\ gen \in [Machine -> Nat]
    /\ queue = [m \in Machine |-> queue[m]]
    /\ \A m \in Machine : queue[m] \in [1 .. Quota[m] -> Entry]
    /\ target \in [Machine -> Peer] /\ ident \in [Machine -> Peer]
    /\ skipOwed \in [Machine -> BOOLEAN]

PassTypeOK ==
    /\ pass \in [Machine -> Pass]
    /\ \A m \in Machine : /\ pass[m].rows \subseteq 1 .. Quota[m]
                          /\ pass[m].bad \subseteq pass[m].rows
    /\ stray \subseteq [from : Machine, to : Machine, rows : SUBSET Nat]
    /\ \A q \in stray : q.rows \subseteq 1 .. Quota[q.from]

ConfTypeOK ==
    /\ url \in [Machine -> Peer] /\ role \in [Machine -> {"till", "node"}]
    /\ serving \in [Machine -> BOOLEAN]
    /\ before \in [Machine -> Rejoin]
    /\ \A m \in Machine : before[m].role = "none" => before[m] = NoRejoin

\* Every variable has its type, no machine numbers a row it has not written,
\* and no pass settles a row that was not in its batch.
TypeOK ==
    /\ RowsTypeOK /\ HoldTypeOK /\ OutboxTypeOK /\ PassTypeOK /\ ConfTypeOK
    /\ suspect \subseteq Row
    /\ moves \in Nat /\ faults \in Nat

\* fillNodeOutbox, resetOutboxCursors: no row falls between the outbox cursor
\* and the queue -- whatever the fill's LIMIT, a death between queue and
\* cursor, re-arms and prunes, each own row at or below the cursor has an
\* entry (or had one that was pruned as delivered).
OutboxComplete ==
    \A m \in Machine : \A k \in 1 .. outCur[m] :
        k \in Entries(m) /\ queue[m][k].st # "none"

\* Either the server answered for the row, or it refused the batch as such.
Answered(m, k) ==
    /\ k \in pass[m].rows
    /\ \/ pass[m].pc = "answered"
       \/ pass[m].pc = "sent" /\ Serving(pass[m].to) /\ <<m, k>> \in suspect'

CountsAnswers ==
    \A m \in Machine : \A k \in Entries(m) :
        queue'[m][k].att > queue[m][k].att => Answered(m, k)

\* markNodeQueueFailed: only an answer on the row's merits counts an attempt
\* or makes a row 'failed'; a server that is off, or unreachable for a
\* weekend, exhausts nothing.
OnlyAnswersCount == [][CountsAnswers]_vars

\* skipHeldByNode: a row a till holds delivered, or has pruned as delivered, is
\* on the server whose answer or cursor said so, "the pending rows it already
\* holds".  Refuted: a till repointed in the middle of a pass sends the new
\* server later rows than one only the old server has, and the cursor covers it.
DeliveredRowsAreHeld ==
    \A m \in Machine : \A k \in Entries(m) :
        queue[m][k].st \in {"delivered", "pruned"} /\ queue[m][k].by # NoMachine
            => <<m, k>> \in held[queue[m][k].by]

\* The same of the rows that no machine ever refused, no prune took and no move
\* misplaced: what the skip of skipHeldByNode can be trusted with, through
\* promotions and rejoins at any moment, late requests and lost answers.
CleanDeliveredRowsAreHeld ==
    \A m \in Machine : \A k \in Entries(m) :
        (/\ queue[m][k].st \in {"delivered", "pruned"}
         /\ <<m, k>> \notin suspect)
            => <<m, k>> \in held[queue[m][k].by]

\* peer_cursors is what a repointed till and a pulling till trust: a row at or
\* below a machine's cursor, never refused anywhere nor misplaced by a move, is
\* on that machine.
CursorCoversRows ==
    \A n, o \in Machine : \A k \in 1 .. Quota[o] :
        k <= cur[n][o] /\ <<o, k>> \notin suspect => <<o, k>> \in held[n]

\* What a till owes its server: while a pass runs against the server it noted,
\* every clean own row in its outbox is still to be offered or is there.
NothingOwedIsForgotten ==
    \A m \in Machine : \A k \in 1 .. outCur[m] :
        (/\ pass[m].pc \in {"ready", "sent", "answered"}
         /\ target[m] = url[m] /\ <<m, k>> \notin suspect)
            => queue[m][k].st = "pending" \/ <<m, k>> \in held[url[m]]

\* The branch on every till: what its server holds at or below its cursor, a
\* till holds, or keeps in its quarantine.
PulledRowsAreHeld ==
    \A m, o \in Machine : \A k \in 1 .. Quota[o] :
        (/\ role[m] = "till" /\ Serving(url[m]) /\ o # m
         /\ Holds(url[m], <<o, k>>) /\ k <= cur[m][o])
            => <<o, k>> \in held[m] \cup quar[m] \cup gaveUp[m]

\* With one server for good (MaxMoves = 0), every row a till makes is taken by
\* it or shows as failed, whatever is refused, lost or restarted meanwhile.
HeldOrFailed ==
    \A m \in Machine \ {FirstServer} : \A k \in 1 .. Quota[m] :
        made[m] >= k ~> \/ <<m, k>> \in held[FirstServer]
                        \/ queue[m][k].st = "failed"

AtServer(m, r) == \E n \in Machine : url[m] = n /\ Holds(n, r)

\* Through promotions and rejoins: on a till pointed, from some time on, at a
\* machine that serves, every clean row gets to that machine.
ReachesItsServer ==
    \A m \in Machine : \A k \in 1 .. Quota[m] :
        <>[](role[m] = "till" /\ Serving(url[m])) =>
            [](made[m] >= k => <>(\/ <<m, k>> \in suspect
                                  \/ AtServer(m, <<m, k>>)))

\* And the other way: every clean row its server holds gets to the till,
\* unless the till is moved to a server that does not hold it.
ReachesEveryTill ==
    \A m, o \in Machine : \A k \in 1 .. Quota[o] :
        <>[](role[m] = "till" /\ Serving(url[m])) =>
            []((o # m /\ AtServer(m, <<o, k>>)) =>
                  <>(\/ <<o, k>> \in suspect \cup held[m]
                     \/ ~AtServer(m, <<o, k>>)))

============================================================================
