----------------------------- MODULE TillChanges -----------------------------
(* A manager's change made at a till (main/localChanges.ts, changeQueue.ts,  *)
(* lib/changeApply.ts, routes/changes.ts, core/tillChanges.ts): it works     *)
(* there at once, waits in local_changes, is sent to the cloud by the till   *)
(* and, handed over, by the branch server too.  The cloud judges it once:    *)
(* applied, already so, refused, or held for the owner when someone else     *)
(* changed the same.  One thing (a category), which the web may change or    *)
(* delete too, and which pulls bring back to the till.                       *)
EXTENDS Naturals, Sequences, SequencesExt

CONSTANTS Fields,    \* what there is to change about the thing
          Vals,      \* the values of a field
          Absent,    \* no such thing; not set; no handler
          Slots,     \* requests the cloud handles at once (bound)
          Servers,   \* whether the branch has a server to hand changes to
          Rulings,   \* what the cloud may find of the maker
          Faults,    \* what may go wrong
          MaxEdits,  \* changes made at the till (bound)
          MaxWeb,    \* changes made on the web (bound)
          MaxFaults  \* faults (bound)

Ids == 1..MaxEdits
Thing == [Fields -> Vals]
Data == [Fields -> Vals \cup {Absent}]
Senders == {"till", "server"}
Ops == {"create", "update", "delete"}
ASSUME AbsentAssumption == Absent \notin Vals /\ Absent \notin Data /\ Absent \notin Slots
ASSUME BoundsAssumption == {MaxEdits, MaxWeb, MaxFaults} \subseteq Nat /\ Servers \subseteq BOOLEAN
ASSUME ChoicesAssumption ==
    /\ "ok" \in Rulings /\ Rulings \subseteq {"ok", "held", "refused"}
    /\ Faults \subseteq {"giveup", "die", "later", "halfway", "unrecorded"}

VARIABLES
  server,   \* the branch has one
  here,     \* the thing on the till
  queue,    \* [Senders -> changes still open, in the order made]: local_changes
  told,     \* [Ids -> what the till shows of a settled change]
  made,     \* ids used
  known,    \* ids the branch server was handed
  edits,    \* changes made at the till
  pass,     \* [Senders -> where its beat is]
  fetched,  \* <<the thing as a pull read it>>, not yet stored
  cloud,    \* the thing on the cloud
  request,  \* [Ids -> status, op, data]: change_requests
  handler,  \* [Slots -> the cloud's work on a POST, or Absent]
  news,     \* the cloud's thing changed since the till last asked
  webs, faults,
  (* history *)
  owed,     \* the till's last edits that the cloud has not judged
  shown,    \* the values the till has shown
  odd       \* what happened: see OddThings

till == <<server, here, queue, told, made, known, edits, pass, fetched>>
cloudside == <<cloud, request, handler, news>>
vars == <<till, cloudside, webs, faults, owed, shown, odd>>

Statuses == {"applied", "identical", "awaiting", "approved", "rejected", "refused"}
(* A change: its values, what it replaced, and the edit that last touched it *)
(* (updated_at).  sent (history): its values when first handed to anyone.    *)
Change == [id: Ids, op: Ops, base: Data, data: Data, st: {"pending", "awaiting"},
           at: 1..MaxEdits, sent: Data \cup {Absent}]
Handler == [from: Senders, heard: BOOLEAN, rows: Seq(Change), step: {"look", "read", "write", "record", "end"},
            verdict: Statuses \cup {"none"}, said: Seq(Statuses \cup {"later"})]
(* "mixed": other values were handed over under an id already handed over,   *)
(* or a create was withdrawn after it; "twice": two requests judged one      *)
(* change at once; "held": a maker was not proven; "raced": the thing        *)
(* changed between a handler's read and its write; "stale": a pull stored    *)
(* what was no longer so.  Of a change whose answer took it off the till or  *)
(* gave it a new id: "half": the cloud has its values, and did not say so;   *)
(* "copied": it is not on record, and a copy of it is still about.           *)
OddThings == {"mixed", "twice", "held", "raced", "half", "stale", "copied"}
Edit == (Fields \X Vals) \cup {<<"gone">>}
TypeOK ==
    /\ server \in Servers
    /\ here \in Thing \cup {Absent} /\ cloud \in Thing \cup {Absent}
    /\ queue \in [Senders -> Seq(Change)]
    /\ told \in [Ids -> {"none", "done", "refused", "rejected"}]
    /\ made \in 0..edits /\ known \subseteq 1..made /\ edits \in 0..MaxEdits
    /\ pass \in [Senders -> {"idle", "handed", "posted"}]
    /\ fetched \in Seq(Thing \cup {Absent}) /\ Len(fetched) <= 1
    /\ request \in [Ids -> [st: Statuses \cup {"none"}, op: Ops \cup {"none"}, data: Data]]
    /\ handler \in [Slots -> Handler \cup {Absent}]
    /\ news \in BOOLEAN /\ webs \in 0..MaxWeb /\ faults \in 0..MaxFaults
    /\ owed \subseteq Edit /\ shown \subseteq Fields \X Vals /\ odd \subseteq OddThings

Pairs(row) == IF row = Absent THEN {} ELSE {<<f, row[f]>> : f \in Fields}
Unset == [f \in Fields |-> Absent]
Init ==
    /\ server \in Servers
    /\ cloud \in Thing \cup {Absent} /\ here = cloud
    /\ queue = [m \in Senders |-> <<>>] /\ told = [i \in Ids |-> "none"]
    /\ made = 0 /\ known = {} /\ edits = 0 /\ fetched = <<>>
    /\ pass = [m \in Senders |-> "idle"]
    /\ request = [i \in Ids |-> [st |-> "none", op |-> "none", data |-> Unset]]
    /\ handler = [h \in Slots |-> Absent] /\ news = FALSE
    /\ webs = 0 /\ faults = 0 /\ owed = {} /\ odd = {} /\ shown = Pairs(here)

Over(data, row) == [f \in Fields |-> IF data[f] = Absent THEN row[f] ELSE data[f]]
(* The changes of q that are in S, in q's order.                             *)
Those(q, S) == FoldLeft(LAMBDA r, c : IF c \in S THEN Append(r, c) ELSE r, <<>>, q)
ToSend(m) == Those(queue[m], {c \in ToSet(queue[m]) : c.st = "pending"})
Waiting == ToSend("till")
Without(q, id) == Those(q, {c \in ToSet(q) : c.id # id})
Put(q, c) == [k \in DOMAIN q |-> IF q[k].id = c.id THEN c ELSE q[k]]
Fails(fault) == fault \in Faults /\ faults < MaxFaults /\ faults' = faults + 1

-----------------------------------------------------------------------------
(* AT THE TILL                                                               *)

AtTill == /\ edits < MaxEdits /\ edits' = edits + 1
          /\ UNCHANGED <<server, told, known, pass, fetched, cloudside, webs, faults>>
Queued(q) == queue' = [queue EXCEPT !["till"] = q]
NewChange(op, base, data) ==
    [id |-> made + 1, op |-> op, base |-> base, data |-> data, st |-> "pending", at |-> edits + 1, sent |-> Absent]
Recorded(op, base, data) ==
    Queued(Append(queue["till"], NewChange(op, base, data))) /\ made' = made + 1
(* A new thing.                                                              *)
Create(row) ==
    /\ edits = 0 /\ webs = 0 /\ here = Absent /\ cloud = Absent
    /\ AtTill /\ here' = row /\ Recorded("create", Unset, row)
    /\ owed' = Pairs(row) /\ shown' = Pairs(row) /\ UNCHANGED odd
Joins == Waiting # <<>> /\ Last(Waiting).op # "delete"
(* An edit joins the change still waiting (recordChange: open), or is one.   *)
Alter(f, v) ==
    /\ here # Absent /\ here[f] # v /\ AtTill /\ here' = [here EXCEPT ![f] = v]
    /\ LET c == Last(Waiting)
           rest == {e \in owed : e[1] # f}
       IN IF Joins
          THEN /\ Queued(Append(Without(queue["till"], c.id), [c EXCEPT !.data[f] = v, !.at = edits + 1]))
               /\ owed' = rest \cup IF request[c.id].data[f] = v THEN {} ELSE {<<f, v>>}
               /\ UNCHANGED made
          ELSE Recorded("update", here, [Unset EXCEPT ![f] = v]) /\ owed' = rest \cup {<<f, v>>}
    /\ shown' = shown \cup {<<f, v>>} /\ UNCHANGED odd
(* Deleting what was created here and still waits: nothing is sent.          *)
Delete ==
    /\ here # Absent /\ AtTill /\ here' = Absent /\ UNCHANGED shown
    /\ IF Waiting # <<>> /\ Last(Waiting).op = "create"
       THEN LET c == Last(Waiting) IN
            /\ Queued(Without(queue["till"], c.id)) /\ UNCHANGED made
            /\ IF c.sent = Absent THEN owed' = {} /\ UNCHANGED odd
               ELSE owed' = {<<"gone">>} /\ odd' = odd \cup {"mixed"}
       ELSE Recorded("delete", here, Unset) /\ owed' = {<<"gone">>} /\ UNCHANGED odd

Lay(c, row) == CASE c.op = "delete"              -> Absent
                 [] c.op # "delete" /\ row # Absent -> Over(c.data, row)
                 [] c.op = "create" /\ row = Absent -> c.data
                 [] OTHER                        -> Absent
\* Mutant: a change already sent is not laid over.
OverlaysOnlyUnsent(row) ==
    FoldLeft(LAMBDA r, c : IF c.sent = Absent THEN Lay(c, r) ELSE r, row, queue["till"])
(* Every change still waiting goes back over what a pull wrote.              *)
overlayLocalChanges(row) == FoldLeft(LAMBDA r, c : Lay(c, r), row, queue["till"])

(* A pull reads the thing when it changed (A531), or with all things once a  *)
(* day, and then stores it.                                                  *)
Fetch ==
    /\ fetched = <<>> /\ (news \/ here # overlayLocalChanges(cloud))
    /\ fetched' = <<cloud>> /\ news' = FALSE
    /\ UNCHANGED <<server, here, queue, told, made, known, edits, pass, cloud, request, handler,
                   webs, faults, owed, shown, odd>>
Store ==
    /\ fetched # <<>> /\ fetched' = <<>> /\ here' = overlayLocalChanges(fetched[1])
    /\ shown' = shown \cup Pairs(here')
    /\ odd' = IF fetched[1] = cloud THEN odd ELSE odd \cup {"stale"}
    /\ UNCHANGED <<server, queue, told, made, known, edits, pass, cloudside, webs, faults, owed>>

-----------------------------------------------------------------------------
(* SENDING                                                                   *)

InSending == UNCHANGED <<server, here, told, made, edits, fetched, cloud, request, news, webs, owed, shown>>
Marked(q) == [k \in DOMAIN q |-> IF q[k].st = "pending" /\ q[k].sent = Absent THEN [q[k] EXCEPT !.sent = q[k].data] ELSE q[k]]
\* Values other than those first handed over go out under the same id.
Mixes == IF \E k \in DOMAIN Waiting : Waiting[k].sent \notin {Absent, Waiting[k].data}
         THEN odd' = odd \cup {"mixed"} ELSE UNCHANGED odd
(* Each beat the till hands what waits to the branch server, which takes     *)
(* each id once (acceptRelayedChanges).                                      *)
HandOver ==
    /\ server /\ pass["till"] = "idle" /\ Waiting # <<>>
    /\ pass' = [pass EXCEPT !["till"] = "handed"]
    /\ queue' = [queue EXCEPT !["till"] = Marked(@),
                 !["server"] = @ \o Those(Waiting, {c \in ToSet(Waiting) : c.id \notin known})]
    /\ known' = known \cup {Waiting[k].id : k \in DOMAIN Waiting} /\ Mixes
    /\ InSending /\ UNCHANGED <<handler, faults>>
Ready(m) == pass[m] = IF server /\ m = "till" THEN "handed" ELSE "idle"
(* All that waits goes to the cloud in one request.                          *)
Post(m) ==
    /\ Ready(m) /\ ToSend(m) # <<>>
    /\ \E h \in Slots :
          /\ handler[h] = Absent
          /\ handler' = [handler EXCEPT ![h] = [from |-> m, heard |-> TRUE, rows |-> ToSend(m),
                                                step |-> "look", verdict |-> "none", said |-> <<>>]]
    /\ pass' = [pass EXCEPT ![m] = "posted"]
    /\ IF m = "till" THEN queue' = [queue EXCEPT ![m] = Marked(@)] /\ Mixes ELSE UNCHANGED <<queue, odd>>
    /\ InSending /\ UNCHANGED <<known, faults>>
(* Handed over, and then nothing is left to send or the cloud is not reached.*)
Skip ==
    /\ pass["till"] = "handed"
    /\ IF Waiting = <<>> THEN UNCHANGED faults ELSE Fails("giveup")
    /\ pass' = [pass EXCEPT !["till"] = "idle"]
    /\ InSending /\ UNCHANGED <<queue, known, handler, odd>>
(* The answer is lost, or its sender restarts.                               *)
GiveUp(m) ==
    /\ Fails("giveup") /\ pass[m] = "posted" /\ pass' = [pass EXCEPT ![m] = "idle"]
    /\ handler' = [h \in Slots |-> IF handler[h] = Absent \/ handler[h].from # m \/ ~handler[h].heard THEN handler[h]
                                   ELSE IF handler[h].step = "end" THEN Absent ELSE [handler[h] EXCEPT !.heard = FALSE]]
    /\ InSending /\ UNCHANGED <<queue, known, odd>>

-----------------------------------------------------------------------------
(* ON THE CLOUD: the changes of a POST one after the other (applyChange)     *)

AtCloud == UNCHANGED <<till, edits, webs>>
At(h, step) == handler[h] # Absent /\ handler[h].step = step
Now(h) == handler[h].rows[Len(handler[h].said) + 1]
Goes(h, step, verdict) == handler' = [handler EXCEPT ![h].step = step, ![h].verdict = verdict]
Says(h, answer) ==
    LET r == handler[h]
        last == Len(r.said) + 1 = Len(r.rows)
    IN handler' = [handler EXCEPT ![h] =
           IF last /\ ~r.heard THEN Absent
           ELSE [r EXCEPT !.step = IF last THEN "end" ELSE "look", !.verdict = "none", !.said = Append(@, answer)]]
Together(h) == \E o \in Slots \ {h} : handler[o] # Absent /\ handler[o].step \in {"read", "write", "record"} /\ Now(o).id = Now(h).id
Keys(c) == {f \in Fields : c.data[f] # Absent}
Values(c) == IF c.op = "delete" THEN {<<"gone">>} ELSE {<<f, c.data[f]>> : f \in Keys(c)}

(* A change seen before is answered as before; else its maker is looked up.  *)
Look(h) ==
    /\ At(h, "look")
    /\ IF request[Now(h).id].st # "none"
       THEN Says(h, request[Now(h).id].st) /\ UNCHANGED <<odd, faults>>
       ELSE LET twice == IF Together(h) THEN {"twice"} ELSE {} IN
            \/ Goes(h, "read", "none") /\ odd' = odd \cup twice /\ UNCHANGED faults
            \/ "refused" \in Rulings /\ Goes(h, "record", "refused") /\ odd' = odd \cup twice /\ UNCHANGED faults
            \/ "held" \in Rulings /\ Goes(h, "record", "awaiting") /\ odd' = odd \cup twice \cup {"held"} /\ UNCHANGED faults
            \/ Fails("later") /\ Says(h, "later") /\ UNCHANGED odd
    /\ AtCloud /\ UNCHANGED <<cloud, request, news, owed, shown>>

\* Mutant: what the till saw is not compared.
JudgesWithoutBase(c) == IF \A f \in Keys(c) : cloud[f] = c.data[f] THEN "identical" ELSE "applied"
(* The cloud already holds the values; someone else changed one differently; *)
(* or it still holds what the till saw.                                      *)
judgeUpdate(c) ==
    IF \A f \in Keys(c) : cloud[f] = c.data[f] THEN "identical"
    ELSE IF \E f \in Keys(c) : cloud[f] \notin {c.data[f], c.base[f]} THEN "awaiting"
    ELSE "applied"
judgeCreate(c) == IF cloud = c.data THEN "identical" ELSE "awaiting"
Judged(c) ==
    IF cloud = Absent THEN [create |-> "applied", delete |-> "identical", update |-> "refused"][c.op]
    ELSE CASE c.op = "create" -> judgeCreate(c)
           [] c.op = "delete" -> "applied"
           [] c.op = "update" -> judgeUpdate(c)
Read(h) ==
    /\ At(h, "read")
    /\ LET v == Judged(Now(h)) IN Goes(h, IF v = "applied" THEN "write" ELSE "record", v)
    /\ AtCloud /\ UNCHANGED <<cloud, request, news, faults, owed, shown, odd>>

Written(c, row) == IF c.op = "delete" THEN Absent
                   ELSE IF row # Absent THEN Over(c.data, row)
                   ELSE IF c.op = "create" THEN c.data ELSE Absent
Becomes(row) == cloud' = row /\ news' = (news \/ row # cloud)
\* The thing changed under a handler that has read it.
RacedBy(hs) == IF \E h \in hs : At(h, "write") THEN {"raced"} ELSE {}
(* Written without a look at what is there now: a row there already makes an *)
(* insert fail, refused and not recorded; one gone leaves an update nothing  *)
(* to do.                                                                    *)
Write(h) ==
    /\ At(h, "write")
    /\ LET c == Now(h) IN
       IF c.op = "create" /\ cloud # Absent
       THEN /\ Says(h, "refused") /\ owed' = owed \ Values(c)
            /\ UNCHANGED <<cloud, news, faults, odd>>
       ELSE /\ Becomes(Written(c, cloud)) /\ UNCHANGED owed
            /\ \/ Goes(h, "record", "applied") /\ odd' = odd \cup RacedBy(Slots \ {h}) /\ UNCHANGED faults
               \/ Fails("halfway") /\ Says(h, "later") /\ odd' = odd \cup RacedBy(Slots \ {h})
    /\ AtCloud /\ UNCHANGED <<request, shown>>
(* The verdict is kept under the change's id, and answered whether or not    *)
(* that worked.                                                              *)
Record(h) ==
    /\ At(h, "record")
    /\ LET c == Now(h)
           v == handler[h].verdict
           kept == [request EXCEPT ![c.id] = IF @.st = "none" THEN [st |-> v, op |-> c.op, data |-> c.data] ELSE @]
       IN /\ \/ request' = kept /\ UNCHANGED faults
             \/ Fails("unrecorded") /\ UNCHANGED request
          /\ owed' = owed \ Values(c) /\ Says(h, v)
    /\ AtCloud /\ UNCHANGED <<cloud, news, shown, odd>>
(* The cloud's process ends: its senders see the request fail.               *)
Die(h) ==
    /\ Fails("die") /\ handler[h] # Absent /\ handler' = [handler EXCEPT ![h] = Absent]
    /\ pass' = [m \in Senders |-> IF handler[h].heard /\ handler[h].from = m THEN "idle" ELSE pass[m]]
    /\ UNCHANGED <<server, here, queue, told, made, known, edits, fetched, cloud, request, news, webs, owed, shown, odd>>

(* The owner decides a change that waits: the till's values, or the cloud's. *)
Decide(i, approve) ==
    /\ request[i].st = "awaiting"
    /\ request' = [request EXCEPT ![i].st = IF approve THEN "approved" ELSE "rejected"]
    /\ IF approve
       THEN /\ Becomes(Written(request[i], cloud)) /\ odd' = odd \cup RacedBy(Slots)
       ELSE UNCHANGED <<cloud, news, odd>>
    /\ AtCloud /\ UNCHANGED <<handler, faults, owed, shown>>
(* Someone changes the thing on the web, or deletes it.                      *)
Web == /\ webs < MaxWeb /\ webs' = webs + 1 /\ cloud # Absent /\ odd' = odd \cup RacedBy(Slots)
       /\ UNCHANGED <<till, edits, request, handler, faults, owed, shown>>
WebEdit(f, v) == /\ Web /\ cloud[f] # v /\ Becomes([cloud EXCEPT ![f] = v]) 
WebDelete == Web /\ Becomes(Absent)

-----------------------------------------------------------------------------
(* THE ANSWER                                                                *)

Took(answer) == answer \in {"applied", "identical"}
\* Mutant: the base stays what the first edit replaced.
RequeuesWithOldBase(s, sent, c, answer) ==
    LET fresh == [c EXCEPT !.id = s.made + 1, !.sent = Absent]
    IN [s EXCEPT !.q = [k \in DOMAIN @ |-> IF @[k].id = c.id THEN fresh ELSE @[k]], !.made = @ + 1]
\* Mutant: the answer is taken as one to the newer values.
TakesAnswerAsIs(s, sent, c, answer) ==
    [s EXCEPT !.q = Without(@, c.id), !.told[c.id] = IF Took(answer) THEN "done" ELSE "refused"]
(* An edit joined the change while it was on its way (F9): it stays, under a *)
(* new id; if the cloud took what was sent, that is what it starts from.     *)
requeueMergedChange(s, sent, c, answer) ==
    LET fresh == [c EXCEPT !.id = s.made + 1, !.sent = Absent]
        moved == IF ~Took(answer) THEN fresh
                 ELSE IF c.op = "create" THEN [fresh EXCEPT !.op = "update", !.base = sent.data]
                 ELSE [fresh EXCEPT !.base = Over(sent.data, @)]
    IN [s EXCEPT !.q = [k \in DOMAIN @ |-> IF @[k].id = c.id THEN moved ELSE @[k]], !.made = @ + 1]
Settled(s, c, as) ==
    [s EXCEPT !.q = Without(@, c.id), !.told[c.id] = as,
              !.here = IF as # "done" /\ c.op = "create" THEN Absent ELSE @]
(* One answer to a till (pushLocalChanges): whatever is not one of the       *)
(* answers it knows is a refusal, which undoes a create.                     *)
Answered(s, sent, answer) ==
    LET c == Those(s.q, {x \in ToSet(s.q) : x.id = sent.id}) IN
    CASE c = <<>>                         -> s
      [] c # <<>> /\ c[1].at # sent.at    -> requeueMergedChange(s, sent, c[1], answer)
      [] c # <<>> /\ c[1].at = sent.at ->
            (CASE Took(answer)            -> Settled(s, c[1], "done")
               [] answer = "awaiting"     -> [s EXCEPT !.q = Put(@, [c[1] EXCEPT !.st = "awaiting"])]
               [] answer = "later"        -> s
               [] OTHER                   -> Settled(s, c[1], "refused"))
(* One answer to the branch server, about a copy it forwarded.               *)
Forwarded(q, sent, answer) ==
    CASE answer = "awaiting" -> Put(q, [sent EXCEPT !.st = "awaiting"])
      [] answer = "later"    -> q
      [] OTHER               -> Without(q, sent.id)
(* All answers to a request, in the order of its changes.                    *)
AllAnswered(s, each) == FoldLeft(LAMBDA t, e : Answered(t, e[1], e[2]), s, each)
AllForwarded(q, each) == FoldLeft(LAMBDA t, e : Forwarded(t, e[1], e[2]), q, each)
TillNow == [q |-> queue["till"], told |-> told, made |-> made, here |-> here]
TillBecomes(s) == Queued(s.q) /\ told' = s.told /\ made' = s.made /\ here' = s.here
(* The branch server was handed it, or another request holds it.             *)
Copied(h, id) ==
    \/ id \in known
    \/ \E o \in Slots \ {h} :
          handler[o] # Absent /\ \E k \in DOMAIN handler[o].rows : handler[o].rows[k].id = id
Has(c) == cloud # Absent /\ \A f \in Keys(c) : cloud[f] = c.data[f]
\* q: what is open on the till after the answers.
OddAnswers(h, q) ==
    LET r == handler[h]
        left == {k \in DOMAIN r.rows : \A j \in DOMAIN q : q[j].id # r.rows[k].id}
    IN (IF \E k \in left : request[r.rows[k].id].st = "none" /\ Copied(h, r.rows[k].id) THEN {"copied"} ELSE {})
       \cup (IF \E k \in left : ~Took(r.said[k]) /\ Has(r.rows[k]) THEN {"half"} ELSE {})
Hear(h) ==
    /\ At(h, "end") /\ handler' = [handler EXCEPT ![h] = Absent]
    /\ LET r == handler[h]
           Each == [k \in DOMAIN r.rows |-> <<r.rows[k], r.said[k]>>]
       IN /\ pass' = [pass EXCEPT ![r.from] = "idle"]
          /\ IF r.from = "till"
             THEN /\ TillBecomes(AllAnswered(TillNow, Each))
                  /\ odd' = odd \cup OddAnswers(h, queue'["till"])
             ELSE /\ queue' = [queue EXCEPT !["server"] = AllForwarded(@, Each)]
                  /\ UNCHANGED <<told, made, here, odd>>
    /\ UNCHANGED <<server, known, edits, fetched, cloud, request, news, webs, faults, owed, shown>>
(* What is with the owner is asked after: approved or rejected settles it.   *)
AllDecided(s, over) ==
    FoldLeft(LAMBDA t, c : Settled(t, c, IF request[c.id].st = "approved" THEN "done" ELSE "rejected"), s, over)
Decided(c) == c.st = "awaiting" /\ request[c.id].st \in {"approved", "rejected"}
Ask(m) ==
    /\ pass[m] = "idle" /\ \E k \in DOMAIN queue[m] : Decided(queue[m][k])
    /\ LET over == Those(queue[m], {c \in ToSet(queue[m]) : Decided(c)}) IN
       IF m = "till"
       THEN TillBecomes(AllDecided(TillNow, over))
       ELSE /\ queue' = [queue EXCEPT ![m] = Those(@, {c \in ToSet(@) : ~Decided(c)})]
            /\ UNCHANGED <<told, made, here>>
    /\ UNCHANGED <<server, known, edits, pass, fetched, cloudside, webs, faults, owed, shown, odd>>

-----------------------------------------------------------------------------
Handles(h) == Look(h) \/ Read(h) \/ Write(h) \/ Record(h)
Next ==
    \/ \E row \in Thing : Create(row)
    \/ \E f \in Fields, v \in Vals : Alter(f, v) \/ WebEdit(f, v)
    \/ Delete \/ WebDelete \/ Fetch \/ Store \/ HandOver \/ Skip
    \/ \E m \in Senders : Post(m) \/ GiveUp(m) \/ Ask(m)
    \/ \E h \in Slots : Handles(h) \/ Die(h) \/ Hear(h)
    \/ \E i \in Ids, approve \in BOOLEAN : Decide(i, approve)
(* Beats, pulls and the cloud go on; the owner decides in the end; people    *)
(* need change nothing, and nothing need go wrong.                           *)
Fairness ==
    /\ WF_vars(Fetch) /\ WF_vars(Store) /\ WF_vars(HandOver) /\ WF_vars(Skip)
    /\ \A m \in Senders : WF_vars(Post(m)) /\ WF_vars(Ask(m))
    /\ \A h \in Slots : WF_vars(Handles(h)) /\ WF_vars(Hear(h))
    /\ \A i \in Ids : WF_vars(\E approve \in BOOLEAN : Decide(i, approve))
Spec == Init /\ [][Next]_vars /\ Fairness

-----------------------------------------------------------------------------
(* PROPERTIES                                                                *)

Quiet == queue["till"] = <<>>
(* A change that waits, to be sent or with the owner, shows on the till: no  *)
(* pull and no answer to another undoes the last one made (localChanges.ts). *)
OwnChangeStays ==
    ~Quiet /\ Last(queue["till"]).id = made => Lay(Last(queue["till"]), here) = here
(* When nothing waits on the till, the cloud has judged its last edits: an   *)
(* answer is never taken for an edit that joined its change on the way (F9). *)
(* Not so for what was handed over twice with other values: EditSurvives.    *)
EveryEditIsJudged == Quiet /\ "mixed" \notin odd => owed = {}
(* The owner is asked about two changes to the same thing only when the web  *)
(* made one: the till's own earlier edits, sent and joined as they may be,   *)
(* are no clash (the base of what is requeued).  After a refusal they may be,*)
(* see RefusedIsGone.                                                        *)
NoFalseAlarm ==
    (\E i \in Ids : request[i].st = "awaiting") /\ webs = 0 /\ odd \subseteq {"raced"}
    => \E i \in Ids : {request[i].st, told[i]} \cap {"refused", "rejected"} # {}
(* A value the till has never shown is not overwritten by an edit from the   *)
(* till, unless the owner approves it or the web set it between the look and *)
(* the write (applyChange): edits joined, requeued, sent twice or late, and  *)
(* pulls in between, all leave the base what the edit started from.          *)
NothingUnseenIsOverwritten ==
    [][\A h \in Slots :
          At(h, "write") /\ Write(h) /\ Now(h).op = "update" /\ "raced" \notin odd /\ cloud # Absent
          => Pairs(cloud) \ Pairs(cloud') \subseteq shown]_vars
(* Every change settles and the till then shows what the cloud has, whatever *)
(* was lost on the way, if the cloud works on one request at a time: of two  *)
(* at once see AwaitedIsWithTheOwner.                                        *)
ComesToRest == <>[](Quiet /\ here = cloud)

(* "Marking it done lost the newer edit" (F9): no edit is lost so.           *)
EditSurvives == Quiet => owed \subseteq {<<"gone">>}
(* "Created here and deleted before the cloud ever heard of it: nothing to   *)
(* send": what is withdrawn so is on no cloud.                               *)
WithdrawnIsNowhere ==
    Quiet /\ <<"gone">> \in owed /\ (\A h \in Slots : handler[h] = Absent) => cloud = Absent
(* "a change sent twice is answered the same way": what the owner approved   *)
(* is never told as refused.                                                 *)
ApprovedIsNotRefused == \A i \in Ids : request[i].st = "approved" => told[i] # "refused"
(* The same, of a change told to be with the owner: it is.                   *)
AwaitedIsWithTheOwner ==
    \A k \in DOMAIN queue["till"] : LET c == queue["till"][k] IN
        c.st = "awaiting" => request[c.id].st \in {"awaiting", "approved", "rejected"}
(* "A refused change is not on this till any more (the cloud's value came    *)
(* back with the pull)": with nothing to pull, the till shows the cloud's.   *)
RefusedIsGone ==
    Quiet /\ (\E i \in Ids : told[i] = "refused") /\ ~news /\ fetched = <<>> => here = cloud
(* "awaiting: someone else changed it differently - NOT applied": a delete   *)
(* from the till takes nothing the web changed and the till has not seen.    *)
DeletesNothingUnseen ==
    [][\A h \in Slots : At(h, "write") /\ Write(h) /\ Now(h).op = "delete"
          => Pairs(cloud) \subseteq shown]_vars
=============================================================================
