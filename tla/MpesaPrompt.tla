----------------------------- MODULE MpesaPrompt -----------------------------
(* The M-Pesa prompt (STK push) for one bill: the panel that sends it and    *)
(* polls (main/mpesaStk.ts on the desktop, pos/MpesaStkPanel.tsx on the      *)
(* web), the cloud's handlers of it (routes/mpesa.ts: /stk-push-pos,         *)
(* /stk-push, /callback, /status) and Safaricom, which shows the prompt and  *)
(* reports what became of it, sooner or later, once or more than once.       *)
(*                                                                           *)
(* A desktop bill, or a share of a bill split on the web, has no order on    *)
(* the cloud yet: every prompt has a row of its own (mpesa_stk_requests).    *)
(* Another web bill has its order first, and all its prompts are for the     *)
(* order's one M-Pesa leg (payments).                                        *)
EXTENDS Naturals

CONSTANTS MaxPrompts,  \* prompts sent for the bill (bound)
          MaxFaults,   \* lost answers, failed reads and writes, deaths (bound)
          None

Prompts == 1..MaxPrompts
ASSUME BoundsAssumption == MaxPrompts \in Nat \ {0} /\ MaxFaults \in Nat /\ None \notin Nat

VARIABLES
  bill,      \* "desktop", or on the web with an "order" or a "split" without one
  panel,     \* [stage, on]: the panel and the prompt it is about
  sent,      \* prompts sent so far
  posts,     \* prompts whose POST the panel has no answer of
  polling,   \* web: prompts whose poll and countdown intervals run
  ref,       \* web: the prompt whose intervals the panel can clear
  poll,      \* [Prompts -> the polls asked and the answers on their way back]
  handler,   \* [Prompts -> where its POST is]
  row,       \* [Prompts -> [st, checkout]]: a row per prompt; an order's leg is row 1
  phone,     \* [Prompts -> none, shown, paid, late, short, declined]: the customer's phone
  callback,  \* [Prompts -> none, settle, finish]: the success callback being handled
  reported,  \* prompts whose success callback was answered
  dropped,   \* those of them whose last handling failed
  expiring,  \* prompts /status found too old, their row not marked yet
  order,     \* the web bill's order: completed or voided
  faults,
  again      \* a prompt for an order was sent while an earlier one was out

screen == <<panel, sent, posts, polling, ref, again>>
cloud == <<handler, row, callback, reported, dropped, expiring, order>>
vars == <<bill, screen, poll, cloud, phone, faults>>

TypeOK ==
    /\ bill \in {"desktop", "order", "split"} /\ sent \in 0..MaxPrompts
    /\ panel \in [stage: {"idle", "sending", "waiting", "failed", "paid"}, on: Prompts \cup {None}]
    /\ posts \subseteq Prompts /\ polling \subseteq Prompts /\ ref \in Prompts \cup {None}
    /\ poll \in [Prompts -> SUBSET {"asked", "paid", "failed"}]
    /\ handler \in [Prompts -> {"none", "row", "ask", "save", "fail", "ok", "refused"}]
    /\ row \in [Prompts -> [st: {"none", "pending", "completed", "failed"}, checkout: Prompts \cup {None}]]
    /\ phone \in [Prompts -> {"none", "shown", "paid", "late", "short", "declined"}]
    /\ callback \in [Prompts -> {"none", "settle", "finish"}]
    /\ reported \subseteq Prompts /\ dropped \subseteq Prompts /\ expiring \subseteq Prompts
    /\ order \in {"completed", "voided"} /\ faults \in 0..MaxFaults /\ again \in BOOLEAN

NoRow == [st |-> "none", checkout |-> None]
Off(stage) == [stage |-> stage, on |-> None]
Init ==
    /\ bill \in {"desktop", "order", "split"}
    /\ panel = Off("idle") /\ sent = 0 /\ posts = {} /\ polling = {} /\ ref = None
    /\ poll = [i \in Prompts |-> {}] /\ handler = [i \in Prompts |-> "none"]
    /\ row = [i \in Prompts |-> IF bill = "order" /\ i = 1 THEN [NoRow EXCEPT !.st = "pending"] ELSE NoRow]
    /\ phone = [i \in Prompts |-> "none"] /\ callback = [i \in Prompts |-> "none"]
    /\ reported = {} /\ dropped = {} /\ expiring = {} /\ order = "completed"
    /\ faults = 0 /\ again = FALSE

Paid == {"paid", "late"}
Fault == faults < MaxFaults /\ faults' = faults + 1
RowOf(i) == IF bill = "order" THEN 1 ELSE i
Known(i) == {r \in Prompts : row[r].checkout = i}     \* rows looked up by checkout id
Mark(r, st) == row' = [row EXCEPT ![r].st = st]
Desktop == bill = "desktop"

-----------------------------------------------------------------------------
(* THE PANEL                                                                 *)

CloudRests == UNCHANGED <<bill, cloud, phone>>
(* An earlier prompt is still on its way, shown or paid.                     *)
Out(i) == handler[i] \notin {"ok", "refused"} \/ phone[i] \notin {"none", "declined"}
(* A prompt is sent: not from a panel that waits or shows Paid.              *)
Send(stage) ==
    /\ panel.stage \in {"idle", "failed"} /\ sent < MaxPrompts /\ sent' = sent + 1
    /\ panel' = [stage |-> stage, on |-> sent'] /\ posts' = posts \cup {sent'}
    /\ handler' = [handler EXCEPT ![sent'] = "row"]
    /\ again' = (again \/ (bill = "order" /\ \E i \in 1..sent : Out(i)))
    /\ UNCHANGED <<bill, polling, ref, poll, row, callback, reported, dropped, expiring, order, phone, faults>>
Answered(i) == i \in posts /\ handler[i] \in {"ok", "refused"} /\ posts' = posts \ {i}
Lost(i) == i \in posts /\ Fault /\ posts' = posts \ {i}

(* The desktop's: what is about an earlier run of it is not for it.          *)
Start == Desktop /\ Send("sending")
Runs(i, stage) == panel = [stage |-> stage, on |-> i]
HearStart(i) ==
    /\ Desktop /\ Answered(i)
    /\ panel' = IF ~Runs(i, "sending") THEN panel
                ELSE IF handler[i] = "ok" THEN [panel EXCEPT !.stage = "waiting"] ELSE Off("failed")
    /\ CloudRests /\ UNCHANGED <<sent, polling, ref, poll, faults, again>>
NoAnswer(i) ==
    /\ Desktop /\ Lost(i) /\ panel' = IF Runs(i, "sending") THEN Off("failed") ELSE panel
    /\ CloudRests /\ UNCHANGED <<sent, polling, ref, poll, again>>
(* A poll every three seconds, the next one when the last was answered.      *)
Poll(i) ==
    /\ Desktop /\ Runs(i, "waiting") /\ poll[i] = {} /\ poll' = [poll EXCEPT ![i] = {"asked"}]
    /\ CloudRests /\ UNCHANGED <<screen, faults>>
HearPoll(i, st) ==
    /\ Desktop /\ st \in poll[i] \cap {"paid", "failed"} /\ poll' = [poll EXCEPT ![i] = {}]
    /\ panel' = IF ~Runs(i, "waiting") THEN panel ELSE IF st = "paid" THEN [panel EXCEPT !.stage = st] ELSE Off(st)
    /\ CloudRests /\ UNCHANGED <<sent, posts, polling, ref, faults, again>>
(* No end in sight after 90 seconds.                                         *)
GiveUp ==
    /\ Desktop /\ \E i \in Prompts : Runs(i, "waiting") /\ poll[i] = {}
    /\ panel' = Off("failed")
    /\ CloudRests /\ UNCHANGED <<sent, posts, polling, ref, poll, faults, again>>
(* The panel is closed.                                                      *)
Reset ==
    /\ Desktop /\ panel.stage # "idle" /\ panel' = Off("idle")
    /\ CloudRests /\ UNCHANGED <<sent, posts, polling, ref, poll, faults, again>>

(* The web's, which asks of no answer whether it still waits for it, and     *)
(* clears the intervals it started last.                                     *)
InitiatePush == ~Desktop /\ Send("waiting")
Cleanup == polling' = polling \ {ref}
HearPush(i) ==
    /\ ~Desktop /\ Answered(i)
    /\ IF handler[i] = "ok" THEN polling' = polling \cup {i} /\ ref' = i /\ UNCHANGED panel
       ELSE panel' = Off("failed") /\ UNCHANGED <<polling, ref>>
    /\ CloudRests /\ UNCHANGED <<sent, poll, faults, again>>
NoPush(i) ==
    /\ ~Desktop /\ Lost(i) /\ panel' = Off("failed")
    /\ CloudRests /\ UNCHANGED <<sent, polling, ref, poll, again>>
PollWeb(i) ==
    /\ ~Desktop /\ i \in polling /\ "asked" \notin poll[i] /\ poll' = [poll EXCEPT ![i] = @ \cup {"asked"}]
    /\ CloudRests /\ UNCHANGED <<screen, faults>>
HearPollWeb(i, st) ==
    /\ ~Desktop /\ st \in poll[i] \cap {"paid", "failed"} /\ poll' = [poll EXCEPT ![i] = @ \ {st}]
    /\ Cleanup /\ panel' = IF st = "paid" THEN [stage |-> st, on |-> i] ELSE Off(st)
    /\ CloudRests /\ UNCHANGED <<sent, posts, ref, faults, again>>
(* A countdown of a minute ends, be it the last one started or not.          *)
CountedDown ==
    /\ ~Desktop /\ polling # {} /\ Cleanup /\ panel' = Off("failed")
    /\ CloudRests /\ UNCHANGED <<sent, posts, ref, poll, faults, again>>
(* Cancel, a code typed by hand, or Try again.                               *)
Cancel ==
    /\ ~Desktop /\ panel.stage \in {"waiting", "failed"} /\ panel' = Off("idle")
    /\ IF panel.stage = "waiting" THEN Cleanup ELSE UNCHANGED polling
    /\ CloudRests /\ UNCHANGED <<sent, posts, ref, poll, faults, again>>

-----------------------------------------------------------------------------
(* THE CLOUD                                                                 *)

Rest == UNCHANGED <<bill, screen>>
At(i, step) == handler[i] = step
Go(i, step) == handler' = [handler EXCEPT ![i] = step]
(* /stk-push-pos writes the prompt's row; /stk-push needs the order's        *)
(* pending leg.  Either is refused when its write or its read fails.         *)
WriteRow(i) ==
    /\ At(i, "row")
    /\ \/ /\ IF bill # "order" THEN Mark(i, "pending") /\ Go(i, "ask")
             ELSE UNCHANGED row /\ Go(i, IF row[1].st = "pending" THEN "ask" ELSE "refused")
          /\ UNCHANGED faults
       \/ Fault /\ Go(i, "refused") /\ UNCHANGED row
    /\ Rest /\ UNCHANGED <<poll, callback, reported, dropped, expiring, order, phone>>
(* Safaricom takes the prompt, or refuses it, or its answer is lost though   *)
(* the customer sees the prompt.                                             *)
AskSafaricom(i) ==
    /\ At(i, "ask")
    /\ \/ Go(i, "save") /\ phone' = [phone EXCEPT ![i] = "shown"] /\ UNCHANGED faults
       \/ /\ Go(i, IF bill = "order" THEN "refused" ELSE "fail")
          /\ \/ UNCHANGED <<phone, faults>>
             \/ Fault /\ phone' = [phone EXCEPT ![i] = "shown"]
    /\ Rest /\ UNCHANGED <<poll, row, callback, reported, dropped, expiring, order>>
(* The row of a prompt that could not be sent is failed, if the write works. *)
FailRow(i) ==
    /\ At(i, "fail") /\ Go(i, "refused")
    /\ \/ Mark(i, "failed") /\ UNCHANGED faults
       \/ Fault /\ UNCHANGED row
    /\ Rest /\ UNCHANGED <<poll, callback, reported, dropped, expiring, order, phone>>
(* Its checkout id is kept; the leg of an order is pending again.  A failed  *)
(* write is only logged, or not even that.                                   *)
SaveCheckout(i) ==
    /\ At(i, "save") /\ Go(i, "ok")
    /\ \/ /\ row' = [row EXCEPT ![RowOf(i)] =
                 [checkout |-> i, st |-> IF bill = "order" THEN "pending" ELSE row[i].st]]
          /\ UNCHANGED faults
       \/ Fault /\ UNCHANGED row
    /\ Rest /\ UNCHANGED <<poll, callback, reported, dropped, expiring, order, phone>>

\* Mutant: the row's status is the panel's stage.
StageAsIs(st) == st
Stage(st) == CASE st = "completed" -> "paid" [] st = "failed" -> "failed" [] OTHER -> "waiting"
(* An answer that changes nothing at the panel is not kept.                  *)
Reply(i, st) == poll' = [poll EXCEPT ![i] = (@ \ {"asked"}) \cup ({st} \ {"waiting"})]
(* GET /status.  What is unknown, or cannot be read, has failed on the       *)
(* desktop and is asked again on the web; a pending row may be too old by    *)
(* now; an answer may be lost.                                               *)
ReadStatus(i) ==
    /\ "asked" \in poll[i]
    /\ \/ Known(i) = {} /\ Reply(i, IF Desktop THEN "failed" ELSE "waiting") /\ UNCHANGED <<expiring, faults>>
       \/ Fault /\ Reply(i, IF Desktop THEN "failed" ELSE "waiting") /\ UNCHANGED expiring
       \/ Fault /\ Reply(i, "waiting") /\ UNCHANGED expiring
       \/ \E r \in Known(i) :
            \/ Reply(i, Stage(row[r].st)) /\ UNCHANGED <<expiring, faults>>
            \/ row[r].st = "pending" /\ expiring' = expiring \cup {i} /\ Reply(i, "failed") /\ UNCHANGED faults
    /\ Rest /\ UNCHANGED <<handler, row, callback, reported, dropped, order, phone>>

\* Mutant: a failure overwrites whatever is there (before A495).
MayFailAny(r) == TRUE
MayFail(r) == row[r].st # "completed"
(* POST /callback with a failure, or with less than was asked for.           *)
FailureReported(i) ==
    /\ phone[i] \in {"declined", "short", "late"}
    /\ row' = [r \in Prompts |-> IF r \in Known(i) /\ MayFail(r) THEN [row[r] EXCEPT !.st = "failed"] ELSE row[r]]
    /\ row' # row
    /\ Rest /\ UNCHANGED <<poll, handler, callback, reported, dropped, expiring, order, phone, faults>>
\* Mutant: less than was asked for is taken for the payment.
EnoughShort(i) == phone[i] \in Paid \cup {"short"}
Enough(i) == phone[i] \in Paid
Handling(i, step) == callback' = [callback EXCEPT ![i] = step]
(* POST /callback with the payment, answered 200 first: its row is looked    *)
(* up.  Without one, or when it cannot be read, the payment is dropped; a    *)
(* completed row is left alone.                                              *)
SuccessReported(i) ==
    /\ Enough(i) /\ callback[i] = "none" /\ reported' = reported \cup {i}
    /\ \/ /\ IF Known(i) = {} THEN UNCHANGED faults ELSE Fault
          /\ dropped' = dropped \cup {i} /\ UNCHANGED callback
       \/ /\ Known(i) # {} /\ dropped' = dropped \ {i} /\ UNCHANGED faults
          /\ Handling(i, IF \E r \in Known(i) : row[r].st = "completed" THEN "none" ELSE "settle")
    /\ Rest /\ UNCHANGED <<poll, handler, row, expiring, order, phone>>
\* Mutant: only a row that still waits is completed.
MayCompleteWaiting(r) == row[r].st = "pending"
MayComplete(r) == row[r].st # "completed"
(* The row is completed; a failed write is not noticed.  Then the order of a *)
(* web bill, in either case.                                                 *)
Settle(i) ==
    /\ callback[i] = "settle" /\ Handling(i, IF bill = "order" THEN "finish" ELSE "none")
    /\ \/ /\ IF MayComplete(RowOf(i)) THEN Mark(RowOf(i), "completed") ELSE UNCHANGED row
          /\ UNCHANGED <<dropped, faults>>
       \/ Fault /\ dropped' = dropped \cup {i} /\ UNCHANGED row
    /\ Rest /\ UNCHANGED <<poll, handler, reported, expiring, order, phone>>
Finish(i) ==
    /\ callback[i] = "finish" /\ Handling(i, "none")
    /\ \/ order' = "completed" /\ UNCHANGED faults
       \/ Fault /\ UNCHANGED order
    /\ Rest /\ UNCHANGED <<poll, handler, row, reported, dropped, expiring, phone>>
(* The server dies with the callback in hand, which it has answered.         *)
Die(i) ==
    /\ callback[i] # "none" /\ Fault /\ Handling(i, "none")
    /\ dropped' = IF callback[i] = "settle" THEN dropped \cup {i} ELSE dropped
    /\ Rest /\ UNCHANGED <<poll, handler, row, reported, expiring, order, phone>>
MayExpire(r) == row[r].st = "pending"
(* /status marks the row it found too old, if it still waits.                *)
Expire(i) ==
    /\ i \in expiring /\ expiring' = expiring \ {i}
    /\ row' = [r \in Prompts |-> IF r \in Known(i) /\ MayExpire(r) THEN [row[r] EXCEPT !.st = "failed"] ELSE row[r]]
    /\ Rest /\ UNCHANGED <<poll, handler, callback, reported, dropped, order, phone, faults>>
(* The web bill's order is voided from the order history.                    *)
Void ==
    /\ bill = "order" /\ order = "completed" /\ order' = "voided"
    /\ Rest /\ UNCHANGED <<poll, handler, row, callback, reported, dropped, expiring, phone, faults>>

(* SAFARICOM (external): the customer pays, pays less, does not, or pays     *)
(* after Safaricom timed the prompt out ("late": it reports both).           *)
Customer(i, did) ==
    /\ phone[i] = "shown" /\ phone' = [phone EXCEPT ![i] = did]
    /\ Rest /\ UNCHANGED <<poll, cloud, faults>>

Next ==
    \/ Start \/ GiveUp \/ Reset \/ InitiatePush \/ CountedDown \/ Cancel \/ Void
    \/ \E i \in Prompts :
         \/ HearStart(i) \/ NoAnswer(i) \/ Poll(i) \/ HearPush(i) \/ NoPush(i) \/ PollWeb(i)
         \/ \E st \in {"paid", "failed"} : HearPoll(i, st) \/ HearPollWeb(i, st)
         \/ WriteRow(i) \/ AskSafaricom(i) \/ FailRow(i) \/ SaveCheckout(i) \/ ReadStatus(i)
         \/ FailureReported(i) \/ SuccessReported(i) \/ Settle(i) \/ Finish(i) \/ Die(i) \/ Expire(i)
         \/ \E did \in {"paid", "late", "short", "declined"} : Customer(i, did)
Spec == Init /\ [][Next]_vars

-----------------------------------------------------------------------------
(* The customer paid for the bill in full; by prompt i, whose row says so,   *)
(* unless an order was prompted twice at once.                               *)
PaidBy(i) ==
    /\ \E j \in Prompts : phone[j] \in Paid
    /\ ~again => phone[i] \in Paid /\ \E r \in Known(i) : row[r].st = "completed"
(* The panel shows "Paid" only when the customer paid this bill in full, and *)
(* by the prompt the panel heard that of, whose row says so, whatever was    *)
(* refused, lost, late or sent again; and on the desktop (its run guard)     *)
(* that is the last prompt sent.  On the web it may be an earlier one, which *)
(* the panel had cancelled.                                                  *)
PaidMeansPaid ==
    panel.stage = "paid" => PaidBy(panel.on) /\ (Desktop => panel.on = sent)
(* A payment Safaricom reported is on record once the report was handled,    *)
(* even when the prompt had been given up as too old or the panel closed.    *)
(* The exceptions: the handling found no row, could not read it, could not   *)
(* write it or died (nobody sends the report again: it was answered 200);    *)
(* and a second prompt for the leg of an order that has one out.             *)
PaidIsRecorded ==
    \A i \in reported \ dropped : callback[i] # "settle" /\ ~again =>
        \E r \in Known(i) : row[r].st = "completed"
(* A495: a late or repeated failure, or a poll that found the prompt too     *)
(* old, never undoes a completed payment.                                    *)
PaidStaysPaid ==
    [][\A r \in Prompts : row[r].st = "completed" /\ ~again => row'[r].st = "completed"]_vars

(* False of the code, the trace of each in README.md.                        *)
(* On the web too, Paid is about the last prompt sent.                       *)
PaidIsTheLast == panel.stage = "paid" => panel.on = sent
(* Every report of a payment finds the prompt's row.                         *)
PaidHasItsRow == \A i \in reported : again \/ Known(i) # {}
(* A handled report is on record, whatever fails.                            *)
HandledIsRecorded == \A i \in reported : callback[i] # "settle" => again \/ \E r \in Known(i) : row[r].st = "completed"
(* A voided order stays voided (routes/orders.ts).                           *)
VoidedStaysVoided == [][order = "voided" => order' = "voided"]_vars
(* A completed row stays so, for a second prompt of the leg too.             *)
CompletedStaysCompleted == [][\A r \in Prompts : row[r].st = "completed" => row'[r].st = "completed"]_vars
=============================================================================
