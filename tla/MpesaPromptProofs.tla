-------------------------- MODULE MpesaPromptProofs --------------------------
(* Proofs about MpesaPrompt: for any number of prompts and faults, its types *)
(* are right, what either panel shows is true, a payment Safaricom reported  *)
(* is on record unless its handling failed, and no failure undoes it.        *)
EXTENDS MpesaPrompt, TLAPS

(* Prompts are sent in order, the customer sees one only once Safaricom was  *)
(* asked, and an order's leg is not failed for a prompt that was not sent.   *)
SentInOrder ==
    \A i \in Prompts :
        /\ i > sent => handler[i] = "none"
        /\ handler[i] \in {"none", "row", "ask"} => phone[i] = "none"
        /\ handler[i] = "fail" => bill # "order"
(* A checkout id is on the row of its own prompt, and only once its handler  *)
(* has saved it.                                                             *)
CheckoutsMakeSense ==
    \A r \in Prompts : row[r].checkout # None =>
        RowOf(row[r].checkout) = r /\ handler[row[r].checkout] = "ok"
(* Callbacks are about prompts that were paid, and find their row unless     *)
(* their handling failed.                                                    *)
CallbacksMakeSense ==
    /\ \A i \in Prompts : callback[i] = "settle" => i \in reported \ dropped
    /\ \A i \in reported : phone[i] \in Paid
    /\ \A i \in reported \ dropped : ~again => row[RowOf(i)].checkout = i
(* A completed row was paid, by the prompt whose checkout id it has.         *)
PaidFor(r) ==
    /\ \E i \in Prompts : phone[i] \in Paid
    /\ ~again => row[r].checkout # None /\ phone[row[r].checkout] \in Paid
CompletedWasPaid == \A r \in Prompts : row[r].st = "completed" => PaidFor(r)
(* Of an order's prompts none but the last is out, unless it was prompted    *)
(* twice at once.                                                            *)
OneOut == bill = "order" /\ ~again => \A i \in Prompts : i < sent => ~Out(i)
Rows == [Prompts -> [st: {"none", "pending", "completed", "failed"}, checkout: Prompts \cup {None}]]
(* What is on record, without the panel.                                     *)
Record ==
    /\ TypeOK /\ SentInOrder /\ CheckoutsMakeSense /\ CallbacksMakeSense
    /\ CompletedWasPaid /\ OneOut /\ (again => bill = "order")
(* "Paid" on its way to the panel is as true as what it shows.               *)
AnswersAreTrue == \A i \in Prompts : "paid" \in poll[i] => PaidBy(i)
(* The panel is about a prompt while it has one; the desktop's about the     *)
(* last one sent.                                                            *)
PanelMakesSense ==
    panel.stage \in {"sending", "waiting", "paid"} => panel.on \in Prompts /\ (Desktop => panel.on = sent)
Screen == PaidMeansPaid /\ AnswersAreTrue /\ PanelMakesSense
PromptInv == Record /\ PaidIsRecorded /\ Screen

-----------------------------------------------------------------------------
(* The two facts everything rests on.                                        *)

(* While the checkout id of an order's prompt is being saved, the order's    *)
(* leg holds no checkout id that was paid, unless prompted twice at once.    *)
LEMMA NothingPaidIsOverwritten ==
    ASSUME Record, bill = "order", ~again, NEW j \in Prompts, At(j, "save")
    PROVE  row[1].checkout # None => phone[row[1].checkout] \notin Paid
PROOF
<1> SUFFICES ASSUME row[1].checkout # None, phone[row[1].checkout] \in Paid PROVE FALSE
    OBVIOUS
<1> DEFINE c == row[1].checkout
<1>1. 1 \in Prompts /\ sent \in Nat
    BY BoundsAssumption DEF Prompts, Record, TypeOK
<1>2. c \in Prompts /\ handler[c] = "ok"
    BY <1>1 DEF Record, TypeOK, CheckoutsMakeSense
<1>3. c <= sent /\ j <= sent /\ c # j
    BY <1>1, <1>2 DEF Record, SentInOrder, At, Prompts
<1>4. Out(c) /\ Out(j)
    BY <1>2 DEF Out, At, Paid
<1>5. ~(c < sent) /\ ~(j < sent)
    BY <1>2, <1>4 DEF Record, OneOut
<1> QED BY <1>1, <1>2, <1>3, <1>5 DEF Prompts

(* A prompt with a row of its own whose checkout id is not saved yet has a   *)
(* row without a payment.                                                    *)
LEMMA NotPaidBeforeSaved ==
    ASSUME Record, bill # "order", NEW j \in Prompts, handler[j] # "ok"
    PROVE  row[j].st # "completed" /\ row[j].checkout = None /\ j \notin reported \ dropped
PROOF
<1>1. ~again
    BY DEF Record
<1>2. row[j].checkout = None
    <2> SUFFICES ASSUME row[j].checkout # None PROVE FALSE
        OBVIOUS
    <2>1. row[j].checkout = j
        BY DEF Record, CheckoutsMakeSense, RowOf
    <2> QED BY <2>1 DEF Record, CheckoutsMakeSense
<1>3. j # None
    BY BoundsAssumption DEF Prompts
<1> QED BY <1>1, <1>2, <1>3 DEF Record, CompletedWasPaid, PaidFor, CallbacksMakeSense, RowOf

-----------------------------------------------------------------------------
(* What several kinds of step keep.                                          *)

(* Nothing that was paid and recorded is undone.                             *)
NothingUndone ==
    /\ again => again'
    /\ \A i \in Prompts : phone[i] \in Paid => phone'[i] \in Paid
    /\ ~again' => \A r \in Prompts : row[r].st = "completed" =>
           row'[r].st = "completed" /\ row'[r].checkout = row[r].checkout
LEMMA PaidByStays ==
    ASSUME NothingUndone, NEW i, PaidBy(i), i \in Prompts
    PROVE  PaidBy(i)'
PROOF BY DEF NothingUndone, PaidBy, Known

(* Then an untouched panel is as right as before, whatever answer that is    *)
(* not "paid" comes its way.                                                 *)
LEMMA ScreenStays ==
    ASSUME PromptInv, NothingUndone, UNCHANGED <<bill, panel, sent>>,
           \A i \in Prompts : "paid" \in poll'[i] => "paid" \in poll[i]
    PROVE  Screen'
PROOF
<1> USE DEF PromptInv, Screen
<1>1. PanelMakesSense'
    BY DEF PanelMakesSense, Desktop
<1>2. PaidMeansPaid'
    <2> SUFFICES ASSUME panel'.stage = "paid" PROVE PaidBy(panel.on)' /\ (Desktop => panel.on = sent)'
        BY DEF PaidMeansPaid
    <2>1. panel.on \in Prompts /\ PaidBy(panel.on)
        BY DEF PanelMakesSense, PaidMeansPaid
    <2>2. PaidBy(panel.on)'
        <3> DEFINE i == panel.on
        <3> HIDE DEF i
        <3>1. i \in Prompts /\ PaidBy(i)
            BY <2>1 DEF i
        <3>2. PaidBy(i)'
            BY <3>1 DEF NothingUndone, PaidBy, Known, i
        <3> QED BY <3>2 DEF i, PaidBy, Known
    <2> QED BY <2>2 DEF PaidMeansPaid, Desktop
<1>3. AnswersAreTrue'
    <2> SUFFICES ASSUME NEW i \in Prompts, "paid" \in poll'[i] PROVE PaidBy(i)'
        BY DEF AnswersAreTrue
    <2> QED BY PaidByStays DEF AnswersAreTrue
<1> QED BY <1>1, <1>2, <1>3

(* Steps of the panel leave what is on record as it is.                      *)
LEMMA RecordStays ==
    ASSUME PromptInv, CloudRests, UNCHANGED <<sent, again>>
    PROVE  /\ SentInOrder' /\ CheckoutsMakeSense' /\ CallbacksMakeSense' /\ CompletedWasPaid'
           /\ OneOut' /\ (again => bill = "order")' /\ PaidIsRecorded' /\ NothingUndone
           /\ \A i \in Prompts : PaidBy(i) => PaidBy(i)'
PROOF
<1> USE DEF PromptInv, Record, CloudRests, cloud
<1>1. SentInOrder' /\ CheckoutsMakeSense' /\ CallbacksMakeSense'
    BY DEF SentInOrder, CheckoutsMakeSense, CallbacksMakeSense, RowOf
<1>2. CompletedWasPaid' /\ OneOut' /\ (again => bill = "order")' /\ PaidIsRecorded'
    BY DEF CompletedWasPaid, PaidFor, OneOut, Out, PaidIsRecorded, Known
<1>3. NothingUndone
    BY DEF NothingUndone
<1> QED BY <1>1, <1>2, <1>3, PaidByStays

(* A step of the panel that neither shows "Paid" nor brings it.              *)
LEMMA PanelStepKeeps ==
    ASSUME PromptInv, CloudRests, UNCHANGED <<sent, again>>, TypeOK',
           \A i \in Prompts : "paid" \in poll'[i] => "paid" \in poll[i],
           \/ UNCHANGED panel
           \/ panel'.stage \in {"idle", "failed"}
           \/ panel'.stage = "waiting" /\ panel.stage = "sending" /\ panel'.on = panel.on
    PROVE  PromptInv'
PROOF
<1>1. PaidMeansPaid' /\ PanelMakesSense'
    <2>1. CASE UNCHANGED panel
        BY <2>1, ScreenStays, RecordStays DEF Screen, CloudRests
    <2>2. CASE panel'.stage \in {"idle", "failed"}
        BY <2>2 DEF PaidMeansPaid, PanelMakesSense
    <2>3. CASE panel'.stage = "waiting" /\ panel.stage = "sending" /\ panel'.on = panel.on
        BY <2>3 DEF PaidMeansPaid, PanelMakesSense, PromptInv, Screen, Desktop, CloudRests
    <2> QED BY <2>1, <2>2, <2>3
<1>2. AnswersAreTrue'
    BY RecordStays DEF AnswersAreTrue, PromptInv, Screen
<1> QED BY <1>1, <1>2, RecordStays DEF PromptInv, Record, Screen

(* A row's status changes, undoing no payment and recording none that was    *)
(* not made, or a callback moves on, its row completed or its handling lost. *)
LEMMA RowStatusKeeps ==
    ASSUME PromptInv, Rest, UNCHANGED <<poll, phone, reported>>,
           row' \in Rows,
           \A r \in Prompts :
              /\ row'[r].checkout = row[r].checkout
              /\ row[r].st = "completed" /\ ~again => row'[r].st = "completed"
              /\ row'[r].st = "completed" => row[r].st = "completed" \/ PaidFor(r),
           \A i \in Prompts : handler[i] = "ok" => handler'[i] = "ok",
           dropped \subseteq dropped',
           \A i \in Prompts :
              /\ callback'[i] = "settle" => callback[i] = "settle" /\ i \notin dropped'
              /\ callback[i] = "settle" /\ callback'[i] # "settle" =>
                    row'[RowOf(i)].st = "completed" \/ i \in dropped'
    PROVE  /\ CheckoutsMakeSense' /\ CallbacksMakeSense' /\ CompletedWasPaid'
           /\ PaidIsRecorded' /\ Screen' /\ (again => bill = "order")'
PROOF
<1> USE DEF PromptInv, Record, Rows, Rest, screen
<1>1. CheckoutsMakeSense'
    BY BoundsAssumption DEF CheckoutsMakeSense, TypeOK, RowOf
<1>2. \A i \in reported : i \in Prompts /\ RowOf(i) \in Prompts
    BY BoundsAssumption DEF TypeOK, RowOf, Prompts
<1>3. CallbacksMakeSense'
    <2>1. (\A i \in Prompts : callback[i] = "settle" => i \in reported \ dropped)'
        BY DEF CallbacksMakeSense
    <2>2. (\A i \in reported : phone[i] \in Paid)'
        BY DEF CallbacksMakeSense
    <2>3. (\A i \in reported \ dropped : ~again => row[RowOf(i)].checkout = i)'
        BY <1>2 DEF CallbacksMakeSense, RowOf
    <2> QED BY <2>1, <2>2, <2>3 DEF CallbacksMakeSense
<1>4. CompletedWasPaid'
    BY DEF CompletedWasPaid, PaidFor, TypeOK
<1>5. PaidIsRecorded'
    <2> SUFFICES ASSUME NEW i \in reported \ dropped', callback'[i] # "settle", ~again
                 PROVE  \E r \in Known(i)' : row'[r].st = "completed"
        BY DEF PaidIsRecorded
    <2>1. i \in Prompts /\ RowOf(i) \in Prompts /\ row[RowOf(i)].checkout = i
        BY <1>2 DEF CallbacksMakeSense
    <2>2. CASE callback[i] = "settle"
        BY <2>1, <2>2 DEF Known
    <2>3. CASE callback[i] # "settle"
        BY <2>1, <2>3 DEF Known, PaidIsRecorded
    <2> QED BY <2>2, <2>3
<1>6. NothingUndone
    BY DEF NothingUndone
<1> QED BY <1>1, <1>3, <1>4, <1>5, <1>6, ScreenStays

-----------------------------------------------------------------------------
(* The panel's steps.                                                        *)

(* start() and initiatePush: an order's prompt is out only when none was, or *)
(* again says so.                                                            *)
LEMMA SendKeeps ==
    ASSUME PromptInv, NEW stage \in {"sending", "waiting"}, Send(stage)
    PROVE  PromptInv'
PROOF
<1> USE DEF PromptInv, Record
<1> DEFINE n == sent + 1
<1>1. /\ n \in Prompts /\ sent' = n /\ sent \in Nat /\ handler[n] = "none" /\ handler'[n] = "row"
      /\ handler' \in [Prompts -> {"none", "row", "ask", "save", "fail", "ok", "refused"}]
      /\ \A j \in Prompts \ {n} : handler'[j] = handler[j]
      /\ panel' = [stage |-> stage, on |-> n] /\ posts' = posts \cup {n}
      /\ again' = (again \/ (bill = "order" /\ \E i \in 1..sent : Out(i)))
      /\ UNCHANGED <<bill, polling, ref, poll, row, callback, reported, dropped, expiring, order, phone, faults>>
    BY BoundsAssumption DEF Send, TypeOK, SentInOrder, Prompts
<1>2. TypeOK'
    BY <1>1, BoundsAssumption DEF TypeOK, Prompts
<1>3. SentInOrder'
    BY <1>1 DEF SentInOrder, Prompts
<1>4. CheckoutsMakeSense'
    BY <1>1 DEF CheckoutsMakeSense, RowOf, TypeOK
<1>5. CallbacksMakeSense' /\ CompletedWasPaid' /\ (again => bill = "order")'
    BY <1>1 DEF CallbacksMakeSense, CompletedWasPaid, PaidFor, TypeOK, RowOf
<1>6. OneOut'
    <2> SUFFICES ASSUME bill = "order", ~again', NEW i \in Prompts, i < n PROVE ~Out(i)'
        BY <1>1 DEF OneOut
    <2>1. i \in 1..sent /\ i # n
        BY <1>1 DEF Prompts
    <2>2. ~Out(i)
        BY <1>1, <2>1
    <2> QED BY <1>1, <2>1, <2>2 DEF Out
<1>7. PaidIsRecorded'
    <2> SUFFICES ASSUME NEW j \in reported \ dropped, callback[j] # "settle", ~again'
                 PROVE  \E r \in Prompts : row[r].checkout = j /\ row[r].st = "completed"
        BY <1>1 DEF PaidIsRecorded, Known
    <2>1. ~again
        BY <1>1
    <2> QED BY <2>1 DEF PaidIsRecorded, Known
<1>8. NothingUndone
    BY <1>1 DEF NothingUndone
<1>9. Screen'
    <2>1. PaidMeansPaid' /\ PanelMakesSense'
        BY <1>1 DEF PaidMeansPaid, PanelMakesSense
    <2>2. AnswersAreTrue'
        BY <1>1, <1>8, PaidByStays DEF AnswersAreTrue, Screen
    <2> QED BY <2>1, <2>2 DEF Screen
<1> QED BY <1>2, <1>3, <1>4, <1>5, <1>6, <1>7, <1>9

(* The desktop hears of its POST, or does not.                               *)
LEMMA StartHeardKeeps ==
    ASSUME PromptInv, NEW i \in Prompts, HearStart(i) \/ NoAnswer(i)
    PROVE  PromptInv'
PROOF
<1> USE DEF PromptInv, Record
<1>1. /\ CloudRests /\ UNCHANGED <<sent, again, poll, polling, ref>>
      /\ posts' \subseteq Prompts /\ faults' \in 0..MaxFaults
    BY BoundsAssumption DEF HearStart, NoAnswer, Answered, Lost, Fault, TypeOK
<1>2. \/ UNCHANGED panel
      \/ panel' = Off("failed")
      \/ panel.stage = "sending" /\ panel' = [panel EXCEPT !.stage = "waiting"]
    BY DEF HearStart, NoAnswer, Runs
<1>3. TypeOK'
    BY <1>1, <1>2 DEF TypeOK, Off, CloudRests, cloud
<1>4. \/ UNCHANGED panel
      \/ panel'.stage \in {"idle", "failed"}
      \/ panel'.stage = "waiting" /\ panel.stage = "sending" /\ panel'.on = panel.on
    BY <1>2 DEF Off, TypeOK
<1> QED BY <1>1, <1>3, <1>4, PanelStepKeeps

(* The web panel does, whatever it shows.                                    *)
LEMMA PushHeardKeeps ==
    ASSUME PromptInv, NEW i \in Prompts, HearPush(i) \/ NoPush(i)
    PROVE  PromptInv'
PROOF
<1> USE DEF PromptInv, Record
<1>1. /\ CloudRests /\ UNCHANGED <<sent, again, poll>> /\ polling' \subseteq Prompts
      /\ posts' \subseteq Prompts /\ ref' \in Prompts \cup {None} /\ faults' \in 0..MaxFaults
    BY BoundsAssumption DEF HearPush, NoPush, Answered, Lost, Fault, TypeOK
<1>2. UNCHANGED panel \/ panel' = Off("failed")
    BY DEF HearPush, NoPush
<1>3. TypeOK'
    BY <1>1, <1>2 DEF TypeOK, Off, CloudRests, cloud
<1> QED BY <1>1, <1>2, <1>3, PanelStepKeeps DEF Off

(* Either asks what became of a prompt.                                      *)
LEMMA PollKeeps ==
    ASSUME PromptInv, NEW i \in Prompts, Poll(i) \/ PollWeb(i)
    PROVE  PromptInv'
PROOF
<1> USE DEF PromptInv, Record
<1>1. CloudRests /\ UNCHANGED <<panel, sent, posts, polling, ref, again, faults>>
    BY DEF Poll, PollWeb, screen
<1>2. /\ poll' \in [Prompts -> SUBSET {"asked", "paid", "failed"}]
      /\ \A j \in Prompts : "paid" \in poll'[j] => "paid" \in poll[j]
    BY DEF Poll, PollWeb, TypeOK
<1>3. TypeOK'
    BY <1>1, <1>2 DEF TypeOK, CloudRests, cloud
<1> QED BY <1>1, <1>2, <1>3, PanelStepKeeps

(* Either hears it: "paid" is true when it comes, whatever it is shown for.  *)
LEMMA PollHeardKeeps ==
    ASSUME PromptInv, NEW i \in Prompts, NEW st \in {"paid", "failed"}, HearPoll(i, st) \/ HearPollWeb(i, st)
    PROVE  PromptInv'
PROOF
<1> USE DEF PromptInv, Record
<1>1. /\ CloudRests /\ UNCHANGED <<sent, posts, ref, again, faults>>
      /\ polling' \subseteq Prompts /\ st \in poll[i]
    BY DEF HearPoll, HearPollWeb, Cleanup, TypeOK
<1>2. /\ poll' \in [Prompts -> SUBSET {"asked", "paid", "failed"}]
      /\ \A j \in Prompts : "paid" \in poll'[j] => "paid" \in poll[j]
    BY DEF HearPoll, HearPollWeb, TypeOK
<1>3. \/ UNCHANGED panel
      \/ panel' = Off("failed")
      \/ st = "paid" /\ panel' = [stage |-> "paid", on |-> i] /\ (Desktop => panel = [stage |-> "waiting", on |-> i])
    BY DEF HearPoll, HearPollWeb, Runs, TypeOK, Off
<1>4. TypeOK'
    BY <1>1, <1>2, <1>3 DEF TypeOK, Off, CloudRests, cloud
<1>5. CASE UNCHANGED panel \/ panel' = Off("failed")
    BY <1>1, <1>2, <1>4, <1>5, PanelStepKeeps DEF Off
<1>6. CASE st = "paid" /\ panel' = [stage |-> "paid", on |-> i] /\ (Desktop => panel = [stage |-> "waiting", on |-> i])
    <2>1. PaidBy(i)' /\ (Desktop => i = sent)'
        BY <1>1, <1>6, RecordStays DEF AnswersAreTrue, Screen, PanelMakesSense, Desktop, CloudRests
    <2>2. PaidMeansPaid' /\ PanelMakesSense'
        <3>1. panel'.on = i /\ panel'.stage = "paid"
            BY <1>6
        <3>2. (PaidBy(panel.on) /\ (Desktop => panel.on = sent))'
            BY <2>1, <3>1 DEF PaidBy, Known
        <3> QED BY <3>1, <3>2 DEF PaidMeansPaid, PanelMakesSense
    <2>3. AnswersAreTrue'
        BY <1>1, <1>2, RecordStays DEF AnswersAreTrue, Screen
    <2> QED BY <1>1, <1>4, <2>2, <2>3, RecordStays DEF Screen
<1> QED BY <1>3, <1>5, <1>6

(* The panel waits no longer, or is closed.                                  *)
LEMMA PanelEndsKeeps ==
    ASSUME PromptInv, GiveUp \/ Reset \/ CountedDown \/ Cancel
    PROVE  PromptInv'
PROOF
<1> USE DEF PromptInv, Record
<1>1. /\ CloudRests /\ UNCHANGED <<sent, posts, ref, poll, again, faults>> /\ polling' \subseteq Prompts
      /\ panel' = Off("failed") \/ panel' = Off("idle")
    BY DEF GiveUp, Reset, CountedDown, Cancel, Cleanup, TypeOK
<1>2. TypeOK'
    BY <1>1 DEF TypeOK, Off, CloudRests, cloud
<1> QED BY <1>1, <1>2, PanelStepKeeps DEF Off

-----------------------------------------------------------------------------
(* The cloud's steps.                                                        *)

(* A prompt's row is written, or failed, before it has a payment.            *)
LEMMA RowStepKeeps ==
    ASSUME PromptInv, NEW i \in Prompts, WriteRow(i) \/ FailRow(i)
    PROVE  PromptInv'
PROOF
<1> USE DEF PromptInv, Record
<1>1. /\ handler' \in [Prompts -> {"none", "row", "ask", "save", "fail", "ok", "refused"}]
      /\ \A j \in Prompts \ {i} : handler'[j] = handler[j]
      /\ handler[i] \in {"row", "fail"} /\ handler'[i] \in {"ask", "refused"}
      /\ handler'[i] = "ask" => handler[i] = "row"
      /\ Rest /\ UNCHANGED <<poll, phone, callback, reported, dropped, expiring, order>>
      /\ faults' \in 0..MaxFaults
    BY BoundsAssumption DEF WriteRow, FailRow, At, Go, Fault, TypeOK
<1>2. /\ row' \in Rows
      /\ \A r \in Prompts :
            /\ row'[r].checkout = row[r].checkout
            /\ row[r].st = "completed" => row'[r].st = "completed"
            /\ row'[r].st = "completed" => row[r].st = "completed"
    <2>1. CASE UNCHANGED row
        BY <2>1 DEF TypeOK, Rows
    <2>2. CASE bill # "order" /\ (row' = [row EXCEPT ![i].st = "pending"] \/ row' = [row EXCEPT ![i].st = "failed"])
        <3>1. row[i].st # "completed"
            BY <1>1, <2>2, NotPaidBeforeSaved
        <3> QED BY <2>2, <3>1 DEF TypeOK, Rows
    <2>3. handler[i] = "fail" => bill # "order"
        BY DEF SentInOrder
    <2> QED BY <2>1, <2>2, <2>3 DEF WriteRow, FailRow, At, Mark
<1>3. TypeOK'
    BY <1>1, <1>2 DEF TypeOK, Rows, Rest, screen
<1>4. SentInOrder' /\ OneOut'
    BY <1>1 DEF SentInOrder, OneOut, Out, TypeOK, Prompts, Rest, screen
<1>5. \A j \in Prompts :
        /\ callback'[j] = "settle" => callback[j] = "settle" /\ j \notin dropped'
        /\ callback[j] = "settle" /\ callback'[j] # "settle" =>
              row'[RowOf(j)].st = "completed" \/ j \in dropped'
    BY <1>1 DEF CallbacksMakeSense
<1>6. \A j \in Prompts : handler[j] = "ok" => handler'[j] = "ok"
    BY <1>1
<1> QED BY <1>1, <1>2, <1>3, <1>4, <1>5, <1>6, RowStatusKeeps

(* Safaricom is asked: nobody has paid yet.                                  *)
LEMMA AskSafaricomKeeps ==
    ASSUME PromptInv, NEW i \in Prompts, AskSafaricom(i)
    PROVE  PromptInv'
PROOF
<1> USE DEF PromptInv, Record
<1>1. /\ handler' \in [Prompts -> {"none", "row", "ask", "save", "fail", "ok", "refused"}]
      /\ \A j \in Prompts \ {i} : handler'[j] = handler[j]
      /\ handler[i] = "ask" /\ handler'[i] \in {"save", "fail", "refused"}
      /\ handler'[i] = "fail" => bill # "order"
      /\ Rest /\ UNCHANGED <<poll, row, callback, reported, dropped, expiring, order>>
    BY DEF AskSafaricom, At, Go, TypeOK
<1>2. /\ phone[i] = "none"
      /\ phone' \in [Prompts -> {"none", "shown", "paid", "late", "short", "declined"}]
      /\ \A j \in Prompts \ {i} : phone'[j] = phone[j]
      /\ phone'[i] \in {"none", "shown"} /\ faults' \in 0..MaxFaults
    <2>1. phone[i] = "none"
        BY <1>1 DEF SentInOrder
    <2> QED BY <2>1, BoundsAssumption DEF AskSafaricom, Fault, TypeOK
<1>3. TypeOK'
    BY <1>1, <1>2 DEF TypeOK, Rest, screen
<1>4. SentInOrder' /\ OneOut'
    BY <1>1, <1>2 DEF SentInOrder, OneOut, Out, TypeOK, Prompts, Rest, screen
<1>5. \A j \in Prompts : phone'[j] \in Paid <=> phone[j] \in Paid
    BY <1>2 DEF Paid
<1>6. CheckoutsMakeSense'
    BY <1>1 DEF CheckoutsMakeSense, RowOf, TypeOK, Rest
<1>7. CallbacksMakeSense'
    <2>1. reported \subseteq Prompts
        BY DEF TypeOK
    <2> QED BY <1>1, <1>5, <2>1 DEF CallbacksMakeSense, RowOf, Rest, screen
<1>8. CompletedWasPaid' /\ PaidIsRecorded'
    BY <1>1, <1>5 DEF CompletedWasPaid, PaidFor, PaidIsRecorded, Known, TypeOK, Rest, screen
<1>9. NothingUndone
    BY <1>1, <1>5 DEF NothingUndone, Rest, screen
<1>10. Screen'
    BY <1>1, <1>9, ScreenStays DEF Rest, screen
<1> QED BY <1>1, <1>3, <1>4, <1>6, <1>7, <1>8, <1>10 DEF Rest, screen

(* The checkout id is saved over nothing that was paid.                      *)
LEMMA SaveCheckoutKeeps ==
    ASSUME PromptInv, NEW i \in Prompts, SaveCheckout(i)
    PROVE  PromptInv'
PROOF
<1> USE DEF PromptInv, Record
<1> DEFINE w == RowOf(i)
<1>1. /\ handler' \in [Prompts -> {"none", "row", "ask", "save", "fail", "ok", "refused"}]
      /\ \A j \in Prompts \ {i} : handler'[j] = handler[j]
      /\ handler[i] = "save" /\ handler'[i] = "ok"
      /\ UNCHANGED <<bill, panel, sent, posts, polling, ref, again>>
      /\ UNCHANGED <<poll, phone, callback, reported, dropped, expiring, order>>
      /\ faults' \in 0..MaxFaults /\ w \in Prompts /\ i # None
    BY BoundsAssumption DEF SaveCheckout, At, Go, Rest, screen, TypeOK, Fault, RowOf, Prompts
<1>2. /\ row' \in Rows
      /\ \A r \in Prompts \ {w} : row'[r] = row[r]
      /\ \/ row'[w] = row[w]
         \/ row'[w].checkout = i /\ row'[w].st \in {row[w].st, "pending"}
    <2>1. CASE UNCHANGED row
        BY <2>1 DEF TypeOK, Rows
    <2>2. CASE row' = [row EXCEPT ![w] = [checkout |-> i, st |-> IF bill = "order" THEN "pending" ELSE row[i].st]]
        <3>1. row[i].st \in {"none", "pending", "completed", "failed"} /\ (bill # "order" => w = i)
            BY <1>1 DEF TypeOK, RowOf
        <3> QED BY <1>1, <2>2, <3>1 DEF TypeOK, Rows
    <2> QED BY <2>1, <2>2 DEF SaveCheckout
<1>3. ~again => row[w].checkout = None \/ phone[row[w].checkout] \notin Paid
    <2>1. CASE bill # "order"
        BY <1>1, <2>1, NotPaidBeforeSaved DEF RowOf
    <2>2. CASE bill = "order"
        BY <1>1, <2>2, NothingPaidIsOverwritten DEF RowOf, At
    <2> QED BY <2>1, <2>2
<1>4. ~again => row[w].st # "completed"
    BY <1>1, <1>3 DEF CompletedWasPaid, PaidFor
<1>5. \A j \in reported \ dropped : ~again => RowOf(j) \in Prompts /\ RowOf(j) # w
    <2> SUFFICES ASSUME NEW j \in reported \ dropped, ~again, RowOf(j) = w PROVE FALSE
        BY BoundsAssumption DEF TypeOK, RowOf, Prompts
    <2>1. row[w].checkout = j /\ phone[j] \in Paid /\ j \in Prompts
        BY DEF CallbacksMakeSense, TypeOK
    <2>2. j # None
        BY <2>1, BoundsAssumption DEF Prompts
    <2> QED BY <2>1, <2>2, <1>3
<1>6. TypeOK'
    BY <1>1, <1>2 DEF TypeOK, Rows
<1>7. SentInOrder' /\ OneOut'
    BY <1>1 DEF SentInOrder, OneOut, Out, TypeOK, Prompts
<1>8. CheckoutsMakeSense'
    BY <1>1, <1>2 DEF CheckoutsMakeSense, RowOf, TypeOK
<1>9. CallbacksMakeSense'
    BY <1>1, <1>2, <1>5 DEF CallbacksMakeSense, RowOf
<1>10. \A r \in Prompts : row'[r].st = "completed" =>
          row[r].st = "completed" /\ (~again => row'[r] = row[r])
    BY <1>1, <1>2, <1>4
<1>11. CompletedWasPaid'
    BY <1>1, <1>10 DEF CompletedWasPaid, PaidFor
<1>12. NothingUndone
    BY <1>1, <1>2, <1>4 DEF NothingUndone
<1>13. PaidIsRecorded'
    <2>1. \A j \in reported : j \in Prompts
        BY DEF TypeOK
    <2>2. \A j \in Prompts : (\E r \in Known(j) : row[r].st = "completed") /\ ~again
              => \E r \in Known(j)' : row'[r].st = "completed"
        BY <1>1, <1>12 DEF Known, NothingUndone
    <2> QED BY <2>1, <2>2, <1>1 DEF PaidIsRecorded
<1>14. Screen'
    BY <1>1, <1>12, ScreenStays
<1> QED BY <1>1, <1>6, <1>7, <1>8, <1>9, <1>11, <1>13, <1>14

(* A failure, or a prompt too old, undoes no payment.                        *)
LEMMA FailureKeeps ==
    ASSUME PromptInv, NEW i \in Prompts, FailureReported(i) \/ Expire(i)
    PROVE  PromptInv'
PROOF
<1> USE DEF PromptInv, Record
<1>1. /\ Rest /\ UNCHANGED <<poll, handler, phone, callback, reported, dropped, order, faults>>
      /\ expiring' \subseteq Prompts
    BY DEF FailureReported, Expire, TypeOK
<1>2. row' \in Rows
    BY DEF FailureReported, Expire, TypeOK, Rows
<1>3. \A r \in Prompts :
        /\ row'[r].checkout = row[r].checkout
        /\ row[r].st = "completed" => row'[r].st = "completed"
        /\ row'[r].st = "completed" => row[r].st = "completed"
    BY DEF FailureReported, Expire, MayFail, MayExpire, TypeOK
<1>4. \A j \in Prompts :
        /\ callback'[j] = "settle" => callback[j] = "settle" /\ j \notin dropped'
        /\ callback[j] = "settle" /\ callback'[j] # "settle" =>
              row'[RowOf(j)].st = "completed" \/ j \in dropped'
    BY <1>1 DEF CallbacksMakeSense
<1>5. TypeOK'
    BY <1>1, <1>2 DEF TypeOK, Rows, Rest, screen
<1>6. SentInOrder' /\ OneOut'
    BY <1>1 DEF SentInOrder, OneOut, Out, Rest, screen
<1> QED BY <1>1, <1>2, <1>3, <1>4, <1>5, <1>6, RowStatusKeeps

(* /status says "paid" of a row that is completed.                           *)
LEMMA ReadStatusKeeps ==
    ASSUME PromptInv, NEW i \in Prompts, ReadStatus(i)
    PROVE  PromptInv'
PROOF
<1> USE DEF PromptInv, Record
<1>1. /\ UNCHANGED <<bill, panel, sent, posts, polling, ref, again>>
      /\ UNCHANGED <<handler, row, phone, callback, reported, dropped, order>>
      /\ expiring' \subseteq Prompts /\ faults' \in 0..MaxFaults
    BY BoundsAssumption DEF ReadStatus, Rest, screen, Fault, TypeOK
<1>2. PICK st \in {"paid", "failed", "waiting"} :
        /\ Reply(i, st)
        /\ st = "paid" => \E r \in Known(i) : row[r].st = "completed"
    <2>1. \A r \in Known(i) : Stage(row[r].st) \in {"paid", "failed", "waiting"}
                              /\ (Stage(row[r].st) = "paid" => row[r].st = "completed")
        BY DEF Known, Stage, TypeOK
    <2> QED BY <2>1 DEF ReadStatus
<1>3. /\ poll' \in [Prompts -> SUBSET {"asked", "paid", "failed"}]
      /\ \A j \in Prompts : "paid" \in poll'[j] => "paid" \in poll[j] \/ (j = i /\ st = "paid")
    BY <1>2 DEF Reply, TypeOK
<1>4. TypeOK'
    BY <1>1, <1>3 DEF TypeOK
<1>5. /\ SentInOrder' /\ CheckoutsMakeSense' /\ CallbacksMakeSense' /\ CompletedWasPaid'
      /\ OneOut' /\ PaidIsRecorded' /\ NothingUndone
    BY <1>1 DEF SentInOrder, CheckoutsMakeSense, CallbacksMakeSense, CompletedWasPaid, PaidFor,
                OneOut, Out, PaidIsRecorded, Known, RowOf, NothingUndone
<1>6. st = "paid" => PaidBy(i)
    <2> SUFFICES ASSUME st = "paid" PROVE PaidBy(i)
        OBVIOUS
    <2>1. PICK r \in Known(i) : row[r].st = "completed"
        BY <1>2
    <2> QED BY <2>1 DEF PaidBy, CompletedWasPaid, PaidFor, Known
<1>7. Screen'
    <2>1. PaidMeansPaid' /\ PanelMakesSense'
        BY <1>1 DEF Screen, PaidMeansPaid, PanelMakesSense, PaidBy, Known, Desktop
    <2>2. AnswersAreTrue'
        BY <1>3, <1>5, <1>6, PaidByStays DEF Screen, AnswersAreTrue
    <2> QED BY <2>1, <2>2 DEF Screen
<1> QED BY <1>1, <1>4, <1>5, <1>7

(* A payment is reported: its row is found, or the payment is dropped.       *)
LEMMA SuccessReportedKeeps ==
    ASSUME PromptInv, NEW i \in Prompts, SuccessReported(i)
    PROVE  PromptInv'
PROOF
<1> USE DEF PromptInv, Record
<1>1. /\ UNCHANGED <<bill, panel, sent, posts, polling, ref, again>>
      /\ UNCHANGED <<poll, handler, row, phone, expiring, order>>
      /\ reported' = reported \cup {i} /\ dropped' \subseteq Prompts
      /\ \A j \in Prompts \ {i} : callback'[j] = callback[j] /\ (j \in dropped' <=> j \in dropped)
      /\ callback' \in [Prompts -> {"none", "settle", "finish"}]
      /\ faults' \in 0..MaxFaults /\ phone[i] \in Paid /\ callback[i] = "none"
    BY BoundsAssumption DEF SuccessReported, Rest, screen, Enough, Handling, Fault, TypeOK
<1>2. TypeOK' /\ SentInOrder' /\ CheckoutsMakeSense' /\ CompletedWasPaid' /\ OneOut' /\ NothingUndone
    <2>1. TypeOK'
        BY <1>1 DEF TypeOK
    <2>2. SentInOrder' /\ CheckoutsMakeSense' /\ CompletedWasPaid'
        BY <1>1 DEF SentInOrder, CheckoutsMakeSense, CompletedWasPaid, PaidFor, RowOf
    <2>3. OneOut' /\ NothingUndone
        BY <1>1 DEF OneOut, Out, NothingUndone
    <2> QED BY <2>1, <2>2, <2>3
<1>3. \/ i \in dropped' /\ callback'[i] = "none"
      \/ /\ i \notin dropped' /\ Known(i) # {}
         /\ callback'[i] # "settle" => \E r \in Known(i) : row[r].st = "completed"
    BY <1>1 DEF SuccessReported, Handling, TypeOK
<1>4. i \notin dropped' => row[RowOf(i)].checkout = i
    <2>1. i # None
        BY BoundsAssumption DEF Prompts
    <2> QED BY <1>3, <2>1 DEF Known, CheckoutsMakeSense
<1>5. CallbacksMakeSense'
    <2>1. reported \subseteq Prompts
        BY DEF TypeOK
    <2>2. (\A j \in Prompts : callback[j] = "settle" => j \in reported \ dropped)'
        BY <1>1, <1>3 DEF CallbacksMakeSense
    <2>3. (\A j \in reported : phone[j] \in Paid)'
        BY <1>1 DEF CallbacksMakeSense
    <2>4. (\A j \in reported \ dropped : ~again => row[RowOf(j)].checkout = j)'
        BY <1>1, <1>4, <2>1 DEF CallbacksMakeSense, RowOf
    <2> QED BY <2>2, <2>3, <2>4 DEF CallbacksMakeSense
<1>6. PaidIsRecorded'
    <2>1. reported \subseteq Prompts
        BY DEF TypeOK
    <2> SUFFICES ASSUME NEW j \in reported' \ dropped', callback'[j] # "settle", ~again
                 PROVE  \E r \in Known(j) : row[r].st = "completed"
        BY <1>1 DEF PaidIsRecorded, Known
    <2>2. CASE j = i
        BY <1>3, <2>2
    <2>3. CASE j # i
        BY <1>1, <2>1, <2>3 DEF PaidIsRecorded
    <2> QED BY <2>2, <2>3
<1>7. Screen'
    BY <1>1, <1>2, ScreenStays
<1> QED BY <1>1, <1>2, <1>5, <1>6, <1>7

(* The row found is completed, or the payment is dropped.                    *)
LEMMA CallbackStepKeeps ==
    ASSUME PromptInv, NEW i \in Prompts, Settle(i) \/ Finish(i) \/ Die(i)
    PROVE  PromptInv'
PROOF
<1> USE DEF PromptInv, Record
<1> DEFINE w == RowOf(i)
<1>1. /\ callback' \in [Prompts -> {"none", "settle", "finish"}]
      /\ \A j \in Prompts \ {i} : callback'[j] = callback[j] /\ (j \in dropped' <=> j \in dropped)
      /\ callback'[i] # "settle" /\ dropped \subseteq dropped' /\ dropped' \subseteq Prompts
      /\ Rest /\ UNCHANGED <<poll, handler, phone, reported, expiring>>
      /\ order' \in {"completed", "voided"} /\ faults' \in 0..MaxFaults /\ w \in Prompts
    <2>1. PICK step \in {"none", "finish"} : callback' = [callback EXCEPT ![i] = step]
        BY DEF Settle, Finish, Die, Handling
    <2>2. dropped' \in {dropped, dropped \cup {i}}
        BY DEF Settle, Finish, Die
    <2>3. /\ Rest /\ UNCHANGED <<poll, handler, phone, reported, expiring>>
          /\ order' \in {"completed", "voided"} /\ faults' \in 0..MaxFaults /\ w \in Prompts
        BY BoundsAssumption DEF Settle, Finish, Die, Fault, TypeOK, RowOf, Prompts
    <2> QED BY <2>1, <2>2, <2>3 DEF TypeOK
<1>2. \/ UNCHANGED row /\ (callback[i] = "settle" => i \in dropped')
      \/ callback[i] = "settle" /\ row'[w].st = "completed"
         /\ (UNCHANGED row \/ row' = [row EXCEPT ![w].st = "completed"])
    BY <1>1 DEF Settle, Finish, Die, MayComplete, Mark, TypeOK
<1>3. callback[i] = "settle" => PaidFor(w)
    <2>1. i # None
        BY BoundsAssumption DEF Prompts
    <2> QED BY <2>1 DEF PaidFor, CallbacksMakeSense
<1>4. /\ row' \in Rows
      /\ \A r \in Prompts :
            /\ row'[r].checkout = row[r].checkout
            /\ row[r].st = "completed" => row'[r].st = "completed"
            /\ row'[r].st = "completed" => row[r].st = "completed" \/ PaidFor(r)
    <2>1. CASE UNCHANGED row
        BY <2>1 DEF TypeOK, Rows
    <2>2. CASE callback[i] = "settle" /\ row' = [row EXCEPT ![w].st = "completed"]
        BY <1>1, <1>3, <2>2 DEF TypeOK, Rows
    <2> QED BY <1>2, <2>1, <2>2
<1>5. \A j \in Prompts :
        /\ callback'[j] = "settle" => callback[j] = "settle" /\ j \notin dropped'
        /\ callback[j] = "settle" /\ callback'[j] # "settle" =>
              row'[RowOf(j)].st = "completed" \/ j \in dropped'
    BY <1>1, <1>2 DEF CallbacksMakeSense
<1>6. TypeOK'
    BY <1>1, <1>4 DEF TypeOK, Rows, Rest, screen
<1>7. SentInOrder' /\ OneOut'
    BY <1>1 DEF SentInOrder, OneOut, Out, Rest, screen
<1> QED BY <1>1, <1>4, <1>5, <1>6, <1>7, RowStatusKeeps

(* The customer answers the prompt, which was out; the order is voided.      *)
LEMMA OutsideKeeps ==
    ASSUME PromptInv,
           Void \/ \E i \in Prompts, did \in {"paid", "late", "short", "declined"} : Customer(i, did)
    PROVE  PromptInv'
PROOF
<1> USE DEF PromptInv, Record
<1>1. /\ UNCHANGED <<bill, panel, sent, posts, polling, ref, again>>
      /\ UNCHANGED <<poll, handler, row, callback, reported, dropped, expiring, faults>>
      /\ order' \in {"completed", "voided"}
    BY DEF Void, Customer, Rest, screen, cloud, TypeOK
<1>2. /\ phone' \in [Prompts -> {"none", "shown", "paid", "late", "short", "declined"}]
      /\ \A j \in Prompts : phone'[j] = phone[j] \/ (phone[j] = "shown" /\ phone'[j] # "none")
    BY DEF Void, Customer, TypeOK
<1>3. \A j \in Prompts : phone[j] \in Paid => phone'[j] \in Paid
    BY <1>2 DEF Paid
<1>4. TypeOK'
    BY <1>1, <1>2 DEF TypeOK
<1>5. SentInOrder' /\ OneOut'
    BY <1>1, <1>2 DEF SentInOrder, OneOut, Out
<1>6. CheckoutsMakeSense' /\ PaidIsRecorded'
    BY <1>1 DEF CheckoutsMakeSense, RowOf, PaidIsRecorded, Known
<1>7. CallbacksMakeSense'
    <2>1. reported \subseteq Prompts
        BY DEF TypeOK
    <2> QED BY <1>1, <1>3, <2>1 DEF CallbacksMakeSense, RowOf
<1>8. CompletedWasPaid'
    <2> SUFFICES ASSUME NEW r \in Prompts, row[r].st = "completed" PROVE PaidFor(r)'
        BY <1>1 DEF CompletedWasPaid
    <2>1. PaidFor(r) /\ row[r].checkout \in Prompts \cup {None}
        BY DEF CompletedWasPaid, TypeOK
    <2> QED BY <2>1, <1>1, <1>3 DEF PaidFor
<1>9. NothingUndone
    BY <1>1, <1>3 DEF NothingUndone
<1>10. Screen'
    BY <1>1, <1>9, ScreenStays
<1> QED BY <1>1, <1>4, <1>5, <1>6, <1>7, <1>8, <1>10

(* The first state.                                                          *)
LEMMA InitKeeps == Init => PromptInv
PROOF
<1> SUFFICES ASSUME Init PROVE PromptInv
    OBVIOUS
<1> USE DEF Init
<1>1. TypeOK
    <2>1. 0 \in 0..MaxPrompts /\ 0 \in 0..MaxFaults
        BY BoundsAssumption
    <2>2. row \in Rows
        <3>1. NoRow \in [st: {"none", "pending", "completed", "failed"}, checkout: Prompts \cup {None}]
            BY DEF NoRow
        <3>2. [NoRow EXCEPT !.st = "pending"]
                 \in [st: {"none", "pending", "completed", "failed"}, checkout: Prompts \cup {None}]
            BY DEF NoRow
        <3> QED BY <3>1, <3>2 DEF Rows
    <2> QED BY <2>1, <2>2 DEF TypeOK, Rows, Off
<1>2. \A r \in Prompts : row[r].checkout = None /\ row[r].st # "completed"
    BY DEF NoRow
<1>3. SentInOrder /\ CheckoutsMakeSense /\ CallbacksMakeSense /\ CompletedWasPaid /\ OneOut
    BY <1>2 DEF SentInOrder, CheckoutsMakeSense, CallbacksMakeSense, CompletedWasPaid, OneOut, Prompts
<1>4. PaidIsRecorded /\ Screen
    BY DEF PaidIsRecorded, Screen, PaidMeansPaid, AnswersAreTrue, PanelMakesSense, Off
<1> QED BY <1>1, <1>3, <1>4 DEF PromptInv, Record

(* A step that changes nothing.                                              *)
LEMMA StutterKeeps == PromptInv /\ UNCHANGED vars => PromptInv'
PROOF
<1> SUFFICES ASSUME PromptInv, UNCHANGED vars PROVE PromptInv'
    OBVIOUS
<1>1. CloudRests /\ UNCHANGED <<sent, again, panel, poll>>
    BY DEF CloudRests, vars, screen
<1>2. TypeOK'
    BY DEF PromptInv, Record, TypeOK, vars, screen, cloud
<1> QED BY <1>1, <1>2, PanelStepKeeps

-----------------------------------------------------------------------------
(* The invariant holds throughout, for any number of prompts and faults.     *)
THEOREM PromptInvariant == Spec => []PromptInv
PROOF
<1>1. PromptInv /\ [Next]_vars => PromptInv'
    <2> SUFFICES ASSUME PromptInv, Next PROVE PromptInv'
        BY StutterKeeps
    <2>1. CASE Start \/ InitiatePush
        BY <2>1, SendKeeps DEF Start, InitiatePush
    <2>2. CASE GiveUp \/ Reset \/ CountedDown \/ Cancel \/ Void
        BY <2>2, PanelEndsKeeps, OutsideKeeps
    <2>3. ASSUME NEW i \in Prompts,
                 \/ HearStart(i) \/ NoAnswer(i) \/ Poll(i) \/ HearPush(i) \/ NoPush(i) \/ PollWeb(i)
                 \/ \E st \in {"paid", "failed"} : HearPoll(i, st) \/ HearPollWeb(i, st)
          PROVE  PromptInv'
        BY <2>3, StartHeardKeeps, PushHeardKeeps, PollKeeps, PollHeardKeeps
    <2>4. ASSUME NEW i \in Prompts,
                 WriteRow(i) \/ AskSafaricom(i) \/ FailRow(i) \/ SaveCheckout(i) \/ ReadStatus(i)
          PROVE  PromptInv'
        BY <2>4, RowStepKeeps, AskSafaricomKeeps, SaveCheckoutKeeps, ReadStatusKeeps
    <2>5. ASSUME NEW i \in Prompts,
                 FailureReported(i) \/ SuccessReported(i) \/ Settle(i) \/ Finish(i) \/ Die(i) \/ Expire(i)
          PROVE  PromptInv'
        BY <2>5, FailureKeeps, SuccessReportedKeeps, CallbackStepKeeps
    <2>6. ASSUME NEW i \in Prompts, NEW did \in {"paid", "late", "short", "declined"}, Customer(i, did)
          PROVE  PromptInv'
        BY <2>6, OutsideKeeps
    <2> QED BY <2>1, <2>2, <2>3, <2>4, <2>5, <2>6 DEF Next
<1> QED BY InitKeeps, <1>1, PTL DEF Spec

(* The types of the prompt's rows, phones, polls, callbacks and panel are    *)
(* right.                                                                    *)
THEOREM PromptTypeCorrect == Spec => []TypeOK
PROOF
<1>1. PromptInv => TypeOK
    BY DEF PromptInv, Record
<1> QED BY <1>1, PromptInvariant, PTL

(* Neither panel ever shows "Paid" for what the customer did not pay in full *)
(* (HearPoll with its run guard, HearPollWeb without one, polls and POSTs    *)
(* answered late, lost or by an earlier prompt, late and short payments).    *)
THEOREM PanelTellsTheTruth == Spec => []PaidMeansPaid
PROOF
<1>1. PromptInv => PaidMeansPaid
    BY DEF PromptInv, Screen
<1> QED BY <1>1, PromptInvariant, PTL

(* A payment whose callback was handled is on record, whatever gave the      *)
(* prompt up meanwhile, unless the handling's own read or write failed, it   *)
(* found no row or died (SuccessReported, Settle, Die).                      *)
THEOREM PaymentsAreRecorded == Spec => []PaidIsRecorded
PROOF
<1>1. PromptInv => PaidIsRecorded
    BY DEF PromptInv
<1> QED BY <1>1, PromptInvariant, PTL

(* A495 for every number of prompts: no failure, expiry or later prompt of   *)
(* the same bill undoes a completed payment, while one prompt is out at a    *)
(* time.                                                                     *)
THEOREM PaidIsForGood == Spec => PaidStaysPaid
PROOF
<1>1. ASSUME PromptInv, [Next]_vars
      PROVE  [\A r \in Prompts : row[r].st = "completed" /\ ~again => row'[r].st = "completed"]_vars
    <2> SUFFICES ASSUME Next, NEW r \in Prompts, row[r].st = "completed", ~again
                 PROVE  row'[r].st = "completed"
        BY <1>1
    <2> USE <1>1 DEF PromptInv, Record
    <2>1. CASE UNCHANGED row
        BY <2>1
    <2>2. ASSUME NEW i \in Prompts, WriteRow(i) \/ FailRow(i) PROVE row'[r].st = "completed"
        <3>1. handler[i] \in {"row", "fail"} /\ (handler[i] = "fail" => bill # "order")
            BY <2>2 DEF WriteRow, FailRow, At, SentInOrder
        <3>2. bill # "order" => i # r
            BY <3>1, NotPaidBeforeSaved
        <3> QED BY <2>2, <3>1, <3>2 DEF WriteRow, FailRow, At, Mark, TypeOK
    <2>3. ASSUME NEW i \in Prompts, SaveCheckout(i), row' # row PROVE row'[r].st = "completed"
        <3>1. row[r].checkout # None /\ phone[row[r].checkout] \in Paid
            BY DEF CompletedWasPaid, PaidFor
        <3>2. RowOf(i) # r
            BY <2>3, <3>1, NotPaidBeforeSaved, NothingPaidIsOverwritten DEF SaveCheckout, At, RowOf
        <3> QED BY <2>3, <3>2 DEF SaveCheckout, TypeOK
    <2>4. ASSUME NEW i \in Prompts, FailureReported(i) \/ Expire(i) PROVE row'[r].st = "completed"
        BY <2>4 DEF FailureReported, Expire, MayFail, MayExpire
    <2>5. ASSUME NEW i \in Prompts, Settle(i) PROVE row'[r].st = "completed"
        BY <2>5 DEF Settle, Mark, TypeOK
    <2>6. ASSUME NEW i \in Prompts,
                 \/ HearStart(i) \/ NoAnswer(i) \/ Poll(i) \/ HearPush(i) \/ NoPush(i) \/ PollWeb(i)
                 \/ \E st \in {"paid", "failed"} : HearPoll(i, st) \/ HearPollWeb(i, st)
          PROVE  UNCHANGED row
        BY <2>6 DEF HearStart, NoAnswer, Poll, HearPush, NoPush, PollWeb, HearPoll, HearPollWeb, CloudRests, cloud
    <2>7. ASSUME NEW i \in Prompts,
                 \/ AskSafaricom(i) \/ ReadStatus(i) \/ SuccessReported(i) \/ Finish(i) \/ Die(i)
                 \/ \E did \in {"paid", "late", "short", "declined"} : Customer(i, did)
          PROVE  UNCHANGED row
        BY <2>7 DEF AskSafaricom, ReadStatus, SuccessReported, Finish, Die, Customer, cloud
    <2>8. Start \/ GiveUp \/ Reset \/ InitiatePush \/ CountedDown \/ Cancel \/ Void => UNCHANGED row
        BY DEF Start, InitiatePush, Send, GiveUp, Reset, CountedDown, Cancel, Void, CloudRests, cloud
    <2> QED BY <2>1, <2>2, <2>3, <2>4, <2>5, <2>6, <2>7, <2>8 DEF Next
<1> QED BY <1>1, PromptInvariant, PTL DEF Spec, PaidStaysPaid
=============================================================================
